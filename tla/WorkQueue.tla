----------------------------- MODULE WorkQueue -----------------------------
(***************************************************************************)
(* What the job centre promises its workers, with no lists, no owners      *)
(* field and no duplicates: every submitted item is at each moment in one  *)
(* place.  It is available, or it is held by one worker, or it has been    *)
(* removed for good.  An item leaves its holder only because the holder    *)
(* returns it, because the holder quits, or because somebody removes it.   *)
(*                                                                         *)
(* JobStore.tla (the goroutine JobCentreServer.internal) implements this   *)
(* specification; the mapping is JobStore!WQ.                              *)
(***************************************************************************)
EXTENDS Naturals

CONSTANTS Worker,      \* the clients of the job centre
          Queue,       \* queue names
          Priority,    \* job priorities
          Available,   \* the place of an item nobody holds
          Removed,     \* the place of an item that was deleted
          Nobody       \* no worker is quitting

VARIABLES members,     \* the workers that may hold items
          quitting,    \* the worker whose items are being given back, or Nobody
          next,        \* the number of the next item
          item         \* item number -> [queue, priority, place]

wqVars == <<members, quitting, next, item>>

Item == [queue    : Queue,
         priority : Priority,
         place    : Worker \cup {Available, Removed}]

Init ==
  /\ members = {}
  /\ quitting = Nobody
  /\ next = 1
  /\ item = [i \in {} |-> Available]

Move(i, where) == item' = [item EXCEPT ![i].place = where]

Join(w) ==
  /\ w \notin members
  /\ members' = members \cup {w}
  /\ UNCHANGED <<quitting, next, item>>

(* Items are numbered in the order of submission; a number is never reused. *)
Submit(q, p) ==
  /\ next' = next + 1
  /\ item' = [i \in 1..next |->
                IF i = next
                THEN [queue |-> q, priority |-> p, place |-> Available]
                ELSE item[i]]
  /\ UNCHANGED <<members, quitting>>

(* A worker is given an item that nobody holds, and no item of the same     *)
(* queue that is available has a higher priority.                           *)
Take(w, i) ==
  /\ w \in members
  /\ item[i].place = Available
  /\ \A k \in DOMAIN item :
       item[k].place = Available /\ item[k].queue = item[i].queue
         => item[k].priority <= item[i].priority
  /\ Move(i, w)
  /\ UNCHANGED <<members, quitting, next>>

Return(w, i) ==
  /\ item[i].place = w
  /\ Move(i, Available)
  /\ UNCHANGED <<members, quitting, next>>

Quit(w) ==
  /\ quitting = Nobody
  /\ w \in members
  /\ quitting' = w
  /\ UNCHANGED <<members, next, item>>

(* The only way from one worker directly to another: the holder is quitting. *)
PassOn(w, v, i) ==
  /\ quitting = w
  /\ v \in members \ {w}
  /\ item[i].place = w
  /\ Move(i, v)
  /\ UNCHANGED <<members, quitting, next>>

(* A worker is gone only when it holds nothing. *)
Leave(w) ==
  /\ quitting = w
  /\ \A i \in DOMAIN item : item[i].place # w
  /\ members' = members \ {w}
  /\ quitting' = Nobody
  /\ UNCHANGED <<next, item>>

Remove(i) ==
  /\ item[i].place # Removed
  /\ Move(i, Removed)
  /\ UNCHANGED <<members, quitting, next>>

Next ==
  \/ \E w \in Worker : Join(w) \/ Quit(w) \/ Leave(w)
  \/ \E q \in Queue, p \in Priority : Submit(q, p)
  \/ \E i \in DOMAIN item :
       \/ Remove(i)
       \/ \E w \in Worker :
            Take(w, i) \/ Return(w, i) \/ (\E v \in Worker : PassOn(w, v, i))

Spec == Init /\ [][Next]_wqVars
=============================================================================
