------------------------------ MODULE KeyValue ------------------------------
(***************************************************************************)
(* What the database promises: one map, and sessions whose requests are    *)
(* applied in the order the session made them, each at one moment between  *)
(* its arrival and its answer.  A read is answered with what the map holds *)
(* at that moment; the reserved key always has the same value.             *)
(***************************************************************************)
EXTENDS Naturals, Sequences

CONSTANTS Session, Key, Value,
          Empty,     \* the value of a key that was not written
          Nothing,   \* no value: there is nothing to answer
          Reserved,  \* a key that cannot be written
          Fixed      \* its value

VARIABLES
  store,    \* key -> value
  pending,  \* session -> its requests that have not been applied
  answer    \* session -> the value it is owed, or Nothing

keyValueVars == <<store, pending, answer>>

Erased == [k \in Key |-> Empty]

Operation ==
  [op : {"write"}, key : Key, value : Value]
    \cup [op : {"read"}, key : Key] \cup [op : {"delete"}]

Init ==
  /\ store = Erased
  /\ pending = [s \in Session |-> <<>>]
  /\ answer = [s \in Session |-> Nothing]

Accept(s, o) ==
  /\ answer[s] = Nothing
  /\ \A i \in 1..Len(pending[s]) : pending[s][i].op # "read"
  /\ pending' = [pending EXCEPT ![s] = Append(@, o)]
  /\ UNCHANGED <<store, answer>>

Apply(s) ==
  /\ pending[s] # <<>>
  /\ pending' = [pending EXCEPT ![s] = Tail(@)]
  /\ LET o == Head(pending[s]) IN
       \/ /\ o.op = "write"
          /\ store' = [store EXCEPT ![o.key] = o.value]
          /\ UNCHANGED answer
       \/ o.op = "delete" /\ store' = Erased /\ UNCHANGED answer
       \/ /\ o.op = "read"
          /\ answer' = [answer EXCEPT ![s] = store[o.key]]
          /\ UNCHANGED store

ReadReserved(s) ==
  /\ answer[s] = Nothing
  /\ answer' = [answer EXCEPT ![s] = Fixed]
  /\ UNCHANGED <<store, pending>>

Answer(s) ==
  /\ answer[s] # Nothing
  /\ answer' = [answer EXCEPT ![s] = Nothing]
  /\ UNCHANGED <<store, pending>>

Next ==
  \E s \in Session :
    \/ \E o \in Operation : Accept(s, o)
    \/ Apply(s) \/ ReadReserved(s) \/ Answer(s)

Spec == Init /\ [][Next]_keyValueVars
=============================================================================
