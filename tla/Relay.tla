------------------------------- MODULE Relay -------------------------------
(***************************************************************************)
(* What the proxy promises: each side's lines reach the other side once,   *)
(* in their order, with every wallet replaced, as long as both sides are   *)
(* there.  Once a side has ended, lines on their way to it may be lost,    *)
(* and the relay may close, which drops the lines on their way.            *)
(***************************************************************************)
EXTENDS Sequences

CONSTANTS Side, Line, Wallet, Bogus,
          Other(_)    \* the side opposite

VARIABLES
  passing,    \* side -> lines it has sent that have not arrived
  delivered,  \* side -> lines of that side that arrived at the other
  ended,      \* the sides that send no more
  closed

relayVars == <<passing, delivered, ended, closed>>

Init ==
  /\ passing = [s \in Side |-> <<>>]
  /\ delivered = [s \in Side |-> <<>>]
  /\ ended = {}
  /\ closed = FALSE

Clean(l) == [i \in DOMAIN l |-> IF l[i] \in Wallet THEN Bogus ELSE l[i]]

Send(s, l) ==
  /\ s \notin ended /\ ~closed
  /\ passing' = [passing EXCEPT ![s] = Append(@, l)]
  /\ UNCHANGED <<delivered, ended, closed>>

Arrive(s) ==
  /\ passing[s] # <<>>
  /\ passing' = [passing EXCEPT ![s] = Tail(@)]
  /\ \/ delivered' = [delivered EXCEPT ![s] = Append(@, Clean(Head(passing[s])))]
     \/ Other(s) \in ended /\ UNCHANGED delivered
  /\ UNCHANGED <<ended, closed>>

End(s) ==
  /\ ended' = ended \cup {s}
  /\ UNCHANGED <<passing, delivered, closed>>

Close ==
  /\ ended # {}
  /\ closed' = TRUE
  /\ passing' = [s \in Side |-> <<>>]
  /\ UNCHANGED <<delivered, ended>>

Next ==
  \/ \E s \in Side : Arrive(s) \/ End(s) \/ \E l \in Line : Send(s, l)
  \/ Close

Spec == Init /\ [][Next]_relayVars
=============================================================================
