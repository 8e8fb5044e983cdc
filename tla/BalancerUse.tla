----------------------------- MODULE BalancerUse -----------------------------
(***************************************************************************)
(* Any sequence of Add, Remove and Get on one Balancer.  The history `owed'*)
(* notes, for each item, which items had not had their turn yet since that *)
(* item last had its own; it starts afresh when an item is removed.        *)
(***************************************************************************)
EXTENDS Balancer

CONSTANTS Item

VARIABLES
  balancer,  \* the Balancer
  owed       \* item -> those that were in the set at its last turn, still without one

balancerVars == <<balancer, owed>>

NoneOwed == [x \in Item |-> {}]

BalancerInit == balancer = NewBalancer /\ owed = NoneOwed

AddItem(x) == balancer' = Add(balancer, x) /\ UNCHANGED owed

RemoveItem(x) ==
  /\ balancer' = Remove(balancer, x)
  /\ owed' = IF x \in Members(balancer) THEN NoneOwed ELSE owed

Get ==
  /\ balancer.set # <<>>
  /\ balancer' = Turned(balancer)
  /\ LET x == GetItem(balancer)
     IN owed' = [y \in Item |-> IF y = x THEN Members(balancer) \ {x} ELSE owed[y] \ {x}]

BalancerNext == Get \/ \E x \in Item : AddItem(x) \/ RemoveItem(x)

BalancerSpec == BalancerInit /\ [][BalancerNext]_balancerVars
-----------------------------------------------------------------------------
(* Get never reads outside the list (it would panic, line 44 of balancer.go), *)
(* whatever was added and removed before, and an item is listed once.         *)
IndexInRange ==
  /\ \A j, k \in 1..Len(balancer.set) : balancer.set[j] = balancer.set[k] => j = k
  /\ balancer.index \in 0..Len(balancer.set) /\ (balancer.set # <<>> => balancer.index < Len(balancer.set))

(* Until an item is removed, nobody has a second turn before everyone who was *)
(* there at the first has had one.                                            *)
FairBetweenRemovals ==
  [][Get => owed[GetItem(balancer)] = {}]_balancerVars
=============================================================================
