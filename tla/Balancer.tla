------------------------------ MODULE Balancer ------------------------------
(***************************************************************************)
(* Balancer[T] of traffic/balancer.go as operators on its two fields: a    *)
(* list of items without duplicates and the place of the next one.  Len is *)
(* Len(b.set); Index, ResetIndex and Reset are used by tests only.         *)
(***************************************************************************)
EXTENDS Naturals, Sequences

NewBalancer == [set |-> <<>>, index |-> 0]

Members(b) == {b.set[k] : k \in 1..Len(b.set)}

(* The positions of an item: none or one. *)
Places(b, item) == {k \in 1..Len(b.set) : b.set[k] = item}

Add(b, item) ==
  IF Places(b, item) # {} THEN b ELSE [b EXCEPT !.set = Append(@, item)]

(* append(set[:i], set[i+1:]...), for an item that is there. *)
CutOut(b, item) ==
  LET i == CHOOSE k \in Places(b, item) : TRUE
  IN SubSeq(b.set, 1, i - 1) \o SubSeq(b.set, i + 1, Len(b.set))

(* Mutant: the index is kept. *)
RemoveKeepIndex(b, item) ==
  IF Places(b, item) = {} THEN b
  ELSE [b EXCEPT !.set = CutOut(b, item)]

(* `index' counts from 0, and after a removal it is reset whenever it is at  *)
(* most the new length, which is always.                                     *)
Remove(b, item) ==
  IF Places(b, item) = {} THEN b
  ELSE LET left == CutOut(b, item)
       IN [set |-> left, index |-> IF Len(left) >= b.index THEN 0 ELSE b.index]

(* Get, when there is an item: the item, and the balancer it leaves. *)
GetItem(b) == b.set[b.index + 1]

(* Mutant: the index does not move. *)
NotTurned(b) == b

Turned(b) == [b EXCEPT !.index = (@ + 1) % Len(b.set)]
=============================================================================
