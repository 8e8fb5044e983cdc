------------------------------- MODULE Picking -------------------------------
(***************************************************************************)
(* The elements of a sequence at some of its positions, in their order.    *)
(* Refinement mappings take a channel apart with it, into the streams of   *)
(* the senders that share it.                                              *)
(***************************************************************************)
EXTENDS Naturals, FiniteSets

(* How many numbers of P are below p. *)
Rank(P, p) == Cardinality({q \in P : q < p})

(* The k-th smallest number of P. *)
Nth(P, k) == CHOOSE p \in P : Rank(P, p) = k - 1

Picked(s, P) == [k \in 1..Cardinality(P) |-> s[Nth(P, k)]]
=============================================================================
