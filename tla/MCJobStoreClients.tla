-------------------------- MODULE MCJobStoreClients --------------------------
(***************************************************************************)
(* JobStoreClients on a small instance, with interchangeable clients.      *)
(***************************************************************************)
EXTENDS JobStoreClients, TLC

Symmetry == Permutations(Client)
=============================================================================
