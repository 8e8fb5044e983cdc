----------------------------- MODULE MCJobCentre -----------------------------
(***************************************************************************)
(* JobCentre on a small instance, for liveness: the queue without a name   *)
(* is the only one, and the channel holds one message, so that handlers    *)
(* wait for each other.                                                    *)
(***************************************************************************)
EXTENDS JobCentre
=============================================================================
