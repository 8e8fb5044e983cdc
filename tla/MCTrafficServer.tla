-------------------------- MODULE MCTrafficServer --------------------------
(***************************************************************************)
(* TrafficServer with two clients, one of which may not read.              *)
(***************************************************************************)
EXTENDS TrafficServer
=============================================================================
