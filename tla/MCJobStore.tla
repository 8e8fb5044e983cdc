----------------------------- MODULE MCJobStore -----------------------------
(***************************************************************************)
(* JobStore and JobCentre on small instances, for safety.  A behaviour is  *)
(* one of these parts:                                                     *)
(*   "store"    the messages of JobStore in any order, from three clients  *)
(*   "centre"   the handlers of two of the clients, a channel in which     *)
(*              messages of both lie between each other, and the goroutine *)
(* Clients are interchangeable, so they are symmetric model values.        *)
(***************************************************************************)
EXTENDS JobCentre, TLC

VARIABLE part

(* Bounds of the part "store": those of JobStore leave room for the lines of  *)
(* the part "centre".                                                        *)
StoreJobs == 2
StoreWaiters == 2
StoreCopies == 2

(* Bound of the part "centre". *)
Accepted == 2

MCInit == CentreInit /\ part \in {"store", "centre"}

StoreBound ==
  /\ jobNextId' <= StoreJobs + 1
  /\ Len(waiters') <= StoreWaiters
  /\ {j \in JobId : Idle /\ job'[j].copies > Max({StoreCopies, job[j].copies})} = {}

StoreStep ==
  /\ part = "store"
  /\ Next
  /\ StoreBound
  /\ UNCHANGED <<handlerVars, messages, lifeVars>>

(* The requests of the part "centre": of one priority, about the first job.  *)
Lines ==
  [kind : {"put"}, queue : Queue, priority : {0}]
    \cup [kind : {"get"}, queues : {Queue}, wait : BOOLEAN]
    \cup [kind : {"abort", "delete"}, id : {1}]

CentreBound ==
  /\ Cardinality({c \in Client : at'[c] # "none"}) <= Accepted
  /\ stopping' = "no"
  /\ {c \in Client : /\ at'[c] = "send"
                     /\ ~pending'[c].garbled
                     /\ pending'[c].body \notin Lines} = {}

CentreStep ==
  /\ part = "centre"
  /\ CentreNext
  /\ CentreBound

MCSpec == MCInit /\ [][(StoreStep \/ CentreStep) /\ UNCHANGED part]_<<centreVars, part>>

Symmetry == Permutations(Client)
=============================================================================
