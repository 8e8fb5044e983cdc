------------------------------ MODULE MCTraffic ------------------------------
(***************************************************************************)
(* Traffic on small instances.  A behaviour is one of two scenarios:       *)
(*                                                                         *)
(*   "ticketing"    cameras at miles 0, 10 and 100 of one road with limit  *)
(*                  1.  10 miles are too fast within ten hours, 100 miles  *)
(*                  within four days, so tickets span one to three days    *)
(*                  and some pairs are not speeding.                       *)
(*   "dispatching"  cameras on one of two roads, close enough for every    *)
(*                  pair of reports to be speeding, two plates, and        *)
(*                  dispatchers for any of the roads.                      *)
(***************************************************************************)
EXTENDS Traffic, TLC

CONSTANT CameraRoad

VARIABLE scenario

Cameras == [road : {CameraRoad}, mile : {0, 10, 100}, limit : {1}]

TicketingTimes == {0, 86400, 90000, 172800}

DispatchingTimes == {0, 3600}

MCTimes == TicketingTimes \cup DispatchingTimes

(* What the clients of each scenario announce and report. *)
Ticketing ==
  /\ \A c \in DOMAIN dispatchers' : dispatchers'[c] \subseteq {CameraRoad}
  /\ \A i \in 1..Len(seen') : seen'[i].time \in TicketingTimes
  /\ Cardinality({seen'[i].plate : i \in 1..Len(seen')}) <= 1

Dispatching ==
  /\ \A c \in DOMAIN cameras' : cameras'[c].mile \in {0, 10}
  /\ \A i \in 1..Len(seen') : seen'[i].time \in DispatchingTimes

MCInit == Init /\ scenario \in {"ticketing", "dispatching"}

MCSpec ==
  /\ MCInit
  /\ [][/\ Next
        /\ IF scenario = "ticketing" THEN Ticketing ELSE Dispatching
        /\ UNCHANGED scenario]_<<trafficVars, scenario>>

Symmetry == Permutations(Client) \cup Permutations(Plate)
=============================================================================
