-------------------------------- MODULE Parts --------------------------------
(***************************************************************************)
(* The sequential parts of the servers, each on its own: the list the      *)
(* traffic server takes its dispatchers from, a stream of its packets, and *)
(* one connection of the two servers whose connections share nothing       *)
(* (main.go:36-45).  The program runs one of them.                         *)
(***************************************************************************)
EXTENDS BalancerUse, Wire, PrimeTime, Means

VARIABLE part

partsVars == <<part, balancerVars, wireVars, primeVars, meansVars>>

PartsInit ==
  /\ part \in {"balancer", "wire", "prime-time", "means"}
  /\ BalancerInit /\ WireInit /\ PrimeInit /\ MeansInit

PartsNext ==
  /\ \/ part = "balancer" /\ BalancerNext /\ UNCHANGED <<wireVars, primeVars, meansVars>>
     \/ part = "wire" /\ WireNext /\ UNCHANGED <<balancerVars, primeVars, meansVars>>
     \/ part = "prime-time" /\ PrimeNext /\ UNCHANGED <<balancerVars, wireVars, meansVars>>
     \/ part = "means" /\ MeansNext /\ UNCHANGED <<balancerVars, wireVars, primeVars>>
  /\ UNCHANGED part

PartsSpec == PartsInit /\ [][PartsNext]_partsVars
=============================================================================
