----------------------------- MODULE PartsProofs -----------------------------
(***************************************************************************)
(* Theorems about sequential parts: any use of the traffic server's list   *)
(* of dispatchers; a connection of the prime time server and of the means  *)
(* server at any width of their integers; and the packets of the traffic   *)
(* server over any stream.                                                 *)
(*                                                                         *)
(* The last part goes from bytes to fields, from fields to packets, and    *)
(* from packets to the stream.  WireInv is inductive: the stream begins    *)
(* with what was sent, the reader stands between two packets, and only     *)
(* strings that are cut have stopped it.                                   *)
(***************************************************************************)
EXTENDS BalancerUse, PrimeTime, Means, Wire, DataLemmas

(* Get never panics and no item is listed twice, for every set of items and   *)
(* any sequence of calls (balancer.go:14-47).                                 *)
THEOREM IndexAlwaysInRange == BalancerSpec => []IndexInRange
<1>1. BalancerInit => Sound(balancer, Item)
  BY NewBalancerSound DEF BalancerInit
<1>2. Sound(balancer, Item) /\ [BalancerNext]_balancerVars => Sound(balancer, Item)'
  <2> SUFFICES ASSUME Sound(balancer, Item), [BalancerNext]_balancerVars PROVE Sound(balancer', Item)
    BY DEF Sound
  <2>1. ASSUME NEW x \in Item, AddItem(x)
        PROVE  Sound(balancer', Item)
    BY <2>1, AddSound DEF AddItem
  <2>2. ASSUME NEW x \in Item, RemoveItem(x)
        PROVE  Sound(balancer', Item)
    BY <2>2, RemoveSound DEF RemoveItem
  <2>3. CASE Get
    BY <2>3, TurnedSound DEF Get
  <2>4. CASE UNCHANGED balancerVars
    BY <2>4 DEF balancerVars
  <2> QED
    BY <2>1, <2>2, <2>3, <2>4 DEF BalancerNext
<1>3. Sound(balancer, Item) => IndexInRange
  BY DEF Sound, IndexInRange
<1> QED
  BY <1>1, <1>2, <1>3, PTL DEF BalancerSpec

(* The positions whose items may still be without a turn since the item at    *)
(* position p had its last one: from the next one on, around the end, up to p.*)
Since(p) ==
  {k \in 1..Len(balancer.set) :
     IF p > balancer.index THEN balancer.index < k /\ k < p
                           ELSE balancer.index < k \/ k < p}

ItemsSince(p) == {balancer.set[k] : k \in Since(p)}

TurnInv ==
  /\ Sound(balancer, Item)
  /\ owed \in [Item -> SUBSET Item]
  /\ \A y \in Item \ Members(balancer) : owed[y] = {}
  /\ \A p \in 1..Len(balancer.set) : owed[balancer.set[p]] \subseteq ItemsSince(p)

LEMMA AddTurn ==
  ASSUME TurnInv, NEW x \in Item, AddItem(x)
  PROVE  TurnInv'
<1> DEFINE l == Len(balancer.set)
<1>1. /\ Sound(balancer', Item) /\ Members(balancer)' = Members(balancer) \cup {x}
      /\ balancer.set \in Seq(Item) /\ l \in Nat /\ balancer.index \in Nat
      /\ balancer \in [set : Seq(Item), index : Nat] /\ owed' = owed
  <2>1. Sound(balancer, Item) /\ balancer' = Add(balancer, x) /\ owed' = owed
    BY DEF AddItem, TurnInv
  <2>2. Sound(balancer', Item) /\ Members(balancer') = Members(balancer) \cup {x}
    BY <2>1, AddSound
  <2>3. Members(balancer)' = Members(balancer')
    BY DEF Members
  <2>4. /\ balancer.set \in Seq(Item) /\ l \in Nat /\ balancer.index \in Nat
        /\ balancer \in [set : Seq(Item), index : Nat]
    BY <2>1 DEF Sound
  <2> QED
    BY <2>1, <2>2, <2>3, <2>4
<1>2. CASE Places(balancer, x) # {}
  <2>1. balancer' = balancer
    BY <1>2 DEF AddItem, Add
  <2> QED
    BY <1>1, <2>1 DEF TurnInv, ItemsSince, Since, Members, Sound
<1>3. CASE Places(balancer, x) = {}
  <2>1. balancer'.set = Append(balancer.set, x) /\ balancer'.index = balancer.index
    BY <1>1, <1>3 DEF AddItem, Add
  <2>2. /\ Len(balancer'.set) = l + 1 /\ balancer'.set[l + 1] = x
        /\ \A k \in 1..l : balancer'.set[k] = balancer.set[k]
    BY <1>1, <2>1
  <2>3. x \notin Members(balancer)
    BY <1>3 DEF Members, Places
  <2> HIDE DEF l
  <2>4. ASSUME NEW p \in 1..(l + 1)
        PROVE  owed'[balancer'.set[p]] \subseteq ItemsSince(p)'
    <3>1. CASE p = l + 1
      BY <1>1, <2>2, <2>3, <3>1 DEF TurnInv
    <3>2. CASE p \in 1..l
      <4>1. Since(p) \subseteq Since(p)' /\ Since(p) \subseteq 1..l
        BY <1>1, <2>1, <2>2, <3>2 DEF Since, l
      <4>2. ItemsSince(p) \subseteq ItemsSince(p)'
        BY <2>2, <4>1 DEF ItemsSince
      <4>3. owed[balancer.set[p]] \subseteq ItemsSince(p)
        BY <3>2 DEF TurnInv, l
      <4> QED
        BY <1>1, <2>2, <3>2, <4>2, <4>3
    <3> QED
      BY <1>1, <3>1, <3>2
  <2> QED
    BY <1>1, <2>2, <2>4 DEF TurnInv
<1> QED
  BY <1>2, <1>3

LEMMA RemoveTurn ==
  ASSUME TurnInv, NEW x \in Item, RemoveItem(x)
  PROVE  TurnInv'
<1>1. Sound(balancer', Item)
  BY RemoveSound DEF RemoveItem, TurnInv
<1>2. CASE x \notin Members(balancer)
  <2>1. balancer' = balancer /\ owed' = owed
    BY <1>2 DEF RemoveItem, Remove, Places, Members
  <2> QED
    BY <1>1, <2>1 DEF TurnInv, ItemsSince, Since, Members, Sound
<1>3. CASE x \in Members(balancer)
  <2>1. owed' = NoneOwed
    BY <1>3 DEF RemoveItem
  <2>2. \A p \in 1..Len(balancer'.set) : balancer'.set[p] \in Item
    BY <1>1 DEF Sound
  <2> QED
    BY <1>1, <2>1, <2>2 DEF TurnInv, NoneOwed
<1> QED
  BY <1>2, <1>3

LEMMA GetTurn ==
  ASSUME TurnInv, Get
  PROVE  TurnInv' /\ owed[GetItem(balancer)] = {}
<1> DEFINE l == Len(balancer.set)
           i == balancer.index
           j == (i + 1) % l
           x == GetItem(balancer)
<1>1. /\ Sound(balancer, Item) /\ balancer.set # <<>>
      /\ balancer.set \in Seq(Item) /\ l \in Nat \ {0} /\ i \in Nat /\ i < l
      /\ balancer \in [set : Seq(Item), index : Nat]
  BY DEF Get, TurnInv, Sound
<1>2. /\ Sound(balancer', Item) /\ Members(balancer)' = Members(balancer)
      /\ balancer'.set = balancer.set /\ x \in Members(balancer) /\ Members(balancer) \subseteq Item
  BY <1>1, TurnedSound DEF Get, Members
<1>3. x = balancer.set[i + 1] /\ i + 1 \in 1..l
  BY <1>1 DEF GetItem
<1>4. balancer'.index = j
  BY <1>1 DEF Get, Turned
<1> HIDE DEF l, i
<1>5. \/ i + 1 < l /\ j = i + 1
      \/ i + 1 = l /\ j = 0
  BY <1>1
<1>6. owed' = [y \in Item |-> IF y = x THEN Members(balancer) \ {x} ELSE owed[y] \ {x}]
  BY DEF Get
<1> HIDE DEF x, j
<1>7. \A p \in 1..l : owed[balancer.set[p]] \subseteq ItemsSince(p)
  BY DEF TurnInv, l
<1>8. owed[x] = {}
  <2>1. Since(i + 1) = {}
    BY <1>1 DEF Since, l, i
  <2> QED
    BY <1>3, <1>7, <2>1 DEF ItemsSince
<1>9. \A p \in 1..l : balancer.set[p] = x => p = i + 1
  BY <1>1, <1>3 DEF Sound, l
<1>10. ASSUME NEW p \in 1..l
       PROVE  owed'[balancer.set[p]] \subseteq ItemsSince(p)'
  <2>1. balancer.set[p] \in Item
    BY <1>1 DEF l
  <2>2. CASE p = i + 1
    <3>1. (1..l) \ {i + 1} \subseteq Since(p)'
      BY <1>1, <1>2, <1>4, <1>5, <2>2 DEF Since, l
    <3>2. Members(balancer) \ {x} \subseteq {balancer.set[k] : k \in (1..l) \ {i + 1}}
      BY <1>3 DEF Members, l
    <3>3. owed'[balancer.set[p]] = Members(balancer) \ {x}
      BY <1>3, <1>6, <2>1, <2>2
    <3> QED
      BY <1>2, <3>1, <3>2, <3>3 DEF ItemsSince
  <2>3. CASE p # i + 1
    <3>1. Since(p) \ {i + 1} \subseteq Since(p)'
      BY <1>1, <1>2, <1>3, <1>4, <1>5, <2>3 DEF Since, l, i
    <3>2. owed'[balancer.set[p]] = owed[balancer.set[p]] \ {x}
      BY <1>6, <1>9, <2>1, <2>3
    <3>3. ItemsSince(p) \ {x} \subseteq {balancer.set[k] : k \in Since(p) \ {i + 1}}
      BY <1>3 DEF ItemsSince
    <3> QED
      BY <1>2, <1>7, <3>1, <3>2, <3>3 DEF ItemsSince
  <2> QED
    BY <2>2, <2>3
<1>11. owed' \in [Item -> SUBSET Item]
  BY <1>2, <1>6 DEF TurnInv
<1>12. \A y \in Item \ Members(balancer)' : owed'[y] = {}
  BY <1>2, <1>6 DEF TurnInv
<1> QED
  BY <1>2, <1>8, <1>10, <1>11, <1>12 DEF TurnInv, x, l

(* Until somebody is removed, everyone has a turn before anyone has a second, *)
(* for any items and any calls of Add and Get in between (balancer.go:36-47). *)
THEOREM TurnsAlwaysTaken == BalancerSpec => FairBetweenRemovals
<1>1. BalancerInit => TurnInv
  BY NewBalancerSound DEF BalancerInit, TurnInv, NoneOwed, NewBalancer
<1>2. TurnInv /\ [BalancerNext]_balancerVars => TurnInv'
  <2> SUFFICES ASSUME TurnInv, [BalancerNext]_balancerVars
               PROVE  TurnInv'
    OBVIOUS
  <2>1. CASE UNCHANGED balancerVars
    BY <2>1 DEF balancerVars, TurnInv, ItemsSince, Since, Members, Sound
  <2> QED
    BY <2>1, AddTurn, RemoveTurn, GetTurn DEF BalancerNext
<1>3. TurnInv /\ [BalancerNext]_balancerVars
        => [Get => owed[GetItem(balancer)] = {}]_balancerVars
  BY GetTurn
<1> QED
  BY <1>1, <1>2, <1>3, PTL DEF BalancerSpec, FairBetweenRemovals
-----------------------------------------------------------------------------
(* A test that meets a divisor up to the root refuses: no square wraps around *)
(* before it.                                                                 *)
LEMMA SmallMod ==
  ASSUME NEW a \in Nat, NEW b \in Nat, a < b
  PROVE  a % b = a
OBVIOUS

LEMMA NoWrap ==
  ASSUME NEW n \in 0..MaxInt
  PROVE  Wrapped(n) = n
<1>1. MaxInt \in Nat
  BY PrimeTimeAssumption
<1>2. n - MinInt = n + MaxInt + 1 /\ n + MaxInt + 1 \in Nat /\ n + MaxInt + 1 < 2 * (MaxInt + 1)
  BY <1>1 DEF MinInt
<1>3. (n + MaxInt + 1) % (2 * (MaxInt + 1)) = n + MaxInt + 1
  BY <1>1, <1>2, SmallMod
<1> QED
  BY <1>1, <1>2, <1>3 DEF Wrapped, MinInt

LEMMA Squares ==
  ASSUME NEW j \in Nat, NEW k \in Nat, j <= k
  PROVE  j * j <= j * k /\ j * k <= k * k /\ j * j \in Nat /\ k * k \in Nat /\ (k > 0 => k <= k * k)
OBVIOUS

LEMMA DivisorUpToRoot ==
  ASSUME NEW n \in Nat, NEW d \in 2..(n - 1), n % d = 0
  PROVE  \E k \in 2..n : k * k <= n /\ n % k = 0
<1> DEFINE e == n \div d
<1>1. n = d * e /\ e \in Nat
  OBVIOUS
<1>2. e >= 2
  <2>1. e # 0 /\ e # 1
    BY <1>1
  <2> QED
    BY <1>1, <2>1
<1> HIDE DEF e
<1>3. CASE d <= e
  BY <1>1, <1>3, Squares
<1>4. CASE e < d
  <2>1. e * e <= n /\ e \in 2..n
    BY <1>1, <1>2, <1>4, Squares
  <2>2. n % e = 0
    BY <1>1, <1>2
  <2> QED
    BY <2>1, <2>2
<1> QED
  BY <1>1, <1>3, <1>4

LEMMA CompositeRefused ==
  ASSUME NEW n \in 2..MaxInt, NEW d \in 2..(n - 1), n % d = 0
  PROVE  ~IsPrime(n)
<1> DEFINE S == {i \in 2..n : PastRoot(i, n) \/ n % i = 0}
           m == Min(S)
<1>1. PICK k \in 2..n : k * k <= n /\ n % k = 0
  <2>1. n \in Nat
    OBVIOUS
  <2> QED
    BY <2>1, DivisorUpToRoot
<1>2. k \in S /\ S \in SUBSET Nat
  BY <1>1
<1>3. m \in S /\ m <= k
  <2> HIDE DEF S
  <2> QED
    BY <1>2, MinElement
<1>4. m \in Nat
  BY <1>3
<1> HIDE DEF m
<1>5. m * m \in 0..MaxInt /\ m * m <= n
  BY <1>1, <1>3, <1>4, Squares, PrimeTimeAssumption
<1>6. ~PastRoot(m, n)
  BY <1>5, NoWrap DEF PastRoot
<1> QED
  BY <1>6 DEF IsPrime, m

(* A test of a prime gets past its root, before the square can wrap around.   *)
LEMMA PrimeAccepted ==
  ASSUME NEW n \in Nat, Prime(n), 3 * n + 1 <= MaxInt
  PROVE  IsPrime(n)
<1> DEFINE S == {i \in 2..n : PastRoot(i, n) \/ n % i = 0}
           m == Min(S)
           T == {i \in 2..n : i * i > n}
           r == Min(T)
<1>1. n >= 2 /\ \A d \in 2..(n - 1) : n % d # 0
  BY DEF Prime
<1>2. n \in T /\ T \in SUBSET Nat
  BY <1>1
<1>3. r \in T /\ \A i \in T : r <= i
  <2> HIDE DEF T
  <2> QED
    BY <1>2, MinElement
<1>4. r \in 2..n /\ r * r > n
  BY <1>3
<1>5. r = 2 \/ (r - 1) * (r - 1) <= n
  <2> SUFFICES ASSUME r > 2 PROVE (r - 1) * (r - 1) <= n
    BY <1>4
  <2>1. r - 1 \notin T
    BY <1>3, <1>4
  <2> HIDE DEF r
  <2> QED
    BY <1>4, <2>1
<1> HIDE DEF r
<1>6. r * r \in 0..MaxInt
  <2>1. CASE r = 2
    BY <1>1, <2>1, PrimeTimeAssumption
  <2>2. CASE (r - 1) * (r - 1) <= n
    <3>1. r * r = (r - 1) * (r - 1) + 2 * (r - 1) + 1 /\ r - 1 \in Nat /\ r - 1 > 0
      BY <1>4
    <3>2. r - 1 <= (r - 1) * (r - 1)
      BY <3>1, Squares
    <3> QED
      BY <1>4, <2>2, <3>1, <3>2, PrimeTimeAssumption
  <2> QED
    BY <1>5, <2>1, <2>2
<1>7. PastRoot(r, n)
  BY <1>4, <1>6, NoWrap DEF PastRoot
<1>8. r \in S /\ S \in SUBSET Nat
  BY <1>4, <1>7
<1>9. m \in S /\ m <= r
  <2> HIDE DEF S
  <2> QED
    BY <1>8, MinElement
<1>10. m \in 2..n /\ (PastRoot(m, n) \/ n % m = 0)
  BY <1>9
<1> HIDE DEF m
<1>11. CASE m = n
  BY <1>4, <1>7, <1>9, <1>11, <1>1 DEF IsPrime, m
<1>12. CASE m # n
  <2>1. PastRoot(m, n)
    BY <1>1, <1>10, <1>12
  <2> QED
    BY <1>1, <2>1 DEF IsPrime, m
<1> QED
  BY <1>11, <1>12

(* A number in halves that a float holds is below the limit of the fraction,  *)
(* or whole and below it, or an even number.                                  *)
LEMMA FloatShape ==
  ASSUME NEW x \in Magnitude
  PROVE  /\ x \in Nat
         /\ x < Fraction \/ (x % 2 = 0 /\ x \div 2 < Fraction) \/ x % 4 = 0
<1>1. PICK f \in 0..(Fraction - 1), p \in Scale : x = f * p
  BY DEF Magnitude
<1>2. p \in Nat /\ f \in Nat /\ f < Fraction /\ Fraction \in Nat
  BY <1>1, PrimeTimeAssumption
<1>3. CASE p \in {1, 2}
  BY <1>1, <1>2, <1>3
<1>4. CASE p % 4 = 0
  <2>1. PICK q \in Nat : p = 4 * q
    BY <1>2, <1>4
  <2>2. x = 4 * (f * q) /\ f * q \in Nat
    BY <1>1, <1>2, <2>1
  <2> QED
    BY <2>2
<1> QED
  BY <1>2, <1>3, <1>4, PrimeTimeAssumption

LEMMA EvenIsNoPrime ==
  ASSUME NEW n \in Nat, n > 2, n % 2 = 0
  PROVE  ~Prime(n)
BY DEF Prime

LEMMA LimitsAreNoPrimes ==
  /\ MaxInt \in Nat /\ MaxInt > 6
  /\ ~IsPrime(MaxInt) /\ ~IsPrime(MinInt) /\ \A n \in Int : n <= 1 => ~IsPrime(n)
<1>1. MaxInt \in Nat /\ MaxInt % 2 = 1
  BY PrimeTimeAssumption
<1>2. PICK d \in 2..(MaxInt - 1) : MaxInt % d = 0
  BY PrimeTimeAssumption
<1>3. MaxInt # 3 /\ MaxInt # 5
  BY <1>2
<1>4. ~IsPrime(MaxInt)
  BY <1>1, <1>2, CompositeRefused
<1> QED
  BY <1>1, <1>2, <1>3, <1>4 DEF IsPrime, MinInt

(* The test is right for every int that a float is converted to.              *)
LEMMA TestRight ==
  ASSUME NEW x \in Magnitude, x % 2 = 0, x \div 2 < MaxInt
  PROVE  IsPrime(x \div 2) <=> Prime(x \div 2)
<1> PICK n : n = x \div 2
  OBVIOUS
<1>1. n \in Nat /\ n < MaxInt /\ x = 2 * n
  BY FloatShape
<1>2. CASE n <= 1
  BY <1>1, <1>2 DEF IsPrime, Prime
<1>3. CASE n > 1 /\ ~Prime(n)
  <2>1. PICK d \in 2..(n - 1) : n % d = 0
    BY <1>3 DEF Prime
  <2>2. n \in 2..MaxInt
    BY <1>1, <1>3, LimitsAreNoPrimes
  <2> QED
    BY <1>3, <2>1, <2>2, CompositeRefused
<1>4. CASE Prime(n)
  <2>1. n = 2 \/ n % 2 = 1
    BY <1>1, <1>4, EvenIsNoPrime DEF Prime
  <2>2. n = 2 \/ n < Fraction
    BY <1>1, <2>1, FloatShape, PrimeTimeAssumption
  <2>3. 3 * n + 1 <= MaxInt
    BY <1>1, <2>2, LimitsAreNoPrimes, PrimeTimeAssumption
  <2> QED
    BY <1>1, <1>4, <2>3, PrimeAccepted
<1> QED
  BY <1>1, <1>2, <1>3, <1>4

LEMMA AnswerRight ==
  ASSUME NEW h \in Float, NEW n \in ToInt(h)
  PROVE  h = ToFloat(n) /\ IsPrime(n) <=> h % 2 = 0 /\ Prime(h \div 2)
<1>1. MaxInt \in Nat /\ MaxInt % 2 = 1 /\ Fraction \in Nat /\ 4 * Fraction <= MaxInt + 1
  BY PrimeTimeAssumption
<1>2. CASE h \in Magnitude /\ h \div 2 < MaxInt
  <2>1. h \in Nat /\ h \div 2 \in 0..MaxInt
    BY <1>1, <1>2, FloatShape
  <2>2. n = h \div 2
    BY <1>1, <2>1 DEF ToInt, MinInt
  <2>3. h = ToFloat(n) <=> h % 2 = 0
    BY <1>2, <2>1, <2>2 DEF ToFloat
  <2> QED
    BY <1>2, <2>2, <2>3, TestRight
<1>3. CASE h \in Magnitude /\ h \div 2 = MaxInt
  <2>1. h \in Nat /\ h \div 2 \in 0..MaxInt
    BY <1>1, <1>3, FloatShape
  <2>2. n = MaxInt
    BY <1>1, <1>3, <2>1 DEF ToInt, MinInt
  <2>3. h % 2 # 0
    BY <1>1, <1>3, <2>1, FloatShape
  <2> QED
    BY <2>2, <2>3, LimitsAreNoPrimes
<1>4. CASE h \in Magnitude /\ h \div 2 > MaxInt
  <2>1. h \in Nat /\ h \div 2 \in Nat
    BY <1>4, FloatShape
  <2>2. n \in {MinInt, MaxInt}
    BY <1>1, <1>4, <2>1 DEF ToInt, MinInt
  <2>3. h % 2 = 0 => (h \div 2) % 2 = 0 /\ h \div 2 > 2
    BY <1>1, <1>4, <2>1, FloatShape, LimitsAreNoPrimes
  <2> QED
    BY <2>1, <2>2, <2>3, LimitsAreNoPrimes, EvenIsNoPrime
<1>5. CASE h \in Int /\ h < 0
  <2>1. n \in Int /\ n <= 0
    BY <1>1, <1>5 DEF ToInt, MinInt
  <2>2. h \div 2 < 1
    BY <1>5
  <2>3. ~IsPrime(n)
    BY <2>1, LimitsAreNoPrimes
  <2>4. ~Prime(h \div 2)
    BY <1>5, <2>2 DEF Prime
  <2> QED
    BY <2>3, <2>4
<1> QED
  <2>1. h \in Magnitude \/ (h \in Int /\ h < 0)
    BY FloatShape DEF Float
  <2> QED
    BY <1>1, <1>2, <1>3, <1>4, <1>5, <2>1, FloatShape

(* Every float is answered rightly, for every width of ints and floats with   *)
(* those of the code's relations (primetime/server.go:23-62): the test of a   *)
(* float that no int holds, is not whole or is negative refuses, and no       *)
(* square that wraps around decides.                                          *)
THEOREM PrimesAlwaysRight == PrimeSpec => []PrimeRight
<1>1. PrimeInit => PrimeRight
  BY DEF PrimeInit, PrimeRight
<1>2. PrimeRight /\ [PrimeNext]_primeVars => PrimeRight'
  <2> SUFFICES ASSUME PrimeRight, [PrimeNext]_primeVars PROVE PrimeRight'
    OBVIOUS
  <2>1. ASSUME NEW halves \in Float, Ask(halves)
        PROVE  PrimeRight'
    <3>1. PICK n \in ToInt(halves) :
            answer' = IF halves = ToFloat(n) /\ IsPrime(n) THEN "prime" ELSE "not prime"
      BY <2>1 DEF Ask
    <3>2. answer' = "prime" <=> halves = ToFloat(n) /\ IsPrime(n)
      BY <3>1
    <3>3. answer' = "prime" <=> halves % 2 = 0 /\ Prime(halves \div 2)
      BY <3>2, AnswerRight
    <3>4. number' = halves
      BY <2>1 DEF Ask
    <3> QED
      BY <3>3, <3>4 DEF PrimeRight
  <2>2. CASE Malformed \/ EndOfLines \/ UNCHANGED primeVars
    BY <2>2 DEF Malformed, EndOfLines, primeVars, PrimeRight
  <2> QED
    BY <2>1, <2>2 DEF PrimeNext
<1> QED
  BY <1>1, <1>2, PTL DEF PrimeSpec
-----------------------------------------------------------------------------
(* What a conversion and the division give. *)
LEMMA FitSame ==
  ASSUME NEW max \in Nat, NEW n \in Ints(max)
  PROVE  Fit(n, max) = n
<1>1. n + max + 1 \in Nat /\ n + max + 1 < 2 * max + 2 /\ n \in Int
  BY DEF Ints
<1>2. (n + max + 1) % (2 * max + 2) = n + max + 1
  BY <1>1, SmallMod
<1> QED
  BY <1>1, <1>2 DEF Fit

LEMMA QuotientRight ==
  ASSUME NEW a \in Int, NEW b \in Nat \ {0}, NEW max \in Nat, -(b * (max + 1)) <= a, a <= b * max
  PROVE  /\ Quotient(a, b) \in Ints(max)
         /\ Quotient(a, b) * a >= 0
         /\ Abs(Quotient(a, b)) * b <= Abs(a)
         /\ Abs(a) < (Abs(Quotient(a, b)) + 1) * b
<1>1. ASSUME NEW c \in Nat
      PROVE  /\ c \div b \in Nat /\ (c \div b) * b <= c /\ c < (c \div b + 1) * b
             /\ \A d \in Nat : c <= b * d => c \div b <= d
             /\ (c \div b) * c >= 0
  <2> PICK q, r : q = c \div b /\ r = c % b
    OBVIOUS
  <2>1. q \in Nat /\ r \in Nat /\ r < b /\ c = b * q + r
    OBVIOUS
  <2>2. ASSUME NEW d \in Nat, c <= b * d, d < q
        PROVE  FALSE
    <3>1. b * (d + 1) <= b * q
      BY <2>1, <2>2
    <3> QED
      BY <2>1, <2>2, <3>1
  <2> QED
    BY <2>1, <2>2
<1>2. CASE a >= 0
  <2>1. Quotient(a, b) = a \div b /\ a \in Nat
    BY <1>2 DEF Quotient
  <2> QED
    BY <1>1, <1>2, <2>1 DEF Abs, Ints
<1>3. CASE a < 0
  <2> PICK c, q : c = -a /\ q = c \div b
    OBVIOUS
  <2>1. c \in Nat /\ a = -c /\ c <= b * (max + 1) /\ max + 1 \in Nat
    BY <1>3
  <2>2. q \in Nat /\ q * b <= c /\ c < (q + 1) * b /\ q <= max + 1 /\ q * c >= 0
    BY <1>1, <2>1
  <2>3. Quotient(a, b) = -q /\ Abs(-q) = q /\ Abs(a) = c /\ -q \in Ints(max)
    BY <1>3, <2>1, <2>2 DEF Quotient, Abs, Ints
  <2> QED
    BY <2>1, <2>2, <2>3
<1> QED
  BY <1>2, <1>3

Stored == [timestamp : Int, price : Ints(MaxInt32)]

Totals == [sum : Int, count : Int]

LEMMA LoopRounds ==
  ASSUME NEW s \in Seq(Stored), NEW lo \in Int, NEW hi \in Int
  PROVE  /\ Loop(s, lo, hi)[0] = [sum |-> 0, count |-> 0]
         /\ \A k \in 1..Len(s) : Loop(s, lo, hi)[k] = Round(lo, hi, Loop(s, lo, hi)[k - 1], s[k])
<1> DEFINE n == Len(s)
           D(k) == IF k \in 1..n THEN s[k] ELSE [timestamp |-> 0, price |-> 0]
           G == [x \in Totals \X Nat |-> Round(lo, hi, x[1], D(x[2]))]
           zero == [sum |-> 0, count |-> 0]
           Is(f) == f = [k \in 0..n |-> IF k = 0 THEN zero ELSE Round(lo, hi, f[k - 1], s[k])]
<1>1. n \in Nat /\ \A k \in 1..n : s[k] \in Stored
  BY ElementOfSeq
<1>2. ASSUME NEW k \in Nat
      PROVE  D(k) \in Stored
  BY <1>1, MeansAssumption DEF Stored, Ints
<1>3. ASSUME NEW b \in Totals, NEW d \in Stored
      PROVE  Round(lo, hi, b, d) \in Totals
  <2>1. b.sum \in Int /\ b.count \in Int /\ d.price \in Int
    BY DEF Totals, Stored, Ints
  <2>2. ASSUME NEW a \in Int, NEW max \in Nat
        PROVE  Fit(a, max) \in Int
    BY DEF Fit
  <2>3. SumWide(b.sum, d.price) \in Int /\ Fit(b.count + 1, MaxInt32) \in Int
    <3>1. b.sum + d.price \in Int /\ b.count + 1 \in Int /\ MaxInt32 \in Nat /\ MaxInt64 \in Nat
      BY <2>1, MeansAssumption
    <3> QED
      BY <2>2, <3>1 DEF SumWide
  <2> QED
    BY <2>3 DEF Totals, Round
<1>4. G \in [Totals \X Nat -> Totals] /\ zero \in Totals
  <2>1. \A x \in Totals \X Nat : x[1] \in Totals /\ x[2] \in Nat
    OBVIOUS
  <2>2. zero \in Totals
    BY DEF Totals
  <2> HIDE DEF D, zero
  <2> QED
    BY <1>2, <1>3, <2>1, <2>2
<1>5. Made(Totals, zero, G, n)
  <2> HIDE DEF G, n, zero
  <2> QED
    BY <1>1, <1>4, Recursion
<1>6. PICK f \in [0..n -> Totals] : f[0] = zero /\ \A k \in 1..n : f[k] = G[<<f[k - 1], k>>]
  <2> HIDE DEF G, n, zero
  <2> QED
    BY <1>5 DEF Made
<1>7. \A k \in 1..n : f[k] = Round(lo, hi, f[k - 1], s[k])
  <2> TAKE k \in 1..n
  <2>1. f[k - 1] \in Totals /\ k \in Nat
    BY <1>1, <1>6
  <2>2. G[<<f[k - 1], k>>] = Round(lo, hi, f[k - 1], D(k))
    <3> HIDE DEF D
    <3> QED
      BY <2>1
  <2> QED
    BY <1>6, <2>2
<1>8. Is(f)
  <2> HIDE DEF zero, n, G
  <2> QED
    BY <1>1, <1>6, <1>7
<1>9. Is(Loop(s, lo, hi))
  BY <1>8 DEF Loop
<1> HIDE DEF zero
<1> QED
  BY <1>1, <1>9 DEF zero

LEMMA SumsRounds ==
  ASSUME NEW s \in Seq(Stored), NEW ks
  PROVE  /\ Sums(s, ks)[0] = 0
         /\ \A k \in 1..Len(s) :
              Sums(s, ks)[k] = Sums(s, ks)[k - 1] + (IF k \in ks THEN s[k].price ELSE 0)
<1> DEFINE n == Len(s)
           D(k) == IF k \in 1..n /\ k \in ks THEN s[k].price ELSE 0
           G == [x \in Int \X Nat |-> x[1] + D(x[2])]
           Is(f) == f = [k \in 0..n |-> IF k = 0 THEN 0
                                        ELSE f[k - 1] + (IF k \in ks THEN s[k].price ELSE 0)]
<1>1. n \in Nat /\ \A k \in 1..n : s[k] \in Stored
  BY ElementOfSeq
<1>2. ASSUME NEW k \in Nat
      PROVE  D(k) \in Int
  <2>1. k \in 1..n => s[k].price \in Int
    BY <1>1, MeansAssumption DEF Stored, Ints
  <2> QED
    BY <2>1
<1>3. G \in [Int \X Nat -> Int]
  <2> HIDE DEF D
  <2> QED
    BY <1>2
<1>4. Made(Int, 0, G, n)
  <2>1. 0 \in Int
    OBVIOUS
  <2> HIDE DEF G, n
  <2> QED
    BY <1>1, <1>3, <2>1, Recursion
<1>5. PICK f \in [0..n -> Int] : f[0] = 0 /\ \A k \in 1..n : f[k] = G[<<f[k - 1], k>>]
  <2> HIDE DEF G, n
  <2> QED
    BY <1>4 DEF Made
<1>6. \A k \in 1..n : f[k] = f[k - 1] + (IF k \in ks THEN s[k].price ELSE 0)
  <2> TAKE k \in 1..n
  <2>1. f[k - 1] \in Int /\ k \in Nat
    BY <1>1, <1>5
  <2>2. G[<<f[k - 1], k>>] = f[k - 1] + D(k)
    <3> HIDE DEF D
    <3> QED
      BY <2>1
  <2> QED
    BY <1>5, <2>2
<1>7. Is(f)
  <2> HIDE DEF n, G
  <2> QED
    BY <1>1, <1>5, <1>6
<1>8. Is(Sums(s, ks))
  BY <1>7 DEF Sums
<1> QED
  BY <1>1, <1>8

(* The positions up to k of what a query asks for. *)
Found(s, lo, hi, k) == {j \in 1..k : Within(lo, hi, s[j])}

(* After k rounds the code's sum is the true one and its count the number of  *)
(* prices, and that many prices come to no more than a sum can be.            *)
RoundRight(s, lo, hi, k) ==
  LET found == Found(s, lo, hi, Len(s))
      count == Cardinality(Found(s, lo, hi, k))
      sum == Sums(s, found)[k]
  IN /\ Loop(s, lo, hi)[k] = [sum |-> sum, count |-> count]
     /\ sum \in Int /\ count \in 0..k /\ IsFiniteSet(Found(s, lo, hi, k))
     /\ -(count * (MaxInt32 + 1)) <= sum /\ sum <= count * MaxInt32

LEMMA SumFits ==
  ASSUME NEW count \in 0..MaxInt32, NEW sum \in Int,
         -(count * (MaxInt32 + 1)) <= sum, sum <= count * MaxInt32
  PROVE  sum \in Ints(MaxInt64) /\ count \in Ints(MaxInt32)
<1>1. MaxInt32 \in Nat /\ MaxInt64 \in Nat /\ MaxInt32 * (MaxInt32 + 1) <= MaxInt64
  BY MeansAssumption
<1>2. /\ count * (MaxInt32 + 1) <= MaxInt32 * (MaxInt32 + 1)
      /\ count * MaxInt32 <= count * (MaxInt32 + 1)
      /\ count * (MaxInt32 + 1) \in Nat /\ count * MaxInt32 \in Nat /\ MaxInt32 * (MaxInt32 + 1) \in Nat
  BY <1>1
<1> QED
  BY <1>1, <1>2 DEF Ints

LEMMA OnePriceMore ==
  ASSUME NEW c \in Nat, NEW t \in Int, NEW p \in Int,
         -(c * (MaxInt32 + 1)) <= t, t <= c * MaxInt32,
         -(MaxInt32 + 1) <= p, p <= MaxInt32
  PROVE  -((c + 1) * (MaxInt32 + 1)) <= t + p /\ t + p <= (c + 1) * MaxInt32
<1>1. MaxInt32 \in Nat
  BY MeansAssumption
<1>2. /\ (c + 1) * (MaxInt32 + 1) = c * (MaxInt32 + 1) + (MaxInt32 + 1)
      /\ (c + 1) * MaxInt32 = c * MaxInt32 + MaxInt32
      /\ c * (MaxInt32 + 1) \in Int /\ c * MaxInt32 \in Int
  BY <1>1
<1> DEFINE x == c * (MaxInt32 + 1)
           y == c * MaxInt32
<1>3. x \in Int /\ y \in Int /\ -x <= t /\ t <= y
  BY <1>2
<1> HIDE DEF x, y
<1>4. -(x + (MaxInt32 + 1)) <= t + p /\ t + p <= y + MaxInt32
  BY <1>1, <1>3
<1> QED
  BY <1>2, <1>4 DEF x, y

LEMMA RoundsRight ==
  ASSUME NEW s \in Seq(Stored), NEW lo \in Int, NEW hi \in Int, Len(s) <= MaxInt32,
         NEW k \in 1..Len(s), RoundRight(s, lo, hi, k - 1)
  PROVE  RoundRight(s, lo, hi, k)
<1> DEFINE ks == Found(s, lo, hi, Len(s))
           F(j) == Found(s, lo, hi, j)
           c == Cardinality(F(k - 1))
           t == Sums(s, ks)[k - 1]
<1>1. /\ Loop(s, lo, hi)[k - 1] = [sum |-> t, count |-> c]
      /\ t \in Int /\ c \in 0..(k - 1) /\ IsFiniteSet(F(k - 1))
      /\ -(c * (MaxInt32 + 1)) <= t /\ t <= c * MaxInt32
  BY DEF RoundRight
<1>2. MaxInt32 \in Nat /\ MaxInt64 \in Nat /\ Len(s) \in Nat /\ k \in Nat /\ k <= MaxInt32
  BY MeansAssumption
<1>3. s[k].price \in Int /\ -(MaxInt32 + 1) <= s[k].price /\ s[k].price <= MaxInt32
  <2>1. s[k] \in Stored
    BY ElementOfSeq
  <2>2. s[k].price \in Ints(MaxInt32)
    BY <2>1 DEF Stored
  <2> QED
    BY <1>2, <2>2 DEF Ints
<1>4. Loop(s, lo, hi)[k] = Round(lo, hi, [sum |-> t, count |-> c], s[k])
  BY <1>1, LoopRounds
<1>5. Sums(s, ks)[k] = t + (IF k \in ks THEN s[k].price ELSE 0)
  BY SumsRounds
<1> HIDE DEF t, c
<1>6. CASE Within(lo, hi, s[k])
  <2>1. k \in ks /\ F(k) = F(k - 1) \cup {k} /\ k \notin F(k - 1)
    BY <1>6 DEF Found
  <2>2. Cardinality(F(k)) = c + 1 /\ IsFiniteSet(F(k))
    BY <1>1, <2>1, FS_AddElement DEF c
  <2> PICK u : u = t + s[k].price
    OBVIOUS
  <2>3. u \in Int /\ c + 1 \in 0..MaxInt32 /\ c + 1 \in 0..k
        /\ -((c + 1) * (MaxInt32 + 1)) <= u /\ u <= (c + 1) * MaxInt32
    <3>1. c \in Nat /\ c + 1 \in 0..MaxInt32 /\ c + 1 \in 0..k /\ u \in Int
      <4>1. c \in 0..(k - 1) /\ t \in Int
        BY <1>1
      <4>2. c \in Nat /\ c + 1 \in 0..MaxInt32 /\ c + 1 \in 0..k
        BY <1>2, <4>1
      <4>3. u \in Int
        BY <1>3, <4>1
      <4> QED
        BY <4>2, <4>3
    <3>2. /\ t \in Int /\ -(c * (MaxInt32 + 1)) <= t /\ t <= c * MaxInt32
      BY <1>1
    <3>3. /\ -((c + 1) * (MaxInt32 + 1)) <= t + s[k].price
          /\ t + s[k].price <= (c + 1) * MaxInt32
      BY <1>3, <3>1, <3>2, OnePriceMore
    <3> QED
      BY <3>1, <3>3
  <2>4. u \in Ints(MaxInt64) /\ c + 1 \in Ints(MaxInt32)
    BY <2>3, SumFits
  <2>5. SumWide(t, s[k].price) = u /\ Fit(c + 1, MaxInt32) = c + 1
    BY <1>2, <2>4, FitSame DEF SumWide
  <2>6. Loop(s, lo, hi)[k] = [sum |-> u, count |-> c + 1] /\ Sums(s, ks)[k] = u
    BY <1>4, <1>5, <1>6, <2>1, <2>5 DEF Round
  <2> QED
    BY <2>2, <2>3, <2>6 DEF RoundRight
<1>7. CASE ~Within(lo, hi, s[k])
  <2>1. k \notin ks /\ F(k) = F(k - 1)
    BY <1>7 DEF Found
  <2>2. Loop(s, lo, hi)[k] = [sum |-> t, count |-> c] /\ Sums(s, ks)[k] = t
    BY <1>1, <1>4, <1>5, <1>7, <2>1 DEF Round
  <2>3. Cardinality(F(k)) = c /\ IsFiniteSet(F(k)) /\ c \in 0..k
    BY <1>1, <1>2, <2>1 DEF c
  <2> QED
    BY <1>1, <2>2, <2>3 DEF RoundRight
<1> QED
  BY <1>6, <1>7

LEMMA AllRoundsRight ==
  ASSUME NEW s \in Seq(Stored), NEW lo \in Int, NEW hi \in Int, Len(s) <= MaxInt32
  PROVE  RoundRight(s, lo, hi, Len(s))
<1> DEFINE S == {k \in 0..Len(s) : ~RoundRight(s, lo, hi, k)}
           m == Min(S)
<1>1. SUFFICES ASSUME S # {} PROVE FALSE
  BY DEF S
<1>2. m \in S /\ \A k \in S : m <= k
  <2>1. S \in SUBSET Nat
    OBVIOUS
  <2> HIDE DEF S
  <2> QED
    BY <1>1, <2>1, MinElement
<1> HIDE DEF m
<1>3. RoundRight(s, lo, hi, 0)
  <2>1. Found(s, lo, hi, 0) = {}
    BY DEF Found
  <2>2. Cardinality(Found(s, lo, hi, 0)) = 0 /\ IsFiniteSet(Found(s, lo, hi, 0))
    BY <2>1, FS_EmptySet
  <2>3. Loop(s, lo, hi)[0] = [sum |-> 0, count |-> 0] /\ Sums(s, Found(s, lo, hi, Len(s)))[0] = 0
    BY LoopRounds, SumsRounds
  <2>4. 0 * (MaxInt32 + 1) = 0 /\ 0 * MaxInt32 = 0
    BY MeansAssumption
  <2> QED
    BY <2>2, <2>3, <2>4 DEF RoundRight
<1>4. m \in 1..Len(s) /\ ~RoundRight(s, lo, hi, m)
  BY <1>2, <1>3
<1>5. m - 1 \in 0..Len(s) /\ ~(m <= m - 1)
  BY <1>4
<1>6. RoundRight(s, lo, hi, m - 1)
  BY <1>2, <1>5
<1> QED
  BY <1>4, <1>6, RoundsRight

LEMMA MeanOfAll ==
  ASSUME NEW s \in Seq(Stored), NEW lo \in Int, NEW hi \in Int, Len(s) <= MaxInt32,
         NEW avg1, avg1 = Mean(s, lo, hi), NEW found, found = Found(s, lo, hi, Len(s)),
         NEW sum, sum = Sums(s, found)[Len(s)]
  PROVE  IF found = {} THEN avg1 = 0
         ELSE /\ avg1 * sum >= 0
              /\ Abs(avg1) * Cardinality(found) <= Abs(sum)
              /\ Abs(sum) < (Abs(avg1) + 1) * Cardinality(found)
<1> PICK count : count = Cardinality(found)
  OBVIOUS
<1>1. /\ Loop(s, lo, hi)[Len(s)] = [sum |-> sum, count |-> count]
      /\ sum \in Int /\ count \in Nat /\ IsFiniteSet(found)
      /\ -(count * (MaxInt32 + 1)) <= sum /\ sum <= count * MaxInt32
  <2>1. RoundRight(s, lo, hi, Len(s))
    BY AllRoundsRight
  <2> QED
    BY <2>1 DEF RoundRight
<1>2. avg1 = IF count > 0 THEN Fit(Quotient(sum, count), MaxInt32) ELSE 0
  BY <1>1 DEF Mean
<1>3. count = 0 <=> found = {}
  BY <1>1, FS_EmptySet
<1>4. CASE count > 0
  <2>1. MaxInt32 \in Nat /\ count \in Nat \ {0}
    BY <1>1, <1>4, MeansAssumption
  <2>2. /\ Quotient(sum, count) \in Ints(MaxInt32)
        /\ Quotient(sum, count) * sum >= 0
        /\ Abs(Quotient(sum, count)) * count <= Abs(sum)
        /\ Abs(sum) < (Abs(Quotient(sum, count)) + 1) * count
    BY <1>1, <2>1, QuotientRight
  <2>3. avg1 = Quotient(sum, count)
    BY <1>2, <1>4, <2>1, <2>2, FitSame
  <2> QED
    BY <1>3, <1>4, <2>1, <2>2, <2>3
<1>5. CASE count = 0
  BY <1>2, <1>3, <1>5
<1> QED
  BY <1>1, <1>4, <1>5

(* Only the last insert can have been cut off, and nothing is asked after it. *)
MeansInv ==
  /\ data \in Seq(Stored) /\ Len(data) <= MaxInserts
  /\ ended \/ whole = Len(data)
  /\ asked # <<>> => /\ whole = Len(data)
                     /\ asked[1] \in Int /\ asked[2] \in Int
                     /\ avg = Mean(data, asked[1], asked[2])

LEMMA MeansStep ==
  ASSUME MeansInv, [MeansNext]_meansVars
  PROVE  MeansInv'
<1>1. /\ \A t \in Time \cup {0} : t \in Int
      /\ \A p \in Price \cup {0} : p \in Ints(MaxInt32)
      /\ MaxInserts \in Nat /\ data \in Seq(Stored) /\ Len(data) \in Nat
  BY MeansAssumption DEF MeansInv, Ints
<1>2. ASSUME NEW t \in Time \cup {0}, NEW p \in Price \cup {0}, Store(t, p), Len(data) < MaxInserts
      PROVE  data' \in Seq(Stored) /\ Len(data') = Len(data) + 1 /\ Len(data') <= MaxInserts /\ asked' = <<>>
  <2>1. [timestamp |-> t, price |-> p] \in Stored
    BY <1>1 DEF Stored
  <2> QED
    BY <1>1, <1>2, <2>1 DEF Store
<1>3. ASSUME NEW t \in Time \cup {0}, NEW u \in Time \cup {0}, Answer(t, u)
      PROVE  data' = data /\ asked'[1] \in Int /\ asked'[2] \in Int /\ avg' = Mean(data', asked'[1], asked'[2])
  BY <1>1, <1>3 DEF Answer
<1>4. ASSUME NEW t \in Time, NEW p \in Price, Insert(t, p)
      PROVE  MeansInv'
  <2>1. Store(t, p) /\ Len(data) < MaxInserts /\ whole' = Len(data')
    BY <1>4 DEF Insert
  <2>2. data' \in Seq(Stored) /\ Len(data') <= MaxInserts /\ asked' = <<>>
    BY <1>2, <2>1
  <2> QED
    BY <2>1, <2>2 DEF MeansInv
<1>5. ASSUME NEW t \in Time, NEW u \in Time, Query(t, u)
      PROVE  MeansInv'
  <2>1. Answer(t, u) /\ ~ended /\ ended' = ended /\ whole' = whole
    BY <1>5 DEF Query
  <2>2. data' = data /\ asked'[1] \in Int /\ asked'[2] \in Int /\ avg' = Mean(data', asked'[1], asked'[2])
    BY <1>3, <2>1
  <2> QED
    BY <2>1, <2>2 DEF MeansInv
<1>6. CASE StreamEnds
  <2>1. ended' = TRUE /\ whole' = whole /\ whole = Len(data)
    BY <1>6 DEF StreamEnds, MeansInv
  <2>2. CASE UNCHANGED <<data, asked, avg>>
    BY <2>1, <2>2 DEF MeansInv
  <2>3. ASSUME NEW t \in Time \cup {0}, Store(t, 0), Len(data) < MaxInserts
        PROVE  MeansInv'
    BY <1>2, <2>1, <2>3 DEF MeansInv
  <2>4. ASSUME NEW t \in Time \cup {0}, Answer(t, 0)
        PROVE  MeansInv'
    <3>1. data' = data /\ asked'[1] \in Int /\ asked'[2] \in Int /\ avg' = Mean(data', asked'[1], asked'[2])
      BY <1>3, <2>4
    <3> QED
      BY <2>1, <3>1 DEF MeansInv
  <2> QED
    BY <1>6, <2>2, <2>3, <2>4 DEF StreamEnds
<1>7. CASE UNCHANGED meansVars
  BY <1>7 DEF meansVars, MeansInv
<1> QED
  BY <1>4, <1>5, <1>6, <1>7 DEF MeansNext

(* Every mean is that of the whole inserts in the range, rounded towards      *)
(* zero, for every width of the two integer types in which a long sum fits    *)
(* (means/server.go:35-57): nothing overflows, and an insert that was cut off *)
(* counts in no answer.                                                       *)
THEOREM MeansAlwaysRight == MeansSpec => []MeanRight
<1>1. MeansInit => MeansInv
  BY MeansAssumption DEF MeansInit, MeansInv
<1>2. MeansInv => MeanRight
  <2> SUFFICES ASSUME MeansInv, asked # <<>>
               PROVE  IF Asked = {} THEN avg = 0
                      ELSE /\ avg * AskedSum >= 0
                           /\ Abs(avg) * Cardinality(Asked) <= Abs(AskedSum)
                           /\ Abs(AskedSum) < (Abs(avg) + 1) * Cardinality(Asked)
    BY DEF MeanRight
  <2>1. /\ data \in Seq(Stored) /\ Len(data) <= MaxInt32 /\ asked[1] \in Int /\ asked[2] \in Int
        /\ whole = Len(data)
    BY MeansAssumption DEF MeansInv
  <2>2. avg = Mean(data, asked[1], asked[2])
    BY DEF MeansInv
  <2>3. Asked = Found(data, asked[1], asked[2], Len(data))
    BY <2>1 DEF Asked, Found
  <2>4. AskedSum = Sums(data, Asked)[Len(data)]
    BY <2>1 DEF AskedSum
  <2> QED
    BY <2>1, <2>2, <2>3, <2>4, MeanOfAll
<1> QED
  BY <1>1, <1>2, MeansStep, PTL DEF MeansSpec
-----------------------------------------------------------------------------
(* A concatenation, byte by byte. *)
LEMMA Concatenated ==
  ASSUME NEW s \in Seq(Byte), NEW t \in Seq(Byte)
  PROVE  /\ s \o t \in Seq(Byte) /\ Len(s \o t) = Len(s) + Len(t)
         /\ \A j \in 1..Len(s) : (s \o t)[j] = s[j]
         /\ \A j \in 1..Len(t) : (s \o t)[Len(s) + j] = t[j]
<1>1. /\ s \o t \in Seq(Byte) /\ Len(s \o t) = Len(s) + Len(t)
      /\ \A i \in 1..Len(s) + Len(t) : (s \o t)[i] = IF i <= Len(s) THEN s[i] ELSE t[i - Len(s)]
  BY ConcatProperties
<1>2. Len(s) \in Nat /\ Len(t) \in Nat
  OBVIOUS
<1> QED
  BY <1>1, <1>2

(* Joined is the recursion it looks like: each part goes behind the ones     *)
(* before it.                                                                *)
LEMMA JoinedParts ==
  ASSUME NEW parts \in Seq(Seq(Byte))
  PROVE  /\ Joined(parts)[0] = <<>>
         /\ \A k \in 1..Len(parts) : Joined(parts)[k] = Joined(parts)[k - 1] \o parts[k]
         /\ \A k \in 0..Len(parts) : Joined(parts)[k] \in Seq(Byte)
<1> DEFINE n == Len(parts)
           A == Seq(Byte)
           D(k) == IF k \in 1..n THEN parts[k] ELSE <<>>
           G == [x \in A \X Nat |-> x[1] \o D(x[2])]
           empty == <<>>
           Longer(a, k) == a \o parts[k]
           Is(f) == f = [k \in 0..n |-> IF k = 0 THEN empty ELSE Longer(f[k - 1], k)]
<1>1. n \in Nat /\ (\A k \in 1..n : parts[k] \in A) /\ <<>> \in A
  BY ElementOfSeq
<1>2. \A k \in Nat : D(k) \in A
  <2> HIDE DEF A
  <2> QED
    BY <1>1
<1>3. G \in [A \X Nat -> A]
  <2>1. \A x \in A \X Nat : x[1] \in A /\ x[2] \in Nat
    OBVIOUS
  <2>2. \A x, y \in A : x \o y \in A
    BY ConcatProperties
  <2> HIDE DEF D, A
  <2> QED
    BY <1>2, <2>1, <2>2
<1>4. Made(A, <<>>, G, n)
  <2> HIDE DEF G, n, A
  <2> QED
    BY <1>1, <1>3, Recursion
<1>5. PICK f \in [0..n -> A] : f[0] = <<>> /\ \A k \in 1..n : f[k] = G[<<f[k - 1], k>>]
  <2> HIDE DEF G, n, A
  <2> QED
    BY <1>4 DEF Made
<1>6. \A k \in 1..n : f[k] = f[k - 1] \o parts[k]
  <2> TAKE k \in 1..n
  <2>1. f[k - 1] \in A /\ k \in Nat
    BY <1>1, <1>5
  <2>2. G[<<f[k - 1], k>>] = f[k - 1] \o D(k)
    <3> HIDE DEF D, A
    <3> QED
      BY <2>1
  <2> QED
    BY <1>5, <2>2
<1>7. Is(f)
  <2>1. f \in [0..n -> A] /\ f[0] = empty /\ \A k \in 1..n : f[k] = Longer(f[k - 1], k)
    BY <1>5, <1>6
  <2> HIDE DEF n, A, empty, Longer
  <2>2. \A k \in 0..n : f[k] = IF k = 0 THEN empty ELSE Longer(f[k - 1], k)
    BY <1>1, <2>1
  <2> QED
    BY <2>1, <2>2, SMT
<1>8. Is(Joined(parts))
  BY <1>7 DEF Joined
<1>9. Joined(parts)[0] = <<>> /\ \A k \in 1..n : Joined(parts)[k] = Joined(parts)[k - 1] \o parts[k]
  <2>1. /\ Joined(parts)[0] = empty
        /\ \A k \in 1..n : Joined(parts)[k] = Longer(Joined(parts)[k - 1], k)
    <3> HIDE DEF n, empty, Longer
    <3> QED
      BY <1>1, <1>8
  <2> QED
    BY <2>1
<1> DEFINE S == {k \in Nat : k <= n => Joined(parts)[k] \in A}
<1>10. 0 \in S /\ \A k \in Nat : 0 <= k /\ k < n /\ k \in S => k + 1 \in S
  <2>1. 0 \in S
    BY <1>1, <1>9
  <2>2. ASSUME NEW k \in Nat, k < n, k \in S
        PROVE  k + 1 \in S
    <3>1. k + 1 \in 1..n /\ (k + 1) - 1 = k /\ Joined(parts)[k] \in A
      BY <1>1, <2>2
    <3>2. Joined(parts)[k + 1] = Joined(parts)[k] \o parts[k + 1] /\ parts[k + 1] \in A
      BY <1>1, <1>9, <3>1
    <3>3. Joined(parts)[k + 1] \in A
      BY <3>1, <3>2, ConcatProperties
    <3> QED
      BY <3>3
  <2> QED
    BY <2>1, <2>2
<1>11. \A k \in 0..n : k \in S
  <2> HIDE DEF S, n
  <2> QED
    BY <1>1, <1>10, Climb
<1> QED
  BY <1>9, <1>11

(* What was written stays where it is. *)
LEMMA JoinedPrefix ==
  ASSUME NEW parts \in Seq(Seq(Byte)), NEW k \in 0..Len(parts), NEW m \in k..Len(parts)
  PROVE  /\ Len(Joined(parts)[k]) <= Len(Joined(parts)[m])
         /\ \A j \in 1..Len(Joined(parts)[k]) : Joined(parts)[m][j] = Joined(parts)[k][j]
<1> DEFINE n == Len(parts)
           J(i) == Joined(parts)[i]
           P(i) == Len(J(k)) <= Len(J(i)) /\ \A j \in 1..Len(J(k)) : J(i)[j] = J(k)[j]
           S == {i \in Nat : i <= n => P(i)}
<1>1. n \in Nat /\ k \in Nat /\ k <= n /\ m \in Nat /\ k <= m /\ m <= n
  OBVIOUS
<1>2. /\ \A i \in 1..n : J(i) = J(i - 1) \o parts[i] /\ parts[i] \in Seq(Byte)
      /\ \A i \in 0..n : J(i) \in Seq(Byte)
  BY JoinedParts, ElementOfSeq
<1> HIDE DEF n, J
<1>3. k \in S
  <2>1. J(k) \in Seq(Byte)
    BY <1>1, <1>2
  <2> QED
    BY <1>1, <2>1
<1>4. ASSUME NEW i \in Nat, k <= i, i < n, i \in S
      PROVE  i + 1 \in S
  <2>1. i \in 0..n /\ i + 1 \in 1..n /\ (i + 1) - 1 = i /\ P(i)
    BY <1>1, <1>4
  <2>2. /\ J(i) \in Seq(Byte) /\ J(k) \in Seq(Byte) /\ parts[i + 1] \in Seq(Byte)
        /\ J(i + 1) = J(i) \o parts[i + 1]
    <3>1. J(i + 1) = J((i + 1) - 1) \o parts[i + 1] /\ parts[i + 1] \in Seq(Byte)
      BY <1>2, <2>1, Zenon
    <3>2. J((i + 1) - 1) = J(i)
      BY <2>1
    <3>3. k \in 0..n
      BY <1>1
    <3> QED
      BY <1>2, <2>1, <3>1, <3>2, <3>3, Zenon
  <2>3. /\ Len(J(i + 1)) = Len(J(i)) + Len(parts[i + 1])
        /\ \A j \in 1..Len(J(i)) : J(i + 1)[j] = J(i)[j]
    <3>1. /\ Len(J(i) \o parts[i + 1]) = Len(J(i)) + Len(parts[i + 1])
          /\ \A j \in 1..Len(J(i)) : (J(i) \o parts[i + 1])[j] = J(i)[j]
      BY <2>2, Concatenated, Zenon
    <3> QED
      BY <2>2, <3>1, Zenon
  <2>4. Len(J(i)) \in Nat /\ Len(J(k)) \in Nat /\ Len(parts[i + 1]) \in Nat
    BY <2>2
  <2>5. P(i + 1)
    BY <2>1, <2>3, <2>4
  <2> QED
    BY <2>5
<1>5. \A i \in k..n : i \in S
  <2> HIDE DEF S
  <2> QED
    BY <1>1, <1>3, <1>4, Climb
<1> QED
  BY <1>1, <1>5 DEF J

(* Part k stands after the ones before it. *)
LEMMA JoinedAt ==
  ASSUME NEW parts \in Seq(Seq(Byte)), NEW k \in 1..Len(parts), NEW m \in k..Len(parts)
  PROVE  /\ parts[k] \in Seq(Byte)
         /\ Joined(parts)[k - 1] \in Seq(Byte) /\ Joined(parts)[m] \in Seq(Byte)
         /\ Len(Joined(parts)[k]) = Len(Joined(parts)[k - 1]) + Len(parts[k])
         /\ Len(Joined(parts)[k]) <= Len(Joined(parts)[m])
         /\ \A j \in 1..Len(parts[k]) :
              Joined(parts)[m][Len(Joined(parts)[k - 1]) + j] = parts[k][j]
<1> DEFINE J(i) == Joined(parts)[i]
<1>1. k \in Nat /\ m \in 0..Len(parts) /\ k \in 0..Len(parts) /\ k - 1 \in 0..Len(parts) /\ Len(parts) \in Nat
  OBVIOUS
<1>2. J(k) = J(k - 1) \o parts[k] /\ parts[k] \in Seq(Byte) /\ J(k - 1) \in Seq(Byte) /\ J(m) \in Seq(Byte)
  BY <1>1, JoinedParts, ElementOfSeq
<1>3. /\ Len(J(k)) = Len(J(k - 1)) + Len(parts[k])
      /\ \A j \in 1..Len(parts[k]) : J(k)[Len(J(k - 1)) + j] = parts[k][j]
  <2> HIDE DEF J
  <2> QED
    <3>1. /\ Len(J(k - 1) \o parts[k]) = Len(J(k - 1)) + Len(parts[k])
          /\ \A j \in 1..Len(parts[k]) : (J(k - 1) \o parts[k])[Len(J(k - 1)) + j] = parts[k][j]
      BY <1>2, Concatenated, Zenon
    <3> QED
      BY <1>2, <3>1, Zenon
<1>4. Len(J(k)) <= Len(J(m)) /\ \A j \in 1..Len(J(k)) : J(m)[j] = J(k)[j]
  BY <1>1, JoinedPrefix
<1>5. Len(J(k - 1)) \in Nat /\ Len(parts[k]) \in Nat
  BY <1>2
<1> HIDE DEF J
<1>6. ASSUME NEW j \in 1..Len(parts[k])
      PROVE  J(m)[Len(J(k - 1)) + j] = parts[k][j]
  <2>1. Len(J(k - 1)) + j \in 1..Len(J(k))
    BY <1>3, <1>5
  <2> QED
    BY <1>3, <1>4, <2>1, Zenon
<1> QED
  BY <1>2, <1>3, <1>4, <1>6 DEF J

(* What was written depends on the parts written so far only. *)
LEMMA JoinedSame ==
  ASSUME NEW p \in Seq(Seq(Byte)), NEW q \in Seq(Seq(Byte)),
         NEW m \in 0..Len(p), m <= Len(q), \A k \in 1..m : p[k] = q[k]
  PROVE  \A k \in 0..m : Joined(p)[k] = Joined(q)[k]
<1> DEFINE S == {k \in Nat : k <= m => Joined(p)[k] = Joined(q)[k]}
<1>1. m \in Nat /\ Len(p) \in Nat /\ Len(q) \in Nat /\ m <= Len(p)
  OBVIOUS
<1>2. 0 \in S
  BY JoinedParts
<1>3. ASSUME NEW k \in Nat, k < m, k \in S
      PROVE  k + 1 \in S
  <2>1. k + 1 \in 1..Len(p) /\ k + 1 \in 1..Len(q) /\ k + 1 \in 1..m /\ (k + 1) - 1 = k
    BY <1>1, <1>3
  <2>2. Joined(p)[k + 1] = Joined(p)[k] \o p[k + 1]
    <3>1. Joined(p)[k + 1] = Joined(p)[(k + 1) - 1] \o p[k + 1]
      BY <2>1, JoinedParts, Zenon
    <3> QED
      BY <2>1, <3>1
  <2>3. Joined(q)[k + 1] = Joined(q)[k] \o q[k + 1]
    <3>1. Joined(q)[k + 1] = Joined(q)[(k + 1) - 1] \o q[k + 1]
      BY <2>1, JoinedParts, Zenon
    <3> QED
      BY <2>1, <3>1
  <2>4. Joined(p)[k] = Joined(q)[k] /\ p[k + 1] = q[k + 1]
    BY <1>1, <1>3, <2>1
  <2>5. Joined(p)[k + 1] = Joined(q)[k + 1]
    BY <2>2, <2>3, <2>4, Zenon
  <2> QED
    BY <2>5
<1>4. \A k \in 0..m : k \in S
  <2> HIDE DEF S
  <2> QED
    BY <1>1, <1>2, <1>3, Climb
<1> QED
  BY <1>1, <1>4

(* A number is read a byte at a time. *)
LEMMA NumberGrows ==
  ASSUME NEW bytes \in Seq(Byte)
  PROVE  \E n : /\ n[0] = 0 /\ Number(bytes) = n[Len(bytes)]
                /\ \A k \in 0..Len(bytes) : n[k] \in Nat
                /\ \A k \in 1..Len(bytes) : n[k] = 256 * n[k - 1] + bytes[k]
<1> DEFINE l == Len(bytes)
           D(k) == IF k \in 1..l THEN bytes[k] ELSE 0
           G == [x \in Nat \X Nat |-> 256 * x[1] + D(x[2])]
           Is(f) == f = [k \in 0..l |-> IF k = 0 THEN 0 ELSE 256 * f[k - 1] + bytes[k]]
           num == CHOOSE f : Is(f)
<1>1. l \in Nat /\ \A k \in 1..l : bytes[k] \in Nat
  <2>1. l \in Nat /\ \A k \in 1..l : bytes[k] \in Byte
    BY ElementOfSeq
  <2>2. Byte \subseteq Nat
    BY DEF Byte
  <2> QED
    BY <2>1, <2>2
<1>2. G \in [Nat \X Nat -> Nat]
  <2>1. \A k \in Nat : D(k) \in Nat
    BY <1>1
  <2>2. \A x \in Nat \X Nat : x[1] \in Nat /\ x[2] \in Nat
    OBVIOUS
  <2> HIDE DEF D
  <2>3. \A x \in Nat \X Nat : 256 * x[1] + D(x[2]) \in Nat
    <3>1. \A u, v \in Nat : 256 * u + v \in Nat
      OBVIOUS
    <3> QED
      BY <2>1, <2>2, <3>1, Zenon
  <2> QED
    BY <2>3
<1>3. Made(Nat, 0, G, l)
  <2> HIDE DEF G, l
  <2> QED
    BY <1>1, <1>2, Recursion
<1>4. PICK f \in [0..l -> Nat] : f[0] = 0 /\ \A k \in 1..l : f[k] = G[<<f[k - 1], k>>]
  <2> HIDE DEF G, l
  <2> QED
    BY <1>3 DEF Made
<1>5. \A k \in 1..l : f[k] = 256 * f[k - 1] + bytes[k]
  <2> TAKE k \in 1..l
  <2>1. f[k - 1] \in Nat /\ k \in Nat
    BY <1>1, <1>4
  <2>2. G[<<f[k - 1], k>>] = 256 * f[k - 1] + D(k)
    <3> HIDE DEF D
    <3> QED
      BY <2>1
  <2> QED
    BY <1>4, <2>2
<1>6. Is(f)
  <2> HIDE DEF l, G
  <2> QED
    BY <1>1, <1>4, <1>5
<1>7. Is(num)
  <2> HIDE DEF Is
  <2> QED
    BY <1>6
<1>8. Number(bytes) = num[l]
  BY DEF Number
<1> HIDE DEF num
<1>9. num[0] = 0 /\ \A k \in 1..l : num[k] = 256 * num[k - 1] + bytes[k]
  BY <1>1, <1>7
<1> DEFINE S == {k \in Nat : k <= l => num[k] \in Nat}
<1>10. 0 \in S /\ \A k \in Nat : 0 <= k /\ k < l /\ k \in S => k + 1 \in S
  <2>1. 0 \in S
    BY <1>9
  <2>2. ASSUME NEW k \in Nat, k < l, k \in S
        PROVE  k + 1 \in S
    <3>1. k + 1 \in 1..l /\ (k + 1) - 1 = k /\ num[k] \in Nat
      BY <1>1, <2>2
    <3>2. num[k + 1] = 256 * num[k] + bytes[k + 1] /\ bytes[k + 1] \in Nat
      BY <1>1, <1>9, <3>1
    <3>3. num[k + 1] \in Nat
      BY <3>1, <3>2
    <3> QED
      BY <3>3
  <2> QED
    BY <2>1, <2>2
<1>11. \A k \in 0..l : num[k] \in Nat
  <2>1. \A k \in 0..l : k \in S
    <3> HIDE DEF S, l
    <3> QED
      BY <1>1, <1>10, Climb
  <2> QED
    BY <1>1, <2>1
<1> QED
  BY <1>8, <1>9, <1>11

(* An integer takes as many bytes as it is wide. *)
LEMMA BigEndianBytes ==
  ASSUME NEW n \in Nat, NEW width \in {2, 4}
  PROVE  BigEndian(n, width) \in Seq(Byte) /\ Len(BigEndian(n, width)) = width
<1>1. \A k \in 1..width : (n \div Weight[width - k + 1]) % 256 \in Byte
  <2> TAKE k \in 1..width
  <2>1. Weight[width - k + 1] \in Nat \ {0}
    <3>1. width - k + 1 \in {1, 2, 3, 4}
      OBVIOUS
    <3> QED
      BY <3>1 DEF Weight
  <2> PICK d \in Nat \ {0} : d = Weight[width - k + 1]
    BY <2>1
  <2>2. n \div d \in Nat
    OBVIOUS
  <2>3. (n \div d) % 256 \in 0..255
    BY <2>2
  <2> QED
    BY <2>3 DEF Byte
<1> QED
  BY <1>1 DEF BigEndian

(* The bytes of integers of both widths. *)
LEMMA WrittenBytes ==
  ASSUME NEW n \in Nat
  PROVE  /\ BigEndian(n, 2)[1] = (n \div 256) % 256 /\ BigEndian(n, 2)[2] = n % 256
         /\ BigEndian(n, 4)[1] = (n \div 16777216) % 256 /\ BigEndian(n, 4)[2] = (n \div 65536) % 256
         /\ BigEndian(n, 4)[3] = (n \div 256) % 256 /\ BigEndian(n, 4)[4] = n % 256
<1>1. n \div 1 = n
  BY SMT
<1>2. /\ BigEndian(n, 2)[1] = (n \div Weight[2]) % 256 /\ BigEndian(n, 2)[2] = (n \div Weight[1]) % 256
      /\ BigEndian(n, 4)[1] = (n \div Weight[4]) % 256 /\ BigEndian(n, 4)[2] = (n \div Weight[3]) % 256
      /\ BigEndian(n, 4)[3] = (n \div Weight[2]) % 256 /\ BigEndian(n, 4)[4] = (n \div Weight[1]) % 256
  BY SMT DEF BigEndian
<1> QED
  BY <1>1, <1>2, SMT DEF Weight

(* Number is the inverse of BigEndian on what a field can hold. *)
LEMMA BigEndianRead ==
  ASSUME NEW n \in Nat, NEW width \in {2, 4}, n \div Weight[width] < 256,
         NEW bytes \in Seq(Byte), Len(bytes) = width,
         \A j \in 1..width : bytes[j] = BigEndian(n, width)[j]
  PROVE  Number(bytes) = n
<1>1. PICK f : /\ f[0] = 0 /\ Number(bytes) = f[Len(bytes)]
               /\ \A k \in 0..Len(bytes) : f[k] \in Nat
               /\ \A k \in 1..Len(bytes) : f[k] = 256 * f[k - 1] + bytes[k]
  BY NumberGrows, Zenon
<1> DEFINE a == n \div 256
           b == n \div 65536
           c == n \div 16777216
<1>2. a \in Nat /\ b \in Nat /\ c \in Nat /\ n = 256 * a + (n % 256) /\ n % 256 \in Nat
  BY SMT
<1>3. a = 256 * b + (a % 256) /\ b = 256 * c + (b % 256)
  <2>1. b = a \div 256
    BY SMT
  <2>2. c = b \div 256
    BY SMT
  <2> HIDE DEF a, b, c
  <2> QED
    BY <1>2, <2>1, <2>2, SMT
<1>4. CASE width = 2
  <2>1. bytes[1] = a % 256 /\ bytes[2] = n % 256
    <3>1. bytes[1] = BigEndian(n, 2)[1] /\ bytes[2] = BigEndian(n, 2)[2]
      BY <1>4, SMT
    <3>2. BigEndian(n, 2)[1] = a % 256 /\ BigEndian(n, 2)[2] = n % 256
      BY WrittenBytes, SMT
    <3> QED
      BY <3>1, <3>2, SMT
  <2>2. a < 256
    BY <1>4, SMT DEF Weight
  <2>3. f[0] = 0 /\ f[1] = 256 * f[0] + bytes[1] /\ f[2] = 256 * f[1] + bytes[2] /\ Number(bytes) = f[2]
    BY <1>1, <1>4, SMT
  <2> HIDE DEF a
  <2>4. f[1] = a
    BY <1>2, <2>1, <2>2, <2>3, SMT
  <2> QED
    BY <1>2, <2>1, <2>3, <2>4, SMT
<1>5. CASE width = 4
  <2>1. bytes[1] = c % 256 /\ bytes[2] = b % 256 /\ bytes[3] = a % 256 /\ bytes[4] = n % 256
    <3>1. /\ bytes[1] = BigEndian(n, 4)[1] /\ bytes[2] = BigEndian(n, 4)[2]
          /\ bytes[3] = BigEndian(n, 4)[3] /\ bytes[4] = BigEndian(n, 4)[4]
      BY <1>5, SMT
    <3>2. /\ BigEndian(n, 4)[1] = c % 256 /\ BigEndian(n, 4)[2] = b % 256
          /\ BigEndian(n, 4)[3] = a % 256 /\ BigEndian(n, 4)[4] = n % 256
      BY WrittenBytes, SMT
    <3> QED
      BY <3>1, <3>2, SMT
  <2>2. c < 256
    BY <1>5, SMT DEF Weight
  <2>3. /\ f[0] = 0 /\ f[1] = 256 * f[0] + bytes[1] /\ f[2] = 256 * f[1] + bytes[2]
        /\ f[3] = 256 * f[2] + bytes[3] /\ f[4] = 256 * f[3] + bytes[4] /\ Number(bytes) = f[4]
    BY <1>1, <1>5, SMT
  <2> HIDE DEF a, b, c
  <2>4. f[1] = c
    BY <1>2, <2>1, <2>2, <2>3, SMT
  <2>5. f[2] = b
    BY <1>3, <2>1, <2>3, <2>4, SMT
  <2>6. f[3] = a
    BY <1>3, <2>1, <2>3, <2>5, SMT
  <2> QED
    BY <1>2, <2>1, <2>3, <2>6, SMT
<1> QED
  BY <1>4, <1>5, SMT
-----------------------------------------------------------------------------
Field == {Uint16, Uint32, Uint16s, String}

Received == stream \in Seq(Byte) /\ pieces \in SUBSET Nat

(* As far as the stream goes, these bytes are in it after the first `at'. *)
Agrees(at, bytes) ==
  \A j \in 1..Len(bytes) : at + j <= Len(stream) => stream[at + j] = bytes[j]

(* PieceEnd is the next end of a piece. *)
LEMMA PieceEnds ==
  ASSUME Received, NEW at \in Nat, at < Len(stream)
  PROVE  /\ PieceEnd(at) \in pieces \cup {Len(stream)} /\ PieceEnd(at) > at
         /\ PieceEnd(at) \in Nat
         /\ \A e \in pieces \cup {Len(stream)} : e > at => PieceEnd(at) <= e
<1> DEFINE E == {e \in pieces \cup {Len(stream)} : e > at}
<1>1. E \in SUBSET Nat /\ E # {}
  <2>1. Len(stream) \in Nat /\ pieces \in SUBSET Nat
    BY DEF Received
  <2>2. Len(stream) \in E
    BY <2>1
  <2> QED
    BY <2>1, <2>2
<1>2. Min(E) \in E /\ \A n \in E : Min(E) <= n
  <2> HIDE DEF E
  <2> QED
    BY <1>1, MinElement
<1>3. PieceEnd(at) = Min(E)
  BY DEF PieceEnd
<1> HIDE DEF PieceEnd
<1> PICK m : m = Min(E)
  OBVIOUS
<1>4. m \in E /\ PieceEnd(at) = m /\ \A n \in E : m <= n
  BY <1>2, <1>3
<1> QED
  BY <1>1, <1>4

(* A Read of n bytes fails when they are not there, or not in one piece. *)
LEMMA ReadNWhole ==
  ASSUME Received, NEW at \in 0..Len(stream), NEW n \in Nat
  PROVE  /\ ReadN(at, n) = Failed \/ (ReadN(at, n) = at + n /\ at + n <= Len(stream))
         /\ at + n <= Len(stream) =>
              (ReadN(at, n) = Failed <=> \E e \in pieces : at < e /\ e < at + n)
<1>1. Len(stream) \in Nat /\ pieces \in SUBSET Nat /\ at \in Nat /\ at <= Len(stream)
  BY DEF Received
<1>2. CASE n = 0
  <2>1. ReadN(at, n) = at /\ at # Failed
    BY <1>1, <1>2 DEF ReadN, Failed
  <2> QED
    BY <1>1, <1>2, <2>1
<1>3. CASE n # 0 /\ at = Len(stream)
  <2>1. ReadN(at, n) = Failed
    BY <1>1, <1>3 DEF ReadN
  <2> QED
    BY <1>1, <1>3, <2>1
<1>4. CASE n # 0 /\ at < Len(stream)
  <2>1. /\ PieceEnd(at) \in pieces \cup {Len(stream)} /\ PieceEnd(at) > at
        /\ PieceEnd(at) \in Nat
        /\ \A e \in pieces \cup {Len(stream)} : e > at => PieceEnd(at) <= e
    BY <1>1, <1>4, PieceEnds
  <2>2. PieceEnd(at) <= Len(stream)
    BY <1>1, <1>4, <2>1
  <2>3. ReadN(at, n) = IF at + n <= PieceEnd(at) THEN at + n ELSE Failed
    BY <1>4 DEF ReadN
  <2>4. CASE at + n <= PieceEnd(at)
    <3>1. ReadN(at, n) = at + n /\ at + n <= Len(stream) /\ at + n # Failed
      BY <1>1, <2>1, <2>2, <2>3, <2>4 DEF Failed
    <3>2. ~\E e \in pieces : at < e /\ e < at + n
      BY <1>1, <2>1, <2>4
    <3> QED
      BY <3>1, <3>2
  <2>5. CASE ~(at + n <= PieceEnd(at))
    <3>1. ReadN(at, n) = Failed
      BY <2>3, <2>5
    <3>2. at + n <= Len(stream) => PieceEnd(at) \in pieces /\ at < PieceEnd(at) /\ PieceEnd(at) < at + n
      BY <1>1, <2>1, <2>5
    <3> QED
      BY <1>1, <3>1, <3>2
  <2> QED
    BY <2>4, <2>5
<1> QED
  BY <1>1, <1>2, <1>3, <1>4

(* A single byte is there or is not. *)
LEMMA ReadNOne ==
  ASSUME Received, NEW at \in 0..Len(stream)
  PROVE  ReadN(at, 1) = IF at < Len(stream) THEN at + 1 ELSE Failed
<1>1. Len(stream) \in Nat /\ pieces \in SUBSET Nat /\ at \in Nat /\ at <= Len(stream)
  BY DEF Received
<1>2. CASE at < Len(stream)
  <2>1. PieceEnd(at) > at /\ PieceEnd(at) \in Nat
    BY <1>1, <1>2, PieceEnds
  <2>2. at + 1 <= PieceEnd(at)
    BY <1>1, <2>1
  <2> QED
    BY <1>2, <2>2 DEF ReadN
<1>3. CASE ~(at < Len(stream))
  BY <1>1, <1>3 DEF ReadN
<1> QED
  BY <1>2, <1>3

(* Nothing is read after the end, not even nothing. *)
LEMMA ReadNLate ==
  ASSUME Received, NEW n \in Nat
  PROVE  ReadN(Failed, n) = Failed
<1>1. Len(stream) \in Nat
  BY DEF Received
<1> QED
  BY <1>1 DEF ReadN, Failed

(* Once a read has failed, so does the next. *)
LEMMA FieldLate ==
  ASSUME Received, NEW field \in Field
  PROVE  FieldEnd(field, Failed) = Failed
<1>1. Len(stream) \in Nat
  BY DEF Received
<1>2. ReadN(Failed, 1) = Failed
  BY ReadNLate
<1>3. CASE field \in {Uint16, Uint32}
  <2>1. field.type = "int" /\ field.width \in Nat \ {0}
    BY <1>3 DEF Uint16, Uint32
  <2>2. FieldEnd(field, Failed) = ReadB(Failed, field.width)
    BY <2>1 DEF FieldEnd
  <2> QED
    BY <1>1, <2>1, <2>2 DEF ReadB, Failed
<1>4. CASE field = Uint16s
  BY <1>2, <1>4 DEF FieldEnd, ReadSlice, Uint16s
<1>5. CASE field = String
  BY <1>2, <1>5 DEF FieldEnd, ReadString, String
<1> QED
  BY <1>3, <1>4, <1>5 DEF Field

(* Bytes of the stream that agree with others are these. *)
LEMMA BytesAgree ==
  ASSUME Received, NEW at \in Nat, NEW bytes \in Seq(Byte), at + Len(bytes) <= Len(stream),
         Agrees(at, bytes)
  PROVE  Bytes(at, at + Len(bytes)) = bytes
<1> DEFINE l == Len(bytes)
           b == SubSeq(stream, at + 1, at + l)
<1>1. Len(stream) \in Nat /\ l \in Nat /\ stream \in Seq(Byte)
  BY DEF Received
<1>2. b \in Seq(Byte) /\ Len(b) = l /\ \A j \in 1..l : b[j] = stream[at + j]
  <2>1. at + 1 \in 1..Len(stream) + 1 /\ at + l \in at..Len(stream)
    BY <1>1
  <2>2. \A j \in 1..l : at + j \in 1..Len(stream)
    BY <1>1
  <2> QED
    BY <1>1, <2>1, <2>2, SubSeqProperties
<1>3. \A j \in 1..l : b[j] = bytes[j]
  BY <1>1, <1>2 DEF Agrees
<1>4. b = bytes
  <2> HIDE DEF b, l
  <2>1. l = Len(bytes)
    BY DEF l
  <2> QED
    BY <1>2, <1>3, <2>1, SeqEqual, Zenon
<1> QED
  BY <1>4 DEF Bytes

(* What reading a field at `at' gives, when its bytes were written there: it  *)
(* fails or gives back what was written; and if all its bytes have come, it   *)
(* fails only for a string that is cut after its length.                      *)
ReadsBack(field, value, at) ==
  LET end == FieldEnd(field, at)
      full == at + Len(WriteField(field, value))
  IN /\ end = Failed \/ (end = full /\ full <= Len(stream) /\ FieldValue(field, at, end) = value)
     /\ full <= Len(stream) =>
          (end = Failed <=> field = String /\ \E e \in pieces : at + 1 < e /\ e < full)

(* A length that fits a byte survives it. *)
LEMMA LengthByte ==
  ASSUME NEW l \in Nat, l < 256
  PROVE  l % 256 = l /\ l \in Byte
  BY DEF Byte

(* What is written of an integer. *)
LEMMA IntWritten ==
  ASSUME NEW field \in {Uint16, Uint32}, NEW value, Writable(field, value)
  PROVE  /\ WriteField(field, value) \in Seq(Byte)
         /\ WriteField(field, value) = BigEndian(value, field.width)
         /\ Len(WriteField(field, value)) = field.width
         /\ value \in Nat /\ value \div Weight[field.width] < 256
         /\ field.type = "int" /\ field.width \in {2, 4}
<1>1. field.type = "int" /\ field.width \in {2, 4}
  BY DEF Uint16, Uint32
<1>2. WriteField(field, value) = BigEndian(value, field.width)
  BY <1>1 DEF WriteField
<1>3. value \in Nat /\ value \div Weight[field.width] < 256
  BY <1>1 DEF Writable
<1> QED
  BY <1>1, <1>2, <1>3, BigEndianBytes

(* An integer is read back, however it was cut. *)
LEMMA IntRead ==
  ASSUME Received, NEW at \in 0..Len(stream), NEW field \in {Uint16, Uint32}, NEW value,
         Writable(field, value), Agrees(at, WriteField(field, value))
  PROVE  ReadsBack(field, value, at)
<1> DEFINE w == WriteField(field, value)
           width == field.width
<1>1. /\ w \in Seq(Byte) /\ w = BigEndian(value, width) /\ Len(w) = width
      /\ value \in Nat /\ value \div Weight[width] < 256
      /\ field.type = "int" /\ width \in {2, 4}
  BY IntWritten
<1>2. field # String
  BY <1>1 DEF String
<1>3. FieldEnd(field, at) = ReadB(at, width)
  BY <1>1 DEF FieldEnd
<1>4. Len(stream) \in Nat /\ at \in Nat /\ width \in Nat
  BY <1>1 DEF Received
<1> HIDE DEF w, width
<1>5. CASE at + width <= Len(stream)
  <2>1. FieldEnd(field, at) = at + width /\ at + width # Failed
    BY <1>3, <1>4, <1>5 DEF ReadB, Failed
  <2>2. Bytes(at, at + width) = w
    <3>1. at + Len(w) <= Len(stream) /\ Agrees(at, w)
      BY <1>1, <1>5 DEF w
    <3>2. Bytes(at, at + Len(w)) = w
      BY <1>1, <1>4, <3>1, BytesAgree
    <3> QED
      BY <1>1, <3>2
  <2>3. Number(w) = value
    BY <1>1, BigEndianRead, Zenon
  <2>4. FieldValue(field, at, at + width) = value
    BY <1>1, <2>2, <2>3 DEF FieldValue
  <2> QED
    BY <1>1, <1>2, <1>5, <2>1, <2>4 DEF ReadsBack, w
<1>6. CASE ~(at + width <= Len(stream))
  <2>1. FieldEnd(field, at) = Failed
    BY <1>3, <1>4, <1>6 DEF ReadB
  <2> QED
    BY <1>1, <1>6, <2>1 DEF ReadsBack, w
<1> QED
  BY <1>5, <1>6

(* What is written of a string: its length, and its bytes. *)
LEMMA StringWritten ==
  ASSUME NEW value, Writable(String, value)
  PROVE  /\ WriteField(String, value) \in Seq(Byte)
         /\ Len(WriteField(String, value)) = 1 + Len(value)
         /\ WriteField(String, value)[1] = Len(value)
         /\ \A j \in 1..Len(value) : WriteField(String, value)[1 + j] = value[j]
         /\ value \in Seq(Byte) /\ Len(value) \in Nat /\ Len(value) < 256
         /\ String.type = "string"
<1>1. String.type = "string"
  BY DEF String
<1>2. WriteField(String, value) = <<Len(value) % 256>> \o value
  BY <1>1 DEF WriteField
<1>3. value \in Seq(Byte) /\ Len(value) \in Nat /\ Len(value) < 256
  BY <1>1 DEF Writable
<1>4. Len(value) % 256 = Len(value) /\ Len(value) \in Byte
  BY <1>3, LengthByte, Zenon
<1>5. <<Len(value)>> \in Seq(Byte) /\ Len(<<Len(value)>>) = 1 /\ <<Len(value)>>[1] = Len(value)
  BY <1>4
<1>6. /\ <<Len(value)>> \o value \in Seq(Byte)
      /\ Len(<<Len(value)>> \o value) = Len(<<Len(value)>>) + Len(value)
      /\ \A j \in 1..Len(<<Len(value)>>) : (<<Len(value)>> \o value)[j] = <<Len(value)>>[j]
      /\ \A j \in 1..Len(value) : (<<Len(value)>> \o value)[Len(<<Len(value)>>) + j] = value[j]
  BY <1>3, <1>5, Concatenated, Zenon
<1> DEFINE w == <<Len(value)>> \o value
<1>7. WriteField(String, value) = w
  BY <1>2, <1>4
<1>8. w \in Seq(Byte) /\ Len(w) = 1 + Len(value) /\ w[1] = Len(value) /\ \A j \in 1..Len(value) : w[1 + j] = value[j]
  BY <1>5, <1>6
<1> HIDE DEF w
<1> QED
  BY <1>1, <1>3, <1>7, <1>8, Zenon

(* A string is read back unless it was cut after its length. *)
LEMMA StringRead ==
  ASSUME Received, NEW at \in 0..Len(stream), NEW value,
         Writable(String, value), Agrees(at, WriteField(String, value))
  PROVE  ReadsBack(String, value, at)
<1> DEFINE w == WriteField(String, value)
           l == Len(value)
<1>1. /\ w \in Seq(Byte) /\ Len(w) = 1 + l /\ w[1] = l /\ \A j \in 1..l : w[1 + j] = value[j]
      /\ value \in Seq(Byte) /\ l \in Nat /\ String.type = "string"
  BY StringWritten
<1>2. FieldEnd(String, at) = ReadString(at)
  BY <1>1 DEF FieldEnd
<1>3. Len(stream) \in Nat /\ at \in Nat /\ at <= Len(stream)
  BY DEF Received
<1>4. Agrees(at, w)
  OBVIOUS
<1> HIDE DEF w, l
<1>5. CASE at = Len(stream)
  <2>1. FieldEnd(String, at) = Failed
    BY <1>2, <1>3, <1>5, ReadNOne DEF ReadString
  <2>2. ~(at + Len(w) <= Len(stream))
    BY <1>1, <1>3, <1>5
  <2> QED
    BY <2>1, <2>2 DEF ReadsBack, w
<1>6. CASE at < Len(stream)
  <2>1. stream[at + 1] = l
    <3>1. 1 \in 1..Len(w) /\ at + 1 <= Len(stream)
      BY <1>1, <1>3, <1>6
    <3> QED
      BY <1>1, <1>4, <3>1 DEF Agrees
  <2>2. FieldEnd(String, at) = ReadN(at + 1, l)
    <3>1. ReadN(at, 1) = at + 1 /\ at + 1 # Failed
      BY <1>3, <1>6, ReadNOne DEF Failed
    <3> QED
      BY <1>2, <2>1, <3>1 DEF ReadString
  <2>3. /\ ReadN(at + 1, l) = Failed \/ (ReadN(at + 1, l) = at + 1 + l /\ at + 1 + l <= Len(stream))
        /\ at + 1 + l <= Len(stream) =>
             (ReadN(at + 1, l) = Failed <=> \E e \in pieces : at + 1 < e /\ e < at + 1 + l)
    <3>1. at + 1 \in 0..Len(stream)
      BY <1>3, <1>6
    <3> QED
      BY <1>1, <3>1, ReadNWhole
  <2>4. ASSUME at + 1 + l <= Len(stream)
        PROVE  FieldValue(String, at, at + 1 + l) = value
    <3>1. Agrees(at + 1, value)
      <4> SUFFICES ASSUME NEW j \in 1..l, (at + 1) + j <= Len(stream)
                   PROVE  stream[(at + 1) + j] = value[j]
        BY DEF Agrees, l
      <4>1. 1 + j \in 1..Len(w) /\ at + (1 + j) <= Len(stream) /\ at + (1 + j) = (at + 1) + j
        BY <1>1, <1>3
      <4>2. stream[at + (1 + j)] = w[1 + j]
        BY <1>4, <4>1, Zenon DEF Agrees
      <4> QED
        BY <1>1, <4>1, <4>2
    <3>2. Bytes(at + 1, (at + 1) + Len(value)) = value
      <4>1. (at + 1) + Len(value) <= Len(stream) /\ at + 1 \in Nat
        BY <1>3, <2>4 DEF l
      <4> QED
        BY <1>1, <3>1, <4>1, BytesAgree
    <3>3. FieldValue(String, at, at + 1 + l) = Bytes(at + 1, at + 1 + l)
      BY <1>1 DEF FieldValue
    <3> QED
      BY <3>2, <3>3 DEF l
  <2>5. at + Len(w) = at + 1 + l
    BY <1>1, <1>3
  <2> QED
    BY <2>2, <2>3, <2>4, <2>5 DEF ReadsBack, w
<1> QED
  BY <1>3, <1>5, <1>6

(* The elements of a list are written one after another, two bytes each. *)
Elements(value) == [k \in 1..Len(value) |-> BigEndian(value[k], 2)]

(* What is written of a list: its length, and element after element. *)
LEMMA SliceWritten ==
  ASSUME NEW value, Writable(Uint16s, value)
  PROVE  /\ WriteField(Uint16s, value) \in Seq(Byte)
         /\ Len(WriteField(Uint16s, value)) = 1 + 2 * Len(value)
         /\ WriteField(Uint16s, value)[1] = Len(value)
         /\ \A k \in 1..Len(value) : \A j \in 1..2 :
              WriteField(Uint16s, value)[1 + (2 * (k - 1) + j)] = BigEndian(value[k], 2)[j]
         /\ value \in Seq(Nat) /\ Len(value) \in Nat
         /\ \A k \in 1..Len(value) : value[k] \in Nat /\ value[k] \div Weight[2] < 256
         /\ Uint16s.type = "slice" /\ Uint16s.width = 2
<1> DEFINE E == Elements(value)
           l == Len(value)
           J(k) == Joined(E)[k]
<1>1. Uint16s.type = "slice" /\ Uint16s.width = 2
  BY DEF Uint16s
<1>2. WriteField(Uint16s, value) = <<l % 256>> \o J(l)
  BY <1>1 DEF WriteField, Elements
<1>3. /\ value \in Seq(Nat) /\ l \in Nat /\ l < 256
      /\ \A k \in 1..l : value[k] \div Weight[2] < 256
  BY <1>1 DEF Writable
<1>4. \A k \in 1..l : value[k] \in Nat
  BY <1>3
<1>5. l % 256 = l /\ l \in Byte
  BY <1>3, LengthByte, Zenon
<1>6. /\ E \in Seq(Seq(Byte)) /\ Len(E) = l
      /\ \A k \in 1..l : E[k] = BigEndian(value[k], 2) /\ E[k] \in Seq(Byte) /\ Len(E[k]) = 2
  <2>1. \A k \in 1..l : BigEndian(value[k], 2) \in Seq(Byte) /\ Len(BigEndian(value[k], 2)) = 2
    <3> TAKE k \in 1..l
    <3>1. value[k] \in Nat /\ 2 \in {2, 4}
      BY <1>4
    <3> QED
      BY <3>1, BigEndianBytes
  <2> HIDE DEF l
  <2>2. E = [k \in 1..l |-> BigEndian(value[k], 2)]
    BY DEF Elements, l
  <2> HIDE DEF E
  <2> QED
    BY <1>3, <2>1, <2>2
<1> HIDE DEF E, l
<1>7. \A k \in 0..l : J(k) \in Seq(Byte) /\ Len(J(k)) = 2 * k
  <2> DEFINE S == {k \in Nat : k <= l => Len(J(k)) = 2 * k}
  <2>1. \A k \in 0..l : J(k) \in Seq(Byte)
    BY <1>6, JoinedParts
  <2>2. 0 \in S
    <3>1. J(0) = <<>>
      BY <1>6, JoinedParts
    <3> QED
      BY <3>1
  <2>3. ASSUME NEW k \in Nat, k < l, k \in S
        PROVE  k + 1 \in S
    <3>1. k + 1 \in 1..l /\ (k + 1) - 1 = k /\ k + 1 \in (k + 1)..Len(E)
      BY <1>3, <1>6, <2>3
    <3>2. Len(J(k + 1)) = Len(J((k + 1) - 1)) + Len(E[k + 1])
      BY <1>6, <3>1, JoinedAt
    <3>3. Len(J(k)) = 2 * k /\ Len(E[k + 1]) = 2
      BY <1>3, <1>6, <2>3, <3>1
    <3>4. Len(J(k + 1)) = 2 * (k + 1)
      BY <3>1, <3>2, <3>3
    <3> QED
      BY <3>4
  <2>4. \A k \in 0..l : k \in S
    <3> HIDE DEF S
    <3> QED
      BY <1>3, <2>2, <2>3, Climb
  <2> QED
    BY <1>3, <2>1, <2>4
<1>8. \A k \in 1..l : \A j \in 1..2 : J(l)[2 * (k - 1) + j] = BigEndian(value[k], 2)[j]
  <2> TAKE k \in 1..l
  <2> TAKE j \in 1..2
  <2>1. k \in 1..Len(E) /\ l \in k..Len(E) /\ k - 1 \in 0..l
    BY <1>3, <1>6
  <2>2. \A i \in 1..Len(E[k]) : J(l)[Len(J(k - 1)) + i] = E[k][i]
    BY <1>6, <2>1, JoinedAt
  <2>3. Len(J(k - 1)) = 2 * (k - 1) /\ Len(E[k]) = 2 /\ E[k] = BigEndian(value[k], 2)
    BY <1>6, <1>7, <2>1
  <2> QED
    BY <2>2, <2>3, Zenon
<1>9. J(l) \in Seq(Byte) /\ Len(J(l)) = 2 * l
  BY <1>3, <1>7
<1> HIDE DEF J
<1>10. <<l>> \in Seq(Byte) /\ Len(<<l>>) = 1 /\ <<l>>[1] = l
  BY <1>5
<1>11. /\ <<l>> \o J(l) \in Seq(Byte)
       /\ Len(<<l>> \o J(l)) = Len(<<l>>) + Len(J(l))
       /\ \A j \in 1..Len(<<l>>) : (<<l>> \o J(l))[j] = <<l>>[j]
       /\ \A j \in 1..Len(J(l)) : (<<l>> \o J(l))[Len(<<l>>) + j] = J(l)[j]
  BY <1>9, <1>10, Concatenated, Zenon
<1> DEFINE w == <<l>> \o J(l)
<1>12. WriteField(Uint16s, value) = w
  BY <1>2, <1>5
<1>13. w \in Seq(Byte) /\ Len(w) = 1 + 2 * l /\ w[1] = l /\ \A j \in 1..Len(J(l)) : w[1 + j] = J(l)[j]
  BY <1>9, <1>10, <1>11
<1> HIDE DEF w
<1>14. \A k \in 1..l : \A j \in 1..2 : w[1 + (2 * (k - 1) + j)] = BigEndian(value[k], 2)[j]
  <2> TAKE k \in 1..l
  <2> TAKE j \in 1..2
  <2>1. 2 * (k - 1) + j \in 1..Len(J(l))
    BY <1>3, <1>9
  <2> QED
    BY <1>8, <1>13, <2>1, Zenon
<1> QED
  BY <1>1, <1>3, <1>4, <1>12, <1>13, <1>14, Zenon DEF l

(* A list is read back, however it was cut. *)
LEMMA SliceRead ==
  ASSUME Received, NEW at \in 0..Len(stream), NEW value,
         Writable(Uint16s, value), Agrees(at, WriteField(Uint16s, value))
  PROVE  ReadsBack(Uint16s, value, at)
<1> DEFINE w == WriteField(Uint16s, value)
           l == Len(value)
<1>1. /\ w \in Seq(Byte) /\ Len(w) = 1 + 2 * l /\ w[1] = l
      /\ \A k \in 1..l : \A j \in 1..2 : w[1 + (2 * (k - 1) + j)] = BigEndian(value[k], 2)[j]
      /\ value \in Seq(Nat) /\ l \in Nat
      /\ \A k \in 1..l : value[k] \in Nat /\ value[k] \div Weight[2] < 256
      /\ Uint16s.type = "slice" /\ Uint16s.width = 2
  BY SliceWritten
<1>2. FieldEnd(Uint16s, at) = ReadSlice(at, 2) /\ Uint16s # String
  BY <1>1 DEF FieldEnd, String
<1>3. Len(stream) \in Nat /\ at \in Nat /\ at <= Len(stream) /\ stream \in Seq(Byte)
  BY DEF Received
<1>4. Agrees(at, w)
  OBVIOUS
<1> HIDE DEF w, l
<1>5. CASE at = Len(stream)
  <2>1. FieldEnd(Uint16s, at) = Failed
    BY <1>2, <1>3, <1>5, ReadNOne DEF ReadSlice
  <2>2. ~(at + Len(w) <= Len(stream))
    BY <1>1, <1>3, <1>5
  <2> QED
    BY <2>1, <2>2 DEF ReadsBack, w
<1>6. CASE at < Len(stream)
  <2>1. stream[at + 1] = l
    <3>1. 1 \in 1..Len(w) /\ at + 1 <= Len(stream)
      BY <1>1, <1>3, <1>6
    <3> QED
      BY <1>1, <1>4, <3>1 DEF Agrees
  <2>2. FieldEnd(Uint16s, at) = ReadB(at + 1, 2 * l)
    <3>1. ReadN(at, 1) = at + 1 /\ at + 1 # Failed
      BY <1>3, <1>6, ReadNOne DEF Failed
    <3> QED
      BY <1>2, <2>1, <3>1 DEF ReadSlice
  <2>3. at + Len(w) = at + 1 + 2 * l
    BY <1>1, <1>3
  <2>4. CASE at + 1 + 2 * l <= Len(stream)
    <3>1. FieldEnd(Uint16s, at) = at + 1 + 2 * l /\ at + 1 + 2 * l # Failed
      BY <1>1, <1>3, <2>2, <2>4 DEF ReadB, Failed
    <3> DEFINE from(k) == at + 1 + (k - 1) * 2
               to(k) == at + 1 + k * 2
    <3>2. ASSUME NEW k \in 1..l
          PROVE  Number(Bytes(from(k), to(k))) = value[k]
      <4> DEFINE e == BigEndian(value[k], 2)
      <4>1. value[k] \in Nat /\ value[k] \div Weight[2] < 256 /\ 2 \in {2, 4}
        BY <1>1
      <4>2. e \in Seq(Byte) /\ Len(e) = 2
        BY <4>1, BigEndianBytes
      <4> HIDE DEF e
      <4>3. from(k) \in Nat /\ from(k) + 2 = to(k) /\ from(k) + 2 <= Len(stream)
        BY <1>1, <1>3, <2>4
      <4>4. \A j \in 1..2 : stream[from(k) + j] = e[j]
        <5> TAKE j \in 1..2
        <5>1. /\ 1 + (2 * (k - 1) + j) \in 1..Len(w)
              /\ at + (1 + (2 * (k - 1) + j)) <= Len(stream)
              /\ at + (1 + (2 * (k - 1) + j)) = from(k) + j
          BY <1>1, <1>3, <2>4
        <5>2. stream[at + (1 + (2 * (k - 1) + j))] = w[1 + (2 * (k - 1) + j)]
          BY <1>4, <5>1, Zenon DEF Agrees
        <5>3. w[1 + (2 * (k - 1) + j)] = e[j]
          BY <1>1, Zenon DEF e
        <5> HIDE DEF from
        <5> QED
          BY <5>1, <5>2, <5>3, Zenon
      <4> HIDE DEF from, to
      <4>5. Bytes(from(k), to(k)) = e
        <5>1. Agrees(from(k), e) /\ from(k) + Len(e) <= Len(stream)
          BY <4>2, <4>3, <4>4 DEF Agrees
        <5>2. Bytes(from(k), from(k) + Len(e)) = e
          BY <4>2, <4>3, <5>1, BytesAgree
        <5> QED
          BY <4>2, <4>3, <5>2
      <4>6. \A j \in 1..2 : e[j] = BigEndian(value[k], 2)[j]
        BY DEF e
      <4>7. Number(e) = value[k]
        BY <4>1, <4>2, <4>6, BigEndianRead, Zenon
      <4> QED
        BY <4>5, <4>7
    <3> HIDE DEF from, to
    <3>3. FieldValue(Uint16s, at, at + 1 + 2 * l) = [k \in 1..l |-> Number(Bytes(from(k), to(k)))]
      BY <1>1, <2>1 DEF FieldValue, from, to
    <3>4. value = [k \in 1..l |-> value[k]]
      BY <1>1 DEF l
    <3>5. FieldValue(Uint16s, at, at + 1 + 2 * l) = value
      BY <3>2, <3>3, <3>4
    <3> QED
      BY <1>2, <2>3, <2>4, <3>1, <3>5 DEF ReadsBack, w
  <2>5. CASE ~(at + 1 + 2 * l <= Len(stream))
    <3>1. FieldEnd(Uint16s, at) = Failed
      BY <1>1, <1>3, <2>2, <2>5 DEF ReadB
    <3> QED
      BY <2>3, <2>5, <3>1 DEF ReadsBack, w
  <2> QED
    BY <2>4, <2>5
<1> QED
  BY <1>3, <1>5, <1>6

(* Every field is read back. *)
LEMMA FieldRead ==
  ASSUME Received, NEW at \in 0..Len(stream), NEW field \in Field, NEW value,
         Writable(field, value), Agrees(at, WriteField(field, value))
  PROVE  ReadsBack(field, value, at)
<1>1. CASE field \in {Uint16, Uint32}
  BY <1>1, IntRead, Zenon
<1>2. CASE field = Uint16s
  BY <1>2, SliceRead, Zenon
<1>3. CASE field = String
  BY <1>3, StringRead, Zenon
<1> QED
  BY <1>1, <1>2, <1>3 DEF Field

(* Every field is written as bytes. *)
LEMMA FieldWritten ==
  ASSUME NEW field \in Field, NEW value, Writable(field, value)
  PROVE  WriteField(field, value) \in Seq(Byte)
<1>1. CASE field \in {Uint16, Uint32}
  BY <1>1, IntWritten, Zenon
<1>2. CASE field = Uint16s
  BY <1>2, SliceWritten, Zenon
<1>3. CASE field = String
  BY <1>3, StringWritten, Zenon
<1> QED
  BY <1>1, <1>2, <1>3 DEF Field

(* Opcodes are bytes and tell the kinds apart; only a first field is a       *)
(* string.                                                                   *)
LEMMA KindFacts ==
  /\ \A k \in Kind : /\ k.opcode \in Byte /\ k.fields \in Seq(Field)
                     /\ \A i \in 1..Len(k.fields) : k.fields[i] = String => i = 1
  /\ \A k, l \in Kind : k.opcode = l.opcode => k = l
<1> DEFINE Right(k) == /\ k.opcode \in Byte /\ k.fields \in Seq(Field)
                       /\ \A i \in 1..Len(k.fields) : k.fields[i] = String => i = 1
<1>1. /\ Uint16 \in Field /\ Uint32 \in Field /\ Uint16s \in Field /\ String \in Field
      /\ Uint16 # String /\ Uint32 # String /\ Uint16s # String
  <2>1. Uint16.type # String.type /\ Uint32.type # String.type /\ Uint16s.type # String.type
    BY DEF Uint16, Uint32, Uint16s, String
  <2> QED
    BY <2>1 DEF Field
<1>2. Right(IAmCameraPacket)
  BY <1>1 DEF IAmCameraPacket, Byte
<1>3. Right(IAmDispatcherPacket)
  BY <1>1 DEF IAmDispatcherPacket, Byte
<1>4. Right(ErrorPacket)
  BY <1>1 DEF ErrorPacket, Byte
<1>5. Right(PlatePacket)
  BY <1>1 DEF PlatePacket, Byte
<1>6. Right(TicketPacket)
  BY <1>1 DEF TicketPacket, Byte
<1>7. Right(WantHeartbeatPacket)
  BY <1>1 DEF WantHeartbeatPacket, Byte
<1>8. Right(HeartbeatPacket)
  BY <1>1 DEF HeartbeatPacket, Byte
<1>9. /\ IAmCameraPacket.opcode = 128 /\ IAmDispatcherPacket.opcode = 129 /\ ErrorPacket.opcode = 16
      /\ PlatePacket.opcode = 32 /\ TicketPacket.opcode = 33 /\ WantHeartbeatPacket.opcode = 64
      /\ HeartbeatPacket.opcode = 65
  BY DEF IAmCameraPacket, IAmDispatcherPacket, ErrorPacket, PlatePacket, TicketPacket,
         WantHeartbeatPacket, HeartbeatPacket
<1> HIDE DEF Right
<1>10. \A k \in Kind : Right(k)
  BY <1>2, <1>3, <1>4, <1>5, <1>6, <1>7, <1>8 DEF Kind
<1>11. \A k, l \in Kind : k.opcode = l.opcode => k = l
  BY <1>9, SMT DEF Kind
<1> QED
  BY <1>10, <1>11 DEF Right
-----------------------------------------------------------------------------
(* The bytes of a packet's fields, one part for each. *)
FieldParts(packet) ==
  [k \in 1..Len(packet.kind.fields) |-> WriteField(packet.kind.fields[k], packet.values[k])]

(* A packet has one writable value for each of its fields. *)
LEMMA PacketFacts ==
  ASSUME NEW packet \in Packet
  PROVE  /\ packet.kind \in Kind /\ packet = [kind |-> packet.kind, values |-> packet.values]
         /\ packet.kind.fields \in Seq(Field) /\ Len(packet.kind.fields) \in Nat
         /\ packet.kind.opcode \in Byte
         /\ packet.values = [k \in 1..Len(packet.kind.fields) |-> packet.values[k]]
         /\ \A k \in 1..Len(packet.kind.fields) :
              /\ packet.kind.fields[k] \in Field
              /\ Writable(packet.kind.fields[k], packet.values[k])
<1>1. PICK k \in Kind : \E v \in Value[k.opcode] : packet = [kind |-> k, values |-> v]
  BY DEF Packet
<1>2. PICK v \in Value[k.opcode] : packet = [kind |-> k, values |-> v]
  BY <1>1
<1>3. packet.kind = k /\ packet.values = v
  BY <1>2
<1>4. k.fields \in Seq(Field) /\ k.opcode \in Byte
  BY KindFacts
<1>5. \A i \in 1..Len(k.fields) : k.fields[i] \in Field
  BY <1>4, ElementOfSeq
<1>6. v = [f \in 1..Len(k.fields) |-> v[f]] /\ \A f \in 1..Len(k.fields) : Writable(k.fields[f], v[f])
  BY WireAssumption, Zenon
<1>7. Len(k.fields) \in Nat
  BY <1>4
<1> QED
  BY <1>2, <1>3, <1>4, <1>5, <1>6, <1>7, Zenon

(* What is written of a packet: its opcode, and field after field. *)
LEMMA PacketWritten ==
  ASSUME NEW packet \in Packet
  PROVE  LET fields == packet.kind.fields
             full == Fields(packet)[Len(fields)]
         IN /\ FieldParts(packet) \in Seq(Seq(Byte)) /\ Len(FieldParts(packet)) = Len(fields)
            /\ \A k \in 1..Len(fields) : FieldParts(packet)[k] = WriteField(fields[k], packet.values[k])
            /\ Fields(packet) = Joined(FieldParts(packet))
            /\ full \in Seq(Byte) /\ Marshal(packet) \in Seq(Byte)
            /\ Len(Marshal(packet)) = 1 + Len(full)
            /\ Marshal(packet)[1] = packet.kind.opcode
            /\ \A j \in 1..Len(full) : Marshal(packet)[1 + j] = full[j]
<1> DEFINE fields == packet.kind.fields
           n == Len(fields)
           full == Fields(packet)[n]
           op == <<packet.kind.opcode>>
<1>1. /\ n \in Nat /\ packet.kind.opcode \in Byte
      /\ \A k \in 1..n : fields[k] \in Field /\ Writable(fields[k], packet.values[k])
  BY PacketFacts
<1>2. /\ FieldParts(packet) \in Seq(Seq(Byte)) /\ Len(FieldParts(packet)) = n
      /\ \A k \in 1..n : FieldParts(packet)[k] = WriteField(fields[k], packet.values[k])
  <2>1. \A k \in 1..n : WriteField(fields[k], packet.values[k]) \in Seq(Byte)
    BY <1>1, FieldWritten
  <2>2. FieldParts(packet) = [k \in 1..n |-> WriteField(fields[k], packet.values[k])]
    BY DEF FieldParts
  <2> HIDE DEF n, fields
  <2> QED
    BY <1>1, <2>1, <2>2
<1>3. Fields(packet) = Joined(FieldParts(packet))
  BY DEF Fields, FieldParts
<1>4. full \in Seq(Byte)
  <2>1. n \in 0..Len(FieldParts(packet))
    BY <1>1, <1>2
  <2> QED
    BY <1>2, <1>3, <2>1, JoinedParts
<1>5. op \in Seq(Byte) /\ Len(op) = 1 /\ op[1] = packet.kind.opcode
  BY <1>1
<1> HIDE DEF full, op
<1>6. /\ op \o full \in Seq(Byte) /\ Len(op \o full) = Len(op) + Len(full)
      /\ \A j \in 1..Len(op) : (op \o full)[j] = op[j]
      /\ \A j \in 1..Len(full) : (op \o full)[Len(op) + j] = full[j]
  BY <1>4, <1>5, Concatenated, Zenon
<1> DEFINE all == op \o full
<1>7. Marshal(packet) = all
  BY DEF Marshal, full, op
<1>8. /\ all \in Seq(Byte) /\ Len(all) = 1 + Len(full) /\ all[1] = packet.kind.opcode
      /\ \A j \in 1..Len(full) : all[1 + j] = full[j]
  BY <1>5, <1>6
<1> HIDE DEF all
<1> QED
  BY <1>2, <1>3, <1>4, <1>7, <1>8, Zenon DEF full

(* A field ends somewhere, or at Failed. *)
LEMMA FieldEndIsNat ==
  ASSUME Received, NEW field \in Field, NEW at \in Nat
  PROVE  FieldEnd(field, at) \in Nat
<1>1. Len(stream) \in Nat /\ Failed \in Nat
  BY DEF Received, Failed
<1>2. \A n \in Nat : ReadN(at, n) \in Nat /\ ReadB(at, n) \in Nat
  BY <1>1 DEF ReadN, ReadB
<1>3. ReadN(at, 1) = Failed \/ (ReadN(at, 1) = at + 1 /\ at + 1 \in 1..Len(stream))
  BY <1>1 DEF ReadN
<1>4. \A start \in 1..Len(stream) : stream[start] \in Nat
  <2>1. \A start \in 1..Len(stream) : stream[start] \in Byte
    BY ElementOfSeq DEF Received
  <2>2. Byte \subseteq Nat
    BY DEF Byte
  <2> QED
    BY <2>1, <2>2
<1>5. CASE field \in {Uint16, Uint32}
  <2>1. field.type = "int" /\ field.width \in Nat
    BY <1>5 DEF Uint16, Uint32
  <2>2. FieldEnd(field, at) = ReadB(at, field.width)
    BY <2>1 DEF FieldEnd
  <2> QED
    BY <1>2, <2>1, <2>2
<1>6. CASE field = Uint16s
  <2>1. FieldEnd(field, at) = ReadSlice(at, 2)
    BY <1>6 DEF FieldEnd, Uint16s
  <2>2. CASE ReadN(at, 1) = Failed
    BY <1>1, <2>1, <2>2 DEF ReadSlice
  <2>3. CASE ReadN(at, 1) # Failed
    <3>1. at + 1 \in 1..Len(stream) /\ ReadSlice(at, 2) = ReadB(at + 1, 2 * stream[at + 1])
      BY <1>3, <2>3 DEF ReadSlice
    <3>2. 2 * stream[at + 1] \in Nat /\ at + 1 \in Nat
      BY <1>4, <3>1
    <3> QED
      BY <1>1, <2>1, <3>1, <3>2 DEF ReadB
  <2> QED
    BY <2>2, <2>3
<1>7. CASE field = String
  <2>1. FieldEnd(field, at) = ReadString(at)
    BY <1>7 DEF FieldEnd, String
  <2>2. CASE ReadN(at, 1) = Failed
    BY <1>1, <2>1, <2>2 DEF ReadString
  <2>3. CASE ReadN(at, 1) # Failed
    <3>1. at + 1 \in 1..Len(stream) /\ ReadString(at) = ReadN(at + 1, stream[at + 1])
      BY <1>3, <2>3 DEF ReadString
    <3>2. stream[at + 1] \in Nat /\ at + 1 \in Nat
      BY <1>4, <3>1
    <3> QED
      BY <1>1, <2>1, <3>1, <3>2 DEF ReadN
  <2> QED
    BY <2>2, <2>3
<1> QED
  BY <1>5, <1>6, <1>7 DEF Field

(* FieldEnds is the recursion it looks like: each field begins where the one *)
(* before it ended.                                                          *)
LEMMA EndAfterEnd ==
  ASSUME Received, NEW kind \in Kind, NEW at \in Nat
  PROVE  /\ FieldEnds(kind, at)[0] = at
         /\ \A k \in 1..Len(kind.fields) :
              FieldEnds(kind, at)[k] = FieldEnd(kind.fields[k], FieldEnds(kind, at)[k - 1])
<1> DEFINE n == Len(kind.fields)
           D(k) == IF k \in 1..n THEN kind.fields[k] ELSE Uint16
           G == [x \in Nat \X Nat |-> FieldEnd(D(x[2]), x[1])]
           Is(f) == f = [k \in 0..n |-> IF k = 0 THEN at ELSE FieldEnd(kind.fields[k], f[k - 1])]
<1>1. n \in Nat /\ \A k \in 1..n : kind.fields[k] \in Field
  BY KindFacts, ElementOfSeq
<1>2. \A k \in Nat : D(k) \in Field
  BY <1>1 DEF Field
<1>3. G \in [Nat \X Nat -> Nat]
  <2>1. \A x \in Nat \X Nat : x[1] \in Nat /\ x[2] \in Nat
    OBVIOUS
  <2> HIDE DEF D
  <2>2. \A x \in Nat \X Nat : FieldEnd(D(x[2]), x[1]) \in Nat
    BY <1>2, <2>1, FieldEndIsNat
  <2> QED
    BY <2>2
<1>4. Made(Nat, at, G, n)
  <2> HIDE DEF G, n
  <2> QED
    BY <1>1, <1>3, Recursion
<1>5. PICK f \in [0..n -> Nat] : f[0] = at /\ \A k \in 1..n : f[k] = G[<<f[k - 1], k>>]
  <2> HIDE DEF G, n
  <2> QED
    BY <1>4 DEF Made
<1>6. \A k \in 1..n : f[k] = FieldEnd(kind.fields[k], f[k - 1])
  <2> TAKE k \in 1..n
  <2>1. f[k - 1] \in Nat /\ k \in Nat
    BY <1>1, <1>5
  <2>2. G[<<f[k - 1], k>>] = FieldEnd(D(k), f[k - 1])
    <3> HIDE DEF D
    <3> QED
      BY <2>1
  <2> QED
    BY <1>5, <2>2
<1>7. Is(f)
  <2> HIDE DEF n, G
  <2> QED
    BY <1>1, <1>5, <1>6
<1>8. Is(FieldEnds(kind, at))
  BY <1>7 DEF FieldEnds
<1> DEFINE ends == FieldEnds(kind, at)
           Next(e, k) == FieldEnd(kind.fields[k], e)
           H == [k \in 0..n |-> IF k = 0 THEN at ELSE Next(ends[k - 1], k)]
<1>9. ends = H
  BY <1>8
<1>10. ends[0] = at /\ \A k \in 1..n : ends[k] = Next(ends[k - 1], k)
  <2>1. H[0] = at /\ \A k \in 1..n : H[k] = Next(ends[k - 1], k)
    <3> HIDE DEF ends, Next, n
    <3> QED
      BY <1>1
  <2> HIDE DEF ends, Next, H
  <2> QED
    BY <1>9, <2>1, Zenon
<1> QED
  BY <1>10

(* Where field k begins, it can be read back, and where it ends the next one *)
(* begins.                                                                   *)
LEMMA NextField ==
  ASSUME Received, NEW packet \in Packet, NEW at \in Nat, Agrees(at, Marshal(packet)),
         NEW k \in 1..Len(packet.kind.fields),
         at + 1 + Len(Fields(packet)[k - 1]) <= Len(stream)
  PROVE  /\ ReadsBack(packet.kind.fields[k], packet.values[k], at + 1 + Len(Fields(packet)[k - 1]))
         /\ (at + 1 + Len(Fields(packet)[k - 1]))
              + Len(WriteField(packet.kind.fields[k], packet.values[k]))
              = at + 1 + Len(Fields(packet)[k])
         /\ Len(Fields(packet)[k]) \in Nat
         /\ at + 1 + Len(Fields(packet)[k]) <= at + Len(Marshal(packet))
<1> DEFINE n == Len(packet.kind.fields)
           part == WriteField(packet.kind.fields[k], packet.values[k])
           before == Fields(packet)[k - 1]
           after == Fields(packet)[k]
           full == Fields(packet)[n]
           bytes == Marshal(packet)
<1>1. /\ FieldParts(packet) \in Seq(Seq(Byte)) /\ Len(FieldParts(packet)) = n
      /\ FieldParts(packet)[k] = part /\ Fields(packet) = Joined(FieldParts(packet))
      /\ bytes \in Seq(Byte) /\ Len(bytes) = 1 + Len(full)
      /\ \A j \in 1..Len(full) : bytes[1 + j] = full[j]
  BY PacketWritten
<1>2. /\ part \in Seq(Byte) /\ before \in Seq(Byte) /\ full \in Seq(Byte)
      /\ Len(after) = Len(before) + Len(part) /\ Len(after) <= Len(full)
      /\ \A j \in 1..Len(part) : full[Len(before) + j] = part[j]
  <2>1. k \in 1..Len(FieldParts(packet)) /\ n \in k..Len(FieldParts(packet))
    BY <1>1, PacketFacts
  <2>2. /\ FieldParts(packet)[k] \in Seq(Byte)
        /\ Joined(FieldParts(packet))[k - 1] \in Seq(Byte) /\ Joined(FieldParts(packet))[n] \in Seq(Byte)
        /\ Len(Joined(FieldParts(packet))[k])
             = Len(Joined(FieldParts(packet))[k - 1]) + Len(FieldParts(packet)[k])
        /\ Len(Joined(FieldParts(packet))[k]) <= Len(Joined(FieldParts(packet))[n])
        /\ \A j \in 1..Len(FieldParts(packet)[k]) :
             Joined(FieldParts(packet))[n][Len(Joined(FieldParts(packet))[k - 1]) + j]
               = FieldParts(packet)[k][j]
    BY <1>1, <2>1, JoinedAt
  <2> QED
    BY <1>1, <2>2, Zenon
<1> DEFINE b == Len(before)
           q == Len(part)
           w == Len(full)
           l == Len(stream)
           p == at + 1 + Len(before)
<1>3. /\ b \in Nat /\ q \in Nat /\ w \in Nat /\ l \in Nat
      /\ p = at + 1 + b /\ p <= l
      /\ Len(after) = b + q /\ Len(after) <= w /\ Len(bytes) = 1 + w
  <2>1. b \in Nat /\ q \in Nat /\ w \in Nat
    BY <1>2
  <2>2. l \in Nat
    BY DEF Received
  <2> QED
    BY <1>1, <1>2, <2>1, <2>2, Zenon
<1>4. Agrees(at, bytes)
  OBVIOUS
<1>5. packet.kind.fields[k] \in Field /\ Writable(packet.kind.fields[k], packet.values[k])
  BY PacketFacts
<1> HIDE DEF part, bytes, full, before, after, b, q, w, l, p
<1>6. Agrees(p, part)
  <2> SUFFICES ASSUME NEW j \in 1..q, p + j <= l
               PROVE  stream[p + j] = part[j]
    BY DEF Agrees, q, l
  <2>1. /\ b + j \in 1..w /\ 1 + (b + j) \in 1..Len(bytes)
        /\ at + (1 + (b + j)) = p + j /\ at + (1 + (b + j)) <= l
    BY <1>3
  <2>2. stream[at + (1 + (b + j))] = bytes[1 + (b + j)]
    BY <1>4, <2>1, Zenon DEF Agrees, bytes, l
  <2>3. bytes[1 + (b + j)] = full[b + j]
    BY <1>1, <2>1, Zenon DEF w
  <2>4. full[b + j] = part[j]
    BY <1>2, Zenon DEF b, q
  <2> QED
    BY <2>1, <2>2, <2>3, <2>4, Zenon
<1>7. ReadsBack(packet.kind.fields[k], packet.values[k], p)
  <2>1. p \in 0..Len(stream)
    BY <1>3 DEF l
  <2> QED
    BY <1>5, <1>6, <2>1, FieldRead DEF part
<1>8. p + q = at + 1 + Len(after) /\ Len(after) \in Nat /\ at + 1 + Len(after) <= at + Len(bytes)
  BY <1>3
<1> QED
  BY <1>7, <1>8 DEF part, bytes, before, after, q, p

(* The fields up to the k-th have been read back, unless one has failed. *)
ReadUpTo(packet, at, k) ==
  LET fields == packet.kind.fields
      ends == FieldEnds(packet.kind, at + 1)
      end == at + 1 + Len(Fields(packet)[k])
  IN \/ ends[k] = Failed
     \/ /\ ends[k] = end /\ end <= Len(stream)
        /\ \A i \in 1..k : FieldValue(fields[i], ends[i - 1], ends[i]) = packet.values[i]

(* The step from field to field, and which field may be the one to fail. *)
LEMMA OneFieldMore ==
  ASSUME Received, NEW packet \in Packet, NEW at \in Nat, Agrees(at, Marshal(packet)),
         NEW k \in 1..Len(packet.kind.fields), ReadUpTo(packet, at, k - 1)
  PROVE  /\ ReadUpTo(packet, at, k)
         /\ (at + Len(Marshal(packet)) <= Len(stream) /\ FieldEnds(packet.kind, at + 1)[k - 1] # Failed) =>
              (FieldEnds(packet.kind, at + 1)[k] = Failed <=>
                 k = 1 /\ CutsString(packet, at))
<1> DEFINE fields == packet.kind.fields
           ends == FieldEnds(packet.kind, at + 1)
           p == at + 1 + Len(Fields(packet)[k - 1])
           part == WriteField(fields[k], packet.values[k])
<1>1. /\ fields[k] \in Field /\ packet.kind \in Kind /\ Writable(fields[k], packet.values[k])
      /\ fields \in Seq(Field) /\ Len(fields) \in Nat
  BY PacketFacts
<1>2. ends[k] = FieldEnd(fields[k], ends[k - 1])
  <2>1. at + 1 \in Nat
    OBVIOUS
  <2> QED
    BY <1>1, <2>1, EndAfterEnd
<1> HIDE DEF ends
<1>3. CASE ends[k - 1] = Failed
  <2>1. ends[k] = Failed
    BY <1>1, <1>2, <1>3, FieldLate
  <2> QED
    BY <1>3, <2>1 DEF ReadUpTo, ends
<1>4. CASE ends[k - 1] # Failed
  <2>1. /\ ends[k - 1] = p /\ p <= Len(stream)
        /\ \A i \in 1..(k - 1) : FieldValue(fields[i], ends[i - 1], ends[i]) = packet.values[i]
    BY <1>4 DEF ReadUpTo, ends
  <2>2. /\ ReadsBack(fields[k], packet.values[k], p)
        /\ p + Len(part) = at + 1 + Len(Fields(packet)[k])
        /\ Len(Fields(packet)[k]) \in Nat
        /\ at + 1 + Len(Fields(packet)[k]) <= at + Len(Marshal(packet))
    BY <2>1, NextField
  <2>3. /\ ends[k] = Failed \/ (/\ ends[k] = p + Len(part) /\ p + Len(part) <= Len(stream)
                                /\ FieldValue(fields[k], p, ends[k]) = packet.values[k])
        /\ p + Len(part) <= Len(stream) =>
             (ends[k] = Failed <=> fields[k] = String /\ \E e \in pieces : p + 1 < e /\ e < p + Len(part))
    <3> HIDE DEF p
    <3> QED
      BY <1>2, <2>1, <2>2, Zenon DEF ReadsBack
  <2>4. ReadUpTo(packet, at, k)
    <3>1. CASE ends[k] = Failed
      BY <3>1 DEF ReadUpTo, ends
    <3>2. CASE ends[k] # Failed
      <4>1. ends[k] = at + 1 + Len(Fields(packet)[k]) /\ at + 1 + Len(Fields(packet)[k]) <= Len(stream)
        BY <2>2, <2>3, <3>2, Zenon
      <4>2. \A i \in 1..k : FieldValue(fields[i], ends[i - 1], ends[i]) = packet.values[i]
        <5> TAKE i \in 1..k
        <5>1. CASE i = k
          BY <2>1, <2>3, <3>2, <5>1, Zenon
        <5>2. CASE i # k
          <6>1. i \in 1..(k - 1)
            BY <1>1, <5>2
          <6> QED
            BY <2>1, <6>1
        <5> QED
          BY <5>1, <5>2
      <4> QED
        BY <4>1, <4>2, Zenon DEF ReadUpTo, ends
    <3> QED
      BY <3>1, <3>2
  <2>5. ASSUME at + Len(Marshal(packet)) <= Len(stream)
        PROVE  ends[k] = Failed <=> k = 1 /\ CutsString(packet, at)
    <3>1. Len(Marshal(packet)) \in Nat /\ Len(stream) \in Nat
      BY PacketWritten DEF Received
    <3>2. p + Len(part) <= Len(stream)
      <4> DEFINE m == Len(Marshal(packet))
                 l == Len(stream)
                 e == Len(Fields(packet)[k])
      <4>1. m \in Nat /\ l \in Nat /\ e \in Nat /\ at + m <= l /\ at + 1 + e <= at + m
        BY <2>2, <2>5, <3>1
      <4> HIDE DEF m, l, e
      <4>2. at + 1 + e <= l
        BY <4>1
      <4> QED
        BY <2>2, <4>2, Zenon DEF l, e
    <3>3. ends[k] = Failed <=> fields[k] = String /\ \E e \in pieces : p + 1 < e /\ e < p + Len(part)
      BY <2>3, <3>2
    <3>4. fields[k] = String => k = 1
      BY <1>1, KindFacts
    <3>5. CASE k # 1
      BY <3>3, <3>4, <3>5
    <3>6. CASE k = 1
      <4>1. p = at + 1
        <5>1. 0 = k - 1
          BY <3>6
        <5>2. Fields(packet)[0] = <<>>
          BY PacketWritten, JoinedParts
        <5>3. Len(<<>>) = 0
          OBVIOUS
        <5>4. p = at + 1 + 0
          BY <5>1, <5>2, <5>3, Zenon
        <5>5. at + 1 + 0 = at + 1
          OBVIOUS
        <5> QED
          BY <5>4, <5>5, Zenon
      <4>2. CASE fields[1] # String
        BY <3>3, <3>6, <4>2 DEF CutsString
      <4>3. CASE fields[1] = String
        <5>1. Len(part) = 1 + Len(packet.values[1]) /\ Len(packet.values[1]) \in Nat
          BY <1>1, <3>6, <4>3, StringWritten, Zenon
        <5>2. p + 1 = at + 2 /\ p + Len(part) = at + 2 + Len(packet.values[1])
          <6> HIDE DEF p, part
          <6> DEFINE v == Len(packet.values[1])
                     q == Len(part)
          <6>1. p = at + 1 /\ q = 1 + v /\ v \in Nat
            BY <4>1, <5>1
          <6> HIDE DEF v, q
          <6>2. p + 1 = at + 2 /\ p + q = at + 2 + v
            BY <6>1
          <6> QED
            BY <6>2 DEF v, q
        <5>3. fields # <<>>
          BY <1>1, <3>6
        <5>4. ends[k] = Failed <=> \E e \in pieces : at + 2 < e /\ e < at + 2 + Len(packet.values[1])
          BY <3>3, <3>6, <4>3, <5>2
        <5> QED
          BY <3>6, <4>3, <5>3, <5>4 DEF CutsString
      <4> QED
        BY <4>2, <4>3
    <3> QED
      BY <3>5, <3>6
  <2> QED
    BY <2>4, <2>5 DEF ends
<1> QED
  BY <1>3, <1>4

(* Reading where a packet was written gives that packet or fails; when all   *)
(* its bytes are there, it fails exactly if its string is cut.               *)
LEMMA PacketRead ==
  ASSUME Received, NEW packet \in Packet, NEW at \in Nat, at < Len(stream),
         Agrees(at, Marshal(packet))
  PROVE  LET ends == FieldEnds(packet.kind, at + 1)
             end == ends[Len(packet.kind.fields)]
             full == at + Len(Marshal(packet))
         IN /\ \/ end = Failed
               \/ end = full /\ full <= Len(stream) /\ Unmarshal(packet.kind, ends) = packet
            /\ full <= Len(stream) => (end = Failed <=> CutsString(packet, at))
<1> DEFINE n == Len(packet.kind.fields)
           ends == FieldEnds(packet.kind, at + 1)
           full == at + Len(Marshal(packet))
           S == {k \in Nat : k <= n => /\ ReadUpTo(packet, at, k)
                                       /\ full <= Len(stream) =>
                                            (ends[k] = Failed <=> k > 0 /\ CutsString(packet, at))}
<1>1. /\ packet.kind \in Kind /\ packet = [kind |-> packet.kind, values |-> packet.values]
      /\ n \in Nat /\ packet.values = [k \in 1..n |-> packet.values[k]]
  BY PacketFacts
<1>2. Len(stream) \in Nat
  BY DEF Received
<1>3. ends[0] = at + 1
  <2>1. at + 1 \in Nat
    OBVIOUS
  <2> QED
    BY <1>1, <2>1, EndAfterEnd
<1>4. 0 \in S
  <2>1. Fields(packet)[0] = <<>> /\ Len(<<>>) = 0
    BY PacketWritten, JoinedParts
  <2>2. ends[0] = at + 1 + Len(Fields(packet)[0]) /\ at + 1 + Len(Fields(packet)[0]) <= Len(stream)
    BY <1>2, <1>3, <2>1
  <2>3. ends[0] # Failed
    BY <1>2, <1>3 DEF Failed
  <2>4. ReadUpTo(packet, at, 0)
    <3>1. \A i \in 1..0 :
            FieldValue(packet.kind.fields[i], ends[i - 1], ends[i]) = packet.values[i]
      OBVIOUS
    <3> QED
      BY <2>2, <3>1, Zenon DEF ReadUpTo
  <2>5. ~(0 > 0)
    OBVIOUS
  <2> HIDE DEF ends, full
  <2> QED
    BY <2>3, <2>4, <2>5
<1>5. ASSUME NEW k \in Nat, k < n, k \in S
      PROVE  k + 1 \in S
  <2>1. k + 1 \in 1..n /\ (k + 1) - 1 = k /\ k <= n
    BY <1>1, <1>5
  <2>2. /\ ReadUpTo(packet, at, k)
        /\ full <= Len(stream) => (ends[k] = Failed <=> k > 0 /\ CutsString(packet, at))
    BY <1>5, <2>1
  <2>3. ReadUpTo(packet, at, (k + 1) - 1)
    BY <2>1, <2>2
  <2>4. /\ ReadUpTo(packet, at, k + 1)
        /\ (full <= Len(stream) /\ ends[(k + 1) - 1] # Failed) =>
             (ends[k + 1] = Failed <=> k + 1 = 1 /\ CutsString(packet, at))
    BY <2>1, <2>3, OneFieldMore
  <2>5. ends[k] = Failed => ends[k + 1] = Failed
    <3>1. packet.kind.fields[k + 1] \in Field /\ at + 1 \in Nat
      <4>1. packet.kind.fields[k + 1] \in Field
        BY <2>1, PacketFacts, Zenon
      <4> QED
        BY <4>1
    <3>2. ends[k + 1] = FieldEnd(packet.kind.fields[k + 1], ends[(k + 1) - 1])
      BY <1>1, <2>1, <3>1, EndAfterEnd
    <3> QED
      BY <2>1, <3>1, <3>2, FieldLate
  <2> HIDE DEF ends, full
  <2>6. full <= Len(stream) => (ends[k + 1] = Failed <=> k + 1 > 0 /\ CutsString(packet, at))
    <3>1. (k + 1 = 1 <=> ~(k > 0)) /\ k + 1 > 0
      OBVIOUS
    <3> QED
      BY <2>1, <2>2, <2>4, <2>5, <3>1
  <2> QED
    BY <2>4, <2>6
<1>6. n \in S
  <2>1. \A k \in 0..n : k \in S
    <3> HIDE DEF S, n
    <3> QED
      BY <1>1, <1>4, <1>5, Climb
  <2> QED
    BY <1>1, <2>1
<1>7. Len(Fields(packet)[n]) \in Nat /\ full = at + 1 + Len(Fields(packet)[n])
  <2>1. Fields(packet)[n] \in Seq(Byte) /\ Len(Marshal(packet)) = 1 + Len(Fields(packet)[n])
    BY PacketWritten
  <2> DEFINE f == Len(Fields(packet)[n])
             m == Len(Marshal(packet))
  <2>2. f \in Nat /\ m = 1 + f
    BY <2>1
  <2> HIDE DEF f, m
  <2>3. at + m = at + 1 + f
    BY <2>2
  <2> QED
    BY <2>2, <2>3 DEF f, m
<1>8. ends[n] # Failed => ends[n] = full /\ full <= Len(stream) /\ Unmarshal(packet.kind, ends) = packet
  <2> SUFFICES ASSUME ends[n] # Failed
               PROVE  ends[n] = full /\ full <= Len(stream) /\ Unmarshal(packet.kind, ends) = packet
    OBVIOUS
  <2>1. /\ ends[n] = full /\ full <= Len(stream)
        /\ \A i \in 1..n : FieldValue(packet.kind.fields[i], ends[i - 1], ends[i]) = packet.values[i]
    BY <1>1, <1>6, <1>7 DEF ReadUpTo
  <2> HIDE DEF n, ends
  <2>2. [i \in 1..n |-> FieldValue(packet.kind.fields[i], ends[i - 1], ends[i])] = packet.values
    BY <1>1, <2>1
  <2>3. Unmarshal(packet.kind, ends)
          = [kind |-> packet.kind,
             values |-> [i \in 1..n |-> FieldValue(packet.kind.fields[i], ends[i - 1], ends[i])]]
    BY DEF Unmarshal, n
  <2> QED
    BY <1>1, <2>1, <2>2, <2>3, Zenon
<1>9. full <= Len(stream) => (ends[n] = Failed <=> CutsString(packet, at))
  <2>1. full <= Len(stream) => (ends[n] = Failed <=> n > 0 /\ CutsString(packet, at))
    BY <1>1, <1>6
  <2>2. CutsString(packet, at) => n > 0
    BY <1>1, PacketFacts DEF CutsString
  <2> QED
    BY <2>1, <2>2
<1> QED
  BY <1>8, <1>9
-----------------------------------------------------------------------------
(* The bytes of some packets, one part for each. *)
Packets(packets) == [k \in 1..Len(packets) |-> Marshal(packets[k])]

(* Packets are written one after another. *)
LEMMA PacketsWritten ==
  ASSUME NEW packets \in Seq(Packet)
  PROVE  /\ Packets(packets) \in Seq(Seq(Byte)) /\ Len(Packets(packets)) = Len(packets)
         /\ Len(packets) \in Nat /\ Written(packets) = Joined(Packets(packets))
         /\ \A k \in 1..Len(packets) :
              packets[k] \in Packet /\ Packets(packets)[k] = Marshal(packets[k])
         /\ Written(packets)[0] = <<>>
         /\ \A k \in 0..Len(packets) : Written(packets)[k] \in Seq(Byte)
         /\ Stream(packets) = Written(packets)[Len(packets)] /\ Stream(packets) \in Seq(Byte)
<1> DEFINE n == Len(packets)
<1>1. n \in Nat /\ \A k \in 1..n : packets[k] \in Packet
  BY ElementOfSeq
<1>2. \A k \in 1..n : Marshal(packets[k]) \in Seq(Byte)
  BY <1>1, PacketWritten
<1>3. /\ Packets(packets) \in Seq(Seq(Byte)) /\ Len(Packets(packets)) = n
      /\ \A k \in 1..n : Packets(packets)[k] = Marshal(packets[k])
  <2>1. Packets(packets) = [k \in 1..n |-> Marshal(packets[k])]
    BY DEF Packets
  <2> HIDE DEF n
  <2> QED
    BY <1>1, <1>2, <2>1
<1>4. Written(packets) = Joined(Packets(packets)) /\ Stream(packets) = Written(packets)[n]
  BY DEF Written, Packets, Stream
<1>5. Written(packets)[0] = <<>> /\ \A k \in 0..n : Written(packets)[k] \in Seq(Byte)
  <2> HIDE DEF n
  <2>1. /\ Joined(Packets(packets))[0] = <<>>
        /\ \A k \in 0..Len(Packets(packets)) : Joined(Packets(packets))[k] \in Seq(Byte)
    BY <1>3, JoinedParts
  <2> QED
    BY <1>3, <1>4, <2>1
<1>6. n \in 0..n
  BY <1>1
<1> HIDE DEF n
<1> QED
  BY <1>1, <1>3, <1>4, <1>5, <1>6 DEF n

(* The k-th packet stands after the ones before it. *)
LEMMA PacketAt ==
  ASSUME NEW packets \in Seq(Packet), NEW k \in 1..Len(packets)
  PROVE  /\ Len(Written(packets)[k]) = Len(Written(packets)[k - 1]) + Len(Marshal(packets[k]))
         /\ Len(Written(packets)[k]) <= Len(Stream(packets))
         /\ \A j \in 1..Len(Marshal(packets[k])) :
              Stream(packets)[Len(Written(packets)[k - 1]) + j] = Marshal(packets[k])[j]
<1>1. /\ Packets(packets) \in Seq(Seq(Byte)) /\ Len(Packets(packets)) = Len(packets)
      /\ Len(packets) \in Nat /\ Written(packets) = Joined(Packets(packets))
      /\ Packets(packets)[k] = Marshal(packets[k])
      /\ Stream(packets) = Written(packets)[Len(packets)]
  BY PacketsWritten
<1>2. k \in 1..Len(Packets(packets)) /\ Len(packets) \in k..Len(Packets(packets))
  BY <1>1
<1>3. /\ Len(Joined(Packets(packets))[k])
           = Len(Joined(Packets(packets))[k - 1]) + Len(Packets(packets)[k])
      /\ Len(Joined(Packets(packets))[k]) <= Len(Joined(Packets(packets))[Len(packets)])
      /\ \A j \in 1..Len(Packets(packets)[k]) :
           Joined(Packets(packets))[Len(packets)][Len(Joined(Packets(packets))[k - 1]) + j]
             = Packets(packets)[k][j]
  BY <1>1, <1>2, JoinedAt
<1> QED
  BY <1>1, <1>3, Zenon

(* What was written of the first packets is what they alone write. *)
LEMMA WrittenFirst ==
  ASSUME NEW p \in Seq(Packet), NEW q \in Seq(Packet), Len(p) <= Len(q),
         \A k \in 1..Len(p) : p[k] = q[k]
  PROVE  /\ \A k \in 0..Len(p) : Written(p)[k] = Written(q)[k]
         /\ Stream(p) = Written(q)[Len(p)]
<1>1. /\ Packets(p) \in Seq(Seq(Byte)) /\ Packets(q) \in Seq(Seq(Byte))
      /\ Len(Packets(p)) = Len(p) /\ Len(Packets(q)) = Len(q)
      /\ Written(p) = Joined(Packets(p)) /\ Written(q) = Joined(Packets(q))
      /\ Len(p) \in Nat /\ Len(q) \in Nat /\ Stream(p) = Written(p)[Len(p)]
      /\ \A k \in 1..Len(p) : Packets(p)[k] = Marshal(p[k])
      /\ \A k \in 1..Len(q) : Packets(q)[k] = Marshal(q[k])
  BY PacketsWritten
<1>2. \A k \in 1..Len(p) : Packets(p)[k] = Packets(q)[k]
  <2> TAKE k \in 1..Len(p)
  <2>1. k \in 1..Len(q)
    BY <1>1
  <2> QED
    BY <1>1, <2>1, Zenon
<1>3. \A k \in 0..Len(p) : Joined(Packets(p))[k] = Joined(Packets(q))[k]
  <2>1. Len(p) \in 0..Len(Packets(p)) /\ Len(p) <= Len(Packets(q))
    BY <1>1
  <2> QED
    BY <1>1, <1>2, <2>1, JoinedSame
<1>4. Len(p) \in 0..Len(p)
  BY <1>1
<1> QED
  BY <1>1, <1>3, <1>4, Zenon

(* One packet more is one part more. *)
LEMMA MarshalAppended ==
  ASSUME NEW packets \in Seq(Packet), NEW packet \in Packet
  PROVE  Stream(Append(packets, packet)) = Stream(packets) \o Marshal(packet)
<1> DEFINE all == Append(packets, packet)
           n == Len(packets)
<1>1. /\ all \in Seq(Packet) /\ Len(all) = n + 1 /\ all[n + 1] = packet
      /\ n \in Nat /\ \A k \in 1..n : packets[k] = all[k]
  BY AppendProperties
<1> HIDE DEF all
<1>2. Stream(packets) = Written(all)[n]
  <2>1. n <= Len(all)
    BY <1>1
  <2> QED
    BY <1>1, <2>1, WrittenFirst
<1>3. n + 1 \in 1..Len(all) /\ (n + 1) - 1 = n
  BY <1>1
<1>4. /\ Packets(all) \in Seq(Seq(Byte)) /\ Len(Packets(all)) = Len(all)
      /\ Written(all) = Joined(Packets(all)) /\ Stream(all) = Written(all)[Len(all)]
      /\ Packets(all)[n + 1] = Marshal(all[n + 1])
  BY <1>1, <1>3, PacketsWritten
<1>5. Joined(Packets(all))[n + 1] = Joined(Packets(all))[(n + 1) - 1] \o Packets(all)[n + 1]
  BY <1>3, <1>4, JoinedParts, Zenon
<1>6. Stream(all) = Written(all)[(n + 1) - 1] \o Marshal(packet)
  BY <1>1, <1>4, <1>5, Zenon
<1> QED
  BY <1>2, <1>3, <1>6, Zenon DEF all
-----------------------------------------------------------------------------
(* What the two sides keep.  The stream is what was sent, and after the close *)
(* perhaps the beginning of a packet.                                         *)
Sending ==
  /\ sent \in Seq(Packet) /\ pieces \in SUBSET Nat /\ closed \in BOOLEAN /\ reading \in BOOLEAN
  /\ IF closed THEN \E rest \in Unfinished : stream = Stream(sent) \o rest
     ELSE stream = Stream(sent) /\ taken = <<>> /\ reading

(* The reader stands where the packets it has taken end. *)
Taking ==
  /\ Len(taken) \in 0..Len(sent) /\ taken = SubSeq(sent, 1, Len(taken))
  /\ offset = Len(Written(sent)[Len(taken)])

WireInv == Sending /\ Taking /\ OnlyCutStringsStop

(* What is left of an unfinished packet is a proper beginning of it. *)
LEMMA UnfinishedBytes ==
  ASSUME NEW rest \in Unfinished
  PROVE  /\ rest \in Seq(Byte)
         /\ rest # <<>> => \E packet \in Packet : /\ Len(rest) < Len(Marshal(packet))
                                                 /\ \A j \in 1..Len(rest) : rest[j] = Marshal(packet)[j]
<1>1. CASE rest = <<>>
  BY <1>1
<1>2. CASE rest # <<>>
  <2>1. PICK packet \in Packet : \E n \in 1..(Len(Marshal(packet)) - 1) : rest = SubSeq(Marshal(packet), 1, n)
    BY <1>2 DEF Unfinished
  <2> DEFINE m == Marshal(packet)
  <2>2. PICK n \in 1..(Len(m) - 1) : rest = SubSeq(m, 1, n)
    BY <2>1
  <2>3. m \in Seq(Byte) /\ Len(m) \in Nat
    BY PacketWritten
  <2> HIDE DEF m
  <2>4. n \in Nat /\ 1 \in 1..Len(m) + 1 /\ n \in (1 - 1)..Len(m) /\ n < Len(m)
    BY <2>3
  <2>5. /\ SubSeq(m, 1, n) \in Seq(Byte) /\ Len(SubSeq(m, 1, n)) = n
        /\ \A j \in 1..n : SubSeq(m, 1, n)[j] = m[j]
    BY <2>3, <2>4, SubSeqProperties
  <2> QED
    BY <2>2, <2>4, <2>5, Zenon DEF m
<1> QED
  BY <1>1, <1>2

(* The stream begins with what was sent, and the reader is within that. *)
LEMMA StreamReceived ==
  ASSUME WireInv
  PROVE  /\ Received /\ offset \in Nat /\ sent \in Seq(Packet) /\ Stream(sent) \in Seq(Byte)
         /\ Len(sent) \in Nat /\ Len(taken) \in Nat /\ Len(taken) <= Len(sent)
         /\ offset <= Len(Stream(sent)) /\ Len(Stream(sent)) <= Len(stream)
         /\ \A j \in 1..Len(Stream(sent)) : stream[j] = Stream(sent)[j]
<1>1. /\ sent \in Seq(Packet) /\ pieces \in SUBSET Nat /\ Len(taken) \in 0..Len(sent)
      /\ offset = Len(Written(sent)[Len(taken)])
  BY DEF WireInv, Sending, Taking
<1>2. /\ Stream(sent) \in Seq(Byte) /\ Len(sent) \in Nat
      /\ Written(sent)[Len(taken)] \in Seq(Byte)
      /\ Written(sent) = Joined(Packets(sent)) /\ Len(Packets(sent)) = Len(sent)
      /\ Packets(sent) \in Seq(Seq(Byte)) /\ Stream(sent) = Written(sent)[Len(sent)]
  BY <1>1, PacketsWritten
<1>3. offset <= Len(Stream(sent)) /\ offset \in Nat
  <2>1. Len(sent) \in Len(taken)..Len(Packets(sent)) /\ Len(taken) \in 0..Len(Packets(sent))
    BY <1>1, <1>2
  <2>2. Len(Joined(Packets(sent))[Len(taken)]) <= Len(Joined(Packets(sent))[Len(sent)])
    BY <1>2, <2>1, JoinedPrefix
  <2>3. Len(Written(sent)[Len(taken)]) \in Nat
    BY <1>2
  <2> QED
    BY <1>1, <1>2, <2>2, <2>3, Zenon
<1>4. /\ stream \in Seq(Byte) /\ Len(Stream(sent)) <= Len(stream)
      /\ \A j \in 1..Len(Stream(sent)) : stream[j] = Stream(sent)[j]
  <2> DEFINE s == Stream(sent)
  <2>1. s \in Seq(Byte)
    BY <1>2
  <2> HIDE DEF s
  <2>2. CASE ~closed
    <3>1. stream = s
      BY <2>2 DEF WireInv, Sending, s
    <3>2. Len(s) \in Nat
      BY <2>1
    <3>3. Len(s) <= Len(s)
      BY <3>2
    <3> QED
      BY <2>1, <3>1, <3>3, Zenon DEF s
  <2>3. CASE closed
    <3>1. PICK rest \in Unfinished : stream = s \o rest
      BY <2>3 DEF WireInv, Sending, s
    <3>2. rest \in Seq(Byte)
      BY UnfinishedBytes
    <3>3. /\ s \o rest \in Seq(Byte) /\ Len(s \o rest) = Len(s) + Len(rest)
          /\ \A j \in 1..Len(s) : (s \o rest)[j] = s[j]
      BY <2>1, <3>2, Concatenated, Zenon
    <3>4. Len(s) <= Len(s) + Len(rest)
      <4>1. Len(s) \in Nat /\ Len(rest) \in Nat
        BY <2>1, <3>2
      <4> QED
        BY <4>1
    <3> QED
      BY <3>1, <3>3, <3>4, Zenon DEF s
  <2>4. closed \in BOOLEAN
    BY DEF WireInv, Sending
  <2> QED
    BY <2>2, <2>3, <2>4
<1>5. Len(taken) \in Nat /\ Len(taken) <= Len(sent)
  BY <1>1, <1>2
<1> QED
  BY <1>1, <1>2, <1>3, <1>4, <1>5 DEF Received

(* The packet that the reader is about to read: the next that was sent, or    *)
(* the one that was begun when the connection closed.                         *)
LEMMA NextPacket ==
  ASSUME WireInv, closed, offset < Len(stream)
  PROVE  \E packet \in Packet :
           /\ Agrees(offset, Marshal(packet))
           /\ IF Len(taken) < Len(sent)
              THEN /\ packet = sent[Len(taken) + 1]
                   /\ offset + Len(Marshal(packet)) = Len(Written(sent)[Len(taken) + 1])
                   /\ offset + Len(Marshal(packet)) <= Len(stream)
              ELSE ~(offset + Len(Marshal(packet)) <= Len(stream))
<1> DEFINE s == Stream(sent)
           t == Len(taken)
<1>1. /\ Received /\ offset \in Nat /\ sent \in Seq(Packet) /\ s \in Seq(Byte)
      /\ Len(sent) \in Nat /\ t \in Nat /\ t <= Len(sent)
      /\ offset <= Len(s) /\ Len(s) <= Len(stream)
      /\ \A j \in 1..Len(s) : stream[j] = s[j]
  BY StreamReceived
<1>2. offset = Len(Written(sent)[t])
  BY DEF WireInv, Taking
<1>3. Len(stream) \in Nat /\ Len(s) \in Nat
  BY <1>1 DEF Received
<1>4. CASE t < Len(sent)
  <2> DEFINE packet == sent[t + 1]
             m == Marshal(packet)
  <2>1. t + 1 \in 1..Len(sent) /\ (t + 1) - 1 = t
    BY <1>1, <1>4
  <2>2. packet \in Packet
    BY <1>1, <2>1, ElementOfSeq
  <2>3. m \in Seq(Byte) /\ Len(m) \in Nat
    BY <2>2, PacketWritten
  <2>4. /\ Len(Written(sent)[t + 1]) = Len(Written(sent)[(t + 1) - 1]) + Len(m)
        /\ Len(Written(sent)[t + 1]) <= Len(s)
        /\ \A j \in 1..Len(m) : s[Len(Written(sent)[(t + 1) - 1]) + j] = m[j]
    BY <1>1, <2>1, PacketAt
  <2>5. /\ Len(Written(sent)[t + 1]) = offset + Len(m)
        /\ \A j \in 1..Len(m) : s[offset + j] = m[j]
    BY <1>2, <2>1, <2>4
  <2> HIDE DEF s, m
  <2>6. offset + Len(m) <= Len(s) /\ offset + Len(m) <= Len(stream)
    BY <1>1, <1>3, <2>3, <2>4, <2>5
  <2>7. \A j \in 1..Len(m) : stream[offset + j] = m[j]
    <3> TAKE j \in 1..Len(m)
    <3>1. offset + j \in 1..Len(s)
      BY <1>1, <1>3, <2>3, <2>6
    <3> QED
      BY <1>1, <2>5, <3>1, Zenon
  <2>8. Agrees(offset, m)
    BY <2>7 DEF Agrees
  <2> QED
    BY <1>4, <2>2, <2>5, <2>6, <2>8 DEF m
<1>5. CASE ~(t < Len(sent))
  <2>1. offset = Len(s)
    <3>1. t = Len(sent)
      BY <1>1, <1>5
    <3>2. s = Written(sent)[Len(sent)]
      BY <1>1, PacketsWritten
    <3> QED
      BY <1>2, <3>1, <3>2, Zenon
  <2>2. PICK rest \in Unfinished : stream = s \o rest
    BY DEF WireInv, Sending
  <2>3. rest \in Seq(Byte)
    BY UnfinishedBytes
  <2> HIDE DEF s
  <2>4. /\ Len(s \o rest) = Len(s) + Len(rest)
        /\ \A j \in 1..Len(rest) : (s \o rest)[Len(s) + j] = rest[j]
    BY <1>1, <2>3, Concatenated, Zenon
  <2>5. /\ Len(stream) = offset + Len(rest)
        /\ \A j \in 1..Len(rest) : stream[offset + j] = rest[j]
    BY <2>1, <2>2, <2>4, Zenon
  <2>6. Len(rest) \in Nat
    BY <2>3
  <2>7. rest # <<>>
    <3>1. Len(rest) # 0
      BY <1>1, <1>3, <2>5, <2>6
    <3> QED
      BY <3>1
  <2>8. PICK packet \in Packet : /\ Len(rest) < Len(Marshal(packet))
                                 /\ \A j \in 1..Len(rest) : rest[j] = Marshal(packet)[j]
    BY <2>7, UnfinishedBytes, Zenon
  <2> DEFINE m == Marshal(packet)
             l == Len(rest)
             n == Len(stream)
  <2>9. m \in Seq(Byte) /\ Len(m) \in Nat
    BY PacketWritten
  <2>10. l \in Nat /\ n \in Nat /\ n = offset + l /\ l < Len(m)
    BY <1>3, <2>5, <2>6, <2>8
  <2>11. \A j \in 1..l : stream[offset + j] = m[j]
    BY <2>5, <2>8, Zenon
  <2> HIDE DEF m, l, n
  <2>12. ~(offset + Len(m) <= n)
    BY <1>1, <2>9, <2>10
  <2>13. \A j \in 1..Len(m) : offset + j <= n => stream[offset + j] = m[j]
    <3> SUFFICES ASSUME NEW j \in 1..Len(m), offset + j <= n
                 PROVE  stream[offset + j] = m[j]
      OBVIOUS
    <3>1. j \in 1..l
      BY <1>1, <2>9, <2>10
    <3> QED
      BY <2>11, <3>1
  <2>14. Agrees(offset, m)
    BY <2>13 DEF Agrees, n
  <2> QED
    BY <1>5, <2>12, <2>14 DEF m, n
<1> QED
  BY <1>4, <1>5

LEMMA SendKeeps ==
  ASSUME WireInv, NEW packet \in Packet, Send(packet)
  PROVE  WireInv'
<1>1. /\ ~closed /\ sent' = Append(sent, packet) /\ stream' = stream \o Marshal(packet)
      /\ closed' = closed /\ pieces' = pieces /\ offset' = offset /\ taken' = taken /\ reading' = reading
  BY DEF Send
<1>2. /\ sent \in Seq(Packet) /\ pieces \in SUBSET Nat /\ closed \in BOOLEAN
      /\ stream = Stream(sent) /\ taken = <<>> /\ reading /\ reading \in BOOLEAN
  BY <1>1 DEF WireInv, Sending
<1>3. Len(taken) = 0 /\ offset = 0
  <2>1. Len(taken) = 0
    BY <1>2
  <2>2. Written(sent)[0] = <<>>
    BY <1>2, PacketsWritten
  <2> QED
    BY <2>1, <2>2 DEF WireInv, Taking
<1>4. sent' \in Seq(Packet) /\ Stream(sent') = stream'
  <2>1. Append(sent, packet) \in Seq(Packet)
    BY <1>2, AppendProperties
  <2>2. Stream(Append(sent, packet)) = Stream(sent) \o Marshal(packet)
    BY <1>2, MarshalAppended
  <2> QED
    BY <1>1, <1>2, <2>1, <2>2, Zenon
<1>5. Sending'
  BY <1>1, <1>2, <1>4 DEF Sending
<1>6. Taking'
  <2>1. Len(sent') \in Nat /\ Written(sent')[0] = <<>>
    BY <1>4, PacketsWritten
  <2>2. SubSeq(sent', 1, 0) = <<>>
    BY <1>4
  <2> QED
    BY <1>1, <1>2, <1>3, <2>1, <2>2 DEF Taking
<1>7. OnlyCutStringsStop'
  BY <1>1, <1>2, <1>3 DEF OnlyCutStringsStop
<1> QED
  BY <1>5, <1>6, <1>7 DEF WireInv

LEMMA CloseKeeps ==
  ASSUME WireInv, NEW rest \in Unfinished, Close(rest)
  PROVE  WireInv'
<1>1. /\ ~closed /\ closed' /\ sent' = sent /\ stream' = stream \o rest
      /\ pieces' \in Cuts(Len(stream')) /\ offset' = offset /\ taken' = taken /\ reading' = reading
  BY DEF Close
<1>2. /\ sent \in Seq(Packet) /\ stream = Stream(sent) /\ taken = <<>> /\ reading /\ reading \in BOOLEAN
  BY <1>1 DEF WireInv, Sending
<1>3. Len(taken) = 0
  BY <1>2
<1>4. pieces' \in SUBSET Nat
  <2> DEFINE n == Len(stream')
  <2>1. PICK cuts : cuts = pieces' /\ cuts \in Cuts(n)
    BY <1>1
  <2>2. 1..n \subseteq Nat
    OBVIOUS
  <2> HIDE DEF n
  <2>3. cuts \subseteq Nat
    <3>1. CASE cuts \in {{}, 1..n}
      BY <2>2, <3>1
    <3>2. CASE cuts \in {{cut[i] : i \in 1..MaxCuts} : cut \in [1..MaxCuts -> 1..n]}
      <4>1. PICK cut \in [1..MaxCuts -> 1..n] : cuts = {cut[i] : i \in 1..MaxCuts}
        BY <3>2
      <4>2. \A i \in 1..MaxCuts : cut[i] \in 1..n
        OBVIOUS
      <4> QED
        BY <2>2, <4>1, <4>2
    <3> QED
      BY <2>1, <3>1, <3>2 DEF Cuts
  <2> QED
    BY <2>1, <2>3
<1>5. Sending'
  <2>1. closed' \in BOOLEAN
    BY DEF Close
  <2>2. stream' = Stream(sent') \o rest
    BY <1>1, <1>2
  <2> QED
    BY <1>1, <1>2, <1>4, <2>1, <2>2 DEF Sending, Unfinished
<1>6. Taking'
  BY <1>1 DEF WireInv, Taking
<1>7. OnlyCutStringsStop'
  BY <1>1, <1>2, <1>3 DEF OnlyCutStringsStop
<1> QED
  BY <1>5, <1>6, <1>7 DEF WireInv

(* A packet that is read is the next that was sent; one that is not was cut  *)
(* in its string, or was unfinished.                                         *)
LEMMA ReadPacketKeeps ==
  ASSUME WireInv, ReadPacket
  PROVE  WireInv'
<1> DEFINE t == Len(taken)
           start == ReadN(offset, 1)
           kind == CHOOSE k \in Kind : k.opcode = stream[start]
           ends == FieldEnds(kind, start)
           end == ends[Len(kind.fields)]
<1>1. /\ closed /\ reading /\ offset < Len(stream)
      /\ sent' = sent /\ stream' = stream /\ closed' = closed /\ pieces' = pieces
      /\ \/ end # Failed /\ offset' = end /\ taken' = Append(taken, Unmarshal(kind, ends)) /\ reading' = reading
         \/ end = Failed /\ reading' = FALSE /\ offset' = offset /\ taken' = taken
  BY DEF ReadPacket
<1>2. PICK packet \in Packet :
        /\ Agrees(offset, Marshal(packet))
        /\ IF t < Len(sent)
           THEN /\ packet = sent[t + 1]
                /\ offset + Len(Marshal(packet)) = Len(Written(sent)[t + 1])
                /\ offset + Len(Marshal(packet)) <= Len(stream)
           ELSE ~(offset + Len(Marshal(packet)) <= Len(stream))
  BY <1>1, NextPacket
<1>3. /\ Received /\ offset \in Nat /\ sent \in Seq(Packet)
      /\ Len(sent) \in Nat /\ t \in Nat /\ t <= Len(sent)
  BY StreamReceived
<1>4. Len(stream) \in Nat
  BY <1>3 DEF Received
<1>5. start = offset + 1
  <2>1. offset \in 0..Len(stream)
    BY <1>1, <1>3, <1>4
  <2> QED
    BY <1>1, <1>3, <2>1, ReadNOne
<1>6. packet.kind \in Kind /\ Marshal(packet)[1] = packet.kind.opcode /\ 1 \in 1..Len(Marshal(packet))
  <2>1. /\ packet.kind \in Kind /\ Marshal(packet)[1] = packet.kind.opcode
        /\ Len(Marshal(packet)) = 1 + Len(Fields(packet)[Len(packet.kind.fields)])
        /\ Fields(packet)[Len(packet.kind.fields)] \in Seq(Byte)
    BY PacketFacts, PacketWritten
  <2>2. Len(Fields(packet)[Len(packet.kind.fields)]) \in Nat
    BY <2>1
  <2> DEFINE f == Len(Fields(packet)[Len(packet.kind.fields)])
             m == Len(Marshal(packet))
  <2>3. f \in Nat /\ m = 1 + f
    BY <2>1, <2>2
  <2> HIDE DEF f, m
  <2>4. 1 \in 1..m
    BY <2>3
  <2> QED
    BY <2>1, <2>4 DEF m
<1>7. kind = packet.kind
  <2>1. stream[start] = packet.kind.opcode
    <3>1. offset + 1 <= Len(stream)
      BY <1>1, <1>3, <1>4
    <3>2. stream[offset + 1] = Marshal(packet)[1]
      BY <1>2, <1>6, <3>1, Zenon DEF Agrees
    <3> QED
      BY <1>5, <1>6, <3>2
  <2>2. kind \in Kind /\ kind.opcode = packet.kind.opcode
    BY <1>6, <2>1
  <2> QED
    BY <1>6, <2>2, KindFacts
<1> DEFINE full == offset + Len(Marshal(packet))
<1>8. /\ \/ end = Failed
         \/ end = full /\ full <= Len(stream) /\ Unmarshal(kind, ends) = packet
      /\ full <= Len(stream) => (end = Failed <=> CutsString(packet, offset))
  <2> HIDE DEF start, kind
  <2>1. ends = FieldEnds(packet.kind, offset + 1) /\ end = ends[Len(packet.kind.fields)]
    BY <1>5, <1>7
  <2>2. /\ \/ FieldEnds(packet.kind, offset + 1)[Len(packet.kind.fields)] = Failed
           \/ /\ FieldEnds(packet.kind, offset + 1)[Len(packet.kind.fields)] = full
              /\ full <= Len(stream)
              /\ Unmarshal(packet.kind, FieldEnds(packet.kind, offset + 1)) = packet
        /\ full <= Len(stream) =>
             (FieldEnds(packet.kind, offset + 1)[Len(packet.kind.fields)] = Failed
                <=> CutsString(packet, offset))
    BY <1>1, <1>2, <1>3, PacketRead
  <2> QED
    BY <1>7, <2>1, <2>2, Zenon
<1> HIDE DEF start, kind, ends, end, full
<1>9. /\ OnlyCutStringsStop /\ Sending /\ Taking
      /\ taken = SubSeq(sent, 1, t) /\ offset = Len(Written(sent)[t])
  BY DEF WireInv, Taking
<1>10. Sending'
  <2>1. reading' \in BOOLEAN
    BY <1>1, <1>9 DEF Sending
  <2> QED
    BY <1>1, <1>9, <2>1 DEF Sending, Unfinished
<1>11. CASE end = Failed
  <2>1. reading' = FALSE /\ offset' = offset /\ taken' = taken
    BY <1>1, <1>11
  <2>2. t < Len(sent) => CutsString(packet, offset) /\ packet = sent[t + 1]
    BY <1>2, <1>8, <1>11 DEF full
  <2>3. Taking'
    BY <1>1, <1>9, <2>1 DEF Taking
  <2>4. OnlyCutStringsStop'
    BY <1>1, <1>9, <2>1, <2>2 DEF OnlyCutStringsStop, CutsString
  <2> QED
    BY <1>10, <2>3, <2>4 DEF WireInv
<1>12. CASE end # Failed
  <2>1. /\ end = full /\ full <= Len(stream)
        /\ reading' = reading /\ offset' = full /\ taken' = Append(taken, packet)
    BY <1>1, <1>8, <1>12
  <2>2. t < Len(sent) /\ packet = sent[t + 1] /\ offset' = Len(Written(sent)[t + 1])
    BY <1>2, <2>1 DEF full
  <2>3. /\ taken' = SubSeq(sent, 1, t + 1) /\ Len(taken') = t + 1
    <3>1. taken \in Seq(Packet) /\ \A k \in 1..t : taken[k] = sent[k]
      <4>1. 1 \in 1..Len(sent) + 1 /\ t \in (1 - 1)..Len(sent)
        BY <1>3
      <4>2. SubSeq(sent, 1, t) \in Seq(Packet) /\ \A k \in 1..t : SubSeq(sent, 1, t)[k] = sent[1 + k - 1]
        BY <1>3, <4>1, SubSeqProperties
      <4>3. \A k \in 1..t : 1 + k - 1 = k
        OBVIOUS
      <4> QED
        BY <1>9, <4>2, <4>3
    <3>2. /\ Append(taken, packet) \in Seq(Packet) /\ Len(Append(taken, packet)) = t + 1
          /\ Append(taken, packet)[t + 1] = packet
          /\ \A k \in 1..t : Append(taken, packet)[k] = taken[k]
      BY <3>1, AppendProperties
    <3>3. /\ SubSeq(sent, 1, t + 1) \in Seq(Packet) /\ Len(SubSeq(sent, 1, t + 1)) = t + 1
          /\ \A k \in 1..(t + 1) : SubSeq(sent, 1, t + 1)[k] = sent[k]
      <4>1. 1 \in 1..Len(sent) + 1 /\ t + 1 \in (1 - 1)..Len(sent)
        BY <1>3, <2>2
      <4>2. /\ SubSeq(sent, 1, t + 1) \in Seq(Packet)
            /\ Len(SubSeq(sent, 1, t + 1)) = (t + 1) - 1 + 1
            /\ \A k \in 1..((t + 1) - 1 + 1) : SubSeq(sent, 1, t + 1)[k] = sent[1 + k - 1]
        BY <1>3, <4>1, SubSeqProperties
      <4>3. (t + 1) - 1 + 1 = t + 1 /\ \A k \in 1..(t + 1) : 1 + k - 1 = k
        BY <1>3
      <4> QED
        BY <4>2, <4>3
    <3>4. \A k \in 1..(t + 1) : Append(taken, packet)[k] = SubSeq(sent, 1, t + 1)[k]
      <4> TAKE k \in 1..(t + 1)
      <4>1. k = t + 1 \/ k \in 1..t
        BY <1>3
      <4> QED
        BY <2>2, <3>1, <3>2, <3>3, <4>1, Zenon
    <3>5. Append(taken, packet) = SubSeq(sent, 1, t + 1)
      BY <3>2, <3>3, <3>4, SeqEqual
    <3> QED
      BY <2>1, <3>2, <3>5, Zenon
  <2>4. Taking'
    <3>1. t + 1 \in 0..Len(sent)
      BY <1>3, <2>2
    <3> QED
      BY <1>1, <2>2, <2>3, <3>1 DEF Taking
  <2>5. OnlyCutStringsStop'
    BY <1>1, <2>1 DEF OnlyCutStringsStop
  <2> QED
    BY <1>10, <2>4, <2>5 DEF WireInv
<1> QED
  BY <1>11, <1>12

(* At the end of the stream no packet is left: each has at least its opcode. *)
LEMMA ReadEndKeeps ==
  ASSUME WireInv, ReadEnd
  PROVE  WireInv'
<1>1. /\ closed /\ offset = Len(stream) /\ reading' = FALSE
      /\ sent' = sent /\ stream' = stream /\ closed' = closed /\ pieces' = pieces
      /\ offset' = offset /\ taken' = taken
  BY DEF ReadEnd
<1> DEFINE t == Len(taken)
<1>2. /\ Sending /\ Taking /\ OnlyCutStringsStop /\ sent \in Seq(Packet) /\ t \in 0..Len(sent)
      /\ offset = Len(Written(sent)[t])
  BY DEF WireInv, Sending, Taking
<1>3. ~(t < Len(sent))
  <2> SUFFICES ASSUME t < Len(sent) PROVE FALSE
    OBVIOUS
  <2>1. Len(sent) \in Nat /\ t + 1 \in 1..Len(sent) /\ (t + 1) - 1 = t
    BY <1>2
  <2>2. sent[t + 1] \in Packet
    BY <1>2, <2>1, ElementOfSeq
  <2> DEFINE m == Len(Marshal(sent[t + 1]))
             f == Len(Fields(sent[t + 1])[Len(sent[t + 1].kind.fields)])
             w == Len(Written(sent)[t + 1])
             s == Len(Stream(sent))
             l == Len(stream)
  <2>3. m = 1 + f /\ f \in Nat
    <3>1. /\ Len(Marshal(sent[t + 1])) = 1 + f
          /\ Fields(sent[t + 1])[Len(sent[t + 1].kind.fields)] \in Seq(Byte)
      BY <2>2, PacketWritten
    <3> QED
      BY <3>1
  <2>4. w = Len(Written(sent)[(t + 1) - 1]) + m /\ w <= s
    BY <1>2, <2>1, PacketAt
  <2>5. s <= l /\ s \in Nat /\ offset \in Nat /\ l = offset
    <3>1. Len(Stream(sent)) <= Len(stream) /\ Stream(sent) \in Seq(Byte) /\ offset \in Nat
      BY StreamReceived
    <3> QED
      BY <1>1, <3>1
  <2>6. w = offset + m
    BY <1>2, <2>1, <2>4
  <2>7. w <= s
    BY <2>4
  <2> HIDE DEF m, f, w, s, l
  <2>8. offset + (1 + f) <= offset
    <3>1. s <= offset
      BY <2>5
    <3>2. w = offset + (1 + f)
      BY <2>3, <2>6
    <3> QED
      BY <2>3, <2>5, <2>7, <3>1, <3>2
  <2>9. ~(offset + (1 + f) <= offset)
    BY <2>3, <2>5
  <2> QED
    BY <2>8, <2>9
<1>4. Sending'
  <2>1. reading' \in BOOLEAN
    BY <1>1
  <2> QED
    BY <1>1, <1>2, <2>1 DEF Sending, Unfinished
<1>5. Taking'
  BY <1>1, <1>2 DEF Taking
<1>6. OnlyCutStringsStop'
  BY <1>1, <1>2, <1>3 DEF OnlyCutStringsStop, CutsString
<1> QED
  BY <1>4, <1>5, <1>6 DEF WireInv

LEMMA WireStart ==
  ASSUME WireInit
  PROVE  WireInv
<1>1. /\ sent = <<>> /\ stream = <<>> /\ closed = FALSE /\ pieces = {}
      /\ offset = 0 /\ taken = <<>> /\ reading = TRUE
  BY DEF WireInit
<1>2. sent \in Seq(Packet) /\ Len(sent) = 0 /\ Len(taken) = 0 /\ taken = SubSeq(sent, 1, 0)
  BY <1>1
<1>3. Written(sent)[0] = <<>> /\ Stream(sent) = Written(sent)[Len(sent)]
  BY <1>2, PacketsWritten
<1>4. Sending
  BY <1>1, <1>2, <1>3 DEF Sending
<1>5. Taking
  BY <1>1, <1>2, <1>3 DEF Taking
<1>6. OnlyCutStringsStop
  BY <1>1, <1>2 DEF OnlyCutStringsStop
<1> QED
  BY <1>4, <1>5, <1>6 DEF WireInv

LEMMA WireKept ==
  ASSUME WireInv, [WireNext]_wireVars
  PROVE  WireInv'
<1>1. ASSUME NEW packet \in Packet, Send(packet)
      PROVE  WireInv'
  BY <1>1, SendKeeps
<1>2. ASSUME NEW rest \in Unfinished, Close(rest)
      PROVE  WireInv'
  BY <1>2, CloseKeeps
<1>3. CASE ReadPacket
  BY <1>3, ReadPacketKeeps
<1>4. CASE ReadEnd
  BY <1>4, ReadEndKeeps
<1>5. CASE UNCHANGED wireVars
  <2>1. UNCHANGED <<sent, stream, closed, pieces, offset, taken, reading>>
    BY <1>5 DEF wireVars
  <2>2. Sending'
    BY <2>1 DEF WireInv, Sending, Unfinished
  <2>3. Taking'
    BY <2>1 DEF WireInv, Taking
  <2>4. OnlyCutStringsStop'
    BY <2>1 DEF WireInv, OnlyCutStringsStop, CutsString
  <2> QED
    BY <2>2, <2>3, <2>4 DEF WireInv
<1> QED
  BY <1>1, <1>2, <1>3, <1>4, <1>5 DEF WireNext

(* The reader has taken the bytes of the packets it has delivered. *)
LEMMA TakenArrived ==
  ASSUME WireInv
  PROVE  PacketsArrive
<1> DEFINE t == Len(taken)
           w == Written(sent)[t]
<1>1. /\ Received /\ sent \in Seq(Packet) /\ Stream(sent) \in Seq(Byte)
      /\ Len(sent) \in Nat /\ t \in Nat /\ t <= Len(sent)
      /\ offset <= Len(Stream(sent)) /\ Len(Stream(sent)) <= Len(stream) /\ offset \in Nat
      /\ \A j \in 1..Len(Stream(sent)) : stream[j] = Stream(sent)[j]
  BY StreamReceived
<1>2. taken = SubSeq(sent, 1, t) /\ offset = Len(w)
  BY DEF WireInv, Taking
<1>3. taken \in Seq(Packet) /\ \A k \in 1..t : taken[k] = sent[k]
  <2>1. 1 \in 1..Len(sent) + 1 /\ t \in (1 - 1)..Len(sent)
    BY <1>1
  <2>2. SubSeq(sent, 1, t) \in Seq(Packet) /\ \A k \in 1..t : SubSeq(sent, 1, t)[k] = sent[1 + k - 1]
    BY <1>1, <2>1, SubSeqProperties
  <2>3. \A k \in 1..t : 1 + k - 1 = k
    OBVIOUS
  <2> QED
    BY <1>2, <2>2, <2>3
<1>4. Stream(taken) = w
  BY <1>1, <1>3, WrittenFirst
<1>5. w \in Seq(Byte) /\ \A j \in 1..Len(w) : Stream(sent)[j] = w[j]
  <2>1. /\ Packets(sent) \in Seq(Seq(Byte)) /\ Len(Packets(sent)) = Len(sent)
        /\ Written(sent) = Joined(Packets(sent)) /\ Stream(sent) = Written(sent)[Len(sent)]
        /\ \A k \in 0..Len(sent) : Written(sent)[k] \in Seq(Byte)
    BY <1>1, PacketsWritten
  <2>2. t \in 0..Len(Packets(sent)) /\ Len(sent) \in t..Len(Packets(sent)) /\ t \in 0..Len(sent)
    BY <1>1, <2>1
  <2>3. \A j \in 1..Len(Joined(Packets(sent))[t]) :
          Joined(Packets(sent))[Len(sent)][j] = Joined(Packets(sent))[t][j]
    BY <2>1, <2>2, JoinedPrefix
  <2> QED
    BY <2>1, <2>2, <2>3, Zenon
<1> HIDE DEF w
<1>6. SubSeq(stream, 1, offset) = w
  <2> DEFINE b == SubSeq(stream, 1, offset)
  <2>1. stream \in Seq(Byte) /\ Len(stream) \in Nat /\ Len(Stream(sent)) \in Nat
    BY <1>1 DEF Received
  <2>2. 1 \in 1..Len(stream) + 1 /\ offset \in (1 - 1)..Len(stream)
    BY <1>1, <2>1
  <2>3. b \in Seq(Byte) /\ Len(b) = offset /\ \A j \in 1..offset : b[j] = stream[j]
    <3>1. /\ b \in Seq(Byte) /\ Len(b) = offset - 1 + 1
          /\ \A j \in 1..(offset - 1 + 1) : b[j] = stream[1 + j - 1]
      BY <2>1, <2>2, SubSeqProperties
    <3>2. offset - 1 + 1 = offset /\ \A j \in 1..offset : 1 + j - 1 = j
      BY <1>1
    <3> QED
      BY <3>1, <3>2
  <2>4. \A j \in 1..offset : b[j] = w[j]
    <3> TAKE j \in 1..offset
    <3>1. j \in 1..Len(Stream(sent)) /\ j \in 1..Len(w)
      BY <1>1, <1>2, <2>1
    <3> QED
      BY <1>1, <1>5, <2>3, <3>1, Zenon
  <2> HIDE DEF b
  <2>5. b = w
    BY <1>2, <1>5, <2>3, <2>4, SeqEqual
  <2> QED
    BY <2>5 DEF b
<1> QED
  BY <1>1, <1>2, <1>4, <1>6 DEF PacketsArrive

(* Whatever packets are sent, and in whatever pieces they arrive, packets    *)
(* are delivered in the order they were sent, each from its own bytes        *)
(* (genpackets.go:111-205, reader.go:55-95): for any values the fields can   *)
(* hold, any number of packets and any number of cuts.                       *)
THEOREM PacketsAlwaysArrive == WireSpec => []PacketsArrive
<1>1. WireInit => WireInv
  BY WireStart
<1>2. WireInv /\ [WireNext]_wireVars => WireInv'
  BY WireKept
<1>3. WireInv => PacketsArrive
  BY TakenArrived
<1> QED
  BY <1>1, <1>2, <1>3, PTL DEF WireSpec

(* A reader that has stopped before the last packet met a string in two      *)
(* pieces (reader.go:80-95), and nothing else: for any values, packets and   *)
(* cuts.                                                                     *)
THEOREM OnlyCutStringsEverStop == WireSpec => []OnlyCutStringsStop
<1>1. WireInit => WireInv
  BY WireStart
<1>2. WireInv /\ [WireNext]_wireVars => WireInv'
  BY WireKept
<1>3. WireInv => OnlyCutStringsStop
  BY DEF WireInv
<1> QED
  BY <1>1, <1>2, <1>3, PTL DEF WireSpec
=============================================================================
