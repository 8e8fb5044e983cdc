----------------------------- MODULE DataLemmas -----------------------------
(***************************************************************************)
(* What the operators that several models are built from return and keep,  *)
(* for every argument: Min, recursive functions, the balancer's list, and  *)
(* the elements of a sequence that belong to one of its senders.           *)
(***************************************************************************)
EXTENDS Integers, Balancer, Picking, FiniteSetsExt,
        SequenceTheorems, FiniteSetTheorems, FunctionTheorems, WellFoundedInduction, TLAPS

(* The smallest element of a non-empty set of numbers is one of them: the     *)
(* code's searches for the first entry of a list are Min of its positions.    *)
LEMMA MinElement ==
  ASSUME NEW S \in SUBSET Nat, S # {}
  PROVE  Min(S) \in S /\ \A n \in S : Min(S) <= n
<1> DEFINE Below == {0..n : n \in S}
           R == StrictSubsetOrdering(Nat)
<1>1. IsWellFoundedOn(R, FiniteSubsetsOf(Nat))
  BY FS_StrictSubsetOrderingWellFounded
<1>2. Below \subseteq FiniteSubsetsOf(Nat) /\ Below # {}
  <2>1. \A n \in S : IsFiniteSet(0..n) /\ 0..n \subseteq Nat
    BY FS_Interval
  <2> QED
    BY <2>1 DEF FiniteSubsetsOf
<1>3. \E x \in Below : \A y \in Below : <<y, x>> \notin R
  <2> HIDE DEF Below, R
  <2> QED
    BY <1>1, <1>2, WFMin
<1>4. PICK m \in S : \A n \in S : <<0..n, 0..m>> \notin R
  BY <1>3
<1>5. ASSUME NEW n \in S, n < m
      PROVE  FALSE
  <2>1. 0..n \subseteq 0..m /\ m \in 0..m /\ m \notin 0..n
    BY <1>5
  <2>2. <<0..n, 0..m>> \in R
    BY <2>1 DEF StrictSubsetOrdering
  <2> QED
    BY <1>4, <2>2
<1>6. \A n \in S : m <= n
  BY <1>5
<1> QED
  BY <1>6 DEF Min
(* Induction over a range: there is no smallest number that is left out.      *)
LEMMA Climb ==
  ASSUME NEW a \in Nat, NEW b \in Nat, NEW S, a \in S,
         \A k \in Nat : a <= k /\ k < b /\ k \in S => k + 1 \in S
  PROVE  \A k \in a..b : k \in S
<1> DEFINE Out == {k \in Nat : a <= k /\ k <= b /\ k \notin S}
           m == Min(Out)
<1>1. SUFFICES ASSUME Out # {} PROVE FALSE
  OBVIOUS
<1>2. m \in Out /\ \A k \in Out : m <= k
  <2>1. Out \in SUBSET Nat
    OBVIOUS
  <2> HIDE DEF Out
  <2> QED
    BY <1>1, <2>1, MinElement
<1> HIDE DEF m
<1>3. m \in Nat /\ a <= m /\ m <= b /\ m \notin S /\ m # a
  BY <1>2
<1>4. m - 1 \in Nat /\ a <= m - 1 /\ m - 1 < b /\ (m - 1) + 1 = m
  BY <1>3
<1>5. m - 1 \in S
  BY <1>2, <1>4
<1> QED
  BY <1>3, <1>4, <1>5

(* A function on 0..n whose values are made one from the one before exists:   *)
(* there is no shortest 0..n without one.                                     *)
Made(A, first, G, n) ==
  \E f \in [0..n -> A] : f[0] = first /\ \A k \in 1..n : f[k] = G[<<f[k - 1], k>>]

LEMMA MadeLonger ==
  ASSUME NEW A, NEW first \in A, NEW G \in [A \X Nat -> A], NEW j \in Nat, Made(A, first, G, j)
  PROVE  Made(A, first, G, j + 1)
<1>1. PICK f \in [0..j -> A] : f[0] = first /\ \A k \in 1..j : f[k] = G[<<f[k - 1], k>>]
  BY DEF Made
<1>2. PICK x \in A : x = G[<<f[j], j + 1>>]
  <2>1. <<f[j], j + 1>> \in A \X Nat
    BY <1>1
  <2> QED
    BY <2>1
<1> DEFINE g == [k \in 0..(j + 1) |-> IF k = j + 1 THEN x ELSE f[k]]
<1>3. g \in [0..(j + 1) -> A] /\ g[j + 1] = x /\ \A k \in 0..j : g[k] = f[k]
  BY <1>1, <1>2
<1> HIDE DEF g
<1>4. g[0] = first
  BY <1>1, <1>3
<1>5. ASSUME NEW k \in 1..(j + 1)
      PROVE  g[k] = G[<<g[k - 1], k>>]
  <2>1. k - 1 \in 0..j /\ (k = j + 1 \/ k \in 1..j)
    OBVIOUS
  <2>2. CASE k = j + 1
    BY <1>2, <1>3, <2>1, <2>2
  <2>3. CASE k \in 1..j
    <3>1. g[k] = f[k] /\ g[k - 1] = f[k - 1]
      BY <1>3, <2>1, <2>3
    <3>2. f[k] = G[<<f[k - 1], k>>]
      BY <1>1, <2>3
    <3> QED
      BY <3>1, <3>2
  <2> QED
    BY <2>1, <2>2, <2>3
<1> QED
  BY <1>3, <1>4, <1>5 DEF Made

LEMMA Recursion ==
  ASSUME NEW A, NEW first \in A, NEW G \in [A \X Nat -> A], NEW n \in Nat
  PROVE  Made(A, first, G, n)
<1> DEFINE S == {j \in Nat : ~Made(A, first, G, j)}
           m == Min(S)
<1>1. SUFFICES ASSUME S # {} PROVE FALSE
  OBVIOUS
<1>2. m \in S /\ \A j \in S : m <= j
  <2>1. S \in SUBSET Nat
    OBVIOUS
  <2> HIDE DEF S
  <2> QED
    BY <1>1, <2>1, MinElement
<1> HIDE DEF m
<1>3. Made(A, first, G, 0)
  <2>1. [k \in 0..0 |-> first] \in [0..0 -> A] /\ [k \in 0..0 |-> first][0] = first
    OBVIOUS
  <2>2. 1..0 = {}
    OBVIOUS
  <2> QED
    BY <2>1, <2>2 DEF Made
<1>4. m \in Nat /\ m # 0 /\ ~Made(A, first, G, m)
  BY <1>2, <1>3
<1>5. m - 1 \in Nat /\ (m - 1) + 1 = m /\ ~(m <= m - 1)
  BY <1>4
<1>6. Made(A, first, G, m - 1)
  BY <1>2, <1>5
<1>7. Made(A, first, G, (m - 1) + 1)
  BY <1>5, <1>6, MadeLonger
<1> QED
  BY <1>4, <1>5, <1>7
-----------------------------------------------------------------------------
(* A list of items from S without duplicates, and a position in it that Get   *)
(* may read unless the list is empty.                                         *)
Sound(b, S) ==
  /\ b \in [set : Seq(S), index : Nat]
  /\ \A j, k \in 1..Len(b.set) : b.set[j] = b.set[k] => j = k
  /\ IF b.set = <<>> THEN b.index = 0 ELSE b.index < Len(b.set)

LEMMA NewBalancerSound ==
  ASSUME NEW S
  PROVE  Sound(NewBalancer, S) /\ Members(NewBalancer) = {}
  BY DEF Sound, NewBalancer, Members

LEMMA AddSound ==
  ASSUME NEW S, NEW b, NEW item \in S, Sound(b, S)
  PROVE  /\ Sound(Add(b, item), S)
         /\ Members(Add(b, item)) = Members(b) \cup {item}
         /\ Add(b, item).set # <<>>
<1> DEFINE l == Len(b.set)
<1>1. b.set \in Seq(S) /\ l \in Nat /\ b.index \in Nat /\ b \in [set : Seq(S), index : Nat]
  BY DEF Sound
<1>2. CASE Places(b, item) # {}
  <2>1. Add(b, item) = b
    BY <1>2 DEF Add
  <2>2. item \in Members(b) /\ b.set # <<>>
    BY <1>1, <1>2 DEF Members, Places
  <2> QED
    BY <2>1, <2>2
<1>3. CASE Places(b, item) = {}
  <2>1. /\ Add(b, item).set = Append(b.set, item)
        /\ Add(b, item).index = b.index
        /\ Add(b, item) \in [set : Seq(S), index : Nat]
    BY <1>1, <1>3 DEF Add
  <2>2. /\ Len(Append(b.set, item)) = l + 1
        /\ Append(b.set, item)[l + 1] = item
        /\ \A k \in 1..l : Append(b.set, item)[k] = b.set[k]
    BY <1>1, AppendProperties
  <2>3. \A k \in 1..l : b.set[k] # item
    BY <1>3 DEF Places
  <2>4. \A j, k \in 1..(l + 1) : Append(b.set, item)[j] = Append(b.set, item)[k] => j = k
    BY <1>1, <2>2, <2>3 DEF Sound
  <2>5. b.index < l + 1 /\ Append(b.set, item) # <<>>
    BY <1>1, <2>2 DEF Sound
  <2>6. Members(Add(b, item)) = Members(b) \cup {item}
    BY <1>1, <2>1, <2>2 DEF Members
  <2> QED
    BY <2>1, <2>2, <2>4, <2>5, <2>6 DEF Sound
<1> QED
  BY <1>2, <1>3

LEMMA RemoveSound ==
  ASSUME NEW S, NEW b, NEW item, Sound(b, S)
  PROVE  /\ Sound(Remove(b, item), S)
         /\ Members(Remove(b, item)) = Members(b) \ {item}
<1> DEFINE l == Len(b.set)
           i == CHOOSE k \in Places(b, item) : TRUE
           left == CutOut(b, item)
<1>1. b.set \in Seq(S) /\ l \in Nat /\ b.index \in Nat
  BY DEF Sound
<1>2. CASE Places(b, item) = {}
  BY <1>2 DEF Remove, Members, Places
<1>3. CASE Places(b, item) # {}
  <2>1. i \in 1..l /\ b.set[i] = item
    BY <1>3 DEF Places
  <2> HIDE DEF i
  <2>2. /\ SubSeq(b.set, 1, i - 1) \in Seq(S)
        /\ Len(SubSeq(b.set, 1, i - 1)) = i - 1
        /\ \A k \in 1..(i - 1) : SubSeq(b.set, 1, i - 1)[k] = b.set[k]
    BY <1>1, <2>1, SubSeqProperties
  <2>3. /\ SubSeq(b.set, i + 1, l) \in Seq(S)
        /\ Len(SubSeq(b.set, i + 1, l)) = l - i
        /\ \A k \in 1..(l - i) : SubSeq(b.set, i + 1, l)[k] = b.set[i + k]
    BY <1>1, <2>1, SubSeqProperties
  <2>4. left = SubSeq(b.set, 1, i - 1) \o SubSeq(b.set, i + 1, l)
    BY DEF CutOut, i
  <2> HIDE DEF left
  <2>5. /\ left \in Seq(S)
        /\ Len(left) = l - 1
        /\ \A k \in 1..(l - 1) : left[k] = IF k < i THEN b.set[k] ELSE b.set[k + 1]
    <3> DEFINE u == SubSeq(b.set, 1, i - 1)
               v == SubSeq(b.set, i + 1, l)
    <3>1. /\ u \in Seq(S) /\ Len(u) = i - 1 /\ \A k \in 1..(i - 1) : u[k] = b.set[k]
          /\ v \in Seq(S) /\ Len(v) = l - i /\ \A k \in 1..(l - i) : v[k] = b.set[i + k]
          /\ left = u \o v
      BY <2>2, <2>3, <2>4
    <3> HIDE DEF u, v, l
    <3>2. /\ left \in Seq(S)
          /\ Len(left) = Len(u) + Len(v)
          /\ \A k \in 1..(Len(u) + Len(v)) :
               left[k] = IF k <= Len(u) THEN u[k] ELSE v[k - Len(u)]
      BY <3>1, ConcatProperties
    <3>3. Len(left) = l - 1
      BY <1>1, <2>1, <3>1, <3>2
    <3>4. ASSUME NEW k \in 1..(l - 1)
          PROVE  left[k] = IF k < i THEN b.set[k] ELSE b.set[k + 1]
      <4>1. CASE k < i
        BY <1>1, <2>1, <3>1, <3>2, <4>1
      <4>2. CASE ~(k < i)
        <5>1. k - Len(u) \in 1..(l - i) /\ i + (k - Len(u)) = k + 1
          BY <1>1, <2>1, <3>1, <4>2
        <5>2. v[k - Len(u)] = b.set[k + 1]
          BY <3>1, <5>1
        <5> QED
          BY <1>1, <2>1, <3>1, <3>2, <4>2, <5>2
      <4> QED
        BY <4>1, <4>2
    <3> QED
      BY <3>2, <3>3, <3>4
  <2>6. Remove(b, item) = [set |-> left, index |-> IF Len(left) >= b.index THEN 0 ELSE b.index]
    BY <1>3 DEF Remove, left
  <2>7. Len(left) >= b.index
    BY <1>1, <2>1, <2>5 DEF Sound
  <2>8. Remove(b, item).set = left /\ Remove(b, item).index = 0
    BY <2>6, <2>7
  <2>9. \A j, k \in 1..Len(left) : left[j] = left[k] => j = k
    BY <1>1, <2>1, <2>5 DEF Sound
  <2>10. Sound(Remove(b, item), S)
    BY <2>5, <2>6, <2>7, <2>9 DEF Sound
  <2>11. {left[k] : k \in 1..Len(left)} = {b.set[k] : k \in 1..l} \ {item}
    <3>1. ASSUME NEW k \in 1..(l - 1)
          PROVE  \E h \in 1..l : left[k] = b.set[h] /\ h # i
      <4>1. CASE k < i
        <5>1. k \in 1..l /\ k # i /\ left[k] = b.set[k]
          BY <1>1, <2>1, <2>5, <4>1
        <5> QED
          BY <5>1
      <4>2. CASE ~(k < i)
        BY <1>1, <2>1, <2>5, <4>2
      <4> QED
        BY <4>1, <4>2
    <3>2. ASSUME NEW h \in 1..l, h # i
          PROVE  \E k \in 1..(l - 1) : left[k] = b.set[h]
      <4>1. CASE h < i
        BY <1>1, <2>1, <2>5, <4>1
      <4>2. CASE ~(h < i)
        <5>1. h - 1 \in 1..(l - 1) /\ ~(h - 1 < i) /\ (h - 1) + 1 = h
          BY <1>1, <2>1, <3>2, <4>2
        <5> QED
          BY <2>5, <5>1
      <4> QED
        BY <4>1, <4>2
    <3>3. \A h \in 1..l : b.set[h] = item => h = i
      BY <2>1 DEF Sound
    <3>4. ASSUME NEW x, x \in {left[k] : k \in 1..(l - 1)}
          PROVE  x \in {b.set[h] : h \in 1..l} \ {item}
      <4>1. PICK k \in 1..(l - 1) : x = left[k]
        BY <3>4
      <4>2. PICK h \in 1..l : left[k] = b.set[h] /\ h # i
        BY <3>1
      <4> QED
        BY <3>3, <4>1, <4>2
    <3>5. ASSUME NEW x, x \in {b.set[h] : h \in 1..l} \ {item}
          PROVE  x \in {left[k] : k \in 1..(l - 1)}
      <4>1. PICK h \in 1..l : x = b.set[h]
        BY <3>5
      <4>2. h # i
        BY <2>1, <3>5, <4>1
      <4>3. PICK k \in 1..(l - 1) : left[k] = b.set[h]
        BY <3>2, <4>2
      <4> QED
        BY <4>1, <4>3
    <3> QED
      BY <2>5, <3>4, <3>5
  <2> QED
    BY <2>8, <2>10, <2>11 DEF Members
<1> QED
  BY <1>2, <1>3

LEMMA TurnedSound ==
  ASSUME NEW S, NEW b, Sound(b, S), b.set # <<>>
  PROVE  /\ Sound(Turned(b), S)
         /\ Turned(b).set = b.set
         /\ Members(Turned(b)) = Members(b)
         /\ GetItem(b) \in Members(b)
         /\ Members(b) \subseteq S
<1> DEFINE l == Len(b.set)
<1>1. b.set \in Seq(S) /\ b.index \in Nat /\ b \in [set : Seq(S), index : Nat] /\ b.index < l
  BY DEF Sound
<1>2. l \in Nat \ {0}
  BY <1>1
<1>3. (b.index + 1) % l \in Nat /\ (b.index + 1) % l < l
  <2> HIDE DEF l
  <2> QED
    BY <1>1, <1>2
<1>4. Turned(b) = [b EXCEPT !.index = (b.index + 1) % l]
  BY DEF Turned
<1>5. Turned(b).set = b.set /\ Turned(b).index = (b.index + 1) % l
  BY <1>1, <1>4
<1>6. GetItem(b) \in Members(b)
  BY <1>1, <1>2 DEF GetItem, Members
<1> QED
  BY <1>1, <1>3, <1>4, <1>5, <1>6 DEF Sound, Members
-----------------------------------------------------------------------------
(* Ranks are numbers, and grow with the number. *)
LEMMA RankOrder ==
  ASSUME NEW P \in SUBSET Nat, IsFiniteSet(P), NEW p \in P
  PROVE  /\ Rank(P, p) \in Nat /\ Rank(P, p) < Cardinality(P)
         /\ \A q \in P : p < q => Rank(P, p) < Rank(P, q)
<1> DEFINE Below(q) == {r \in P : r < q}
<1>1. \A q \in P : IsFiniteSet(Below(q)) /\ Cardinality(Below(q)) \in Nat /\ Cardinality(P) \in Nat
  <2> TAKE q \in P
  <2>1. Below(q) \in SUBSET P
    OBVIOUS
  <2> QED
    BY <2>1, FS_Subset, FS_CardinalityType
<1>2. Rank(P, p) < Cardinality(P)
  <2>1. Below(p) \in SUBSET P /\ p \notin Below(p)
    OBVIOUS
  <2>2. Cardinality(Below(p)) <= Cardinality(P) /\ Cardinality(Below(p)) # Cardinality(P)
    BY <2>1, FS_Subset
  <2> QED
    BY <1>1, <2>2 DEF Rank
<1>3. ASSUME NEW q \in P, p < q
      PROVE  Rank(P, p) < Rank(P, q)
  <2>1. Below(p) \in SUBSET Below(q) /\ p \in Below(q) /\ p \notin Below(p)
    <3>1. p \in Nat /\ q \in Nat /\ \A r \in P : r \in Nat
      OBVIOUS
    <3>2. \A r \in P : r < p => r < q
      BY <1>3, <3>1
    <3>3. p \in Below(q)
      BY <1>3
    <3>4. p \notin Below(p)
      BY <3>1
    <3>5. Below(p) \in SUBSET Below(q)
      BY <3>2
    <3> QED
      BY <3>3, <3>4, <3>5
  <2>2. Cardinality(Below(p)) <= Cardinality(Below(q)) /\ Cardinality(Below(p)) # Cardinality(Below(q))
    BY <1>1, <2>1, FS_Subset
  <2> QED
    BY <1>1, <2>2 DEF Rank
<1> QED
  BY <1>1, <1>2, <1>3 DEF Rank

(* A number is where its rank says. *)
LEMMA NthRank ==
  ASSUME NEW P \in SUBSET Nat, IsFiniteSet(P), NEW p \in P, NEW k, k = Rank(P, p) + 1
  PROVE  Nth(P, k) = p
<1>1. Rank(P, p) = k - 1
  BY RankOrder
<1>2. \A q \in P : Rank(P, q) = k - 1 => q = p
  <2> TAKE q \in P
  <2>1. CASE p < q
    BY <1>1, <2>1, RankOrder
  <2>2. CASE q < p
    BY <1>1, <2>2, RankOrder
  <2> QED
    BY <2>1, <2>2
<1> QED
  BY <1>1, <1>2 DEF Nth

(* There is a k-th number for every k up to their count. *)
LEMMA NthElement ==
  ASSUME NEW P \in SUBSET Nat, IsFiniteSet(P), NEW k \in 1..Cardinality(P)
  PROVE  Nth(P, k) \in P /\ Rank(P, Nth(P, k)) = k - 1
<1> DEFINE n == Cardinality(P)
           f == [p \in P |-> Rank(P, p)]
<1>1. n \in Nat
  BY FS_CardinalityType
<1>2. IsFiniteSet(0..(n - 1)) /\ Cardinality(0..(n - 1)) = n
  <2>1. 0 \in Int /\ n - 1 \in Int /\ (IF 0 > n - 1 THEN 0 ELSE (n - 1) - 0 + 1) = n
    BY <1>1
  <2> HIDE DEF n
  <2> QED
    BY <2>1, FS_Interval
<1>3. f \in [P -> 0..(n - 1)]
  BY <1>1, RankOrder
<1>4. \A p, q \in P : f[p] = f[q] => p = q
  <2> TAKE p, q \in P
  <2>1. CASE p < q
    BY <2>1, RankOrder
  <2>2. CASE q < p
    BY <2>2, RankOrder
  <2> QED
    BY <2>1, <2>2
<1>5. f \in Injection(P, 0..(n - 1))
  BY <1>3, <1>4 DEF Injection, IsInjective
<1>6. f \in Surjection(P, 0..(n - 1))
  BY <1>2, <1>5, FS_Injection
<1>7. k - 1 \in 0..(n - 1)
  BY <1>1
<1>8. \E p \in P : f[p] = k - 1
  BY <1>6, <1>7 DEF Surjection
<1> QED
  BY <1>8 DEF Nth

(* Picked gives a sequence of elements at the positions. *)
LEMMA PickedSeq ==
  ASSUME NEW P \in SUBSET Nat, IsFiniteSet(P), NEW V, NEW s, \A p \in P : s[p] \in V
  PROVE  /\ Picked(s, P) \in Seq(V) /\ Len(Picked(s, P)) = Cardinality(P)
         /\ \A k \in 1..Cardinality(P) : Picked(s, P)[k] = s[Nth(P, k)] /\ Nth(P, k) \in P
<1>1. Cardinality(P) \in Nat
  BY FS_CardinalityType
<1>2. \A k \in 1..Cardinality(P) : Nth(P, k) \in P
  BY NthElement
<1>3. Picked(s, P) \in [1..Cardinality(P) -> V]
  BY <1>2 DEF Picked
<1>4. Picked(s, P) \in Seq(V) /\ Len(Picked(s, P)) = Cardinality(P)
  BY <1>1, <1>3
<1> QED
  BY <1>2, <1>4 DEF Picked

Behind(m, P) == m \in Nat /\ \A p \in P : p < m

Agree(s, t, P) == \A p \in P : t[p] = s[p]

(* A position behind all others adds its element at the end. *)
LEMMA PickedLast ==
  ASSUME NEW P \in SUBSET Nat, IsFiniteSet(P), NEW m, Behind(m, P),
         NEW s, NEW t, Agree(s, t, P)
  PROVE  Picked(t, P \cup {m}) = Append(Picked(s, P), t[m])
<1> SUFFICES ASSUME m \in Nat, \A p \in P : p < m, \A p \in P : t[p] = s[p]
             PROVE  Picked(t, P \cup {m}) = Append(Picked(s, P), t[m])
  BY DEF Behind, Agree
<1> DEFINE V == {s[p] : p \in P} \cup {t[m]}
           n == Cardinality(P)
           Q == P \cup {m}
<1>1. n \in Nat /\ Q \in SUBSET Nat /\ IsFiniteSet(Q) /\ Cardinality(Q) = n + 1
  BY FS_CardinalityType, FS_AddElement
<1>2. \A p \in P : Rank(Q, p) = Rank(P, p)
  <2> TAKE p \in P
  <2>1. {q \in Q : q < p} = {q \in P : q < p}
    OBVIOUS
  <2> QED
    BY <2>1 DEF Rank
<1>3. Rank(Q, m) = n
  <2>1. \A q \in Q : q < m <=> q \in P
    <3>1. \A q \in P : q \in Nat /\ q < m
      OBVIOUS
    <3>2. ~(m < m)
      OBVIOUS
    <3> QED
      BY <3>1, <3>2
  <2>2. {q \in Q : q < m} = P
    BY <2>1
  <2> QED
    BY <2>2 DEF Rank
<1>4. \A k \in 1..n : Nth(Q, k) = Nth(P, k) /\ Nth(P, k) \in P
  <2> TAKE k \in 1..n
  <2>1. Nth(P, k) \in P /\ Rank(P, Nth(P, k)) = k - 1
    BY NthElement
  <2>2. Nth(P, k) \in Q /\ k = Rank(Q, Nth(P, k)) + 1
    <3>1. Rank(Q, Nth(P, k)) = Rank(P, Nth(P, k))
      BY <1>2, <2>1, Zenon
    <3> QED
      BY <1>1, <2>1, <3>1
  <2>3. Nth(Q, k) = Nth(P, k)
    BY <1>1, <2>2, NthRank
  <2> QED
    BY <2>1, <2>3
<1>5. Nth(Q, n + 1) = m
  BY <1>1, <1>3, NthRank
<1>6. Picked(s, P) \in Seq(V) /\ Len(Picked(s, P)) = n
  BY PickedSeq
<1>7. Picked(t, Q) \in Seq(V) /\ Len(Picked(t, Q)) = n + 1
  <2>1. \A p \in Q : t[p] \in V
    OBVIOUS
  <2> QED
    BY <1>1, <2>1, PickedSeq
<1>8. \A k \in 1..(n + 1) : Picked(t, Q)[k] = Append(Picked(s, P), t[m])[k]
  <2> TAKE k \in 1..(n + 1)
  <2>1. Picked(t, Q)[k] = t[Nth(Q, k)]
    BY <1>1 DEF Picked
  <2>2. CASE k \in 1..n
    <3>1. Picked(s, P)[k] = s[Nth(P, k)]
      BY <2>2 DEF Picked
    <3>2. Append(Picked(s, P), t[m])[k] = Picked(s, P)[k]
      BY <1>6, <2>2, <1>1
    <3> QED
      BY <1>4, <2>1, <2>2, <3>1, <3>2
  <2>3. CASE k = n + 1
    <3>1. Append(Picked(s, P), t[m])[n + 1] = t[m]
      BY <1>6, <1>1
    <3> QED
      BY <1>5, <2>1, <2>3, <3>1
  <2>4. k \in 1..n \/ k = n + 1
    BY <1>1
  <2> QED
    BY <2>2, <2>3, <2>4
<1> HIDE DEF n, Q
<1>9. Append(Picked(s, P), t[m]) \in Seq(V) /\ Len(Append(Picked(s, P), t[m])) = n + 1
  BY <1>6
<1>10. Picked(t, Q) = Append(Picked(s, P), t[m])
  BY <1>1, <1>7, <1>8, <1>9, SeqEqual
<1> QED
  BY <1>10 DEF Q

(* Only the elements at the positions matter. *)
LEMMA PickedSame ==
  ASSUME NEW P \in SUBSET Nat, IsFiniteSet(P), NEW s, NEW t, \A p \in P : t[p] = s[p]
  PROVE  Picked(t, P) = Picked(s, P)
<1>1. \A k \in 1..Cardinality(P) : Nth(P, k) \in P
  BY NthElement
<1> QED
  BY <1>1 DEF Picked

(* A position before all others puts its element in front. *)
LEMMA PickedFirst ==
  ASSUME NEW P \in SUBSET Nat, IsFiniteSet(P), NEW m \in Nat, \A p \in P : m < p,
         NEW s
  PROVE  Picked(s, P \cup {m}) = <<s[m]>> \o Picked(s, P)
<1> DEFINE V == {s[p] : p \in P \cup {m}}
           n == Cardinality(P)
           Q == P \cup {m}
           r == <<s[m]>> \o Picked(s, P)
<1>1. n \in Nat /\ Q \in SUBSET Nat /\ IsFiniteSet(Q) /\ Cardinality(Q) = n + 1
  BY FS_CardinalityType, FS_AddElement
<1>2. \A p \in P : Rank(Q, p) = Rank(P, p) + 1
  <2> TAKE p \in P
  <2>1. {q \in Q : q < p} = {q \in P : q < p} \cup {m}
    OBVIOUS
  <2>2. {q \in P : q < p} \in SUBSET P /\ m \notin {q \in P : q < p}
    OBVIOUS
  <2>3. IsFiniteSet({q \in P : q < p})
    BY <2>2, FS_Subset
  <2> QED
    BY <2>1, <2>2, <2>3, FS_AddElement DEF Rank
<1>3. Rank(Q, m) = 0
  <2>1. \A q \in Q : ~(q < m)
    OBVIOUS
  <2>2. {q \in Q : q < m} = {}
    BY <2>1
  <2> QED
    BY <2>2, FS_EmptySet DEF Rank
<1>4. \A k \in 1..n : Nth(Q, k + 1) = Nth(P, k) /\ Nth(P, k) \in P
  <2> TAKE k \in 1..n
  <2>1. Nth(P, k) \in P /\ Rank(P, Nth(P, k)) = k - 1
    BY NthElement
  <2>2. Rank(Q, Nth(P, k)) = Rank(P, Nth(P, k)) + 1
    BY <1>2, <2>1, Zenon
  <2>3. Nth(P, k) \in Q /\ k + 1 = Rank(Q, Nth(P, k)) + 1
    BY <1>1, <2>1, <2>2
  <2>4. Nth(Q, k + 1) = Nth(P, k)
    BY <1>1, <2>3, NthRank
  <2> QED
    BY <2>1, <2>4
<1>5. Nth(Q, 1) = m
  BY <1>1, <1>3, NthRank
<1>6. Picked(s, P) \in Seq(V) /\ Len(Picked(s, P)) = n
  <2>1. \A p \in P : s[p] \in V
    OBVIOUS
  <2> HIDE DEF V
  <2> QED
    BY <2>1, PickedSeq
<1>7. Picked(s, Q) \in Seq(V) /\ Len(Picked(s, Q)) = n + 1
  BY <1>1, PickedSeq
<1>8. r \in Seq(V) /\ Len(r) = n + 1 /\ r[1] = s[m] /\ \A k \in 1..n : r[k + 1] = Picked(s, P)[k]
  <2>1. <<s[m]>> \in Seq(V) /\ Len(<<s[m]>>) = 1
    OBVIOUS
  <2> QED
    BY <1>1, <1>6, <2>1, ConcatProperties
<1>9. \A k \in 1..(n + 1) : Picked(s, Q)[k] = r[k]
  <2> TAKE k \in 1..(n + 1)
  <2>1. Picked(s, Q)[k] = s[Nth(Q, k)]
    BY <1>1 DEF Picked
  <2>2. CASE k = 1
    BY <1>5, <1>8, <2>1, <2>2
  <2>3. CASE k # 1
    <3>1. k - 1 \in 1..n /\ (k - 1) + 1 = k
      BY <1>1, <2>3
    <3>2. Picked(s, P)[k - 1] = s[Nth(P, k - 1)]
      BY <3>1 DEF Picked
    <3>3. Nth(Q, k) = Nth(P, k - 1)
      BY <1>4, <3>1, Zenon
    <3>4. r[k] = Picked(s, P)[k - 1]
      BY <1>8, <3>1, Zenon
    <3> QED
      BY <2>1, <3>2, <3>3, <3>4, Zenon
  <2> QED
    BY <2>2, <2>3
<1> HIDE DEF n, Q, r
<1>10. Picked(s, Q) = r
  BY <1>1, <1>7, <1>8, <1>9, SeqEqual
<1> QED
  BY <1>10 DEF Q, r

Shifted(Q) == {q + 1 : q \in Q}

LEMMA ShiftedSize ==
  ASSUME NEW Q \in SUBSET Nat, IsFiniteSet(Q)
  PROVE  IsFiniteSet(Shifted(Q)) /\ Cardinality(Shifted(Q)) = Cardinality(Q)
<1> DEFINE f == [q \in Q |-> q + 1]
<1>1. f \in [Q -> Shifted(Q)]
  BY DEF Shifted
<1>2. \A p, q \in Q : f[p] = f[q] => p = q
  OBVIOUS
<1>3. \A p \in Shifted(Q) : \E q \in Q : f[q] = p
  BY DEF Shifted
<1>4. f \in Bijection(Q, Shifted(Q))
  BY <1>1, <1>2, <1>3 DEF Bijection, Injection, Surjection, IsInjective
<1> QED
  BY <1>4, FS_Bijection DEF ExistsBijection

(* Positions in a sequence that has lost its first element are one less. *)
LEMMA PickedShifted ==
  ASSUME NEW Q \in SUBSET Nat, IsFiniteSet(Q), NEW s, NEW t, \A q \in Q : t[q] = s[q + 1]
  PROVE  Picked(s, Shifted(Q)) = Picked(t, Q)
<1> DEFINE P == Shifted(Q)
           n == Cardinality(Q)
<1>1. IsFiniteSet(P) /\ Cardinality(P) = n /\ P \in SUBSET Nat /\ n \in Nat
  BY ShiftedSize, FS_CardinalityType DEF Shifted
<1>2. \A q \in Q : q + 1 \in P /\ Rank(P, q + 1) = Rank(Q, q)
  <2> TAKE q \in Q
  <2>1. {p \in P : p < q + 1} = Shifted({r \in Q : r < q})
    BY DEF Shifted
  <2>2. {r \in Q : r < q} \in SUBSET Q
    OBVIOUS
  <2>3. IsFiniteSet({r \in Q : r < q}) /\ {r \in Q : r < q} \in SUBSET Nat
    BY <2>2, FS_Subset
  <2>4. Rank(P, q + 1) = Rank(Q, q)
    BY <2>1, <2>3, ShiftedSize DEF Rank
  <2> QED
    BY <2>4 DEF Shifted
<1>3. \A k \in 1..n : Nth(P, k) = Nth(Q, k) + 1 /\ Nth(Q, k) \in Q
  <2> TAKE k \in 1..n
  <2>1. Nth(Q, k) \in Q /\ Rank(Q, Nth(Q, k)) = k - 1
    BY NthElement
  <2>2. Nth(Q, k) + 1 \in P /\ Rank(P, Nth(Q, k) + 1) = Rank(Q, Nth(Q, k))
    BY <1>2, <2>1, Zenon
  <2>3. k = Rank(P, Nth(Q, k) + 1) + 1
    BY <1>1, <2>1, <2>2
  <2>4. Nth(P, k) = Nth(Q, k) + 1
    BY <1>1, <2>2, <2>3, NthRank
  <2> QED
    BY <2>1, <2>4
<1> QED
  BY <1>1, <1>3 DEF Picked
-----------------------------------------------------------------------------
(* The elements of a sequence val that belong to one owner: own[i] is the     *)
(* owner of val[i].  They are what a channel holds of one of its senders.     *)
PositionsOf(own, n, s) == {i \in 1..n : own[i] = s}

LEMMA PositionsOfFinite ==
  ASSUME NEW n \in Nat, NEW own, NEW s
  PROVE  PositionsOf(own, n, s) \in SUBSET Nat /\ IsFiniteSet(PositionsOf(own, n, s))
<1>1. IsFiniteSet(1..n) /\ PositionsOf(own, n, s) \in SUBSET (1..n)
  BY FS_Interval DEF PositionsOf
<1>2. IsFiniteSet(PositionsOf(own, n, s))
  BY <1>1, FS_Subset
<1> QED
  BY <1>1, <1>2

LEMMA StreamSeq ==
  ASSUME NEW n \in Nat, NEW own, NEW val, NEW s, NEW V, \A i \in 1..n : val[i] \in V
  PROVE  /\ Picked(val, PositionsOf(own, n, s)) \in Seq(V)
         /\ \A k \in 1..Len(Picked(val, PositionsOf(own, n, s))) :
              \E i \in 1..n : own[i] = s /\ Picked(val, PositionsOf(own, n, s))[k] = val[i]
<1> DEFINE P == PositionsOf(own, n, s)
<1>1. P \in SUBSET Nat /\ IsFiniteSet(P) /\ \A i \in P : i \in 1..n /\ own[i] = s /\ val[i] \in V
  BY PositionsOfFinite DEF PositionsOf
<1> HIDE DEF P
<1>2. /\ Picked(val, P) \in Seq(V) /\ Len(Picked(val, P)) = Cardinality(P)
      /\ \A k \in 1..Cardinality(P) : Picked(val, P)[k] = val[Nth(P, k)] /\ Nth(P, k) \in P
  BY <1>1, PickedSeq
<1>3. \A k \in 1..Len(Picked(val, P)) : \E i \in 1..n : own[i] = s /\ Picked(val, P)[k] = val[i]
  BY <1>1, <1>2
<1> QED
  BY <1>2, <1>3 DEF P

SameFirst(n, own, val, own1, val1) ==
  \A i \in 1..n : own1[i] = own[i] /\ val1[i] = val[i]

SameLast(n, own, val, own1, val1) ==
  \A i \in 1..n : own1[i] = own[i + 1] /\ val1[i] = val[i + 1]

(* An element at the end is the last of its owner. *)
LEMMA StreamAppend ==
  ASSUME NEW n \in Nat, NEW own, NEW val, NEW own1, NEW val1, NEW s,
         SameFirst(n, own, val, own1, val1)
  PROVE  /\ own1[n + 1] = s =>
              Picked(val1, PositionsOf(own1, n + 1, s)) = Append(Picked(val, PositionsOf(own, n, s)), val1[n + 1])
         /\ own1[n + 1] # s =>
              Picked(val1, PositionsOf(own1, n + 1, s)) = Picked(val, PositionsOf(own, n, s))
<1> DEFINE P == PositionsOf(own, n, s)
           m == n + 1
<1>1. P \in SUBSET Nat
  BY PositionsOfFinite
<1>2. IsFiniteSet(P)
  BY PositionsOfFinite
<1>3. Behind(m, P)
  BY DEF Behind, PositionsOf
<1>4. \A p \in P : val1[p] = val[p]
  BY DEF PositionsOf, SameFirst
<1>5. Agree(val, val1, P)
  BY <1>4 DEF Agree
<1>6. PositionsOf(own1, m, s) = IF own1[m] = s THEN P \cup {m} ELSE P
  BY DEF PositionsOf, SameFirst
<1> HIDE DEF P, m
<1>7. Picked(val1, P \cup {m}) = Append(Picked(val, P), val1[m])
  BY <1>1, <1>2, <1>3, <1>5, PickedLast
<1>8. Picked(val1, P) = Picked(val, P)
  BY <1>1, <1>2, <1>4, PickedSame
<1> QED
  BY <1>6, <1>7, <1>8 DEF P, m

(* The element at the head is the first of its owner. *)
LEMMA StreamTail ==
  ASSUME NEW n \in Nat, NEW own, NEW val, NEW own1, NEW val1, NEW s,
         SameLast(n, own, val, own1, val1)
  PROVE  /\ own[1] = s =>
              Picked(val, PositionsOf(own, n + 1, s)) = <<val[1]>> \o Picked(val1, PositionsOf(own1, n, s))
         /\ own[1] # s =>
              Picked(val, PositionsOf(own, n + 1, s)) = Picked(val1, PositionsOf(own1, n, s))
<1> DEFINE Q == PositionsOf(own1, n, s)
           P == Shifted(Q)
<1>1. Q \in SUBSET Nat /\ IsFiniteSet(Q) /\ \A q \in Q : val1[q] = val[q + 1]
  <2>1. \A q \in Q : val1[q] = val[q + 1]
    BY DEF PositionsOf, SameLast
  <2> QED
    BY <2>1, PositionsOfFinite
<1>2. Picked(val, P) = Picked(val1, Q)
  <2> HIDE DEF Q
  <2> QED
    BY <1>1, PickedShifted
<1>3. P \in SUBSET Nat /\ IsFiniteSet(P) /\ \A p \in P : 1 < p
  <2>1. \A q \in Q : 1 <= q
    BY DEF PositionsOf
  <2> HIDE DEF Q
  <2> QED
    BY <1>1, <2>1, ShiftedSize DEF Shifted
<1>4. PositionsOf(own, n + 1, s) = IF own[1] = s THEN P \cup {1} ELSE P
  <2>1. \A i \in PositionsOf(own, n + 1, s) : i = 1 \/ i \in P
    <3> TAKE i \in PositionsOf(own, n + 1, s)
    <3>1. CASE i # 1
      <4>1. i - 1 \in 1..n /\ (i - 1) + 1 = i /\ own[i] = s
        BY <3>1 DEF PositionsOf
      <4>2. i - 1 \in Q
        BY <4>1 DEF PositionsOf, SameLast
      <4> QED
        BY <4>1, <4>2 DEF Shifted
    <3> QED
      BY <3>1
  <2>2. \A p \in P : p \in PositionsOf(own, n + 1, s)
    BY DEF Shifted, PositionsOf, SameLast
  <2>3. 1 \in PositionsOf(own, n + 1, s) <=> own[1] = s
    BY DEF PositionsOf
  <2> HIDE DEF P
  <2>4. CASE own[1] = s
    BY <2>1, <2>2, <2>3, <2>4
  <2>5. CASE own[1] # s
    BY <2>1, <2>2, <2>3, <2>5
  <2> QED
    BY <2>4, <2>5
<1> HIDE DEF P
<1>5. Picked(val, P \cup {1}) = <<val[1]>> \o Picked(val, P)
  BY <1>3, PickedFirst
<1> QED
  BY <1>2, <1>4, <1>5
=============================================================================
