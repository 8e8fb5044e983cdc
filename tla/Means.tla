-------------------------------- MODULE Means --------------------------------
(***************************************************************************)
(* A connection of the means server (means/server.go:18-64): prices are    *)
(* inserted and means asked for.  The errors of the reads inside a message *)
(* are ignored, so a message that the end of the stream cuts off is        *)
(* handled with zeros for what is missing.                                 *)
(***************************************************************************)
EXTENDS Integers, Sequences, FiniteSets

CONSTANTS
  MaxInt32, MaxInt64,   \* the largest int32 and int64
  Time, Price,          \* the timestamps and prices that are tried
  MaxInserts            \* bound

Ints(max) == (-max - 1)..max

(* As for 2^31 - 1 and 2^63 - 1: the sum of as many prices as an int32 counts *)
(* is an int64.                                                               *)
ASSUME MeansAssumption ==
  /\ MaxInt32 \in Nat /\ MaxInt64 \in Nat /\ MaxInserts \in 0..MaxInt32
  /\ MaxInt32 * (MaxInt32 + 1) <= MaxInt64
  /\ Time \subseteq Ints(MaxInt32) /\ Price \subseteq Ints(MaxInt32)

VARIABLES
  data,    \* what was stored
  whole,   \* how many of them were whole
  asked,   \* <<minTime, maxTime>> of the query just answered, or <<>>
  avg,     \* what was answered
  ended    \* the stream has

meansVars == <<data, whole, asked, avg, ended>>

MeansInit == data = <<>> /\ whole = 0 /\ asked = <<>> /\ avg = 0 /\ ended = FALSE
-----------------------------------------------------------------------------
Fit(n, max) == ((n + max + 1) % (2 * max + 2)) - max - 1

(* Mutant: the sum is an int32 as well. *)
SumNarrow(sum, price) == Fit(sum + price, MaxInt32)

SumWide(sum, price) == Fit(sum + price, MaxInt64)

(* Division towards zero. *)
Quotient(a, b) == IF a < 0 THEN -((-a) \div b) ELSE a \div b

Within(minTime, maxTime, d) == minTime <= d.timestamp /\ d.timestamp <= maxTime

Round(minTime, maxTime, before, d) ==
  IF Within(minTime, maxTime, d)
  THEN [sum |-> SumWide(before.sum, d.price), count |-> Fit(before.count + 1, MaxInt32)]
  ELSE before

(* The sum and the count after each round of the loop. *)
Loop(stored, minTime, maxTime) ==
  LET loop[k \in 0..Len(stored)] ==
        IF k = 0 THEN [sum |-> 0, count |-> 0]
        ELSE Round(minTime, maxTime, loop[k - 1], stored[k])
  IN loop

Mean(stored, minTime, maxTime) ==
  LET found == Loop(stored, minTime, maxTime)[Len(stored)]
  IN IF found.count > 0 THEN Fit(Quotient(found.sum, found.count), MaxInt32) ELSE 0

Store(timestamp, price) ==
  /\ data' = Append(data, [timestamp |-> timestamp, price |-> price])
  /\ asked' = <<>>
  /\ UNCHANGED avg

Answer(minTime, maxTime) ==
  /\ asked' = <<minTime, maxTime>>
  /\ avg' = Mean(data, minTime, maxTime)
  /\ UNCHANGED data

Insert(timestamp, price) ==
  /\ ~ended /\ Len(data) < MaxInserts
  /\ Store(timestamp, price)
  /\ whole' = Len(data')
  /\ UNCHANGED ended

Query(minTime, maxTime) == ~ended /\ Answer(minTime, maxTime) /\ UNCHANGED <<whole, ended>>

(* The stream ends before or inside a message. *)
StreamEnds ==
  /\ ~ended
  /\ ended' = TRUE /\ UNCHANGED whole
  /\ \/ UNCHANGED <<data, asked, avg>>
     \/ Len(data) < MaxInserts /\ \E t \in Time \cup {0} : Store(t, 0)
     \/ \E t \in Time \cup {0} : Answer(t, 0)

MeansNext ==
  \/ \E t \in Time, p \in Price : Insert(t, p)
  \/ \E a, b \in Time : Query(a, b)
  \/ StreamEnds

MeansSpec == MeansInit /\ [][MeansNext]_meansVars
-----------------------------------------------------------------------------
Abs(n) == IF n < 0 THEN -n ELSE n

(* What the prices at the positions ks come to, up to each position. *)
Sums(stored, ks) ==
  LET sum[k \in 0..Len(stored)] ==
        IF k = 0 THEN 0 ELSE sum[k - 1] + (IF k \in ks THEN stored[k].price ELSE 0)
  IN sum

(* The inserts that were whole and are in the range, and their sum. *)
Asked == {k \in 1..whole : Within(asked[1], asked[2], data[k])}

AskedSum == Sums(data, Asked)[whole]

(* The answer is the mean of the inserted prices in the range, rounded        *)
(* towards zero, and no sum of them overflows; an insert that was cut off     *)
(* counts in no answer.                                                       *)
MeanRight ==
  asked # <<>> =>
    LET count == Cardinality(Asked)
    IN IF Asked = {} THEN avg = 0
       ELSE /\ avg * AskedSum >= 0
            /\ Abs(avg) * count <= Abs(AskedSum)
            /\ Abs(AskedSum) < (Abs(avg) + 1) * count
=============================================================================
