------------------------------ MODULE PrimeTime ------------------------------
(***************************************************************************)
(* A connection of the prime time server (primetime/server.go:24-86): each *)
(* line is answered, or ends the connection.  Numbers are JSON's floats    *)
(* and the test runs on ints: both keep a width, 53 and 64 bits in the     *)
(* code.  A number is held as the count of its halves, so that some are    *)
(* not whole.                                                              *)
(***************************************************************************)
EXTENDS Integers, FiniteSetsExt

CONSTANTS
  MaxInt,     \* the largest int: 2^63 - 1
  Fraction,   \* a float is a number below this, 2^53, times a power of two
  Scale       \* the powers of two that are tried

(* As for 2^63 - 1 and 2^53: the largest int is no prime, and the floats     *)
(* that are too large to be odd begin well below it.                         *)
ASSUME PrimeTimeAssumption ==
  /\ MaxInt \in Nat /\ Fraction \in Nat /\ Scale \subseteq Nat
  /\ MaxInt % 2 = 1 /\ 4 * Fraction <= MaxInt + 1
  /\ \A p \in Scale : p \in {1, 2} \/ p % 4 = 0
  /\ \E d \in 2..(MaxInt - 1) : MaxInt % d = 0

MinInt == -MaxInt - 1

Magnitude == {m * p : m \in 0..(Fraction - 1), p \in Scale}

Float == Magnitude \cup {-x : x \in Magnitude}

VARIABLES
  line,     \* the last line: "none", "malformed" or "number"
  number,   \* its number, in halves
  answer,   \* "none", "prime", "not prime" or "bye"
  open      \* the connection is

primeVars == <<line, number, answer, open>>

PrimeInit == line = "none" /\ number = 0 /\ answer = "none" /\ open = TRUE
-----------------------------------------------------------------------------
(* Arithmetic of ints. *)

Wrapped(n) == ((n - MinInt) % (2 * (MaxInt + 1))) + MinInt

(* int(f): towards zero; what becomes of a float that no int holds is up to  *)
(* the processor, the least int or the nearest one.                          *)
ToInt(halves) ==
  LET whole == IF halves < 0 THEN -((-halves) \div 2) ELSE halves \div 2
  IN IF whole \in MinInt..MaxInt THEN {whole}
     ELSE {MinInt, IF whole < 0 THEN MinInt ELSE MaxInt}

(* float64(n), in halves, for an n that ToInt gives: only MaxInt is rounded. *)
ToFloat(n) == 2 * (IF n = MaxInt THEN MaxInt + 1 ELSE n)

(* Mutant: the square of the root is not tried. *)
AtRoot(i, n) == Wrapped(i * i) >= n

PastRoot(i, n) == Wrapped(i * i) > n

(* The loop of isPrime ends at the first i that is past the root or divides. *)
IsPrime(n) ==
  /\ n > 1
  /\ PastRoot(Min({i \in 2..n : PastRoot(i, n) \/ n % i = 0}), n)
-----------------------------------------------------------------------------
(* A line without a number, or for another method, is malformed too. *)
Malformed ==
  /\ open
  /\ line' = "malformed" /\ answer' = "bye"
  /\ open' = FALSE
  /\ UNCHANGED number

Ask(halves) ==
  /\ open
  /\ line' = "number" /\ number' = halves
  /\ \E n \in ToInt(halves) :
       answer' = IF halves = ToFloat(n) /\ IsPrime(n) THEN "prime" ELSE "not prime"
  /\ UNCHANGED open

(* The end of the stream, perhaps after a line that was not finished. *)
EndOfLines == open /\ open' = FALSE /\ UNCHANGED <<line, number, answer>>

PrimeNext == Malformed \/ EndOfLines \/ \E halves \in Float : Ask(halves)

PrimeSpec == PrimeInit /\ [][PrimeNext]_primeVars
-----------------------------------------------------------------------------
(* The definition. *)
Prime(n) == n > 1 /\ \A d \in 2..(n - 1) : n % d # 0

(* Every float is answered rightly, whole or not, negative, or beyond the     *)
(* ints: neither the conversion (line 39) nor a square that wraps around      *)
(* (line 56) makes a prime of one that is none, or the other way round.       *)
PrimeRight ==
  line = "number" =>
    (answer = "prime" <=> number % 2 = 0 /\ Prime(number \div 2))
=============================================================================
