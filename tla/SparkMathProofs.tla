--------------------------- MODULE SparkMathProofs ---------------------------
(***************************************************************************)
(* round_up and round_down (lib/math.cpp) are the nearest multiples, for   *)
(* all arguments; and the facts about natural numbers that the other proofs*)
(* need.                                                                   *)
(***************************************************************************)
EXTENDS SparkMath, TLAPS, WellFoundedInduction

\* A set of natural numbers has a least element.
LEMMA NatMinimum ==
  ASSUME NEW S, S \subseteq Nat, S # {}
  PROVE  \E x \in S : \A y \in S : x <= y
<1>1. IsWellFoundedOn(OpToRel(<, Nat), Nat)
  BY NatLessThanWellFounded DEF OpToRel
<1>2. PICK x \in S : \A y \in S : ~(<<y, x>> \in OpToRel(<, Nat))
  BY <1>1, WFMin
<1>3. ASSUME NEW y \in S, y < x PROVE FALSE
  BY <1>2, <1>3 DEF OpToRel
<1> QED
  BY <1>3

\* The quotient and the remainder of n by s.
LEMMA Quotient ==
  ASSUME NEW n \in Nat, NEW s \in Nat \ {0}
  PROVE  /\ n \div s \in Nat
         /\ (n \div s) * s <= n
         /\ n < (n \div s) * s + s
  OBVIOUS

\* A multiple of s below a whole number of steps beyond k * s is at most k * s.
LEMMA MultipleStep ==
  ASSUME NEW k \in Nat, NEW j \in Nat, NEW s \in Nat \ {0}, j * s < k * s + s
  PROVE  j * s <= k * s
<1>1. CASE j <= k
  BY <1>1
<1>2. CASE j >= k + 1
  <2>1. j * s >= (k + 1) * s
    BY <1>2
  <2>2. (k + 1) * s = k * s + s
    OBVIOUS
  <2> QED
    BY <2>1, <2>2
<1> QED
  BY <1>1, <1>2

\* round_down (math.cpp:7-9) returns the greatest multiple of s up to n.
THEOREM RoundsDown ==
  ASSUME NEW n \in Nat, NEW s \in Nat \ {0}
  PROVE  /\ \E k \in Nat : round_down(n, s) = k * s
         /\ round_down(n, s) <= n
         /\ \A j \in Nat : j * s <= n => j * s <= round_down(n, s)
<1> DEFINE k == n \div s
<1>1. k \in Nat /\ k * s <= n /\ n < k * s + s
  BY Quotient
<1>2. round_down(n, s) = k * s
  BY DEF round_down
<1> HIDE DEF k
<1>3. ASSUME NEW j \in Nat, j * s <= n
      PROVE  j * s <= k * s
  <2>1. j * s < k * s + s
    BY <1>1, <1>3
  <2> QED
    BY <1>1, <2>1, MultipleStep
<1> QED
  BY <1>1, <1>2, <1>3

\* round_up (math.cpp:3-5) returns the least multiple of s from n on.
THEOREM RoundsUp ==
  ASSUME NEW n \in Nat, NEW s \in Nat \ {0}
  PROVE  /\ \E k \in Nat : round_up(n, s) = k * s
         /\ round_up(n, s) >= n
         /\ \A j \in Nat : j * s >= n => j * s >= round_up(n, s)
<1> DEFINE m == n + s - 1
           k == m \div s
<1>1. m \in Nat
  OBVIOUS
<1>2. k \in Nat /\ k * s <= m /\ m < k * s + s
  BY <1>1, Quotient
<1>3. round_up(n, s) = k * s
  BY DEF round_up
<1>4. m = n + s - 1
  OBVIOUS
<1> HIDE DEF k, m
<1>5. k * s \in Nat /\ k * s >= n
  BY <1>2, <1>4
<1>6. ASSUME NEW j \in Nat, j * s >= n
      PROVE  j * s >= k * s
  <2>1. j * s \in Nat
    OBVIOUS
  <2>2. k * s < j * s + s
    BY <1>2, <1>4, <1>5, <1>6, <2>1
  <2> QED
    BY <1>2, <2>2, MultipleStep
<1> QED
  BY <1>2, <1>3, <1>5, <1>6

==============================================================================
