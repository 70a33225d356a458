------------------------------ MODULE SparkMath ------------------------------
(***************************************************************************)
(* The arithmetic helpers of lib/math.cpp.  Arguments are size_t in the    *)
(* code; every caller passes values far below 2^64, so no wrap is modelled *)
(* here.                                                                   *)
(***************************************************************************)
EXTENDS Integers

round_up(n, s) == ((n + s - 1) \div s) * s

round_down(n, s) == (n \div s) * s

\* TRUE when [a, a+as) lies inside [b, b+bs): containment, whatever the name.
overlaps(a, as, b, bs) == a >= b /\ a + as <= b + bs

==============================================================================
