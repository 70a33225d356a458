-------------------------------- MODULE Format -------------------------------
(***************************************************************************)
(* sprintf, itoa and htoa (lib/lib.cpp) as the kernel's messages use them: *)
(* with %s, %d and %p.  A character is a string; where a message has a run *)
(* of plain text, the run counts as one character.                         *)
(***************************************************************************)
EXTENDS SequencesExt, FiniteSetsExt, Integers

Figure == <<"0", "1", "2", "3", "4", "5", "6", "7", "8", "9", "a", "b", "c", "d", "e", "f">>

\* The digits of a number, the last one first, and how many there are.
DigitsOf(n) == Min({k \in 1 .. 9 : n < 10^k})
Backwards(n) == [k \in 1 .. DigitsOf(n) |-> Figure[1 + ((n \div 10^(k - 1)) % 10)]]

\* Mutant: the digits stay in the order in which they are computed.
itoa_backwards(n) == Backwards(n)

\* The loop that reverses the digits reads one of them into tmp, before it starts, and
\* stores tmp at every place of the second half.
itoa(n) ==
  LET d == Backwards(n)
  IN  [k \in DOMAIN d |-> IF 2 * k <= Len(d) + 1 THEN d[Len(d) + 1 - k] ELSE d[1]]

\* A 64-bit number is given as its sixteen hexadecimal digits.  Those before the first
\* that is not 0 are left out, the last one never is.
htoa(n) ==
  LET first == Min({k \in 1 .. 16 : n[k] # 0} \cup {16})
  IN  <<"0", "x">> \o [k \in 1 .. 17 - first |-> Figure[n[first + k - 1] + 1]]

Directives == {"%s", "%d", "%p"}

Text(directive, argument) ==
  CASE directive = "%s" -> argument
    [] directive = "%d" -> itoa(argument)
    [] directive = "%p" -> htoa(argument)

\* The arguments are taken one after another, one for each directive.
Argument(format, arguments, k) ==
  arguments[Cardinality({j \in 1 .. k : format[j] \in Directives})]

\* The pointer's branch advances format twice, so that the character behind %p is lost.
Lost(format, k) == k > 1 /\ format[k - 1] = "%p"

sprintf(format, arguments) ==
  FlattenSeq([k \in DOMAIN format |->
    IF Lost(format, k) THEN << >>
    ELSE IF format[k] \in Directives THEN Text(format[k], Argument(format, arguments, k))
    ELSE <<format[k]>>])

\* What a number below 1000 looks like.
Decimal(n) ==
  LET d == <<n \div 100, (n \div 10) % 10, n % 10>>
      first == Min({k \in 1 .. 3 : d[k] # 0} \cup {3})
  IN  [k \in 1 .. 4 - first |-> Figure[d[first + k - 1] + 1]]
==============================================================================
