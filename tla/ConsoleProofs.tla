---------------------------- MODULE ConsoleProofs ----------------------------
(***************************************************************************)
(* For any mode the boot loader sets, any firmware, any processors and any *)
(* table: every variable has its type, the text of a line is its format    *)
(* with the arguments put in, what is drawn stays inside the pages that    *)
(* are mapped and above the last whole row stays as it is, and as long as  *)
(* the lines fit the screen shows them, each in rows of its own.           *)
(*                                                                         *)
(* ConsoleInv relates what is still to be written to the text it comes     *)
(* from, and the cursor to the cells drawn: above the last whole row all   *)
(* of them lie before it.  ShownInv adds, while the lines fit, which cells *)
(* are drawn and where exactly the cursor stands, after each character and *)
(* between the two that end a line.                                        *)
(***************************************************************************)
EXTENDS Console, SparkMathProofs, FunctionTheorems, FiniteSetTheorems, SequenceTheorems

------------------------------------------------------------------------------
(* Pieces of text put together.                                             *)

\* The table that joins the pieces f one by one.
IsJoin(g, f, n) == g = [k \in 1 .. n |-> IF k = 1 THEN f[k] ELSE g[k - 1] \o f[k]]

LEMMA JoinSteps ==
  ASSUME NEW g, NEW f, NEW n \in Nat, IsJoin(g, f, n)
  PROVE  \A k \in 1 .. n : g[k] = IF k = 1 THEN f[k] ELSE g[k - 1] \o f[k]
<1>1. PICK G : G = [k \in 1 .. n |-> IF k = 1 THEN f[k] ELSE g[k - 1] \o f[k]]
  OBVIOUS
<1>2. \A k \in 1 .. n : G[k] = IF k = 1 THEN f[k] ELSE g[k - 1] \o f[k]
  BY <1>1
<1>3. g = G
  BY <1>1 DEF IsJoin
<1> QED
  BY <1>2, <1>3

LEMMA JoinExists ==
  ASSUME NEW f, NEW n \in Nat \ {0}
  PROVE  \E g : IsJoin(g, f, n)
<1> DEFINE Bad == {k \in Nat \ {0} : ~ \E g : IsJoin(g, f, k)}
<1>1. SUFFICES ASSUME n \in Bad PROVE FALSE
  OBVIOUS
<1>2. PICK b \in Bad : \A k \in Bad : b <= k
  BY <1>1, NatMinimum
<1>3. ASSUME b = 1 PROVE FALSE
  <2>1. IsJoin([k \in 1 .. 1 |-> f[k]], f, 1)
    BY DEF IsJoin
  <2> QED
    BY <1>2, <1>3, <2>1
<1>4. ASSUME b # 1 PROVE FALSE
  <2>1. b - 1 \in Nat \ {0} /\ b - 1 \notin Bad
    BY <1>2, <1>4
  <2>2. PICK h : IsJoin(h, f, b - 1)
    BY <2>1
  <2>3. PICK g : g = [k \in 1 .. b |-> IF k = 1 THEN f[k] ELSE h[k - 1] \o f[k]]
    OBVIOUS
  <2>4. \A k \in 1 .. b - 1 : g[k] = h[k]
    <3>1. \A k \in 1 .. b - 1 : h[k] = IF k = 1 THEN f[k] ELSE h[k - 1] \o f[k]
      BY <2>2, JoinSteps
    <3>2. \A k \in 1 .. b - 1 : k \in 1 .. b
      BY <2>1
    <3> QED
      BY <2>3, <3>1, <3>2
  <2>5. IsJoin(g, f, b)
    <3>1. \A k \in 1 .. b : k # 1 => k - 1 \in 1 .. b - 1
      BY <2>1
    <3> QED
      BY <2>3, <2>4, <3>1 DEF IsJoin
  <2> QED
    BY <1>2, <2>5
<1> QED
  BY <1>3, <1>4

\* Pieces of text put together.
LEMMA Flatten ==
  ASSUME NEW S, NEW n \in Nat \ {0}, NEW f \in [1 .. n -> Seq(S)]
  PROVE  FlattenSeq(f) \in Seq(S) /\ Len(FlattenSeq(f)) >= Len(f[1])
<1>1. Len(f) = n
  BY LenProperties
<1>2. PICK g : IsJoin(g, f, n) /\ FlattenSeq(f) = g[n]
  <2> DEFINE h == CHOOSE h : IsJoin(h, f, n)
  <2>1. IsJoin(h, f, n)
    BY JoinExists
  <2>2. FlattenSeq(f) = h[n]
    BY <1>1 DEF FlattenSeq, IsJoin
  <2> QED
    BY <2>1, <2>2
<1>4. \A k \in 1 .. n : g[k] = IF k = 1 THEN f[k] ELSE g[k - 1] \o f[k]
  BY <1>2, JoinSteps
<1> DEFINE Good(k) == g[k] \in Seq(S) /\ Len(g[k]) >= Len(f[1])
           Bad == {k \in 1 .. n : ~Good(k)}
<1>5. ASSUME Bad # {} PROVE FALSE
  <2>1. PICK b \in Bad : \A k \in Bad : b <= k
    <3>1. Bad \subseteq Nat
      OBVIOUS
    <3> HIDE DEF Bad
    <3> QED
      BY <1>5, <3>1, NatMinimum
  <2>2. b # 1
    BY <2>1, <1>4
  <2>3. b - 1 \in 1 .. n /\ Good(b - 1)
    BY <2>1, <2>2
  <2>4. g[b] = g[b - 1] \o f[b]
    BY <1>4, <2>1, <2>2
  <2>5. Good(b)
    <3>1. f[b] \in Seq(S) /\ Len(f[1]) \in Nat /\ Len(f[b]) \in Nat
      BY <2>1
    <3> QED
      BY <2>3, <2>4, <3>1
  <2> QED
    BY <2>1, <2>5
<1>6. Good(n)
  BY <1>5
<1> QED
  BY <1>2, <1>6


------------------------------------------------------------------------------
(* Numbers.                                                                 *)

LEMMA MinIs ==
  ASSUME NEW S, NEW m \in S, S \subseteq Nat, \A k \in S : m <= k
  PROVE  Min(S) = m
<1>1. \A k \in S : (\A j \in S : k <= j) => k = m
  OBVIOUS
<1> QED
  BY <1>1 DEF Min

LEMMA FigureType ==
  /\ Len(Figure) = 16
  /\ \A k \in 1 .. 16 : Figure[k] \in Printable
<1>1. Len(Figure) = 16 /\ DOMAIN Figure = 1 .. 16
  BY DEF Figure
<1> QED
  BY <1>1, PrintableAssumption DEF ToSet

LEMMA Tens == \A k \in 0 .. 9 : 10^k \in Nat \ {0}
<1>1. SUFFICES ASSUME NEW k \in 0 .. 9 PROVE 10^k \in Nat \ {0}
  OBVIOUS
<1>2. k = 0 => 10^k = 1
  OBVIOUS
<1>3. k = 1 => 10^k = 10
  OBVIOUS
<1>4. k = 2 => 10^k = 100
  OBVIOUS
<1>5. k = 3 => 10^k = 1000
  OBVIOUS
<1>6. k = 4 => 10^k = 10000
  OBVIOUS
<1>7. k = 5 => 10^k = 100000
  OBVIOUS
<1>8. k = 6 => 10^k = 1000000
  OBVIOUS
<1>9. k = 7 => 10^k = 10000000
  OBVIOUS
<1>10. k = 8 => 10^k = 100000000
  OBVIOUS
<1>11. k = 9 => 10^k = 1000000000
  OBVIOUS
<1> QED
  BY <1>2, <1>3, <1>4, <1>5, <1>6, <1>7, <1>8, <1>9, <1>10, <1>11

LEMMA DigitsType ==
  ASSUME NEW n \in Nat, n < 10^9
  PROVE  DigitsOf(n) \in 1 .. 9 /\ n < 10^DigitsOf(n)
<1> DEFINE S == {k \in 1 .. 9 : n < 10^k}
<1>1. S \subseteq Nat /\ 9 \in S
  OBVIOUS
<1>2. PICK m \in S : \A k \in S : m <= k
  <2> HIDE DEF S
  <2> QED
    BY <1>1, NatMinimum
<1>3. Min(S) = m
  <2> HIDE DEF S
  <2> QED
    BY <1>1, <1>2, MinIs
<1> QED
  BY <1>2, <1>3 DEF DigitsOf

LEMMA BackwardsType ==
  ASSUME NEW n \in Nat, n < 10^9
  PROVE  Backwards(n) \in [1 .. DigitsOf(n) -> Printable]
<1>1. SUFFICES ASSUME NEW k \in 1 .. DigitsOf(n)
               PROVE  Figure[1 + ((n \div 10^(k - 1)) % 10)] \in Printable
  BY DEF Backwards
<1>2. PICK t \in Nat \ {0} : t = 10^(k - 1)
  <2>1. k - 1 \in 0 .. 9
    BY DigitsType
  <2> QED
    BY <2>1, Tens
<1>3. 1 + ((n \div t) % 10) \in 1 .. 16
  OBVIOUS
<1> QED
  BY <1>2, <1>3, FigureType

LEMMA ItoaType ==
  ASSUME NEW n \in Nat, n < 10^9
  PROVE  itoa(n) \in Seq(Printable)
<1>1. PICK c \in 1 .. 9 : c = DigitsOf(n)
  BY DigitsType
<1>2. PICK d : d = Backwards(n)
  OBVIOUS
<1>3. d \in [1 .. c -> Printable] /\ d \in Seq(Printable) /\ Len(d) = c /\ DOMAIN d = 1 .. c
  <2>1. d \in [1 .. c -> Printable]
    BY <1>1, <1>2, BackwardsType
  <2> QED
    BY <2>1
<1>4. itoa(n) = [k \in 1 .. c |-> IF 2 * k <= c + 1 THEN d[c + 1 - k] ELSE d[1]]
  BY <1>2, <1>3 DEF itoa
<1>5. \A k \in 1 .. c : c + 1 - k \in 1 .. c /\ 1 \in 1 .. c
  BY <1>1
<1> QED
  BY <1>3, <1>4, <1>5

LEMMA HtoaType ==
  ASSUME NEW n \in [1 .. 16 -> 0 .. 15]
  PROVE  htoa(n) \in Seq(Printable)
<1> DEFINE S == {k \in 1 .. 16 : n[k] # 0} \cup {16}
<1>1. PICK first \in 1 .. 16 : first = Min(S)
  <2>1. S \subseteq 1 .. 16 /\ S # {}
    OBVIOUS
  <2> HIDE DEF S
  <2>2. S \subseteq Nat
    BY <2>1
  <2>3. PICK m \in S : \A k \in S : m <= k
    BY <2>1, <2>2, NatMinimum
  <2>4. Min(S) = m
    BY <2>2, <2>3, MinIs
  <2> QED
    BY <2>1, <2>3, <2>4
<1>2. PICK d : d = [k \in 1 .. 17 - first |-> Figure[n[first + k - 1] + 1]]
  OBVIOUS
<1>3. d \in Seq(Printable)
  <2>1. PICK l \in Nat : l = 17 - first
    OBVIOUS
  <2>2. \A k \in 1 .. l : first + k - 1 \in 1 .. 16
    BY <2>1
  <2>3. \A k \in 1 .. l : n[first + k - 1] + 1 \in 1 .. 16
    BY <2>2
  <2>4. \A k \in 1 .. l : Figure[n[first + k - 1] + 1] \in Printable
    BY <2>3, FigureType
  <2>5. d \in [1 .. l -> Printable]
    BY <1>2, <2>1, <2>4
  <2> QED
    BY <2>5
<1>4. <<"0", "x">> \in Seq(Printable)
  <2>1. "0" \in Printable /\ "x" \in Printable
    <3>1. Figure[1] = "0"
      BY DEF Figure
    <3> QED
      BY <3>1, FigureType, PrintableAssumption
  <2> QED
    BY <2>1
<1>5. htoa(n) = <<"0", "x">> \o d
  BY <1>1, <1>2 DEF htoa
<1> QED
  BY <1>3, <1>4, <1>5

\* The loop swaps up to three digits around the middle one.
LEMMA Swapped ==
  ASSUME NEW n, NEW a, NEW b, NEW c
  PROVE  /\ Backwards(n) = <<a>> => itoa(n) = <<a>>
         /\ Backwards(n) = <<a, b>> => itoa(n) = <<b, a>>
         /\ Backwards(n) = <<a, b, c>> => itoa(n) = <<c, b, a>>
<1>1. ASSUME Backwards(n) = <<a>> PROVE itoa(n) = <<a>>
  BY <1>1 DEF itoa
<1>2. ASSUME Backwards(n) = <<a, b>> PROVE itoa(n) = <<b, a>>
  BY <1>2 DEF itoa
<1>3. ASSUME Backwards(n) = <<a, b, c>> PROVE itoa(n) = <<c, b, a>>
  BY <1>3 DEF itoa
<1> QED
  BY <1>1, <1>2, <1>3

LEMMA DigitsIs ==
  ASSUME NEW n \in Nat, NEW c \in 1 .. 9, n < 10^c, \A k \in 1 .. 9 : n < 10^k => c <= k
  PROVE  DigitsOf(n) = c
<1> DEFINE S == {k \in 1 .. 9 : n < 10^k}
<1>1. c \in S
  OBVIOUS
<1>2. S \subseteq Nat
  OBVIOUS
<1>3. \A k \in S : c <= k
  OBVIOUS
<1> HIDE DEF S
<1>4. Min(S) = c
  BY <1>1, <1>2, <1>3, MinIs
<1> QED
  BY <1>4 DEF DigitsOf, S

\* The numbers that Decimal writes, of up to three digits.
Small == 0 .. 999

LEMMA ItoaDecimal ==
  ASSUME NEW n \in 0 .. 999
  PROVE  itoa(n) = Decimal(n)
<1>1. PICK d : d = <<n \div 100, (n \div 10) % 10, n % 10>>
  OBVIOUS
<1>2. PICK S : S = {k \in 1 .. 3 : d[k] # 0} \cup {3}
  OBVIOUS
<1>3. Decimal(n) = [k \in 1 .. 4 - Min(S) |-> Figure[d[Min(S) + k - 1] + 1]]
  BY <1>1, <1>2 DEF Decimal
<1>4. S \subseteq Nat /\ 3 \in S
  BY <1>2
<1>5. /\ \A k \in 1 .. 9 : k # 1 /\ k # 2 => 3 <= k
      /\ \A k \in 1 .. 9 : k # 1 => 2 <= k
      /\ \A k \in 1 .. 9 : 1 <= k
  OBVIOUS
<1>6. CASE n < 10
  <2>1. Min(S) = 3
    BY <1>1, <1>2, <1>4, <1>6, MinIs
  <2>2. Decimal(n) = <<Figure[1 + n]>>
    BY <1>1, <1>3, <1>6, <2>1
  <2>3. DigitsOf(n) = 1
    BY <1>5, <1>6, DigitsIs
  <2>4. Backwards(n) = <<Figure[1 + n]>>
    BY <1>6, <2>3 DEF Backwards
  <2> QED
    BY <2>2, <2>4, Swapped
<1>7. CASE n >= 10 /\ n < 100
  <2>1. Min(S) = 2
    <3>1. 2 \in S /\ \A k \in S : 2 <= k
      BY <1>1, <1>2, <1>7
    <3> QED
      BY <1>4, <3>1, MinIs
  <2>2. Decimal(n) = <<Figure[1 + ((n \div 10) % 10)], Figure[1 + (n % 10)]>>
    BY <1>1, <1>3, <2>1
  <2>3. DigitsOf(n) = 2
    BY <1>5, <1>7, DigitsIs
  <2>4. Backwards(n) = <<Figure[1 + (n % 10)], Figure[1 + ((n \div 10) % 10)]>>
    BY <2>3 DEF Backwards
  <2> QED
    BY <2>2, <2>4, Swapped
<1>8. CASE n >= 100
  <2>1. Min(S) = 1
    <3>1. PICK m \in S : m = 1 /\ \A k \in S : m <= k
      BY <1>1, <1>2, <1>8
    <3>2. Min(S) = m
      BY <1>4, <3>1, MinIs
    <3> QED
      BY <3>1, <3>2
  <2>2. Decimal(n) = <<Figure[1 + (n \div 100)], Figure[1 + ((n \div 10) % 10)],
                       Figure[1 + (n % 10)]>>
    BY <1>1, <1>3, <2>1
  <2>3. DigitsOf(n) = 3
    BY <1>5, <1>8, DigitsIs
  <2>4. Backwards(n) = <<Figure[1 + (n % 10)], Figure[1 + ((n \div 10) % 10)],
                         Figure[1 + ((n \div 100) % 10)]>>
    BY <2>3 DEF Backwards
  <2> QED
    BY <1>8, <2>2, <2>4, Swapped
<1> QED
  BY <1>6, <1>7, <1>8

------------------------------------------------------------------------------
(* Messages.                                                                *)

\* What a directive asks for.
Typed(directive, a) ==
  /\ directive = "%s" => a \in Seq(Printable)
  /\ directive = "%d" => a \in Nat /\ a < 10^9
  /\ directive = "%p" => a \in [1 .. 16 -> 0 .. 15]

Fits(format, arguments) ==
  \A k \in DOMAIN format : Typed(format[k], Argument(format, arguments, k))

\* A text with each directive replaced by its argument.
Replaced(format, arguments) ==
  FlattenSeq([k \in DOMAIN format |->
    CASE format[k] = "%d" -> Decimal(Argument(format, arguments, k))
      [] format[k] = "%s" -> Argument(format, arguments, k)
      [] OTHER            -> <<format[k]>>])

LEMMA SprintfText ==
  ASSUME NEW n \in Nat \ {0}, NEW format \in [1 .. n -> Words \cup Directives], NEW arguments,
         format[1] \in Words, Fits(format, arguments)
  PROVE  /\ sprintf(format, arguments) \in Seq(Printable)
         /\ sprintf(format, arguments) # << >>
<1> DEFINE Piece(k) ==
      IF Lost(format, k) THEN << >>
      ELSE IF format[k] \in Directives THEN Text(format[k], Argument(format, arguments, k))
      ELSE <<format[k]>>
<1>1. PICK f : f = [k \in 1 .. n |-> Piece(k)]
  OBVIOUS
<1>2. sprintf(format, arguments) = FlattenSeq(f)
  BY <1>1 DEF sprintf
<1>3. ASSUME NEW k \in 1 .. n PROVE Piece(k) \in Seq(Printable)
  <2>1. CASE Lost(format, k)
    BY <2>1
  <2>2. CASE ~Lost(format, k) /\ format[k] \in Directives
    <3>1. Text(format[k], Argument(format, arguments, k)) \in Seq(Printable)
      BY <2>2, ItoaType, HtoaType DEF Fits, Typed, Text, Directives
    <3> QED
      BY <2>2, <3>1
  <2>3. CASE ~Lost(format, k) /\ format[k] \notin Directives
    <3>1. PICK c \in Printable : c = format[k]
      BY <2>3, PrintableAssumption
    <3>2. Piece(k) = <<c>>
      BY <2>3, <3>1
    <3>3. <<c>> \in Seq(Printable)
      OBVIOUS
    <3> QED
      BY <3>2, <3>3
  <2> QED
    BY <2>1, <2>2, <2>3
<1>4. f \in [1 .. n -> Seq(Printable)]
  BY <1>1, <1>3
<1>5. f[1] = <<format[1]>>
  <2>1. format[1] \notin Directives
    BY DEF Words, Directives
  <2>2. ~Lost(format, 1)
    BY DEF Lost
  <2> QED
    BY <1>1, <2>1, <2>2
<1>6. FlattenSeq(f) \in Seq(Printable) /\ Len(FlattenSeq(f)) >= Len(f[1])
  BY <1>4, Flatten
<1>7. Len(f[1]) = 1 /\ Len(<< >>) = 0
  BY <1>5
<1> QED
  BY <1>2, <1>6, <1>7

LEMMA SprintfRight ==
  ASSUME NEW format, NEW arguments,
         \A k \in DOMAIN format : format[k] # "%p",
         \A k \in DOMAIN format : k > 1 => k - 1 \in DOMAIN format,
         \A k \in DOMAIN format :
           format[k] = "%d" => Argument(format, arguments, k) \in Small
  PROVE  sprintf(format, arguments) = Replaced(format, arguments)
<1> DEFINE Piece(k) ==
      IF Lost(format, k) THEN << >>
      ELSE IF format[k] \in Directives THEN Text(format[k], Argument(format, arguments, k))
      ELSE <<format[k]>>
      Wanted(k) ==
      CASE format[k] = "%d" -> Decimal(Argument(format, arguments, k))
        [] format[k] = "%s" -> Argument(format, arguments, k)
        [] OTHER            -> <<format[k]>>
<1>1. ASSUME NEW k \in DOMAIN format PROVE Piece(k) = Wanted(k)
  <2>1. ~Lost(format, k)
    BY DEF Lost
  <2>2. CASE format[k] = "%d"
    <3>1. itoa(Argument(format, arguments, k)) = Decimal(Argument(format, arguments, k))
      BY <2>2, ItoaDecimal DEF Small
    <3> QED
      BY <2>1, <2>2, <3>1 DEF Directives, Text
  <2>3. CASE format[k] = "%s"
    BY <2>1, <2>3 DEF Directives, Text
  <2>4. CASE format[k] \notin Directives
    BY <2>1, <2>4 DEF Directives
  <2> QED
    BY <2>2, <2>3, <2>4 DEF Directives
<1>2. [k \in DOMAIN format |-> Piece(k)] = [k \in DOMAIN format |-> Wanted(k)]
  BY <1>1
<1> QED
  BY <1>2 DEF sprintf, Replaced

------------------------------------------------------------------------------
(* The lines.                                                               *)

\* The directives of a format are at the places at, in this order.
Directs(format, at) ==
  /\ at \in Seq(Nat \ {0})
  /\ \A p, q \in 1 .. Len(at) : p < q => at[p] < at[q]
  /\ \A p \in 1 .. Len(at) : at[p] \in DOMAIN format
  /\ \A k \in DOMAIN format : format[k] \in Directives <=> \E p \in 1 .. Len(at) : at[p] = k

\* Each directive takes the argument of its number.
LEMMA ArgumentOf ==
  ASSUME NEW format, NEW arguments, NEW at, Directs(format, at), NEW m \in 1 .. Len(at),
         NEW n \in Nat, DOMAIN format = 1 .. n
  PROVE  Argument(format, arguments, at[m]) = arguments[m]
<1> DEFINE S == {j \in 1 .. at[m] : format[j] \in Directives}
           f == [p \in 1 .. m |-> at[p]]
<1>1. at[m] \in 1 .. n /\ m \in Nat /\ Len(at) \in Nat
  BY DEF Directs
<1>2. \A p, q \in 1 .. Len(at) : /\ at[p] \in Nat \ {0} /\ at[q] \in Nat \ {0}
                                 /\ p < q => at[p] < at[q]
  BY DEF Directs
<1>3. \A p \in 1 .. m : p \in 1 .. Len(at)
  BY <1>1
<1>4. \A p \in 1 .. m : f[p] \in S
  <2>1. SUFFICES ASSUME NEW p \in 1 .. m PROVE at[p] \in S
    OBVIOUS
  <2>2. at[p] \in Nat \ {0} /\ at[p] <= at[m]
    <3>1. CASE p = m
      BY <1>2, <1>3, <3>1
    <3>2. CASE p < m
      BY <1>2, <1>3, <3>2
    <3> QED
      BY <1>1, <3>1, <3>2
  <2>3. format[at[p]] \in Directives
    BY <1>3 DEF Directs
  <2> QED
    BY <1>1, <2>2, <2>3
<1>5. \A p, q \in 1 .. m : f[p] = f[q] => p = q
  <2>1. SUFFICES ASSUME NEW p \in 1 .. m, NEW q \in 1 .. m, at[p] = at[q] PROVE p = q
    OBVIOUS
  <2>2. at[p] \in Nat /\ ~(p < q) /\ ~(q < p)
    BY <1>2, <1>3, <2>1
  <2> QED
    BY <1>1, <2>2
<1>6. ASSUME NEW k \in S PROVE \E p \in 1 .. m : f[p] = k
  <2>1. k \in 1 .. n /\ k <= at[m] /\ format[k] \in Directives
    BY <1>1
  <2>2. PICK p \in 1 .. Len(at) : at[p] = k
    BY <2>1 DEF Directs
  <2>3. ~(m < p)
    BY <1>1, <1>2, <2>1, <2>2
  <2> QED
    BY <1>1, <2>2, <2>3
<1> HIDE DEF S
<1>7. f \in Bijection(1 .. m, S)
  <2>1. f \in [1 .. m -> S]
    BY <1>4
  <2> HIDE DEF f
  <2> QED
    BY <2>1, <1>5, <1>6, Fun_IsBij
<1> HIDE DEF f
<1>8. IsFiniteSet(1 .. m) /\ Cardinality(1 .. m) = m
  BY <1>1, FS_Interval
<1>9. Cardinality(S) = m
  BY <1>7, <1>8, FS_Bijection DEF ExistsBijection
<1> QED
  BY <1>9 DEF S, Argument

\* The last line is as it should be.
FormatsRight(l) ==
  (\A k \in DOMAIN l.format : l.format[k] # "%p") => l.text = Replaced(l.format, l.arguments)

\* A line that is begun with a text.
Begins(l, background) ==
  /\ todo = << >>
  /\ background \in BOOLEAN
  /\ l.text \in Seq(Printable) /\ l.text # << >>
  /\ FormatsRight(l)
  /\ lines' = Append(lines, l)
  /\ todo' = [k \in 1 .. Len(l.text) + 2 |->
                [char |-> (l.text \o <<"\r", "\n">>)[k], background |-> background]]
  /\ UNCHANGED <<machine, mapped, screen>>

\* The arguments of a format with its directives at the places at are what the
\* directives ask for; numbers are small unless the line has a pointer.
Message(format, at, arguments) ==
  /\ format \in Seq(Words \cup Directives) /\ format # << >>
  /\ format[1] \in Words
  /\ Directs(format, at)
  /\ \A m \in 1 .. Len(at) : Typed(format[at[m]], arguments[m])
  /\ \/ \E k \in DOMAIN format : format[k] = "%p"
     \/ \A m \in 1 .. Len(at) : format[at[m]] = "%d" => arguments[m] \in Small

LEMMA LineBegins ==
  ASSUME NEW format, NEW at, NEW arguments, Message(format, at, arguments),
         NEW background \in BOOLEAN, write_line(format, arguments, background)
  PROVE  \E l : Begins(l, background)
<1>1. PICK text : text = sprintf(format, arguments)
  OBVIOUS
<1>2. PICK n \in Nat \ {0} : format \in [1 .. n -> Words \cup Directives]
  <2>1. format \in Seq(Words \cup Directives) /\ format # << >>
    BY DEF Message
  <2>2. Len(format) \in Nat \ {0} /\ format \in [1 .. Len(format) -> Words \cup Directives]
    BY <2>1, EmptySeq, LenProperties
  <2> QED
    BY <2>2
<1>3. \A k \in 1 .. n : format[k] \in Directives =>
        \E m \in 1 .. Len(at) : at[m] = k /\ Argument(format, arguments, k) = arguments[m]
  <2>1. SUFFICES ASSUME NEW k \in 1 .. n, format[k] \in Directives
                 PROVE  \E m \in 1 .. Len(at) :
                          at[m] = k /\ Argument(format, arguments, k) = arguments[m]
    OBVIOUS
  <2>2. Directs(format, at) /\ DOMAIN format = 1 .. n
    BY <1>2 DEF Message
  <2>3. PICK m \in 1 .. Len(at) : at[m] = k
    BY <2>1, <2>2 DEF Directs
  <2>4. Argument(format, arguments, at[m]) = arguments[m]
    BY <2>2, ArgumentOf
  <2> QED
    BY <2>3, <2>4
<1>4. text \in Seq(Printable) /\ text # << >>
  <2>1. Fits(format, arguments)
    <3>1. SUFFICES ASSUME NEW k \in 1 .. n
                   PROVE  Typed(format[k], Argument(format, arguments, k))
      BY <1>2 DEF Fits
    <3>2. CASE format[k] \in Directives
      BY <1>3, <3>2 DEF Message
    <3>3. CASE format[k] \notin Directives
      BY <3>3 DEF Directives, Typed
    <3> QED
      BY <3>2, <3>3
  <2> QED
    BY <1>1, <1>2, <2>1, SprintfText DEF Message
<1>5. PICK l : l = [format |-> format, arguments |-> arguments, text |-> text]
  OBVIOUS
<1>6. l.format = format /\ l.arguments = arguments /\ l.text = text
  BY <1>5
<1>7. FormatsRight(l)
  <2>1. SUFFICES ASSUME \A k \in DOMAIN format : format[k] # "%p"
                 PROVE  sprintf(format, arguments) = Replaced(format, arguments)
    BY <1>1, <1>6 DEF FormatsRight
  <2>2. ASSUME NEW k \in DOMAIN format, format[k] = "%d"
        PROVE  Argument(format, arguments, k) \in Small
    <3>1. format[k] \in Directives /\ k \in 1 .. n
      BY <1>2, <2>2 DEF Directives
    <3>2. PICK m \in 1 .. Len(at) : at[m] = k /\ Argument(format, arguments, k) = arguments[m]
      BY <1>3, <3>1
    <3>3. \A j \in 1 .. Len(at) : format[at[j]] = "%d" => arguments[j] \in Small
      BY <2>1 DEF Message
    <3>4. format[at[m]] = "%d"
      BY <2>2, <3>2
    <3>5. arguments[m] \in Small
      BY <3>3, <3>4
    <3> QED
      BY <3>2, <3>5
  <2>3. \A k \in DOMAIN format : k > 1 => k - 1 \in DOMAIN format
    BY <1>2
  <2> QED
    BY <2>1, <2>2, <2>3, SprintfRight
<1>8. /\ todo = << >> /\ lines' = Append(lines, l) /\ UNCHANGED <<machine, mapped, screen>>
      /\ todo' = [k \in 1 .. Len(text) + 2 |->
                    [char |-> (text \o <<"\r", "\n">>)[k], background |-> background]]
  BY <1>1, <1>5 DEF write_line
<1> QED
  BY <1>4, <1>6, <1>7, <1>8 DEF Begins

------------------------------------------------------------------------------
(* The messages.                                                            *)

\* The words of a format are not directives.
LEMMA WordsApart == Words \cap Directives = {}
  BY DEF Words, Directives

LEMMA TypedNumber ==
  ASSUME NEW n, n \in Nat, n < 10^9
  PROVE  Typed("%d", n)
  BY DEF Typed

LEMMA PlainMessage ==
  ASSUME NEW f, f \in Seq(Words), f # << >>
  PROVE  Message(f, << >>, << >>)
<1>1. << >> \in Seq(Nat \ {0}) /\ Len(<< >>) = 0
  OBVIOUS
<1>2. f \in Seq(Words \cup Directives) /\ \A k \in DOMAIN f : f[k] \in Words
  OBVIOUS
<1>3. f[1] \in Words
  BY EmptySeq
<1>4. Directs(f, << >>)
  BY <1>1, <1>2, WordsApart DEF Directs
<1> QED
  BY <1>1, <1>2, <1>3, <1>4 DEF Message

LEMMA PanicBegins ==
  ASSUME Panic
  PROVE  \E l : Begins(l, TRUE)
<1>1. PICK f : f = <<"!!", ".", "KERNEL", ".", "PANIC", ".", "OCCURRED", ".", "!!">>
  OBVIOUS
<1>2. f \in Seq(Words) /\ f # << >>
  BY <1>1 DEF Words
<1>3. Message(f, << >>, << >>)
  BY <1>2, PlainMessage
<1>4. write_line(f, << >>, TRUE)
  BY <1>1 DEF Panic
<1> QED
  BY <1>3, <1>4, LineBegins

LEMMA PanicMessageBegins ==
  ASSUME PanicMessage
  PROVE  \E l : Begins(l, TRUE)
<1>1. PICK f : f = <<"Error", ".", "message:", ".", "%s">>
  OBVIOUS
<1>2. PICK s : s = <<"ACPI", ".", "not", ".", "supported">>
  OBVIOUS
<1>3. s \in Seq(Printable)
  <2>1. s \in Seq(Words)
    BY <1>2 DEF Words
  <2> QED
    BY <2>1, PrintableAssumption
<1>4. Message(f, <<5>>, <<s>>)
  <2>1. f \in Seq(Words \cup Directives) /\ f # << >> /\ f[1] \in Words
    BY <1>1 DEF Words, Directives
  <2>2. Directs(f, <<5>>)
    BY <1>1 DEF Directs, Directives
  <2>3. f[5] = "%s"
    BY <1>1
  <2>4. PICK at, arguments : at = <<5>> /\ arguments = <<s>>
    OBVIOUS
  <2>5. \A m \in 1 .. Len(at) : Typed(f[at[m]], arguments[m]) /\ f[at[m]] # "%d"
    BY <1>3, <2>3, <2>4 DEF Typed
  <2>6. Directs(f, at)
    BY <2>2, <2>4
  <2>7. Message(f, at, arguments)
    BY <2>1, <2>5, <2>6 DEF Message
  <2> QED
    BY <2>4, <2>7
<1>5. write_line(f, <<s>>, TRUE)
  BY <1>1, <1>2 DEF PanicMessage
<1> QED
  BY <1>4, <1>5, LineBegins

LEMMA AcpiBegins ==
  ASSUME machine \in Machines, AcpiLine
  PROVE  \E l : Begins(l, FALSE)
<1>1. PICK f : f = <<"[ACPI]", ".", "ID", ".", "%s", ".", "and", ".", "version", ".", "%d">>
  OBVIOUS
<1>2. PICK id, v : id = machine.oem_id /\ v = machine.version
  OBVIOUS
<1>3. id \in Seq(Printable) /\ v \in 0 .. 2
  BY <1>2, ConsoleAssumption
<1>4. Message(f, <<5, 11>>, <<id, v>>)
  <2>1. f \in Seq(Words \cup Directives) /\ f # << >> /\ f[1] \in Words
    BY <1>1 DEF Words, Directives
  <2>2. Directs(f, <<5, 11>>)
    BY <1>1 DEF Directs, Directives
  <2>3. f[5] = "%s" /\ f[11] = "%d"
    BY <1>1
  <2>4. Typed(f[5], id) /\ Typed(f[11], v)
    BY <2>3, <1>3 DEF Typed
  <2>5. \A m \in 1 .. Len(<<5, 11>>) : Typed(f[<<5, 11>>[m]], <<id, v>>[m])
    BY <2>4
  <2>6. f[5] # "%d" /\ v \in Small
    BY <2>3, <1>3 DEF Small
  <2>7. \A m \in 1 .. Len(<<5, 11>>) : f[<<5, 11>>[m]] = "%d" => <<id, v>>[m] \in Small
    BY <2>6
  <2> QED
    BY <2>1, <2>2, <2>5, <2>7 DEF Message
<1>5. write_line(f, <<id, v>>, FALSE)
  BY <1>1, <1>2 DEF AcpiLine
<1> QED
  BY <1>4, <1>5, LineBegins

LEMMA BootCpuBegins ==
  ASSUME machine \in Machines, i \in Nat \ {0}, BootCpuLine
  PROVE  \E l : Begins(l, FALSE)
<1>1. PICK how : how = IF machine.cpus[i].booted THEN "booted" ELSE "failed"
  OBVIOUS
<1>2. PICK f : f = <<"[SMP]", ".", how, ".", "ID", ".", "%d">>
  OBVIOUS
<1>3. PICK id \in 0 .. 255 : id = machine.cpus[i].id
  <2>1. machine.cpus \in Seq(CpuEntry) /\ i \in 1 .. Len(machine.cpus)
    BY ConsoleAssumption DEF BootCpuLine
  <2>2. machine.cpus[i] \in CpuEntry
    BY <2>1
  <2> QED
    BY <2>2 DEF CpuEntry
<1>4. how \in Words /\ how \notin Directives
  BY <1>1 DEF Words, Directives
<1>5. Message(f, <<7>>, <<id>>)
  <2>1. f \in Seq(Words \cup Directives) /\ f # << >> /\ f[1] \in Words
    BY <1>2, <1>4 DEF Words, Directives
  <2>2. Directs(f, <<7>>)
    BY <1>2, <1>4 DEF Directs, Directives
  <2>3. f[7] = "%d"
    BY <1>2
  <2>4. Typed(f[7], id) /\ id \in Small
    BY <2>3 DEF Typed, Small
  <2>5. \A m \in 1 .. Len(<<7>>) : Typed(f[<<7>>[m]], <<id>>[m]) /\ <<id>>[m] \in Small
    BY <2>4
  <2> QED
    BY <2>1, <2>2, <2>5 DEF Message
<1>6. write_line(f, <<id>>, FALSE)
  BY <1>1, <1>2, <1>3 DEF BootCpuLine
<1> QED
  BY <1>5, <1>6, LineBegins

LEMMA NoExpressBegins ==
  ASSUME NoExpressLine
  PROVE  \E l : Begins(l, FALSE)
<1>1. PICK f : f = <<"[DEVMGR]", ".", "No", ".", "PCI", ".", "Express">>
  OBVIOUS
<1>2. f \in Seq(Words) /\ f # << >>
  BY <1>1 DEF Words
<1>3. Message(f, << >>, << >>)
  BY <1>2, PlainMessage
<1>4. write_line(f, << >>, FALSE)
  BY <1>1 DEF NoExpressLine
<1> QED
  BY <1>3, <1>4, LineBegins

LEMMA McfgBegins ==
  ASSUME machine \in Machines, i \in Nat \ {0}, McfgLine
  PROVE  \E l : Begins(l, FALSE)
<1>1. PICK f : f = <<"[DEVMGR]", ".", "#", "%d", ".", "%p", ":", ".", "%d", ":", "%d", ":0:0", ".",
                     "-", ".", "%d", ":", "%d", ":0:0">>
  OBVIOUS
<1>2. PICK e \in McfgEntry : e = machine.mcfg[i]
  <2>1. machine.mcfg \in Seq(McfgEntry)
    BY ConsoleAssumption
  <2>2. i <= Len(machine.mcfg)
    BY DEF McfgLine
  <2>3. i \in 1 .. Len(machine.mcfg)
    BY <2>1, <2>2
  <2> QED
    BY <2>1, <2>3
<1>3. PICK n : n = i - 1 /\ n \in Nat /\ n < 10^9
  <2>1. machine.mcfg \in Seq(McfgEntry) /\ Len(machine.mcfg) < 2^28
    BY ConsoleAssumption
  <2>2. PICK l \in Nat : l = Len(machine.mcfg)
    BY <2>1
  <2>3. l < 2^28 /\ i <= l
    BY <2>1, <2>2 DEF McfgLine
  <2> QED
    BY <2>3
<1>4. PICK base, s, first, last :
        base = e.ecm_base /\ s = e.segment /\ first = e.start_bus_number /\ last = e.end_bus_number
  OBVIOUS
<1>5. /\ base \in [1 .. 16 -> 0 .. 15] /\ s \in 0 .. 2^16 - 1
      /\ first \in 0 .. 255 /\ last \in 0 .. 255
  BY <1>4 DEF McfgEntry
<1>6. /\ Typed("%d", n) /\ Typed("%p", base) /\ Typed("%d", s)
      /\ Typed("%d", first) /\ Typed("%d", last)
  <2>1. Typed("%p", base)
    BY <1>5 DEF Typed
  <2>2. s \in Nat /\ s < 10^9 /\ first \in Nat /\ first < 10^9 /\ last \in Nat /\ last < 10^9
    BY <1>5
  <2> QED
    BY <1>3, <2>1, <2>2, TypedNumber
<1>7. Message(f, <<4, 6, 9, 11, 16, 18>>, <<n, base, s, first, s, last>>)
  <2>1. f \in Seq(Words \cup Directives) /\ f # << >> /\ f[1] \in Words
    BY <1>1 DEF Words, Directives
  <2>2. Directs(f, <<4, 6, 9, 11, 16, 18>>)
    BY <1>1 DEF Directs, Directives
  <2>3. f[4] = "%d" /\ f[6] = "%p" /\ f[9] = "%d" /\ f[11] = "%d" /\ f[16] = "%d" /\ f[18] = "%d"
    BY <1>1
  <2>4. \A m \in 1 .. Len(<<4, 6, 9, 11, 16, 18>>) :
          Typed(f[<<4, 6, 9, 11, 16, 18>>[m]], <<n, base, s, first, s, last>>[m])
    BY <2>3, <1>6
  <2>5. 6 \in DOMAIN f
    BY <1>1
  <2> QED
    BY <2>1, <2>2, <2>3, <2>4, <2>5 DEF Message
<1>8. write_line(f, <<n, base, s, first, s, last>>, FALSE)
  BY <1>1, <1>2, <1>3, <1>4 DEF McfgLine
<1> QED
  BY <1>7, <1>8, LineBegins

------------------------------------------------------------------------------
(* The control state.                                                       *)

LEMMA MaxOfTwo ==
  ASSUME NEW a \in Nat, NEW b \in Nat
  PROVE  Max({a, b}) \in Nat /\ a <= Max({a, b}) /\ b <= Max({a, b})
<1>1. \E m \in {a, b} : \A k \in {a, b} : m >= k
  <2>1. CASE a >= b
    BY <2>1
  <2>2. CASE b >= a
    BY <2>2
  <2> QED
    BY <2>1, <2>2
<1>2. Max({a, b}) \in {a, b} /\ \A k \in {a, b} : Max({a, b}) >= k
  BY <1>1 DEF Max
<1> QED
  BY <1>2

ControlInv ==
  /\ machine \in Machines
  /\ pc \in {"loader", "kernel_main", "acpi", "panic", "smp", "mcfg", "no mcfg", "halting",
             "halted"}
  /\ i \in 1 .. Max({Len(machine.cpus), Len(machine.mcfg)}) + 1

LEMMA Tables ==
  ASSUME machine \in Machines
  PROVE  Len(machine.cpus) \in Nat /\ Len(machine.mcfg) \in Nat
<1>1. machine.cpus \in Seq(CpuEntry) /\ machine.mcfg \in Seq(McfgEntry)
  BY ConsoleAssumption
<1> QED
  BY <1>1

LEMMA ControlInit == Init => ControlInv
<1> SUFFICES ASSUME Init PROVE ControlInv
  OBVIOUS
<1>1. machine \in Machines /\ pc = "loader" /\ i = 1
  BY DEF Init
<1>2. Len(machine.cpus) \in Nat /\ Len(machine.mcfg) \in Nat
  BY <1>1, Tables
<1>3. Max({Len(machine.cpus), Len(machine.mcfg)}) \in Nat
  BY <1>2, MaxOfTwo
<1> QED
  BY <1>1, <1>3 DEF ControlInv

LEMMA ControlNext == ControlInv /\ [Next]_vars => ControlInv'
<1> SUFFICES ASSUME ControlInv, [Next]_vars PROVE ControlInv'
  OBVIOUS
<1>1. PICK a \in Nat, b \in Nat : a = Len(machine.cpus) /\ b = Len(machine.mcfg)
  BY Tables DEF ControlInv
<1>2. PICK m \in Nat : m = Max({a, b}) /\ a <= m /\ b <= m
  BY MaxOfTwo
<1>3. i \in 1 .. m + 1
  BY <1>1, <1>2 DEF ControlInv
<1>4. machine' = machine
  BY DEF Next, vars, loader, KernelMain, NotMultiboot, WriteNext, Panic, PanicMessage, AcpiLine,
         BootCpuLine, AcpiReturns, NoExpressLine, McfgLine, Halt, write_line
<1>5. i' \in 1 .. m + 1
  <2>1. ASSUME i' = i \/ i' = 1 PROVE i' \in 1 .. m + 1
    BY <1>3, <2>1
  <2>2. CASE BootCpuLine
    <3>1. i' = i + 1 /\ i <= a
      BY <1>1, <2>2 DEF BootCpuLine
    <3> QED
      BY <1>2, <1>3, <3>1
  <2>3. CASE McfgLine
    <3>1. i' = i + 1 /\ i <= b
      BY <1>1, <2>3 DEF McfgLine
    <3> QED
      BY <1>2, <1>3, <3>1
  <2>4. CASE ~BootCpuLine /\ ~McfgLine
    <3>1. i' = i \/ i' = 1
      BY <2>4 DEF Next, vars, loader, KernelMain, NotMultiboot, WriteNext, Panic, PanicMessage,
                  AcpiLine, AcpiReturns, NoExpressLine, Halt
    <3> QED
      BY <2>1, <3>1
  <2> QED
    BY <2>2, <2>3, <2>4
<1>6. pc' \in {"loader", "kernel_main", "acpi", "panic", "smp", "mcfg", "no mcfg", "halting",
               "halted"}
  BY DEF ControlInv, Next, vars, loader, KernelMain, NotMultiboot, WriteNext, Panic, PanicMessage,
         AcpiLine, BootCpuLine, AcpiReturns, NoExpressLine, McfgLine, Halt
<1> QED
  BY <1>1, <1>2, <1>4, <1>5, <1>6 DEF ControlInv

\* Nothing has been written yet.
Early == pc \in {"loader", "kernel_main", "acpi"}

\* What a step does to the screen.
Step ==
  \/ /\ UNCHANGED <<machine, x, y, screen, todo, lines>>
     /\ Early' => Early
  \/ /\ screen' = << >> /\ UNCHANGED <<machine, x, y, todo, lines>>
     /\ Early
  \/ WriteNext
  \/ /\ \E l, background : Begins(l, background)
     /\ ~Early'
     /\ UNCHANGED <<x, y>> \/ (Early /\ x' = 0 /\ y' = 0)

LEMMA AnyStep == ControlInv /\ [Next]_vars => Step
<1> SUFFICES ASSUME ControlInv, [Next]_vars PROVE Step
  OBVIOUS
<1>1. CASE UNCHANGED vars
  BY <1>1 DEF vars, Step, Early
<1>2. CASE loader
  BY <1>2 DEF loader, Step, Early
<1>3. CASE KernelMain
  BY <1>3 DEF KernelMain, GraphicsInit, clear, Step, Early
<1>4. CASE NotMultiboot
  BY <1>4 DEF NotMultiboot, Step, Early
<1>5. CASE WriteNext
  BY <1>5 DEF Step
<1>6. CASE AcpiReturns
  BY <1>6 DEF AcpiReturns, Step, Early
<1>7. CASE Halt
  BY <1>7 DEF Halt, Step, Early
<1>8. machine \in Machines /\ i \in Nat \ {0}
  <2>1. PICK m \in Nat : m = Max({Len(machine.cpus), Len(machine.mcfg)})
    BY Tables, MaxOfTwo DEF ControlInv
  <2>2. machine \in Machines /\ i \in 1 .. m + 1
    BY <2>1 DEF ControlInv
  <2> QED
    BY <2>2
<1>9. CASE Panic
  <2>1. \E l : Begins(l, TRUE)
    BY <1>9, PanicBegins
  <2> QED
    BY <1>9, <2>1 DEF Panic, Step, Early
<1>10. CASE PanicMessage
  <2>1. \E l : Begins(l, TRUE)
    BY <1>10, PanicMessageBegins
  <2> QED
    BY <1>10, <2>1 DEF PanicMessage, Step, Early
<1>11. CASE AcpiLine
  <2>1. \E l : Begins(l, FALSE)
    BY <1>8, <1>11, AcpiBegins
  <2> QED
    BY <1>11, <2>1 DEF AcpiLine, Step, Early
<1>12. CASE BootCpuLine
  <2>1. \E l : Begins(l, FALSE)
    BY <1>8, <1>12, BootCpuBegins
  <2> QED
    BY <1>12, <2>1 DEF BootCpuLine, Step, Early
<1>13. CASE NoExpressLine
  <2>1. \E l : Begins(l, FALSE)
    BY <1>13, NoExpressBegins
  <2> QED
    BY <1>13, <2>1 DEF NoExpressLine, Step, Early
<1>14. CASE McfgLine
  <2>1. \E l : Begins(l, FALSE)
    BY <1>8, <1>14, McfgBegins
  <2> QED
    BY <1>14, <2>1 DEF McfgLine, Step, Early
<1> QED
  BY <1>1, <1>2, <1>3, <1>4, <1>5, <1>6, <1>7, <1>9, <1>10, <1>11, <1>12, <1>13, <1>14 DEF Next

------------------------------------------------------------------------------
(* What is written, and what is still to be written of the last line.       *)

Ending(text) == text \o <<"\r", "\n">>

LastText == lines[Len(lines)].text

\* How many characters of the last line have been written.
Written == Len(LastText) + 2 - Len(todo)

LinesInv ==
  /\ \E S : lines \in Seq(S)
  /\ \A k \in 1 .. Len(lines) :
       lines[k].text \in Seq(Printable) /\ lines[k].text # << >> /\ FormatsRight(lines[k])

TodoInv ==
  /\ todo \in Seq([char : Printable \cup Special, background : BOOLEAN])
  /\ IF lines = << >> THEN todo = << >>
     ELSE /\ Len(todo) <= Len(LastText) + 2
          /\ \A k \in 1 .. Len(todo) : todo[k].char = Ending(LastText)[Written + k]

\* The screen before the first line.
BlankInv == Early => screen = << >> /\ lines = << >> /\ x = 0 /\ y = 0

TextInv == LinesInv /\ TodoInv /\ BlankInv

LEMMA TextInit == Init => TextInv
<1> SUFFICES ASSUME Init PROVE TextInv
  OBVIOUS
<1>1. lines = << >> /\ todo = << >> /\ screen = << >> /\ x = 0 /\ y = 0
  BY DEF Init
<1>2. lines \in Seq({}) /\ Len(lines) = 0
  BY <1>1
<1>3. LinesInv
  BY <1>2 DEF LinesInv
<1>4. TodoInv
  BY <1>1 DEF TodoInv
<1> QED
  BY <1>1, <1>3, <1>4 DEF TextInv, BlankInv

\* The text and the end of the line.
LEMMA EndingType ==
  ASSUME NEW text \in Seq(Printable)
  PROVE  /\ Len(Ending(text)) = Len(text) + 2 /\ Len(text) \in Nat
         /\ \A k \in 1 .. Len(text) : Ending(text)[k] = text[k] /\ text[k] \in Printable
         /\ Ending(text)[Len(text) + 1] = "\r" /\ Ending(text)[Len(text) + 2] = "\n"
         /\ \A k \in 1 .. Len(text) + 2 : Ending(text)[k] \in Printable \cup Special
<1>0. PICK e : e = <<"\r", "\n">>
  OBVIOUS
<1>1. e \in Seq(Special) /\ Len(e) = 2 /\ e[1] = "\r" /\ e[2] = "\n"
  BY <1>0 DEF Special
<1>2. Ending(text) = text \o e
  BY <1>0 DEF Ending
<1>3. PICK T : T = Printable \cup Special
  OBVIOUS
<1>4. text \in Seq(T) /\ e \in Seq(T) /\ Len(text) \in Nat
  BY <1>1, <1>3
<1>5. PICK s : s = text \o e
  OBVIOUS
<1>6. /\ Len(s) = Len(text) + 2
      /\ \A k \in 1 .. Len(text) + 2 : s[k] = IF k <= Len(text) THEN text[k] ELSE e[k - Len(text)]
  <2>1. /\ Len(s) = Len(text) + Len(e)
        /\ \A k \in 1 .. Len(text) + Len(e) :
             s[k] = IF k <= Len(text) THEN text[k] ELSE e[k - Len(text)]
    BY <1>4, <1>5, ConcatProperties
  <2> QED
    BY <1>1, <2>1
<1>7. \A k \in 1 .. Len(text) : s[k] = text[k] /\ text[k] \in Printable
  BY <1>4, <1>6
<1>8. s[Len(text) + 1] = "\r" /\ s[Len(text) + 2] = "\n"
  BY <1>1, <1>4, <1>6
<1>9. \A k \in 1 .. Len(text) + 2 : s[k] \in T
  BY <1>4, <1>5, <1>6
<1> QED
  BY <1>2, <1>3, <1>4, <1>5, <1>6, <1>7, <1>8, <1>9

\* A line that is begun is the last one, and nothing of it is written.
LEMMA BeginsLine ==
  ASSUME LinesInv, NEW l, NEW background, Begins(l, background)
  PROVE  /\ LinesInv' /\ Len(lines') = Len(lines) + 1 /\ Len(lines) \in Nat
         /\ \A k \in 1 .. Len(lines) : lines'[k] = lines[k]
         /\ lines'[Len(lines) + 1] = l
<1>1. PICK S : lines \in Seq(S)
  BY DEF LinesInv
<1>2. PICK T : T = S \cup {l}
  OBVIOUS
<1>3. lines \in Seq(T) /\ l \in T /\ lines' = Append(lines, l) /\ Len(lines) \in Nat
  BY <1>1, <1>2 DEF Begins
<1>4. /\ lines' \in Seq(T) /\ Len(lines') = Len(lines) + 1
      /\ \A k \in 1 .. Len(lines) : lines'[k] = lines[k]
      /\ lines'[Len(lines) + 1] = l
  BY <1>3, AppendProperties
<1>5. \A k \in 1 .. Len(lines) + 1 :
        lines'[k].text \in Seq(Printable) /\ lines'[k].text # << >> /\ FormatsRight(lines'[k])
  <2>1. SUFFICES ASSUME NEW k \in 1 .. Len(lines) + 1
                 PROVE  /\ lines'[k].text \in Seq(Printable) /\ lines'[k].text # << >>
                        /\ FormatsRight(lines'[k])
    OBVIOUS
  <2>2. CASE k = Len(lines) + 1
    BY <1>4, <2>2 DEF Begins
  <2>3. CASE k # Len(lines) + 1
    <3>1. k \in 1 .. Len(lines)
      BY <1>3, <2>3
    <3> QED
      BY <1>4, <3>1 DEF LinesInv
  <2> QED
    BY <2>2, <2>3
<1>6. LinesInv'
  BY <1>4, <1>5 DEF LinesInv
<1> QED
  BY <1>3, <1>4, <1>6

\* The rest of the last line is what is still to be written of it.
LEMMA Rest ==
  ASSUME TextInv, lines # << >>
  PROVE  /\ LastText \in Seq(Printable) /\ Len(LastText) \in Nat \ {0}
         /\ Len(todo) \in Nat /\ Written \in 0 .. Len(LastText) + 2
         /\ Len(todo) = Len(LastText) + 2 - Written
         /\ \A k \in 1 .. Len(todo) : todo[k].char = Ending(LastText)[Written + k]
<1>1. PICK S : lines \in Seq(S)
  BY DEF TextInv, LinesInv
<1>2. Len(lines) \in Nat /\ Len(lines) # 0
  BY <1>1, EmptySeq
<1>3. LastText \in Seq(Printable) /\ LastText # << >>
  BY <1>2 DEF TextInv, LinesInv, LastText
<1>4. Len(LastText) \in Nat /\ Len(LastText) # 0
  BY <1>3, EmptySeq
<1>5. todo \in Seq([char : Printable \cup Special, background : BOOLEAN])
  BY DEF TextInv, TodoInv
<1>6. Len(todo) \in Nat /\ Len(todo) <= Len(LastText) + 2
  BY <1>5 DEF TextInv, TodoInv
<1> QED
  BY <1>3, <1>4, <1>6 DEF TextInv, TodoInv, Written

LEMMA BeginsTodo ==
  ASSUME TextInv, NEW l, NEW background, Begins(l, background)
  PROVE  /\ TodoInv' /\ lines' # << >>
         /\ LastText' = l.text /\ Written' = 0
         /\ Len(todo') = Len(l.text) + 2 /\ Len(l.text) \in Nat \ {0}
<1>1. /\ Len(lines') = Len(lines) + 1 /\ Len(lines) \in Nat
      /\ lines'[Len(lines) + 1] = l
  BY BeginsLine DEF TextInv
<1>2. lines' # << >>
  BY <1>1, EmptySeq
<1>3. LastText' = l.text
  BY <1>1 DEF LastText
<1>4. PICK t \in Seq(Printable), n \in Nat : t = l.text /\ n = Len(t) /\ n # 0
  <2>1. l.text \in Seq(Printable) /\ l.text # << >>
    BY DEF Begins
  <2> QED
    BY <2>1, EmptySeq
<1>5. todo' = [k \in 1 .. n + 2 |-> [char |-> Ending(t)[k], background |-> background]]
  BY <1>4 DEF Begins, Ending
<1>6. background \in BOOLEAN
  BY DEF Begins
<1>7. \A k \in 1 .. n + 2 : Ending(t)[k] \in Printable \cup Special
  BY <1>4, EndingType
<1>8. PICK T : T = [char : Printable \cup Special, background : BOOLEAN]
  OBVIOUS
<1>9. \A k \in 1 .. n + 2 : [char |-> Ending(t)[k], background |-> background] \in T
  BY <1>6, <1>7, <1>8
<1>10. todo' \in Seq(T) /\ Len(todo') = n + 2
  BY <1>4, <1>5, <1>9
<1>11. Written' = 0
  BY <1>3, <1>4, <1>10 DEF Written
<1>12. \A k \in 1 .. Len(todo') : todo'[k].char = Ending(t)[0 + k]
  BY <1>4, <1>5, <1>10
<1>13. TodoInv'
  BY <1>2, <1>3, <1>4, <1>8, <1>10, <1>11, <1>12 DEF TodoInv
<1> QED
  BY <1>2, <1>3, <1>4, <1>10, <1>11, <1>13

\* A character is written.
LEMMA WritesTodo ==
  ASSUME TextInv, WriteNext
  PROVE  /\ TodoInv' /\ lines # << >> /\ lines' = lines /\ LastText' = LastText
         /\ Written' = Written + 1 /\ Written \in 0 .. Len(LastText) + 1
         /\ Len(todo) = Len(LastText) + 2 - Written /\ Len(todo') = Len(todo) - 1
         /\ Head(todo).char = Ending(LastText)[Written + 1]
<1>1. lines # << >> /\ lines' = lines /\ LastText' = LastText
  BY DEF WriteNext, TextInv, TodoInv, LastText
<1>2. PICK T : T = [char : Printable \cup Special, background : BOOLEAN]
  OBVIOUS
<1>3. todo \in Seq(T) /\ todo # << >> /\ todo' = Tail(todo)
  BY <1>2 DEF TextInv, TodoInv, WriteNext
<1>4. /\ todo' \in Seq(T) /\ Len(todo') = Len(todo) - 1 /\ Len(todo) \in Nat \ {0}
      /\ \A k \in 1 .. Len(todo') : todo'[k] = todo[k + 1]
      /\ Head(todo) = todo[1]
  BY <1>3, EmptySeq
<1>5. PICK n \in Nat, d \in Nat :
        n = Len(LastText) /\ d = Written /\ d <= n + 2 /\ Len(todo) = n + 2 - d
  BY <1>1, Rest
<1>6. \A k \in 1 .. Len(todo) : todo[k].char = Ending(LastText)[d + k]
  BY <1>1, <1>5, Rest
<1>7. Written' = d + 1 /\ d <= n + 1
  BY <1>1, <1>4, <1>5 DEF Written
<1>8. \A k \in 1 .. Len(todo') : todo'[k].char = Ending(LastText)[d + 1 + k]
  <2>1. SUFFICES ASSUME NEW k \in 1 .. Len(todo')
                 PROVE  todo'[k].char = Ending(LastText)[d + 1 + k]
    OBVIOUS
  <2>2. k + 1 \in 1 .. Len(todo) /\ d + (k + 1) = d + 1 + k
    BY <1>4, <1>5
  <2> QED
    BY <1>4, <1>6, <2>2
<1>9. TodoInv'
  <2>1. Len(todo') <= n + 2
    BY <1>4, <1>5
  <2> QED
    BY <1>1, <1>2, <1>4, <1>5, <1>7, <1>8, <2>1 DEF TodoInv
<1>10. Head(todo).char = Ending(LastText)[d + 1]
  BY <1>4, <1>6
<1> QED
  BY <1>1, <1>4, <1>5, <1>7, <1>9, <1>10

LEMMA TextNext == TextInv /\ Step => TextInv'
<1> SUFFICES ASSUME TextInv, Step PROVE TextInv'
  OBVIOUS
<1>1. ASSUME UNCHANGED <<x, y, screen, todo, lines>>, Early' => Early
      PROVE  TextInv'
  BY <1>1 DEF TextInv, LinesInv, TodoInv, BlankInv, LastText, Written
<1>2. CASE screen' = << >> /\ UNCHANGED <<machine, x, y, todo, lines>> /\ Early
  BY <1>2 DEF TextInv, LinesInv, TodoInv, BlankInv, LastText, Written
<1>3. CASE WriteNext
  <2>1. TodoInv' /\ lines # << >> /\ lines' = lines
    BY <1>3, WritesTodo
  <2>2. LinesInv'
    BY <2>1 DEF TextInv, LinesInv
  <2>3. ~Early'
    BY <1>3, <2>1 DEF WriteNext, TextInv, BlankInv, Early
  <2> QED
    BY <2>1, <2>2, <2>3 DEF TextInv, BlankInv
<1>4. CASE (\E l, background : Begins(l, background)) /\ ~Early'
  <2>1. LinesInv' /\ TodoInv'
    BY <1>4, BeginsLine, BeginsTodo DEF TextInv
  <2> QED
    BY <1>4, <2>1 DEF TextInv, BlankInv
<1> QED
  BY <1>1, <1>2, <1>3, <1>4 DEF Step

------------------------------------------------------------------------------
(* The screen.                                                              *)

\* A cell that write may draw: its first column lies on the screen, its first line too.
OnScreen(cell) ==
  /\ cell[1] \in Nat /\ cell[1] * 8 < mode.width
  /\ cell[2] \in Nat /\ cell[2] * 16 < mode.height

ScreenInv ==
  /\ machine \in Machines
  /\ x \in Nat /\ y \in Nat
  /\ \A cell \in DOMAIN screen : OnScreen(cell)
  /\ mapped # 0 => mapped = (mode.width * mode.pitch + page_size - 1) \div page_size

------------------------------------------------------------------------------
(* The mode.                                                                *)

LEMMA ModeType ==
  ASSUME machine \in Machines
  PROVE  \E w, h, p \in Nat :
           /\ w = mode.width /\ h = mode.height /\ p = mode.pitch
           /\ w >= 1 /\ w < 65536 /\ h >= 16 /\ h < 65536 /\ p >= w * 4
<1>1. /\ mode.width \in 1 .. 2^16 - 1 /\ mode.height \in 16 .. 2^16 - 1
      /\ mode.pitch \in Nat /\ mode.pitch >= mode.width * 4
  BY ConsoleAssumption DEF mode, Info
<1>2. 2^16 = 65536
  OBVIOUS
<1> QED
  BY <1>1, <1>2

\* Rows of pixels behind one another.
LEMMA RowsFit ==
  ASSUME NEW n \in Nat, NEW w \in Nat, NEW p \in Nat, n + 1 <= w
  PROVE  n * p + p <= w * p
<1>1. PICK d \in Nat : w = n + 1 + d
  <2>1. w - (n + 1) \in Nat
    OBVIOUS
  <2> QED
    BY <2>1
<1>2. w * p = n * p + p + d * p
  BY <1>1
<1>3. d * p \in Nat /\ n * p \in Nat
  OBVIOUS
<1> QED
  BY <1>2, <1>3

\* A pixel in the first width lines, or one behind the right edge of the line before.
LEMMA PixelInside ==
  ASSUME machine \in Machines, mapped = (mode.width * mode.pitch + page_size - 1) \div page_size,
         NEW px \in Nat, NEW py \in Nat, NEW d \in Nat, d \in {0, 1},
         px < mode.width + 7 * d, py + 1 + d <= mode.width, 32 <= mode.width
  PROVE  PixelOffset(px, py) + 4 <= mapped * page_size
<1>1. PICK w \in Nat, h \in Nat, p \in Nat :
        /\ w = mode.width /\ h = mode.height /\ p = mode.pitch /\ p >= w * 4
  BY ModeType
<1>2. mode.bpp = 32
  BY ConsoleAssumption DEF mode, Info
<1>3. PICK size \in Nat : size = w * p
  OBVIOUS
<1>4. PICK line \in Nat : line = py * p
  OBVIOUS
<1>5. line + p + d * p <= size
  <2>1. CASE d = 0
    <3>1. py * p + p <= w * p
      BY <1>1, <2>1, RowsFit
    <3>2. d * p = 0
      BY <1>1, <2>1
    <3> QED
      BY <1>3, <1>4, <3>1, <3>2
  <2>2. CASE d = 1
    <3>1. (py + 1) * p + p <= w * p
      BY <1>1, <2>2, RowsFit
    <3>2. (py + 1) * p = line + p /\ d * p = p
      BY <1>1, <1>4, <2>2
    <3> QED
      BY <1>1, <1>3, <1>4, <3>1, <3>2
  <2> QED
    BY <2>1, <2>2
<1>6. px * 4 + 4 <= p + d * p
  <2>1. CASE d = 0
    BY <1>1, <2>1
  <2>2. CASE d = 1
    BY <1>1, <2>2
  <2> QED
    BY <2>1, <2>2
<1>7. PixelOffset(px, py) <= px * 4 + line
  <2>1. PixelOffset(px, py) = 4 * ((px * 4 + line) \div 4)
    BY <1>1, <1>2, <1>4 DEF PixelOffset
  <2>2. 4 * ((px * 4 + line) \div 4) <= px * 4 + line
    OBVIOUS
  <2>3. 4 * ((px * 4 + line) \div 4) \in Nat
    OBVIOUS
  <2> QED
    BY <2>1, <2>2
<1>8. size <= mapped * page_size
  <2>1. mapped = (size + 4095) \div 4096
    BY <1>1, <1>3 DEF page_size
  <2> QED
    BY <2>1 DEF page_size
<1>9. PixelOffset(px, py) \in Nat /\ mapped * page_size \in Nat
  <2>1. PixelOffset(px, py) = 4 * ((px * 4 + line) \div 4) /\ mapped = (size + 4095) \div 4096
    BY <1>1, <1>2, <1>3, <1>4 DEF PixelOffset, page_size
  <2> QED
    BY <2>1 DEF page_size
<1> QED
  BY <1>5, <1>6, <1>7, <1>8, <1>9

------------------------------------------------------------------------------
(* The cells.                                                               *)

LEMMA CellOnScreen ==
  ASSUME ScreenInv
  PROVE  OnScreen(Cell)
<1>1. PICK w \in Nat, h \in Nat :
        w = mode.width /\ h = mode.height /\ w >= 1 /\ h >= 16
  BY ModeType DEF ScreenInv
<1>2. x \in Nat /\ y \in Nat
  BY DEF ScreenInv
<1>3. PICK row \in Nat : row = IF x * 8 >= w THEN Width16(y + 1) ELSE y
  BY <1>2 DEF Width16
<1>4. Cell = IF row * 16 >= h THEN <<0, h \div 16 - 1>> ELSE <<IF x * 8 >= w THEN 0 ELSE x, row>>
  BY <1>1, <1>3 DEF Cell, CellFrom
<1>5. CASE row * 16 >= h
  <2>1. Cell = <<0, h \div 16 - 1>>
    BY <1>4, <1>5
  <2>2. h \div 16 - 1 \in Nat /\ (h \div 16 - 1) * 16 < h /\ 0 * 8 < w
    BY <1>1
  <2> QED
    BY <1>1, <2>1, <2>2 DEF OnScreen
<1>6. CASE row * 16 < h
  <2>1. PICK col \in Nat : col = (IF x * 8 >= w THEN 0 ELSE x) /\ col * 8 < w
    BY <1>1, <1>2
  <2>2. Cell = <<col, row>>
    BY <1>4, <1>6, <2>1
  <2> QED
    BY <1>1, <1>6, <2>1, <2>2 DEF OnScreen
<1> QED
  BY <1>1, <1>3, <1>5, <1>6

LEMMA WriteStep ==
  ASSUME ScreenInv, NEW c, NEW background, write(c, background), UNCHANGED <<machine, mapped>>
  PROVE  ScreenInv'
<1>1. mode' = mode /\ \A cell : OnScreen(cell)' <=> OnScreen(cell)
  BY DEF mode, OnScreen
<1>2. CASE handle_special_characters(c)
  <2>1. x' \in Nat /\ y' \in Nat /\ UNCHANGED screen
    BY <1>2 DEF handle_special_characters, Special, Width16, ScreenInv
  <2> QED
    BY <1>1, <2>1 DEF ScreenInv
<1>3. CASE /\ write_text(c, Cell, background)
           /\ x' = Width16(Cell[1] + 1) /\ y' = Cell[2]
  <2>1. OnScreen(Cell)
    BY CellOnScreen
  <2>2. x' \in Nat /\ y' \in Nat
    BY <1>3, <2>1 DEF OnScreen, Width16
  <2>3. DOMAIN screen' = DOMAIN screen \cup {Cell}
    BY <1>3 DEF write_text
  <2> QED
    BY <1>1, <2>1, <2>2, <2>3 DEF ScreenInv
<1> QED
  BY <1>2, <1>3 DEF write

LEMMA NextInv == ScreenInv /\ [Next]_vars => ScreenInv'
<1> SUFFICES ASSUME ScreenInv, [Next]_vars PROVE ScreenInv'
  OBVIOUS
<1>1. ASSUME machine' = machine, screen' = screen, x' \in Nat, y' \in Nat, mapped' = mapped
      PROVE  ScreenInv'
  BY <1>1 DEF ScreenInv, OnScreen, mode
<1>2. CASE loader \/ NotMultiboot \/ AcpiReturns \/ Halt \/ UNCHANGED vars
  BY <1>1, <1>2 DEF loader, NotMultiboot, AcpiReturns, Halt, vars, ScreenInv
<1>3. ASSUME NEW f, NEW a, NEW background, write_line(f, a, background),
             x' \in Nat, y' \in Nat
      PROVE  ScreenInv'
  BY <1>1, <1>3 DEF write_line
<1>4. x \in Nat /\ y \in Nat
  BY DEF ScreenInv
<1>5. CASE Panic
  BY <1>3, <1>5 DEF Panic
<1>6. CASE PanicMessage
  BY <1>3, <1>4, <1>6 DEF PanicMessage
<1>7. CASE AcpiLine
  BY <1>3, <1>4, <1>7 DEF AcpiLine
<1>8. CASE BootCpuLine
  BY <1>3, <1>4, <1>8 DEF BootCpuLine
<1>9. CASE NoExpressLine
  BY <1>3, <1>4, <1>9 DEF NoExpressLine
<1>10. CASE McfgLine
  BY <1>3, <1>4, <1>10 DEF McfgLine
<1>11. CASE KernelMain
  <2>1. DOMAIN screen' = {}
    BY <1>11 DEF KernelMain, GraphicsInit, clear
  <2> QED
    BY <1>11, <2>1 DEF KernelMain, ScreenInv, mode
<1>12. CASE WriteNext
  BY <1>12, WriteStep DEF WriteNext
<1> QED
  BY <1>2, <1>11, <1>12, <1>5, <1>6, <1>7, <1>8, <1>9, <1>10 DEF Next

LEMMA InitInv == Init => ScreenInv
  BY DEF Init, ScreenInv

------------------------------------------------------------------------------
(* The cursor.                                                              *)

\* Columns and rows of cells.
LEMMA Geometry ==
  ASSUME machine \in Machines
  PROVE  \E w, h, c, r \in Nat :
           /\ w = mode.width /\ h = mode.height /\ c = Columns /\ r = WholeRows
           /\ w <= 8 * c /\ 8 * c < w + 8 /\ c >= 1 /\ c < 65535
           /\ 16 * r <= h /\ h < 16 * r + 16 /\ r >= 1 /\ h < 65536
<1>1. PICK w \in Nat, h \in Nat :
        w = mode.width /\ h = mode.height /\ w >= 1 /\ w < 65536 /\ h >= 16 /\ h < 65536
  BY ModeType
<1>2. PICK v \in Nat : v = w + 7
  OBVIOUS
<1>3. PICK c \in Nat, r \in Nat : c = v \div 8 /\ r = h \div 16
  OBVIOUS
<1>4. w <= 8 * c /\ 8 * c < w + 8 /\ c >= 1 /\ c < 65535
  BY <1>1, <1>2, <1>3
<1>5. 16 * r <= h /\ h < 16 * r + 16 /\ r >= 1
  BY <1>1, <1>3
<1>6. c = Columns /\ r = WholeRows
  BY <1>1, <1>2, <1>3 DEF Columns, WholeRows
<1> QED
  BY <1>1, <1>2, <1>4, <1>5, <1>6

\* The cursor stays within a column of the right edge, and above the bottom while the
\* end of a line is written.
CursorInv ==
  /\ x <= Columns
  /\ y * 16 < mode.height + (IF Len(todo) \in {1, 2} THEN 0 ELSE 16)

\* A cell that lies before the cursor; between the two characters of the end of a line
\* the cursor stands at the start of a row that has been written.
Passed(cell) == cell[2] < y \/ (cell[2] = y /\ (cell[1] < x \/ Len(todo) = 1))

DrawnInv ==
  \A cell \in DOMAIN screen :
    /\ cell \in (0 .. Columns - 1) \X Nat
    /\ cell[2] < WholeRows - 1 => Passed(cell)

ConsoleInv == ControlInv /\ TextInv /\ ScreenInv /\ CursorInv /\ DrawnInv

\* Where the next character is drawn.
LEMMA CellCases ==
  ASSUME ConsoleInv
  PROVE  \/ Cell = <<0, WholeRows - 1>>
         \/ x = Columns /\ Cell = <<0, y + 1>> /\ (y + 1) * 16 < mode.height
         \/ x < Columns /\ Cell = <<x, y>> /\ y * 16 < mode.height
<1>1. PICK w \in Nat, h \in Nat, c \in Nat, r \in Nat :
        /\ w = mode.width /\ h = mode.height /\ c = Columns /\ r = WholeRows /\ h < 65536
        /\ w <= 8 * c /\ 8 * c < w + 8
  BY Geometry DEF ConsoleInv, ScreenInv
<1>2. x \in Nat /\ y \in Nat /\ x <= c /\ y * 16 < h + 16
  BY <1>1 DEF ConsoleInv, ScreenInv, CursorInv
<1>3. Width16(y + 1) = y + 1
  <2>1. y + 1 < 65536 /\ y + 1 \in Nat /\ 2^16 = 65536
    BY <1>1, <1>2
  <2> QED
    BY <2>1 DEF Width16
<1>4. Cell = CellFrom(w, h, r - 1)
  BY <1>1 DEF Cell, WholeRows
<1>5. CASE x * 8 >= w
  <2>1. Cell = IF (y + 1) * 16 >= h THEN <<0, r - 1>> ELSE <<0, y + 1>>
    BY <1>3, <1>4, <1>5 DEF CellFrom
  <2>2. x = c
    BY <1>1, <1>2, <1>5
  <2>3. CASE (y + 1) * 16 >= h
    BY <1>1, <2>1, <2>3
  <2>4. CASE (y + 1) * 16 < h
    BY <1>1, <1>2, <2>1, <2>2, <2>4
  <2> QED
    BY <1>1, <1>2, <2>3, <2>4
<1>6. CASE x * 8 < w
  <2>1. Cell = IF y * 16 >= h THEN <<0, r - 1>> ELSE <<x, y>>
    BY <1>2, <1>4, <1>6, <1>1 DEF CellFrom
  <2>2. CASE y * 16 >= h
    BY <1>1, <2>1, <2>2
  <2>3. CASE y * 16 < h
    <3>1. x < c
      BY <1>1, <1>2, <1>6
    <3> QED
      BY <1>1, <1>2, <2>1, <2>3, <3>1
  <2> QED
    BY <1>1, <1>2, <2>2, <2>3
<1> QED
  BY <1>1, <1>2, <1>5, <1>6

\* Above the last whole row a character is drawn where none is.
LEMMA Fresh ==
  ASSUME ConsoleInv, Len(todo) # 1, Cell[2] < WholeRows - 1
  PROVE  Cell \notin DOMAIN screen
<1> SUFFICES ASSUME Cell \in DOMAIN screen PROVE FALSE
  OBVIOUS
<1>1. Passed(Cell)
  BY DEF ConsoleInv, DrawnInv
<1>2. x \in Nat /\ y \in Nat
  BY DEF ConsoleInv, ScreenInv
<1>3. PICK r \in Nat : r = WholeRows
  BY Geometry DEF ConsoleInv, ScreenInv
<1>4. Cell # <<0, r - 1>>
  BY <1>3
<1>5. CASE Cell = <<0, y + 1>>
  BY <1>1, <1>2, <1>5 DEF Passed
<1>6. CASE Cell = <<x, y>>
  BY <1>1, <1>2, <1>6 DEF Passed
<1> QED
  BY <1>3, <1>4, <1>5, <1>6, CellCases

\* A character of the text is drawn and moves the cursor behind it; the two at the end of
\* the line only move the cursor.
LEMMA WriteCases ==
  ASSUME ConsoleInv, WriteNext
  PROVE  \/ /\ Len(todo) >= 3 /\ Written + 1 \in 1 .. Len(LastText)
            /\ \E background : write_text(LastText[Written + 1], Cell, background)
            /\ x' = Cell[1] + 1 /\ y' = Cell[2]
         \/ /\ Len(todo) = 2 /\ x' = 0 /\ y' = y /\ screen' = screen
         \/ /\ Len(todo) = 1 /\ x' = x /\ y' = y + 1 /\ screen' = screen
<1>1. TextInv
  BY DEF ConsoleInv
<1>2. /\ lines # << >> /\ Written \in 0 .. Len(LastText) + 1
      /\ Len(todo) = Len(LastText) + 2 - Written
      /\ Head(todo).char = Ending(LastText)[Written + 1]
  BY <1>1, WritesTodo
<1>3. PICK n \in Nat, p \in Nat : n = Len(LastText) /\ p = Written /\ p <= n + 1
  BY <1>1, <1>2, Rest
<1>4. /\ \A k \in 1 .. n : Ending(LastText)[k] = LastText[k] /\ LastText[k] \in Printable
      /\ Ending(LastText)[n + 1] = "\r" /\ Ending(LastText)[n + 2] = "\n"
  BY <1>1, <1>2, <1>3, Rest, EndingType
<1>5. PICK b : write(Head(todo).char, b)
  BY DEF WriteNext
<1>6. CASE p < n
  <2>1. Head(todo).char = LastText[p + 1] /\ LastText[p + 1] \notin Special
    BY <1>2, <1>3, <1>4, <1>6, PrintableAssumption
  <2>2. write_text(LastText[p + 1], Cell, b) /\ x' = Width16(Cell[1] + 1) /\ y' = Cell[2]
    BY <1>5, <2>1 DEF write, handle_special_characters
  <2>3. Width16(Cell[1] + 1) = Cell[1] + 1
    <3>1. PICK w \in Nat, h \in Nat, c \in Nat, r \in Nat :
            /\ w = mode.width /\ h = mode.height /\ c = Columns /\ r = WholeRows
            /\ w <= 8 * c /\ c < 65535
      BY Geometry DEF ConsoleInv, ScreenInv
    <3>2. PICK k \in Nat : k = Cell[1] /\ k * 8 < w
      BY <3>1, CellOnScreen DEF ConsoleInv, OnScreen
    <3>3. k + 1 < 65536 /\ k + 1 \in Nat /\ 2^16 = 65536
      BY <3>1, <3>2
    <3>4. Width16(k + 1) = k + 1
      BY <3>3 DEF Width16
    <3> QED
      BY <3>2, <3>4
  <2> QED
    BY <1>2, <1>3, <1>6, <2>2, <2>3
<1>7. CASE p = n
  <2>1. Head(todo).char = "\r"
    BY <1>2, <1>3, <1>4, <1>7
  <2>2. x' = 0 /\ y' = y /\ screen' = screen
    BY <1>5, <2>1 DEF write, handle_special_characters, Special
  <2> QED
    BY <1>2, <1>3, <1>7, <2>2
<1>8. CASE p = n + 1
  <2>1. Head(todo).char = "\n"
    <3>1. p + 1 = n + 2
      BY <1>8
    <3> QED
      BY <1>2, <1>3, <1>4, <3>1
  <2>2. x' = x /\ y' = Width16(y + 1) /\ screen' = screen
    BY <1>5, <2>1 DEF write, handle_special_characters, Special
  <2>3. Width16(y + 1) = y + 1
    <3>1. PICK h \in Nat : h = mode.height /\ h < 65536
      BY Geometry DEF ConsoleInv, ScreenInv
    <3>2. y \in Nat /\ y * 16 < h + 16
      BY <3>1 DEF ConsoleInv, ScreenInv, CursorInv
    <3>3. y + 1 < 65536 /\ y + 1 \in Nat /\ 2^16 = 65536
      BY <3>1, <3>2
    <3> QED
      BY <3>3 DEF Width16
  <2> QED
    BY <1>2, <1>3, <1>8, <2>2, <2>3
<1> QED
  BY <1>3, <1>6, <1>7, <1>8

\* The mode does not change.
LEMMA SameMode ==
  ASSUME machine' = machine
  PROVE  mode' = mode /\ Columns' = Columns /\ WholeRows' = WholeRows
BY DEF mode, Columns, WholeRows

LEMMA ScreenType ==
  ASSUME ConsoleInv
  PROVE  /\ machine \in Machines /\ x \in Nat /\ y \in Nat
         /\ \A cell \in DOMAIN screen : cell[1] \in Nat /\ cell[2] \in Nat
BY DEF ConsoleInv, ScreenInv, OnScreen

\* A step of write keeps the cursor and what it has passed.
LEMMA WriteCursor == ConsoleInv /\ WriteNext => CursorInv' /\ DrawnInv'
<1> SUFFICES ASSUME ConsoleInv, WriteNext PROVE CursorInv' /\ DrawnInv'
  OBVIOUS
<1>1. PICK w \in Nat, h \in Nat, c \in Nat, r \in Nat :
        /\ w = mode.width /\ h = mode.height /\ c = Columns /\ r = WholeRows
        /\ w <= 8 * c /\ r >= 1
  BY Geometry, ScreenType
<1>2. w = mode'.width /\ h = mode'.height /\ c = Columns' /\ r = WholeRows'
  BY <1>1, SameMode DEF WriteNext
<1>3. PICK p \in Nat : p = Len(todo) /\ p >= 1 /\ Len(todo') = p - 1
  BY WritesTodo, Rest DEF ConsoleInv
<1>4. x \in Nat /\ y \in Nat
  BY ScreenType
<1>5. \A cell \in DOMAIN screen :
        /\ cell \in (0 .. c - 1) \X Nat
        /\ cell[2] < r - 1 => cell[2] < y \/ (cell[2] = y /\ (cell[1] < x \/ p = 1))
  BY <1>1, <1>3 DEF ConsoleInv, DrawnInv, Passed
<1>6. /\ x <= c
      /\ y * 16 < h + 16
      /\ p \in {1, 2} => y * 16 < h
  <2>1. y * 16 < h + (IF p \in {1, 2} THEN 0 ELSE 16)
    BY <1>1, <1>3 DEF ConsoleInv, CursorInv
  <2> QED
    BY <1>1, <1>4, <2>1 DEF ConsoleInv, CursorInv
<1>7. ASSUME x' <= c, y' * 16 < h + (IF p - 1 \in {1, 2} THEN 0 ELSE 16),
             \A cell \in DOMAIN screen' :
               /\ cell \in (0 .. c - 1) \X Nat
               /\ cell[2] < r - 1 => cell[2] < y' \/ (cell[2] = y' /\ (cell[1] < x' \/ p - 1 = 1))
      PROVE  CursorInv' /\ DrawnInv'
  BY <1>2, <1>3, <1>7 DEF CursorInv, DrawnInv, Passed
<1>8. CASE /\ p >= 3 /\ \E background : write_text(LastText[Written + 1], Cell, background)
           /\ x' = Cell[1] + 1 /\ y' = Cell[2]
  <2>1. PICK a \in Nat, b \in Nat : a = Cell[1] /\ b = Cell[2] /\ a * 8 < w /\ b * 16 < h
    BY <1>1, CellOnScreen DEF ConsoleInv, OnScreen
  <2>2. Cell = <<a, b>>
    BY <2>1, CellCases
  <2>3. DOMAIN screen' = DOMAIN screen \cup {<<a, b>>}
    BY <1>8, <2>2 DEF write_text
  <2>4. \/ a = 0 /\ b = r - 1
        \/ a = 0 /\ b = y + 1
        \/ a = x /\ b = y
    BY <1>1, <2>1, CellCases
  <2>5. <<a, b>> \in (0 .. c - 1) \X Nat
    BY <1>1, <2>1
  <2>6. ASSUME NEW cell \in DOMAIN screen
        PROVE  /\ cell \in (0 .. c - 1) \X Nat
               /\ cell[2] < r - 1 => cell[2] < b \/ (cell[2] = b /\ cell[1] < a + 1)
    <3>1. PICK k \in Nat, j \in Nat : k = cell[1] /\ j = cell[2] /\ cell \in (0 .. c - 1) \X Nat
      BY <1>5, ScreenType
    <3>2. j < r - 1 => j < y \/ (j = y /\ k < x)
      BY <1>5, <1>8, <3>1
    <3> QED
      BY <1>1, <1>4, <2>1, <2>4, <3>1, <3>2
  <2>7. \A cell \in DOMAIN screen' :
          /\ cell \in (0 .. c - 1) \X Nat
          /\ cell[2] < r - 1 => cell[2] < b \/ (cell[2] = b /\ cell[1] < a + 1)
    BY <2>1, <2>3, <2>5, <2>6
  <2>8. /\ x' = a + 1 /\ y' = b /\ a + 1 <= c
        /\ b * 16 < h + (IF p - 1 \in {1, 2} THEN 0 ELSE 16)
    BY <1>1, <1>8, <2>1
  <2> QED
    BY <1>7, <2>7, <2>8
<1>9. CASE p = 2 /\ x' = 0 /\ y' = y /\ screen' = screen
  <2>1. ASSUME NEW cell \in DOMAIN screen, cell[2] < r - 1 PROVE cell[2] < y \/ cell[2] = y
    BY <1>5, <2>1
  <2> QED
    BY <1>4, <1>5, <1>6, <1>7, <1>9, <2>1
<1>10. CASE p = 1 /\ x' = x /\ y' = y + 1 /\ screen' = screen
  <2>1. ASSUME NEW cell \in DOMAIN screen, cell[2] < r - 1 PROVE cell[2] < y + 1
    <3>1. cell[2] \in Nat /\ (cell[2] < y \/ cell[2] = y)
      BY <1>5, <2>1, ScreenType
    <3> QED
      BY <1>4, <3>1
  <2>2. (y + 1) * 16 < h + 16
    BY <1>1, <1>4, <1>6, <1>10
  <2> QED
    BY <1>1, <1>4, <1>5, <1>6, <1>7, <1>10, <2>1, <2>2
<1> QED
  BY <1>3, <1>8, <1>9, <1>10, WriteCases

LEMMA CursorNext == ConsoleInv /\ Step => CursorInv' /\ DrawnInv'
<1> SUFFICES ASSUME ConsoleInv, Step PROVE CursorInv' /\ DrawnInv'
  OBVIOUS
<1>1. CASE UNCHANGED <<machine, x, y, screen, todo, lines>>
  BY <1>1, SameMode DEF ConsoleInv, CursorInv, DrawnInv, Passed
<1>2. CASE screen' = << >> /\ UNCHANGED <<machine, x, y, todo, lines>>
  <2>1. DOMAIN screen' = {}
    BY <1>2
  <2> QED
    BY <1>2, <2>1, SameMode DEF ConsoleInv, CursorInv, DrawnInv
<1>3. CASE WriteNext
  BY <1>3, WriteCursor
<1>4. CASE /\ \E l, background : Begins(l, background)
           /\ UNCHANGED <<x, y>> \/ (Early /\ x' = 0 /\ y' = 0)
  <2>1. PICK l, background : Begins(l, background)
    BY <1>4
  <2>2. Len(todo') = Len(l.text) + 2 /\ Len(l.text) \in Nat \ {0}
    BY <2>1, BeginsTodo DEF ConsoleInv
  <2>3. machine' = machine /\ screen' = screen /\ todo = << >>
    BY <2>1 DEF Begins
  <2>4. PICK p \in Nat : p = Len(todo') /\ p \notin {1, 2} /\ Len(todo) = 0
    BY <2>2, <2>3
  <2>5. CASE UNCHANGED <<x, y>>
    <3>1. x' <= Columns' /\ y' * 16 < mode'.height + 16
      BY <2>3, <2>4, <2>5, SameMode DEF ConsoleInv, CursorInv
    <3>2. CursorInv'
      BY <2>4, <3>1 DEF CursorInv
    <3>3. DrawnInv'
      BY <2>3, <2>4, <2>5, SameMode DEF ConsoleInv, DrawnInv, Passed
    <3> QED
      BY <3>2, <3>3
  <2>6. CASE Early /\ x' = 0 /\ y' = 0
    <3>1. x = 0 /\ y = 0 /\ screen = << >>
      BY <2>6 DEF ConsoleInv, TextInv, BlankInv
    <3>2. DOMAIN screen' = {}
      BY <2>3, <3>1
    <3>3. x' <= Columns' /\ y' * 16 < mode'.height + 16
      BY <2>3, <2>4, <2>6, <3>1, SameMode DEF ConsoleInv, CursorInv
    <3>4. CursorInv'
      BY <2>4, <3>3 DEF CursorInv
    <3> QED
      BY <3>2, <3>4 DEF DrawnInv
  <2> QED
    BY <1>4, <2>5, <2>6
<1> QED
  BY <1>1, <1>2, <1>3, <1>4 DEF Step

LEMMA ConsoleInit == Init => ConsoleInv
<1> SUFFICES ASSUME Init PROVE ConsoleInv
  OBVIOUS
<1>1. ControlInv /\ TextInv /\ ScreenInv
  BY ControlInit, TextInit, InitInv
<1>2. x = 0 /\ y = 0 /\ screen = << >> /\ Len(todo) = 0
  BY DEF Init
<1>3. PICK c \in Nat, h \in Nat : c = Columns /\ h = mode.height /\ h < 65536 /\ h >= 0
  BY <1>1, Geometry DEF ScreenInv
<1>4. x <= c /\ y * 16 < h + (IF Len(todo) \in {1, 2} THEN 0 ELSE 16)
  BY <1>2, <1>3
<1>5. CursorInv /\ DrawnInv
  BY <1>2, <1>3, <1>4 DEF CursorInv, DrawnInv
<1> QED
  BY <1>1, <1>5 DEF ConsoleInv

LEMMA ConsoleNext == ConsoleInv /\ [Next]_vars => ConsoleInv' /\ Step
<1> SUFFICES ASSUME ConsoleInv, [Next]_vars PROVE ConsoleInv' /\ Step
  OBVIOUS
<1>1. Step /\ ControlInv' /\ ScreenInv'
  BY AnyStep, ControlNext, NextInv DEF ConsoleInv
<1>2. TextInv' /\ CursorInv' /\ DrawnInv'
  BY <1>1, TextNext, CursorNext DEF ConsoleInv
<1> QED
  BY <1>1, <1>2 DEF ConsoleInv

LEMMA ConsoleAlways == Spec => []ConsoleInv
BY ConsoleInit, ConsoleNext, PTL DEF Spec

------------------------------------------------------------------------------
(* What ConsoleInv implies.                                                 *)

\* Every variable has its type: the cursor never leaves the screen by more than the one
\* column and the one row from which write takes it back, so that its 16 bits never wrap,
\* and what is still to be written are characters that the font has or that end a line.
THEOREM TypeCorrect == Spec => []TypeOK
<1>1. ConsoleInv => TypeOK
  <2> SUFFICES ASSUME ConsoleInv PROVE TypeOK
    OBVIOUS
  <2>1. PICK w \in Nat, h \in Nat, c \in Nat :
          w = mode.width /\ h = mode.height /\ c = Columns /\ h < 65536
    BY Geometry, ScreenType
  <2>2. x \in Nat /\ y \in Nat
    BY ScreenType
  <2>3. x <= c /\ y * 16 < h + 16
    BY <2>1, <2>2 DEF ConsoleInv, CursorInv
  <2>4. x \in 0 .. Columns
    BY <2>1, <2>2, <2>3
  <2>5. y \in 0 .. 2^16 - 1
    BY <2>1, <2>2, <2>3
  <2>6. mapped \in Nat
    <3>1. CASE mapped = 0
      BY <3>1
    <3>2. CASE mapped # 0
      <4>1. PICK v \in Nat, p \in Nat : v = mode.width /\ p = mode.pitch /\ v >= 1 /\ p >= v * 4
        BY ModeType, ScreenType
      <4>2. PICK s \in Nat : s = v * p
        BY <4>1
      <4>3. mapped = (s + 4095) \div 4096
        BY <3>2, <4>1, <4>2 DEF ConsoleInv, ScreenInv, page_size
      <4> QED
        BY <4>3
    <3> QED
      BY <3>1, <3>2
  <2>7. \A cell \in DOMAIN screen : cell \in (0 .. Columns - 1) \X Nat
    BY DEF ConsoleInv, DrawnInv
  <2> QED
    BY <2>4, <2>5, <2>6, <2>7 DEF TypeOK, ConsoleInv, ControlInv, TextInv, TodoInv
<1> QED
  BY <1>1, ConsoleAlways, PTL

\* Above the last whole row a step keeps what is drawn.
LEMMA StepKeeps ==
  ASSUME ConsoleInv, [Next]_vars, NEW cell \in DOMAIN screen, cell[2] < WholeRows - 1
  PROVE  cell \in DOMAIN screen' /\ screen'[cell] = screen[cell]
<1>1. Step
  BY ConsoleNext
<1>2. CASE screen' = screen
  BY <1>2
<1>3. CASE Early
  <2>1. DOMAIN screen = {}
    BY <1>3 DEF ConsoleInv, TextInv, BlankInv
  <2> QED
    BY <2>1
<1>4. ASSUME NEW p \in Nat, p = Len(todo), p >= 3, NEW background,
             write_text(LastText[Written + 1], Cell, background)
      PROVE  cell \in DOMAIN screen' /\ screen'[cell] = screen[cell]
  <2>1. Len(todo) # 1
    BY <1>4
  <2>2. cell # Cell
    BY <2>1, Fresh
  <2> QED
    BY <1>4, <2>2 DEF write_text
<1>5. CASE WriteNext
  <2>1. PICK p \in Nat : p = Len(todo)
    BY <1>5, WritesTodo, Rest DEF ConsoleInv
  <2> QED
    BY <1>2, <1>4, <1>5, <2>1, WriteCases
<1> QED
  BY <1>1, <1>2, <1>3, <1>5 DEF Step, Begins

\* When the screen is full the rows above the last whole one stay: write draws a
\* character there only where none has been drawn since the screen was cleared.
THEOREM KeepsRows == Spec => OverwritesOnlyLastRow
<1>1. ConsoleInv /\ [Next]_vars
        => [WholeColumns => \A cell \in DOMAIN screen :
              cell[2] < WholeRows - 1
                => cell \in DOMAIN screen' /\ screen'[cell] = screen[cell]]_vars
  BY StepKeeps
<1> QED
  BY <1>1, ConsoleAlways, PTL DEF Spec, OverwritesOnlyLastRow

\* The text of every line is its format with the directives replaced by their arguments,
\* whatever the firmware's name, the numbers of the processors and the tables are.
THEOREM TextsRight == Spec => []FormatRight
<1>1. ConsoleInv => FormatRight
  <2> SUFFICES ASSUME ConsoleInv PROVE FormatRight
    OBVIOUS
  <2>1. ASSUME NEW l \in ToSet(lines), "%p" \notin ToSet(l.format)
        PROVE  l.text = Replaced(l.format, l.arguments)
    <3>1. PICK S : lines \in Seq(S)
      BY DEF ConsoleInv, TextInv, LinesInv
    <3>2. PICK k \in 1 .. Len(lines) : l = lines[k]
      BY <2>1, <3>1 DEF ToSet
    <3>3. FormatsRight(l)
      BY <3>2 DEF ConsoleInv, TextInv, LinesInv
    <3>4. \A j \in DOMAIN l.format : l.format[j] # "%p"
      BY <2>1 DEF ToSet
    <3> QED
      BY <3>3, <3>4 DEF FormatsRight
  <2> QED
    BY <2>1 DEF FormatRight, Replaced
<1> QED
  BY <1>1, ConsoleAlways, PTL

\* On a screen wider than high no pixel is written behind the pages of the frame buffer
\* that kernel_main has mapped.
THEOREM DrawsInside == Spec => []DrawsInsideMapping
<1>1. ScreenInv => DrawsInsideMapping
  <2> SUFFICES ASSUME ScreenInv, mapped # 0, Landscape PROVE DrawsInsideMapping
    BY DEF DrawsInsideMapping
  <2>1. PICK w \in Nat, h \in Nat :
          w = mode.width /\ h = mode.height /\ w >= 32 /\ h >= 16 /\ h + 16 <= w
    BY ModeType DEF ScreenInv, Landscape
  <2>2. PixelOffset(mode.width - 1, mode.height - 1) + 4 <= mapped * page_size
    <3>1. /\ w - 1 \in Nat /\ h - 1 \in Nat
          /\ w - 1 < w + 7 * 0 /\ (h - 1) + 1 + 0 <= w /\ 0 \in {0, 1}
      BY <2>1
    <3> QED
      BY <2>1, <3>1, PixelInside DEF ScreenInv
  <2>3. ASSUME NEW cell \in DOMAIN screen
        PROVE  PixelOffset(cell[1] * 8 + 7, cell[2] * 16 + 15) + 4 <= mapped * page_size
    <3>1. PICK a \in Nat, b \in Nat : a = cell[1] /\ b = cell[2] /\ a * 8 < w /\ b * 16 < h
      BY <2>1 DEF ScreenInv, OnScreen
    <3>2. /\ a * 8 + 7 \in Nat /\ b * 16 + 15 \in Nat
          /\ a * 8 + 7 < w + 7 * 1 /\ (b * 16 + 15) + 1 + 1 <= w /\ 1 \in {0, 1}
      BY <2>1, <3>1
    <3> QED
      BY <2>1, <3>1, <3>2, PixelInside DEF ScreenInv
  <2> QED
    BY <2>2, <2>3 DEF DrawsInsideMapping
<1> QED
  BY <1>1, InitInv, NextInv, PTL DEF Spec

------------------------------------------------------------------------------
(* The rows of the transcript.                                              *)

\* Counting along rows of c columns.
LEMMA Remainder ==
  ASSUME NEW n \in Nat, NEW c \in Nat \ {0}
  PROVE  \E q, r \in Nat : q = n \div c /\ r = n % c /\ r < c /\ n = q * c + r
<1>1. n % c \in Nat /\ n % c < c
  OBVIOUS
<1>2. n % c = n - (n \div c) * c
  OBVIOUS
<1>3. PICK q \in Nat : q = n \div c
  OBVIOUS
<1>4. PICK p \in Nat : p = q * c
  OBVIOUS
<1>5. PICK r \in Nat : r = n % c
  BY <1>1
<1>6. r = n - p
  BY <1>2, <1>3, <1>4, <1>5
<1>7. n = q * c + r
  BY <1>4, <1>6
<1> QED
  BY <1>1, <1>3, <1>5, <1>7

LEMMA Division ==
  ASSUME NEW q \in Nat, NEW r \in Nat, NEW c \in Nat \ {0}, r < c, NEW n \in Nat, n = q * c + r
  PROVE  n \div c = q /\ n % c = r
<1>1. PICK p \in Nat, s \in Nat : p = n \div c /\ s = n % c /\ n = p * c + s /\ s < c
  BY Remainder
<1>2. CASE p = q
  BY <1>1, <1>2
<1>3. CASE p < q
  <2>1. p * c < q * c + c /\ q * c < p * c + c
    BY <1>1, <1>3
  <2>2. q * c <= p * c
    BY <2>1, MultipleStep
  <2>3. (p + 1) * c <= q * c
    BY <1>3
  <2> QED
    BY <2>2, <2>3
<1>4. CASE q < p
  <2>1. p * c < q * c + c
    BY <1>1
  <2>2. p * c <= q * c
    BY <2>1, MultipleStep
  <2>3. (q + 1) * c <= p * c
    BY <1>4
  <2> QED
    BY <2>2, <2>3
<1> QED
  BY <1>2, <1>3, <1>4

LEMMA NextColumn ==
  ASSUME NEW n \in Nat, NEW c \in Nat \ {0}
  PROVE  /\ n \div c \in Nat /\ n % c \in Nat /\ n % c < c
         /\ (n % c) + 1 < c => (n + 1) \div c = n \div c /\ (n + 1) % c = (n % c) + 1
         /\ (n % c) + 1 = c => (n + 1) \div c = n \div c + 1 /\ (n + 1) % c = 0
         /\ (n + c) \div c = n \div c + 1
<1>1. PICK q \in Nat, r \in Nat : q = n \div c /\ r = n % c /\ n = q * c + r /\ r < c
  BY Remainder
<1>2. (q + 1) * c = q * c + c
  OBVIOUS
<1>3. ASSUME r + 1 < c PROVE (n + 1) \div c = q /\ (n + 1) % c = r + 1
  <2>1. PICK m \in Nat, s \in Nat : m = n + 1 /\ s = r + 1
    OBVIOUS
  <2>2. m = q * c + s /\ s < c
    BY <1>1, <1>3, <2>1
  <2> QED
    BY <2>1, <2>2, Division
<1>4. ASSUME r + 1 = c PROVE (n + 1) \div c = q + 1 /\ (n + 1) % c = 0
  <2>1. PICK m \in Nat, p \in Nat : m = n + 1 /\ p = q + 1
    OBVIOUS
  <2>2. m = p * c + 0
    BY <1>1, <1>2, <1>4, <2>1
  <2> QED
    BY <2>1, <2>2, Division
<1>5. (n + c) \div c = q + 1
  <2>1. PICK m \in Nat, p \in Nat : m = n + c /\ p = q + 1
    OBVIOUS
  <2>2. m = p * c + r
    BY <1>1, <1>2, <2>1
  <2>3. m \div c = p
    BY <1>1, <2>2, Division
  <2> QED
    BY <2>1, <2>3
<1> QED
  BY <1>1, <1>3, <1>4, <1>5

\* Going on is going down.
LEMMA RowsGrow ==
  ASSUME NEW n \in Nat, NEW m \in Nat, n <= m, NEW c \in Nat \ {0}
  PROVE  n \div c <= m \div c
<1>1. PICK q \in Nat, p \in Nat : /\ q = n \div c /\ p = m \div c
                                  /\ q * c <= n /\ m < p * c + c
  BY Quotient
<1>2. q * c < p * c + c
  BY <1>1
<1>3. q * c <= p * c
  BY <1>2, MultipleStep
<1>4. CASE q > p
  <2>1. q * c >= (p + 1) * c
    BY <1>4
  <2> QED
    BY <1>3, <2>1
<1> QED
  BY <1>1, <1>4

Height(text, c) == Max({1, (Len(text) + c - 1) \div c})

LEMMA HeightIs ==
  ASSUME NEW text, NEW n \in Nat \ {0}, n = Len(text), NEW c \in Nat \ {0}
  PROVE  Height(text, c) = (n - 1) \div c + 1 /\ Height(text, c) \in Nat \ {0}
<1>1. PICK q \in Nat : q = (n - 1) \div c
  OBVIOUS
<1>2. (n + c - 1) \div c = q + 1
  <2>1. PICK m \in Nat : m = n - 1
    OBVIOUS
  <2>2. n + c - 1 = m + c
    BY <2>1
  <2>3. (m + c) \div c = m \div c + 1
    BY NextColumn
  <2>4. m \div c = q
    BY <1>1, <2>1
  <2> QED
    BY <2>2, <2>3, <2>4
<1>3. Height(text, c) = Max({1, q + 1})
  BY <1>2 DEF Height
<1>4. \E m \in {1, q + 1} : \A k \in {1, q + 1} : m >= k
  OBVIOUS
<1>5. Max({1, q + 1}) = q + 1
  BY <1>4 DEF Max
<1> QED
  BY <1>1, <1>3, <1>5

\* The row in which line k of ls begins, and its table.
Top(ls, c, k) ==
  LET rows[n \in 0 .. Len(ls)] == IF n = 0 THEN 0 ELSE rows[n - 1] + Height(ls[n].text, c)
  IN  rows[k - 1]

IsTop(t, ls, c, m) ==
  t = [n \in 0 .. m |-> IF n = 0 THEN 0 ELSE t[n - 1] + Height(ls[n].text, c)]

LEMMA IsTopSteps ==
  ASSUME NEW t, NEW ls, NEW c, NEW m \in Nat, IsTop(t, ls, c, m)
  PROVE  \A n \in 0 .. m : t[n] = IF n = 0 THEN 0 ELSE t[n - 1] + Height(ls[n].text, c)
<1>1. PICK T : T = [n \in 0 .. m |-> IF n = 0 THEN 0 ELSE t[n - 1] + Height(ls[n].text, c)]
  OBVIOUS
<1>2. \A n \in 0 .. m : T[n] = IF n = 0 THEN 0 ELSE t[n - 1] + Height(ls[n].text, c)
  BY <1>1
<1>3. t = T
  BY <1>1 DEF IsTop
<1> QED
  BY <1>2, <1>3

LEMMA TopExists ==
  ASSUME NEW ls, NEW c, NEW m \in Nat
  PROVE  \E t : IsTop(t, ls, c, m)
<1> DEFINE Bad == {k \in Nat : ~ \E t : IsTop(t, ls, c, k)}
<1>1. SUFFICES ASSUME m \in Bad PROVE FALSE
  OBVIOUS
<1>2. PICK b \in Bad : \A k \in Bad : b <= k
  BY <1>1, NatMinimum
<1>3. ASSUME b = 0 PROVE FALSE
  <2>1. IsTop([n \in 0 .. 0 |-> 0], ls, c, 0)
    BY DEF IsTop
  <2> QED
    BY <1>2, <1>3, <2>1
<1>4. ASSUME b # 0 PROVE FALSE
  <2>1. b - 1 \in Nat /\ b - 1 \notin Bad
    BY <1>2, <1>4
  <2>2. PICK u : IsTop(u, ls, c, b - 1)
    BY <2>1
  <2>3. PICK t : t = [n \in 0 .. b |-> IF n = 0 THEN 0 ELSE u[n - 1] + Height(ls[n].text, c)]
    OBVIOUS
  <2>4. \A n \in 0 .. b - 1 : t[n] = u[n]
    <3>1. \A n \in 0 .. b - 1 : u[n] = IF n = 0 THEN 0 ELSE u[n - 1] + Height(ls[n].text, c)
      BY <2>1, <2>2, IsTopSteps
    <3>2. \A n \in 0 .. b - 1 : n \in 0 .. b
      BY <2>1
    <3> QED
      BY <2>3, <3>1, <3>2
  <2>5. IsTop(t, ls, c, b)
    <3>1. \A n \in 0 .. b : n # 0 => n - 1 \in 0 .. b - 1
      BY <2>1
    <3> QED
      BY <2>3, <2>4, <3>1 DEF IsTop
  <2> QED
    BY <1>2, <2>5
<1> QED
  BY <1>3, <1>4

LEMMA TopSteps ==
  ASSUME NEW ls, NEW c, NEW m \in Nat, m = Len(ls)
  PROVE  /\ Top(ls, c, 1) = 0
         /\ \A k \in 1 .. m : Top(ls, c, k + 1) = Top(ls, c, k) + Height(ls[k].text, c)
<1> DEFINE t == CHOOSE t : IsTop(t, ls, c, m)
<1>1. IsTop(t, ls, c, m)
  BY TopExists
<1>2. \A k : Top(ls, c, k) = t[k - 1]
  BY DEF Top, IsTop
<1> HIDE DEF t
<1>3. \A n \in 0 .. m : t[n] = IF n = 0 THEN 0 ELSE t[n - 1] + Height(ls[n].text, c)
  BY <1>1, IsTopSteps
<1>4. Top(ls, c, 1) = 0
  <2>1. t[0] = 0
    BY <1>3
  <2> QED
    BY <1>2, <2>1
<1>5. ASSUME NEW k \in 1 .. m
      PROVE  Top(ls, c, k + 1) = Top(ls, c, k) + Height(ls[k].text, c)
  <2>1. k \in 0 .. m /\ k # 0 /\ (k + 1) - 1 = k
    OBVIOUS
  <2>2. t[k] = t[k - 1] + Height(ls[k].text, c)
    BY <1>3, <2>1
  <2> QED
    BY <1>2, <2>1, <2>2
<1> QED
  BY <1>4, <1>5

\* The lines: m of them, none empty.
Texts(ls, c, m) ==
  /\ c \in Nat \ {0} /\ m \in Nat /\ m = Len(ls)
  /\ \A k \in 1 .. m : Len(ls[k].text) \in Nat \ {0}

LEMMA TopNext ==
  ASSUME NEW ls, NEW c, NEW m, Texts(ls, c, m)
  PROVE  /\ Top(ls, c, 1) = 0
         /\ \A k \in 1 .. m + 1 : Top(ls, c, k) \in Nat
         /\ \A k \in 1 .. m :
              /\ Top(ls, c, k + 1) = Top(ls, c, k) + (Len(ls[k].text) - 1) \div c + 1
              /\ (Len(ls[k].text) - 1) \div c \in Nat
<1>1. c \in Nat \ {0} /\ m \in Nat /\ m = Len(ls)
  BY DEF Texts
<1>2. /\ Top(ls, c, 1) = 0
      /\ \A k \in 1 .. m : Top(ls, c, k + 1) = Top(ls, c, k) + Height(ls[k].text, c)
  BY <1>1, TopSteps
<1>3. \A k \in 1 .. m : /\ Height(ls[k].text, c) = (Len(ls[k].text) - 1) \div c + 1
                        /\ (Len(ls[k].text) - 1) \div c \in Nat
  <2>1. SUFFICES ASSUME NEW k \in 1 .. m
                 PROVE  /\ Height(ls[k].text, c) = (Len(ls[k].text) - 1) \div c + 1
                        /\ (Len(ls[k].text) - 1) \div c \in Nat
    OBVIOUS
  <2>2. PICK n \in Nat \ {0} : n = Len(ls[k].text)
    BY DEF Texts
  <2>3. (n - 1) \div c \in Nat
    BY <1>1
  <2> QED
    BY <1>1, <2>2, <2>3, HeightIs
<1> DEFINE Bad == {k \in 1 .. m + 1 : Top(ls, c, k) \notin Nat}
<1>4. ASSUME Bad # {} PROVE FALSE
  <2>1. PICK b \in Bad : \A k \in Bad : b <= k
    <3>1. Bad \subseteq Nat
      BY <1>1
    <3> HIDE DEF Bad
    <3> QED
      BY <1>4, <3>1, NatMinimum
  <2>2. b # 1
    BY <1>2, <2>1
  <2>3. PICK p \in 1 .. m : p = b - 1
    BY <1>1, <2>1, <2>2
  <2>4. p \in 1 .. m + 1 /\ p + 1 = b /\ p < b
    BY <1>1, <2>1, <2>3
  <2>5. Top(ls, c, p) \in Nat
    BY <1>1, <2>1, <2>4
  <2>6. Top(ls, c, p + 1) \in Nat
    BY <1>2, <1>3, <2>3, <2>5
  <2> QED
    BY <2>1, <2>4, <2>6
<1>5. \A k \in 1 .. m + 1 : Top(ls, c, k) \in Nat
  BY <1>4
<1>6. \A k \in 1 .. m : Top(ls, c, k + 1) = Top(ls, c, k) + (Len(ls[k].text) - 1) \div c + 1
  <2>1. SUFFICES ASSUME NEW k \in 1 .. m
                 PROVE  Top(ls, c, k + 1) = Top(ls, c, k) + (Len(ls[k].text) - 1) \div c + 1
    OBVIOUS
  <2>2. k \in 1 .. m + 1
    BY <1>1
  <2>3. PICK t \in Nat, q \in Nat : t = Top(ls, c, k) /\ q = (Len(ls[k].text) - 1) \div c
    BY <1>3, <1>5, <2>2
  <2>4. Top(ls, c, k + 1) = t + (q + 1)
    BY <1>2, <1>3, <2>3
  <2> QED
    BY <2>3, <2>4
<1> QED
  BY <1>2, <1>3, <1>5, <1>6

\* A line that is appended begins below the others and leaves them where they are.
LEMMA TopKept ==
  ASSUME NEW ls, NEW ms, NEW c, NEW m, Texts(ls, c, m), Len(ms) = m + 1,
         \A k \in 1 .. m : ms[k] = ls[k]
  PROVE  \A k \in 1 .. m + 1 : Top(ms, c, k) = Top(ls, c, k)
<1>1. m \in Nat /\ m = Len(ls) /\ m + 1 \in Nat
  BY DEF Texts
<1>2. /\ Top(ls, c, 1) = 0
      /\ \A k \in 1 .. m : Top(ls, c, k + 1) = Top(ls, c, k) + Height(ls[k].text, c)
  BY <1>1, TopSteps
<1>3. /\ Top(ms, c, 1) = 0
      /\ \A k \in 1 .. m + 1 : Top(ms, c, k + 1) = Top(ms, c, k) + Height(ms[k].text, c)
  <2>1. PICK n \in Nat : n = m + 1
    BY <1>1
  <2>2. /\ Top(ms, c, 1) = 0
        /\ \A k \in 1 .. n : Top(ms, c, k + 1) = Top(ms, c, k) + Height(ms[k].text, c)
    BY <2>1, TopSteps
  <2> QED
    BY <2>1, <2>2
<1> DEFINE Bad == {k \in 1 .. m + 1 : Top(ms, c, k) # Top(ls, c, k)}
<1>4. ASSUME Bad # {} PROVE FALSE
  <2>1. PICK b \in Bad : \A k \in Bad : b <= k
    <3>1. Bad \subseteq Nat
      BY <1>1
    <3> HIDE DEF Bad
    <3> QED
      BY <1>4, <3>1, NatMinimum
  <2>2. b # 1
    BY <1>2, <1>3, <2>1
  <2>3. PICK p \in 1 .. m : p = b - 1
    BY <1>1, <2>1, <2>2
  <2>4. p \in 1 .. m + 1 /\ p + 1 = b /\ p < b
    BY <1>1, <2>1, <2>3
  <2>5. Top(ms, c, p) = Top(ls, c, p)
    BY <1>1, <2>1, <2>4
  <2>6. Top(ms, c, p + 1) = Top(ls, c, p + 1)
    BY <1>2, <1>3, <2>3, <2>4, <2>5
  <2> QED
    BY <2>1, <2>4, <2>6
<1> QED
  BY <1>4

Place(ls, c, k, j) == <<(j - 1) % c, Top(ls, c, k) + (j - 1) \div c>>

LEMMA Places ==
  /\ \A k : FirstRow(k) = Top(lines, Columns, k)
  /\ \A k : FirstRow(k)' = Top(lines', Columns', k)
  /\ \A k, j : CellOf(k, j) = Place(lines, Columns, k, j)
  /\ \A k, j : CellOf(k, j)' = Place(lines', Columns', k, j)
<1>1. \A k : FirstRow(k) = Top(lines, Columns, k)
  BY DEF FirstRow, Top, RowsOf, Height
<1>2. \A k : FirstRow(k)' = Top(lines', Columns', k)
  BY DEF FirstRow, Top, RowsOf, Height
<1> QED
  BY <1>1, <1>2 DEF CellOf, Place

LEMMA TextsNow ==
  ASSUME ConsoleInv
  PROVE  Texts(lines, Columns, Len(lines))
<1>1. PICK S : lines \in Seq(S)
  BY DEF ConsoleInv, TextInv, LinesInv
<1>2. Len(lines) \in Nat
  BY <1>1
<1>3. Columns \in Nat \ {0}
  BY Geometry, ScreenType
<1>4. ASSUME NEW k \in 1 .. Len(lines) PROVE Len(lines[k].text) \in Nat \ {0}
  <2>1. lines[k].text \in Seq(Printable) /\ lines[k].text # << >>
    BY DEF ConsoleInv, TextInv, LinesInv
  <2> QED
    BY <2>1, EmptySeq
<1> QED
  BY <1>2, <1>3, <1>4 DEF Texts

------------------------------------------------------------------------------
(* The transcript.                                                          *)

AllFit == FirstRow(Len(lines) + 1) <= WholeRows

\* Character j of line k has been written.
Gone(k, j) ==
  /\ k \in 1 .. Len(lines) /\ j \in 1 .. Len(lines[k].text)
  /\ k = Len(lines) => j <= Written

\* The cursor stands behind the last character written, or at the start of the row of the
\* last or of the next line.
AtCursor ==
  /\ lines = << >> => x = 0 /\ y = 0
  /\ lines # << >> =>
       /\ Written = 0 => x = 0 /\ y = FirstRow(Len(lines))
       /\ Written \in 1 .. Len(LastText) =>
            /\ x = ((Written - 1) % Columns) + 1
            /\ y = FirstRow(Len(lines)) + (Written - 1) \div Columns
       /\ Written = Len(LastText) + 1 =>
            x = 0 /\ y = FirstRow(Len(lines)) + (Len(LastText) - 1) \div Columns
       /\ Written = Len(LastText) + 2 => x = 0 /\ y = FirstRow(Len(lines) + 1)

\* As long as everything fits the screen shows what has been written and nothing else,
\* all of it before the cursor.
ShownInv ==
  AllFit =>
    /\ \A cell \in DOMAIN screen :
         Passed(cell) /\ \E k, j \in Nat : Gone(k, j) /\ cell = CellOf(k, j)
    /\ \A k, j \in Nat :
         Gone(k, j) => /\ CellOf(k, j) \in DOMAIN screen
                       /\ screen[CellOf(k, j)] = font_bitmap(lines[k].text[j])
    /\ AtCursor

LEMMA ShownSame ==
  ShownInv /\ UNCHANGED <<machine, x, y, screen, todo, lines>> => ShownInv'
<1> SUFFICES ASSUME ShownInv, UNCHANGED <<machine, x, y, screen, todo, lines>> PROVE ShownInv'
  OBVIOUS
<1>1. \A k : FirstRow(k)' = FirstRow(k)
  BY Places, SameMode
<1>2. \A k, j : CellOf(k, j)' = CellOf(k, j)
  BY Places, SameMode
<1>3. Written' = Written /\ LastText' = LastText
  BY DEF Written, LastText
<1>4. \A k, j : Gone(k, j)' <=> Gone(k, j)
  BY <1>3 DEF Gone
<1>5. AllFit' <=> AllFit
  BY <1>1, SameMode DEF AllFit
<1>6. AtCursor' <=> AtCursor
  BY <1>1, <1>3, SameMode DEF AtCursor
<1>7. \A cell : Passed(cell)' <=> Passed(cell)
  BY DEF Passed
<1>8. \A k, j : CellOf(k, j)' = CellOf(k, j) /\ (Gone(k, j)' <=> Gone(k, j))
  BY <1>2, <1>4
<1> QED
  BY <1>5, <1>6, <1>7, <1>8 DEF ShownInv

\* The screen before the first line.
LEMMA ShownEarly == lines = << >> /\ screen = << >> /\ x = 0 /\ y = 0 => ShownInv
<1> SUFFICES ASSUME lines = << >>, screen = << >>, x = 0, y = 0 PROVE ShownInv
  OBVIOUS
<1>1. DOMAIN screen = {} /\ Len(lines) = 0
  OBVIOUS
<1>2. \A k, j : ~Gone(k, j)
  BY <1>1 DEF Gone
<1> QED
  BY <1>1, <1>2 DEF ShownInv, AtCursor

\* A line that is begun changes nothing of what has been written.
LEMMA ShownBegins ==
  ASSUME ConsoleInv, ShownInv, NEW l, NEW background, Begins(l, background),
         UNCHANGED <<x, y>> \/ (Early /\ x' = 0 /\ y' = 0)
  PROVE  ShownInv'
<1>1. /\ Len(lines') = Len(lines) + 1 /\ Len(lines) \in Nat
      /\ \A k \in 1 .. Len(lines) : lines'[k] = lines[k]
      /\ lines'[Len(lines) + 1] = l
  BY BeginsLine DEF ConsoleInv, TextInv
<1>2. PICK m \in Nat : m = Len(lines) /\ m + 1 = Len(lines')
  BY <1>1
<1>3. /\ lines' # << >> /\ LastText' = l.text /\ Written' = 0 /\ Len(todo') = Len(l.text) + 2
      /\ Len(l.text) \in Nat \ {0}
  BY BeginsTodo DEF ConsoleInv
<1>4. machine' = machine /\ screen' = screen /\ todo = << >>
  BY DEF Begins
<1>5. Texts(lines, Columns, m) /\ Texts(lines', Columns', m + 1) /\ Columns' = Columns
  <2>1. Texts(lines, Columns, m)
    BY <1>2, TextsNow
  <2>2. \A k \in 1 .. m + 1 : Len(lines'[k].text) \in Nat \ {0}
    <3>1. SUFFICES ASSUME NEW k \in 1 .. m + 1 PROVE Len(lines'[k].text) \in Nat \ {0}
      OBVIOUS
    <3>2. CASE k = m + 1
      BY <1>1, <1>2, <1>3, <3>2
    <3>3. CASE k \in 1 .. m
      BY <1>1, <1>2, <2>1, <3>3 DEF Texts
    <3> QED
      BY <3>2, <3>3
  <2> QED
    BY <1>2, <1>4, <2>1, <2>2, SameMode DEF Texts
<1>6. \A k \in 1 .. m + 1 : FirstRow(k)' = FirstRow(k) /\ FirstRow(k) \in Nat
  <2>1. \A k \in 1 .. m + 1 : Top(lines', Columns, k) = Top(lines, Columns, k)
    BY <1>1, <1>2, <1>5, TopKept
  <2>2. \A k \in 1 .. m + 1 : Top(lines, Columns, k) \in Nat
    BY <1>5, TopNext
  <2> QED
    BY <1>5, <2>1, <2>2, Places
<1>7. \A k \in 1 .. m, j \in Nat : CellOf(k, j)' = CellOf(k, j)
  <2>1. \A k \in 1 .. m : k \in 1 .. m + 1
    OBVIOUS
  <2> QED
    BY <1>5, <1>6, <2>1 DEF CellOf
<1>8. AllFit' => AllFit
  <2>1. SUFFICES ASSUME AllFit' PROVE AllFit
    OBVIOUS
  <2>2. PICK r \in Nat : r = WholeRows /\ r = WholeRows'
    BY <1>4, SameMode, Geometry, ScreenType
  <2>3. FirstRow(m + 1 + 1)' <= r
    BY <1>2, <2>1, <2>2 DEF AllFit
  <2>4. m + 1 \in 1 .. m + 1
    OBVIOUS
  <2>5. PICK a \in Nat, q \in Nat : a = FirstRow(m + 1)' /\ FirstRow(m + 1 + 1)' = a + q + 1
    <3>1. /\ Top(lines', Columns', m + 1 + 1)
               = Top(lines', Columns', m + 1) + (Len(lines'[m + 1].text) - 1) \div Columns' + 1
          /\ (Len(lines'[m + 1].text) - 1) \div Columns' \in Nat
      BY <1>5, <2>4, TopNext
    <3> QED
      BY <1>6, <2>4, <3>1, Places
  <2>6. FirstRow(m + 1) <= r
    BY <1>6, <2>3, <2>4, <2>5
  <2> QED
    BY <1>2, <2>2, <2>6 DEF AllFit
<1>9. SUFFICES ASSUME AllFit' PROVE ShownInv'
  BY DEF ShownInv
<1>10. AllFit
  BY <1>8, <1>9
<1>11. \A k, j \in Nat : /\ Gone(k, j)' <=> Gone(k, j)
                         /\ Gone(k, j) => k \in 1 .. m /\ lines'[k] = lines[k]
  <2>1. SUFFICES ASSUME NEW k \in Nat, NEW j \in Nat
                 PROVE  /\ Gone(k, j)' <=> Gone(k, j)
                        /\ Gone(k, j) => k \in 1 .. m /\ lines'[k] = lines[k]
    OBVIOUS
  <2>2. CASE k \in 1 .. m
    <3>1. lines'[k] = lines[k] /\ k # m + 1 /\ k \in 1 .. m + 1
      BY <1>1, <1>2, <2>2
    <3>2. k = m /\ j \in 1 .. Len(lines[k].text) => j <= Written
      <4>1. SUFFICES ASSUME k = m, j \in 1 .. Len(lines[k].text) PROVE j <= Written
        OBVIOUS
      <4>2. lines # << >> /\ LastText = lines[k].text /\ Len(todo) = 0
        BY <1>2, <1>4, <2>2, <4>1 DEF LastText
      <4>3. PICK n \in Nat : n = Len(LastText)
        BY <4>2, Rest DEF ConsoleInv
      <4>4. Written = n + 2
        BY <4>2, <4>3 DEF Written
      <4> QED
        BY <4>1, <4>2, <4>3, <4>4
    <3> QED
      BY <1>2, <2>2, <3>1, <3>2 DEF Gone
  <2>3. CASE k \notin 1 .. m
    <3>1. ~Gone(k, j)
      BY <1>2, <2>3 DEF Gone
    <3>2. ASSUME Gone(k, j)' PROVE FALSE
      <4>1. k \in 1 .. m + 1 /\ j \in 1 .. Len(lines'[k].text)
        BY <1>2, <3>2 DEF Gone
      <4>2. k = m + 1
        BY <2>3, <4>1
      <4>3. j <= 0 /\ j \in 1 .. Len(l.text)
        BY <1>1, <1>2, <1>3, <3>2, <4>1, <4>2 DEF Gone
      <4> QED
        BY <1>3, <4>3
    <3> QED
      BY <3>1, <3>2
  <2> QED
    BY <2>2, <2>3
<1>12. DOMAIN screen # {} => UNCHANGED <<x, y>>
  <2>1. Early => DOMAIN screen = {}
    BY DEF ConsoleInv, TextInv, BlankInv
  <2> QED
    BY <2>1
<1>13. \A cell \in DOMAIN screen' :
         Passed(cell)' /\ \E k, j \in Nat : Gone(k, j)' /\ cell = CellOf(k, j)'
  <2>1. SUFFICES ASSUME NEW cell \in DOMAIN screen
                 PROVE  Passed(cell)' /\ \E k, j \in Nat : Gone(k, j)' /\ cell = CellOf(k, j)'
    BY <1>4
  <2>2. PICK k \in Nat, j \in Nat : Gone(k, j) /\ cell = CellOf(k, j) /\ Passed(cell)
    BY <1>10 DEF ShownInv
  <2>3. Gone(k, j)' /\ cell = CellOf(k, j)'
    BY <1>7, <1>11, <2>2
  <2>4. Len(todo) = 0
    BY <1>4
  <2>5. Passed(cell)'
    BY <1>12, <2>1, <2>2, <2>4 DEF Passed
  <2> QED
    BY <2>3, <2>5
<1>14. ASSUME NEW k \in Nat, NEW j \in Nat, Gone(k, j)'
       PROVE  /\ CellOf(k, j)' \in DOMAIN screen'
              /\ screen'[CellOf(k, j)'] = font_bitmap(lines'[k].text[j])
  BY <1>4, <1>7, <1>10, <1>11, <1>14 DEF ShownInv
<1>15. AtCursor'
  <2>1. x' = 0 /\ y' = FirstRow(m + 1)
    <3>1. CASE lines = << >>
      <4>1. m = 0 /\ x = 0 /\ y = 0
        BY <1>2, <1>10, <3>1 DEF ShownInv, AtCursor
      <4>2. FirstRow(1) = 0
        BY <1>5, TopNext, Places
      <4> QED
        BY <4>1, <4>2
    <3>2. CASE lines # << >>
      <4>1. UNCHANGED <<x, y>>
        BY <3>2 DEF ConsoleInv, TextInv, BlankInv
      <4>2. Len(todo) = 0
        BY <1>4
      <4>3. PICK n \in Nat : n = Len(LastText)
        BY <3>2, Rest DEF ConsoleInv
      <4>4. Written = Len(LastText) + 2
        BY <4>2, <4>3 DEF Written
      <4> QED
        BY <1>2, <1>10, <3>2, <4>1, <4>4 DEF ShownInv, AtCursor
    <3> QED
      BY <3>1, <3>2
  <2>2. y' = FirstRow(Len(lines))'
    BY <1>2, <1>6, <2>1
  <2>3. 0 \notin 1 .. Len(LastText') /\ 0 # Len(LastText') + 1 /\ 0 # Len(LastText') + 2
    BY <1>3
  <2> QED
    BY <1>3, <2>1, <2>2, <2>3 DEF AtCursor
<1> QED
  BY <1>13, <1>14, <1>15 DEF ShownInv

\* The last line has n characters, d of them (or also its end) are written; it begins in
\* row f and ends p rows below, all of it on a screen of c columns.
LastLine(c, h, f, n, d, p) ==
  /\ c = Columns /\ mode.width \in Nat /\ mode.width <= 8 * c /\ 8 * c < mode.width + 8
  /\ h = mode.height
  /\ n = Len(LastText) /\ n >= 1 /\ d = Written
  /\ f = FirstRow(Len(lines)) /\ p = (n - 1) \div c
  /\ FirstRow(Len(lines) + 1) = f + p + 1
  /\ (f + p) * 16 < h /\ f + p < 40000

LEMMA LastRows ==
  ASSUME ConsoleInv, AllFit, lines # << >>
  PROVE  \E c \in Nat \ {0}, h, f, n, d, p \in Nat : LastLine(c, h, f, n, d, p)
<1>1. PICK w \in Nat, h \in Nat, c \in Nat, r \in Nat :
        /\ w = mode.width /\ h = mode.height /\ c = Columns /\ r = WholeRows
        /\ w <= 8 * c /\ 8 * c < w + 8 /\ c >= 1 /\ 16 * r <= h /\ h < 65536
  BY Geometry, ScreenType
<1>2. PICK n \in Nat, d \in Nat : n = Len(LastText) /\ n >= 1 /\ d = Written
  BY Rest DEF ConsoleInv
<1>3. PICK m \in Nat : m = Len(lines) /\ m >= 1
  <2>1. PICK S : lines \in Seq(S)
    BY DEF ConsoleInv, TextInv, LinesInv
  <2> QED
    BY <2>1, EmptySeq
<1>4. Texts(lines, c, m)
  BY <1>1, <1>3, TextsNow
<1>5. PICK p \in Nat : p = (n - 1) \div c
  <2>1. n - 1 \in Nat /\ c \in Nat \ {0}
    BY <1>1, <1>2
  <2> QED
    BY <2>1
<1>6. Top(lines, c, m) \in Nat /\ Top(lines, c, m + 1) = Top(lines, c, m) + p + 1
  <2>1. m \in 1 .. m /\ m \in 1 .. m + 1
    BY <1>3
  <2>2. Len(lines[m].text) = n
    BY <1>2, <1>3 DEF LastText
  <2>3. /\ \A k \in 1 .. m + 1 : Top(lines, c, k) \in Nat
        /\ \A k \in 1 .. m :
             Top(lines, c, k + 1) = Top(lines, c, k) + (Len(lines[k].text) - 1) \div c + 1
    BY <1>4, TopNext
  <2>4. Top(lines, c, m + 1) = Top(lines, c, m) + (Len(lines[m].text) - 1) \div c + 1
    BY <2>1, <2>3
  <2> QED
    BY <1>5, <2>1, <2>2, <2>3, <2>4
<1>7. PICK f \in Nat : f = FirstRow(Len(lines))
  BY <1>1, <1>3, <1>6, Places
<1>8. FirstRow(Len(lines) + 1) = f + p + 1
  BY <1>1, <1>3, <1>6, <1>7, Places
<1>9. (f + p) * 16 < h /\ f + p < 40000
  <2>1. f + p + 1 <= r
    BY <1>1, <1>8 DEF AllFit
  <2> QED
    BY <1>1, <2>1
<1>10. /\ c \in Nat \ {0}
       /\ mode.width \in Nat /\ mode.width <= 8 * c /\ 8 * c < mode.width + 8
  BY <1>1
<1>11. LastLine(c, h, f, n, d, p)
  BY <1>1, <1>2, <1>5, <1>7, <1>8, <1>9, <1>10 DEF LastLine
<1> QED
  BY <1>10, <1>11

\* The next character of a line is drawn in its place, which is not yet passed.
LEMMA NextPlace ==
  ASSUME ConsoleInv, ShownInv, AllFit, lines # << >>, Written < Len(LastText)
  PROVE  /\ Cell = CellOf(Len(lines), Written + 1)
         /\ \/ Cell = <<x, y>>
            \/ Cell = <<0, y + 1>> /\ x = Columns
<1>1. PICK c \in Nat \ {0}, h \in Nat, f \in Nat, n \in Nat, d \in Nat, p \in Nat :
        LastLine(c, h, f, n, d, p)
  BY LastRows
<1>2. d < n /\ n >= 1 /\ p = (n - 1) \div c /\ c = Columns
  BY <1>1 DEF LastLine
<1>3. CellOf(Len(lines), Written + 1) = <<d % c, f + d \div c>>
  <2>1. (Written + 1) - 1 = d
    BY <1>1 DEF LastLine
  <2> QED
    BY <1>1, <2>1 DEF CellOf, LastLine
<1>4. PICK q \in Nat : q = d \div c /\ q <= p
  <2>1. d < n /\ n >= 1
    BY <1>2
  <2>2. PICK m \in Nat : m = n - 1 /\ d <= m
    BY <2>1
  <2>3. d \div c <= m \div c
    BY <2>2, RowsGrow
  <2>4. PICK q \in Nat : q = d \div c
    OBVIOUS
  <2>5. m \div c = p
    BY <1>2, <2>2
  <2> QED
    BY <2>3, <2>4, <2>5
<1>5. PICK row \in Nat : row = f + q /\ row * 16 < h /\ row < 40000
  <2>1. (f + p) * 16 < h /\ f + p < 40000
    BY <1>1 DEF LastLine
  <2> QED
    BY <1>4, <2>1
<1>6. ASSUME NEW a \in Nat, a < c, y = row, x = a PROVE Cell = <<a, row>>
  <2>1. PICK z : z = mode.height \div 16 - 1
    OBVIOUS
  <2>2. PICK w \in Nat : w = mode.width /\ w <= 8 * c /\ 8 * c < w + 8
    <3>1. mode.width \in Nat /\ mode.width <= 8 * c /\ 8 * c < mode.width + 8
      BY <1>1 DEF LastLine
    <3> QED
      BY <3>1
  <2>3. Cell = CellFrom(w, h, z)
    BY <1>1, <2>1, <2>2 DEF Cell, LastLine
  <2>4. ~(a * 8 >= w) /\ ~(row * 16 >= h)
    BY <1>5, <1>6, <2>2
  <2> QED
    BY <1>6, <2>3, <2>4 DEF CellFrom
<1>7. CASE d = 0
  <2>1. x = 0 /\ y = f
    BY <1>1, <1>7 DEF ShownInv, AtCursor, LastLine
  <2>2. 0 % c = 0 /\ 0 \div c = 0
    <3>1. 0 = 0 * c + 0
      BY <1>1 DEF LastLine
    <3> QED
      BY <3>1, Division
  <2>3. q = 0 /\ row = y
    BY <1>4, <1>5, <1>7, <2>1, <2>2
  <2>4. Cell = <<x, y>>
    BY <1>6, <2>1, <2>3
  <2> QED
    BY <1>3, <1>4, <1>5, <1>7, <2>1, <2>2, <2>3, <2>4
<1>8. CASE d # 0
  <2>1. PICK e \in Nat : e + 1 = d /\ e = d - 1
    BY <1>8
  <2>2. PICK a \in Nat, b \in Nat : /\ a = e % c /\ b = e \div c /\ a < c
                                    /\ a + 1 < c => q = b /\ d % c = a + 1
                                    /\ a + 1 = c => q = b + 1 /\ d % c = 0
    <3>1. /\ e \div c \in Nat /\ e % c \in Nat /\ e % c < c
          /\ (e % c) + 1 < c => (e + 1) \div c = e \div c /\ (e + 1) % c = (e % c) + 1
          /\ (e % c) + 1 = c => (e + 1) \div c = e \div c + 1 /\ (e + 1) % c = 0
      BY NextColumn
    <3>2. PICK a \in Nat, b \in Nat : a = e % c /\ b = e \div c
      BY <3>1
    <3>3. d \div c = (e + 1) \div c /\ d % c = (e + 1) % c
      BY <2>1
    <3>4. a < c
      BY <3>1, <3>2
    <3>5. a + 1 < c => q = b /\ d % c = a + 1
      BY <1>4, <3>1, <3>2, <3>3
    <3>6. a + 1 = c => q = b + 1 /\ d % c = 0
      BY <1>4, <3>1, <3>2, <3>3
    <3> QED
      BY <3>2, <3>4, <3>5, <3>6
  <2>3. x = a + 1 /\ y = f + b
    <3>1. d \in 1 .. n
      BY <1>2, <1>8
    <3> QED
      BY <1>1, <2>1, <2>2, <3>1 DEF ShownInv, AtCursor, LastLine
  <2>4. CASE a + 1 < c
    <3>1. y = row /\ q = b /\ d % c = a + 1
      BY <1>5, <2>2, <2>3, <2>4
    <3>2. Cell = <<x, y>>
      BY <1>6, <2>3, <2>4, <3>1
    <3> QED
      BY <1>3, <1>4, <2>3, <3>1, <3>2
  <2>5. CASE a + 1 = c
    <3>1. y + 1 = row /\ x = c /\ q = b + 1 /\ d % c = 0
      BY <1>5, <2>2, <2>3, <2>5
    <3>2. Width16(row) = row
      <4>1. 2^16 = 65536 /\ row % 65536 = row
        BY <1>5
      <4> QED
        BY <4>1 DEF Width16
    <3>3. row = f + q
      BY <1>5
    <3>4. Cell = <<0, row>>
      <4>1. PICK z : z = mode.height \div 16 - 1
        OBVIOUS
      <4>2. PICK w \in Nat : w = mode.width /\ w <= 8 * c /\ 8 * c < w + 8
        <5>1. mode.width \in Nat /\ mode.width <= 8 * c /\ 8 * c < mode.width + 8
          BY <1>1 DEF LastLine
        <5> QED
          BY <5>1
      <4>3. Cell = CellFrom(w, h, z)
        BY <1>1, <4>1, <4>2 DEF Cell, LastLine
      <4>4. c * 8 >= w /\ ~(row * 16 >= h)
        BY <1>5, <4>2
      <4> QED
        BY <3>1, <3>2, <4>3, <4>4 DEF CellFrom
    <3> QED
      BY <1>2, <1>3, <1>4, <3>1, <3>3, <3>4
  <2> QED
    BY <2>2, <2>4, <2>5
<1> QED
  BY <1>7, <1>8

\* What is past once a character has been written.
LEMMA GoneNext ==
  ASSUME ConsoleInv, WriteNext
  PROVE  \A k, j \in Nat :
           Gone(k, j)' <=> \/ Gone(k, j)
                           \/ /\ k = Len(lines) /\ j = Written + 1
                              /\ Written < Len(LastText)
<1>1. /\ lines # << >> /\ lines' = lines /\ LastText' = LastText
      /\ Written' = Written + 1
  BY WritesTodo DEF ConsoleInv
<1>2. PICK n \in Nat, d \in Nat, m \in Nat :
        n = Len(LastText) /\ d = Written /\ m = Len(lines) /\ m \in 1 .. m
  <2>1. PICK S : lines \in Seq(S)
    BY DEF ConsoleInv, TextInv, LinesInv
  <2>2. Len(lines) \in Nat \ {0}
    BY <1>1, <2>1, EmptySeq
  <2> QED
    BY <1>1, <2>2, Rest DEF ConsoleInv
<1>3. Len(lines[m].text) = n
  BY <1>2 DEF LastText
<1>4. SUFFICES ASSUME NEW k \in Nat, NEW j \in Nat
               PROVE  Gone(k, j)' <=> Gone(k, j) \/ (k = m /\ j = d + 1 /\ d < n)
  BY <1>2
<1>5. Gone(k, j)' <=> /\ k \in 1 .. m /\ j \in 1 .. Len(lines[k].text)
                      /\ k = m => j <= d + 1
  BY <1>1, <1>2 DEF Gone
<1>6. Gone(k, j) <=> /\ k \in 1 .. m /\ j \in 1 .. Len(lines[k].text)
                     /\ k = m => j <= d
  BY <1>2 DEF Gone
<1>7. CASE k = m
  <2>1. j \in 1 .. n /\ j <= d + 1 <=> (j \in 1 .. n /\ j <= d) \/ (j = d + 1 /\ d < n)
    OBVIOUS
  <2> QED
    BY <1>2, <1>3, <1>5, <1>6, <1>7, <2>1
<1>8. CASE k # m
  BY <1>5, <1>6, <1>8
<1> QED
  BY <1>7, <1>8

\* What stays when a character is written.
LEMMA WriteKeeps ==
  ASSUME WriteNext
  PROVE  /\ machine' = machine /\ lines' = lines
         /\ \A k : FirstRow(k)' = FirstRow(k)
         /\ \A k, j : CellOf(k, j)' = CellOf(k, j)
         /\ AllFit' <=> AllFit
<1>1. machine' = machine /\ lines' = lines
  BY DEF WriteNext
<1>2. \A k : FirstRow(k)' = FirstRow(k)
  BY <1>1, Places, SameMode
<1>3. \A k, j : CellOf(k, j)' = CellOf(k, j)
  BY <1>1, Places, SameMode
<1> QED
  BY <1>1, <1>2, <1>3, SameMode DEF AllFit

\* The end of the line moves the cursor past all that is drawn.
LEMMA ShownEnds ==
  ASSUME ConsoleInv, ShownInv, WriteNext, screen' = screen,
         \/ Len(todo) = 2 /\ x' = 0 /\ y' = y
         \/ Len(todo) = 1 /\ x' = x /\ y' = y + 1
  PROVE  ShownInv'
<1>1. SUFFICES ASSUME AllFit PROVE ShownInv'
  BY WriteKeeps DEF ShownInv
<1>2. /\ lines # << >> /\ LastText' = LastText /\ Written' = Written + 1
      /\ Len(todo) = Len(LastText) + 2 - Written /\ Len(todo') = Len(todo) - 1
  BY WritesTodo DEF ConsoleInv
<1>3. PICK c \in Nat \ {0}, h \in Nat, f \in Nat, n \in Nat, d \in Nat, p \in Nat :
        LastLine(c, h, f, n, d, p)
  BY <1>1, <1>2, LastRows
<1>4. /\ n = Len(LastText) /\ n >= 1 /\ d = Written /\ f = FirstRow(Len(lines))
      /\ p = (n - 1) \div c /\ c = Columns /\ FirstRow(Len(lines) + 1) = f + p + 1
  BY <1>3 DEF LastLine
<1>5. PICK t \in Nat : t = Len(todo) /\ t \in {1, 2} /\ d + t = n + 2 /\ Len(todo') = t - 1
  <2>1. Len(todo) = 2 \/ Len(todo) = 1
    OBVIOUS
  <2> QED
    BY <1>2, <1>4, <2>1
<1>6. x \in Nat /\ y \in Nat /\ \A cell \in DOMAIN screen : cell[1] \in Nat /\ cell[2] \in Nat
  BY ScreenType
<1>7. \A k, j \in Nat : Gone(k, j)' <=> Gone(k, j)
  <2>1. ~(d < n)
    <3>1. CASE t = 2
      BY <1>5, <3>1
    <3>2. CASE t = 1
      BY <1>5, <3>2
    <3> QED
      BY <1>5, <3>1, <3>2
  <2>2. ~(Written < Len(LastText))
    BY <1>4, <2>1
  <2> QED
    BY <2>2, GoneNext
<1>8. AtCursor
  BY <1>1 DEF ShownInv
<1>9. lines' = lines /\ \A k : FirstRow(k)' = FirstRow(k)
  BY WriteKeeps
<1>10. PICK m : m = Len(lines) /\ m = Len(lines')
  BY <1>9
<1>11. ASSUME AtCursor', \A cell \in DOMAIN screen : Passed(cell) => Passed(cell)'
       PROVE  ShownInv'
  <2>1. \A cell \in DOMAIN screen' :
          Passed(cell)' /\ \E k, j \in Nat : Gone(k, j)' /\ cell = CellOf(k, j)'
    <3>1. ASSUME NEW cell \in DOMAIN screen'
          PROVE  Passed(cell)' /\ \E k, j \in Nat : Gone(k, j)' /\ cell = CellOf(k, j)'
      <4>1. cell \in DOMAIN screen
        BY <3>1
      <4>2. PICK k \in Nat, j \in Nat : Gone(k, j) /\ cell = CellOf(k, j)
        BY <1>1, <4>1 DEF ShownInv
      <4>3. Gone(k, j)' /\ cell = CellOf(k, j)'
        BY <1>7, <4>2, WriteKeeps
      <4>4. Passed(cell)'
        BY <1>1, <1>11, <4>1 DEF ShownInv
      <4> QED
        BY <4>3, <4>4
    <3> QED
      BY <3>1
  <2>2. \A k, j \in Nat :
          Gone(k, j)' => /\ CellOf(k, j)' \in DOMAIN screen'
                         /\ screen'[CellOf(k, j)'] = font_bitmap(lines'[k].text[j])
    BY <1>1, <1>7, <1>9, WriteKeeps DEF ShownInv, font_bitmap
  <2> QED
    BY <1>11, <2>1, <2>2 DEF ShownInv, font_bitmap
<1>12. CASE Len(todo) = 2 /\ x' = 0 /\ y' = y
  <2>1. d = n /\ t = 2
    BY <1>5, <1>12
  <2>2. y = f + p
    <3>1. Written \in 1 .. Len(LastText)
      BY <1>4, <2>1
    <3>2. y = FirstRow(Len(lines)) + (Written - 1) \div Columns
      BY <1>2, <1>8, <3>1 DEF AtCursor
    <3> QED
      BY <1>4, <2>1, <3>2
  <2>3. AtCursor'
    <3>1. /\ Written' = Len(LastText') + 1 /\ Written' # 0 /\ Written' \notin 1 .. Len(LastText')
          /\ Written' # Len(LastText') + 2
      BY <1>2, <1>4, <2>1
    <3>2. x' = 0 /\ y' = FirstRow(Len(lines)) + (Len(LastText) - 1) \div c
      BY <1>4, <1>12, <2>2
    <3>3. FirstRow(Len(lines))' = FirstRow(Len(lines))
      BY <1>9, <1>10
    <3>4. Columns' = c
      BY <1>4, WriteKeeps, SameMode
    <3>5. x' = 0 /\ y' = FirstRow(Len(lines))' + (Len(LastText') - 1) \div Columns'
      BY <1>2, <3>2, <3>3, <3>4
    <3> QED
      BY <1>2, <1>9, <3>1, <3>5 DEF AtCursor
  <2>4. ASSUME NEW cell \in DOMAIN screen, Passed(cell) PROVE Passed(cell)'
    BY <1>5, <1>12, <2>1, <2>4 DEF Passed
  <2> QED
    BY <1>11, <2>3, <2>4
<1>13. CASE Len(todo) = 1 /\ x' = x /\ y' = y + 1
  <2>1. d = n + 1 /\ t = 1
    BY <1>5, <1>13
  <2>2. x = 0 /\ y = f + p
    <3>1. Written = Len(LastText) + 1
      BY <1>4, <2>1
    <3>2. x = 0 /\ y = FirstRow(Len(lines)) + (Len(LastText) - 1) \div Columns
      BY <1>2, <1>8, <3>1 DEF AtCursor
    <3> QED
      BY <1>4, <3>2
  <2>3. AtCursor'
    <3>1. /\ Written' = Len(LastText') + 2 /\ Written' # 0 /\ Written' \notin 1 .. Len(LastText')
          /\ Written' # Len(LastText') + 1
      BY <1>2, <1>4, <2>1
    <3>2. x' = 0 /\ y' = FirstRow(Len(lines) + 1)
      BY <1>4, <1>13, <2>2
    <3>3. x' = 0 /\ y' = FirstRow(Len(lines) + 1)'
      BY <1>9, <1>10, <3>2
    <3> QED
      BY <1>2, <1>9, <3>1, <3>3 DEF AtCursor
  <2>4. ASSUME NEW cell \in DOMAIN screen, Passed(cell) PROVE Passed(cell)'
    <3>1. cell[2] < y \/ cell[2] = y
      BY <2>4 DEF Passed
    <3>2. cell[2] < y'
      BY <1>6, <1>13, <3>1
    <3> QED
      BY <3>2 DEF Passed
  <2> QED
    BY <1>11, <2>3, <2>4
<1> QED
  BY <1>12, <1>13

\* A character of the text is drawn behind those before it, into a cell that shows nothing.
LEMMA ShownDraws ==
  ASSUME ConsoleInv, ShownInv, WriteNext, Written < Len(LastText), Len(todo) >= 3,
         NEW background, write_text(LastText[Written + 1], Cell, background),
         x' = Cell[1] + 1, y' = Cell[2]
  PROVE  ShownInv'
<1>1. SUFFICES ASSUME AllFit PROVE ShownInv'
  BY WriteKeeps DEF ShownInv
<1>2. /\ lines # << >> /\ lines' = lines /\ LastText' = LastText /\ Written' = Written + 1
      /\ Len(todo) = Len(LastText) + 2 - Written /\ Len(todo') = Len(todo) - 1
  BY WritesTodo DEF ConsoleInv
<1>3. PICK c \in Nat \ {0}, h \in Nat, f \in Nat, n \in Nat, d \in Nat, p \in Nat :
        LastLine(c, h, f, n, d, p)
  BY <1>1, <1>2, LastRows
<1>4. /\ n = Len(LastText) /\ d = Written /\ f = FirstRow(Len(lines)) /\ c = Columns /\ d < n
  BY <1>3 DEF LastLine
<1>5. PICK m \in Nat : m = Len(lines) /\ m = Len(lines')
  <2>1. PICK S : lines \in Seq(S)
    BY DEF ConsoleInv, TextInv, LinesInv
  <2> QED
    BY <1>2, <2>1
<1>6. PICK a \in Nat, b \in Nat : a = d % c /\ b = f + d \div c
  <2>1. d % c \in Nat /\ d \div c \in Nat
    BY NextColumn
  <2>2. PICK q \in Nat, e \in Nat : q = d \div c /\ e = f + q
    BY <2>1
  <2> QED
    BY <2>1, <2>2
<1>7. Cell = CellOf(m, d + 1) /\ Cell = <<a, b>>
  <2>1. Cell = CellOf(m, d + 1)
    BY <1>1, <1>2, <1>4, <1>5, NextPlace
  <2>2. (d + 1) - 1 = d
    OBVIOUS
  <2> QED
    BY <1>4, <1>5, <1>6, <2>1, <2>2 DEF CellOf
<1>8. x \in Nat /\ y \in Nat /\ \A cell \in DOMAIN screen : cell[1] \in Nat /\ cell[2] \in Nat
  BY ScreenType
<1>9. (a = x /\ b = y) \/ (a = 0 /\ b = y + 1)
  BY <1>1, <1>2, <1>7, NextPlace
<1>10. Len(todo) # 1 /\ Len(todo') # 1
  <2>1. PICK t \in Nat : t = Len(todo)
    BY <1>2, Rest DEF ConsoleInv
  <2> QED
    BY <1>2, <2>1
<1>11. \A cell \in DOMAIN screen : cell[2] < y \/ (cell[2] = y /\ cell[1] < x)
  BY <1>1, <1>10 DEF ShownInv, Passed
<1>12. <<a, b>> \notin DOMAIN screen
  BY <1>8, <1>9, <1>11
<1>13. x' = a + 1 /\ y' = b
  BY <1>7
<1>14. /\ DOMAIN screen' = DOMAIN screen \cup {<<a, b>>}
       /\ screen'[<<a, b>>] = font_bitmap(LastText[d + 1])
       /\ \A cell \in DOMAIN screen : screen'[cell] = screen[cell]
  BY <1>4, <1>7, <1>12 DEF write_text
<1>15. \A k, j \in Nat : /\ Gone(k, j)' <=> Gone(k, j) \/ (k = m /\ j = d + 1)
                         /\ CellOf(k, j)' = CellOf(k, j)
  BY <1>4, <1>5, GoneNext, WriteKeeps
<1>16. ASSUME NEW cell \in DOMAIN screen'
       PROVE  Passed(cell)' /\ \E k, j \in Nat : Gone(k, j)' /\ cell = CellOf(k, j)'
  <2>1. CASE cell = <<a, b>>
    <3>1. Passed(cell)'
      BY <1>6, <1>13, <2>1 DEF Passed
    <3>2. Gone(m, d + 1)' /\ cell = CellOf(m, d + 1)' /\ m \in Nat /\ d + 1 \in Nat
      BY <1>7, <1>15, <2>1
    <3> QED
      BY <3>1, <3>2
  <2>2. CASE cell \in DOMAIN screen
    <3>1. PICK k \in Nat, j \in Nat : Gone(k, j) /\ cell = CellOf(k, j)
      BY <1>1, <2>2 DEF ShownInv
    <3>2. Gone(k, j)' /\ cell = CellOf(k, j)'
      BY <1>15, <3>1
    <3>3. cell[1] \in Nat /\ cell[2] \in Nat /\ (cell[2] < y \/ (cell[2] = y /\ cell[1] < x))
      BY <1>8, <1>11, <2>2
    <3>4. cell[2] < b \/ (cell[2] = b /\ cell[1] < a + 1)
      BY <1>8, <1>9, <3>3
    <3>5. Passed(cell)'
      BY <1>13, <3>4 DEF Passed
    <3> QED
      BY <3>2, <3>5
  <2> QED
    BY <1>14, <2>1, <2>2
<1>17. ASSUME NEW k \in Nat, NEW j \in Nat, Gone(k, j)'
       PROVE  /\ CellOf(k, j)' \in DOMAIN screen'
              /\ screen'[CellOf(k, j)'] = font_bitmap(lines'[k].text[j])
  <2>1. CASE Gone(k, j)
    <3>1. CellOf(k, j) \in DOMAIN screen /\ screen[CellOf(k, j)] = font_bitmap(lines[k].text[j])
      BY <1>1, <2>1 DEF ShownInv
    <3> QED
      BY <1>2, <1>14, <1>15, <3>1
  <2>2. CASE k = m /\ j = d + 1
    <3>1. CellOf(k, j)' = <<a, b>>
      BY <1>7, <1>15, <2>2
    <3>2. lines'[k].text[j] = LastText[d + 1]
      BY <1>2, <1>5, <2>2 DEF LastText
    <3> QED
      BY <1>14, <3>1, <3>2
  <2> QED
    BY <1>15, <1>17, <2>1, <2>2
<1>18. AtCursor'
  <2>1. /\ Written' \in 1 .. Len(LastText') /\ Written' # 0 /\ Written' # Len(LastText') + 1
        /\ Written' # Len(LastText') + 2 /\ Written' - 1 = d
    BY <1>2, <1>4
  <2>2. FirstRow(Len(lines))' = f
    BY <1>4, <1>5, WriteKeeps
  <2>3. Columns' = c
    BY <1>4, WriteKeeps, SameMode
  <2>4. /\ x' = ((Written' - 1) % Columns') + 1
        /\ y' = FirstRow(Len(lines))' + (Written' - 1) \div Columns'
    BY <1>6, <1>13, <2>1, <2>2, <2>3
  <2> QED
    BY <1>2, <2>1, <2>4 DEF AtCursor
<1> QED
  BY <1>16, <1>17, <1>18 DEF ShownInv

LEMMA ShownNext == ConsoleInv /\ ShownInv /\ [Next]_vars => ShownInv'
<1> SUFFICES ASSUME ConsoleInv, ShownInv, [Next]_vars PROVE ShownInv'
  OBVIOUS
<1>1. Step /\ ConsoleInv'
  BY ConsoleNext
<1>2. CASE UNCHANGED <<machine, x, y, screen, todo, lines>>
  BY <1>2, ShownSame
<1>3. CASE screen' = << >> /\ UNCHANGED <<machine, x, y, todo, lines>> /\ Early
  <2>1. screen = << >>
    BY <1>3 DEF ConsoleInv, TextInv, BlankInv
  <2> QED
    BY <1>3, <2>1, ShownSame
<1>4. CASE WriteNext
  <2>1. ASSUME NEW n \in Nat, NEW d \in Nat, n = Len(LastText), d = Written, d + 1 \in 1 .. n
        PROVE  Written < Len(LastText)
    BY <2>1
  <2>2. PICK n \in Nat, d \in Nat : n = Len(LastText) /\ d = Written
    BY <1>4, WritesTodo, Rest DEF ConsoleInv
  <2> QED
    BY <1>4, <2>1, <2>2, WriteCases, ShownDraws, ShownEnds
<1>5. CASE /\ \E l, background : Begins(l, background)
           /\ UNCHANGED <<x, y>> \/ (Early /\ x' = 0 /\ y' = 0)
  BY <1>5, ShownBegins
<1> QED
  BY <1>1, <1>2, <1>3, <1>4, <1>5 DEF Step

\* As long as everything written fits, the screen shows each line from the start of a
\* row, below the one before it, and nothing else, whatever the lines are and however
\* often they wrap: write starts a row at the right edge only for a further character,
\* so that a line as wide as the screen has no empty row behind it.
THEOREM ShowsLines == Spec => []ShowsTranscript
<1>1. Init => ConsoleInv /\ ShownInv
  <2> SUFFICES ASSUME Init PROVE ConsoleInv /\ ShownInv
    OBVIOUS
  <2>1. ConsoleInv
    BY ConsoleInit
  <2>2. lines = << >> /\ screen = << >> /\ x = 0 /\ y = 0
    BY DEF Init
  <2> QED
    BY <2>1, <2>2, ShownEarly
<1>2. ConsoleInv /\ ShownInv /\ [Next]_vars => (ConsoleInv /\ ShownInv)'
  BY ConsoleNext, ShownNext
<1>3. ConsoleInv /\ ShownInv => ShowsTranscript
  <2> SUFFICES ASSUME ConsoleInv, ShownInv, todo = << >>, FirstRow(Len(lines) + 1) <= WholeRows
               PROVE  /\ DOMAIN screen = {CellOf(p[1], p[2]) : p \in Placed}
                      /\ \A p \in Placed :
                           screen[CellOf(p[1], p[2])] = font_bitmap(lines[p[1]].text[p[2]])
    BY DEF ShowsTranscript
  <2>1. AllFit
    BY DEF AllFit
  <2>2. /\ DOMAIN lines = 1 .. Len(lines)
        /\ \A k \in 1 .. Len(lines) : DOMAIN lines[k].text = 1 .. Len(lines[k].text)
    <3>1. PICK S : lines \in Seq(S)
      BY DEF ConsoleInv, TextInv, LinesInv
    <3>2. \A k \in 1 .. Len(lines) : lines[k].text \in Seq(Printable)
      BY DEF ConsoleInv, TextInv, LinesInv
    <3> QED
      BY <3>1, <3>2
  <2>3. \A k \in 1 .. Len(lines) : k = Len(lines) => \A j \in 1 .. Len(lines[k].text) : j <= Written
    <3>1. SUFFICES ASSUME NEW j \in 1 .. Len(LastText), Len(lines) \in 1 .. Len(lines)
                   PROVE  j <= Written
      BY DEF LastText
    <3>2. lines # << >> /\ Len(todo) = 0
      BY <3>1
    <3>3. PICK n \in Nat : n = Len(LastText)
      BY <3>2, Rest DEF ConsoleInv
    <3>4. Written = n + 2
      BY <3>2, <3>3 DEF Written
    <3> QED
      BY <3>1, <3>3, <3>4
  <2>4. \A k, j : Gone(k, j) <=> k \in DOMAIN lines /\ j \in DOMAIN lines[k].text
    BY <2>2, <2>3 DEF Gone
  <2>5. \A k, j : Gone(k, j) => k \in Nat /\ j \in Nat
    BY DEF Gone
  <2>6. \A p \in Placed : Gone(p[1], p[2])
    BY <2>4 DEF Placed
  <2>7. \A k, j : Gone(k, j) => <<k, j>> \in Placed
    BY <2>4 DEF Placed
  <2>8. ASSUME NEW p \in Placed
        PROVE  /\ CellOf(p[1], p[2]) \in DOMAIN screen
               /\ screen[CellOf(p[1], p[2])] = font_bitmap(lines[p[1]].text[p[2]])
    BY <2>1, <2>5, <2>6 DEF ShownInv
  <2>9. ASSUME NEW cell \in DOMAIN screen PROVE \E p \in Placed : cell = CellOf(p[1], p[2])
    <3>1. PICK k \in Nat, j \in Nat : Gone(k, j) /\ cell = CellOf(k, j)
      BY <2>1 DEF ShownInv
    <3>2. PICK p : p = <<k, j>>
      OBVIOUS
    <3> QED
      BY <2>7, <3>1, <3>2
  <2> QED
    BY <2>8, <2>9
<1> QED
  BY <1>1, <1>2, <1>3, PTL DEF Spec
==============================================================================
