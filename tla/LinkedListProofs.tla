--------------------------- MODULE LinkedListProofs --------------------------
(***************************************************************************)
(* LinkedList implements List, for any number of blocks and any data.      *)
(*                                                                         *)
(* The inductive invariant ListInv: the links of the list's blocks lead    *)
(* from the head through every block once (Holds), and each block carries  *)
(* the number of its place (Numbered), which is what find looks for.  Each *)
(* call gives a new arrangement of the blocks, a sequence c; Arranged says *)
(* that c is then what a loop over the links visits, so that the proofs    *)
(* need the recursive definition of Chain only in the first section.  The  *)
(* spare block of insert_before and insert_after takes part in neither: it *)
(* becomes a node (Linked) or is free again when the call ends             *)
(* (SpareFreed).  Strays says what a call does to memory it does not have. *)
(***************************************************************************)
EXTENDS LinkedList, SparkMathProofs, FiniteSetTheorems, SequenceTheorems

Ends == Nodes \cup {NULL}

\* Blocks, each with a link to a block or to none.
Links(m) == DOMAIN m \subseteq Nodes /\ m \in [DOMAIN m -> Link]

\* The link behind place p of c.
After(c, p) == IF p = Len(c) THEN NULL ELSE c[p + 1]

\* The links of m lead from head along c, through every block once.
Holds(m, head, c) ==
  /\ Links(m)
  /\ c \in Seq(DOMAIN m)
  /\ head = IF Len(c) = 0 THEN NULL ELSE c[1]
  /\ \A p \in 1 .. Len(c) : m[c[p]].next = After(c, p)
  /\ \A p, q \in 1 .. Len(c) : c[p] = c[q] => p = q
  /\ \A n \in DOMAIN m : \E p \in 1 .. Len(c) : c[p] = n

Numbered(m, c) == \A p \in 1 .. Len(c) : m[c[p]].index = p - 1

\* The data along c.
Data(m, c) == [p \in 1 .. Len(c) |-> m[c[p]].data]

ListInv == result \in BOOLEAN /\ Holds(mem, list, chain) /\ Numbered(mem, chain)

Strays ==
  /\ stray \subseteq Nodes \ DOMAIN mem
  /\ stray # {} => call[1] = "insert_after" /\ result = FALSE

\* The same for a loop that need not come by every block.
Along(m, head, c) ==
  /\ DOMAIN m \subseteq Nodes
  /\ \A n \in DOMAIN m : m[n].next \in Ends
  /\ c \in Seq(DOMAIN m)
  /\ head = IF Len(c) = 0 THEN NULL ELSE c[1]
  /\ \A p \in 1 .. Len(c) : m[c[p]].next = After(c, p)
  /\ \A p, q \in 1 .. Len(c) : c[p] = c[q] => p = q

LEMMA HoldsAlong ==
  ASSUME NEW m, NEW head, NEW c, Holds(m, head, c)
  PROVE  Along(m, head, c)
<1>1. ASSUME NEW n \in DOMAIN m PROVE m[n].next \in Ends
  <2>1. m[n] \in Link
    BY DEF Holds, Links
  <2> QED
    BY <2>1 DEF Link, Ends
<1> QED
  BY <1>1 DEF Holds, Links, Along

------------------------------------------------------------------------------
(* The loop over the links.                                                 *)

\* A step of the loop: what from is for k nodes and the node n.
Loop(m, from, k, n) ==
  IF n = NULL \/ k = 0 THEN << >>
  ELSE IF n \notin DOMAIN m THEN <<n>>
  ELSE <<n>> \o from[k - 1][m[n].next]

IsLoop(m, from, size) == from = [k \in 0 .. size |-> [n \in Ends |-> Loop(m, from, k, n)]]

LEMMA LoopExists ==
  ASSUME NEW m, \A n \in DOMAIN m : m[n].next \in Ends, NEW size \in Nat
  PROVE  \E from : IsLoop(m, from, size)
<1> DEFINE Bad == {k \in Nat : ~ \E from : IsLoop(m, from, k)}
<1>1. SUFFICES ASSUME size \in Bad PROVE FALSE
  OBVIOUS
<1>2. PICK b \in Bad : \A k \in Bad : b <= k
  BY <1>1, NatMinimum
<1>3. ASSUME b = 0 PROVE FALSE
  <2> DEFINE g == [k \in 0 .. 0 |-> [n \in Ends |-> << >>]]
  <2>1. \A k \in 0 .. 0, n \in Ends : Loop(m, g, k, n) = << >>
    BY DEF Loop
  <2>2. IsLoop(m, g, 0)
    BY <2>1 DEF IsLoop
  <2> QED
    BY <1>2, <1>3, <2>2
<1>4. ASSUME b # 0 PROVE FALSE
  <2>1. b - 1 \in Nat /\ b - 1 \notin Bad
    BY <1>2, <1>4
  <2>2. PICK f : IsLoop(m, f, b - 1)
    BY <2>1
  <2> DEFINE g == [k \in 0 .. b |-> [n \in Ends |-> Loop(m, f, k, n)]]
  <2>3. \A k \in 0 .. b - 1, n \in Ends : g[k][n] = f[k][n]
    <3>1. \A k \in 0 .. b - 1, n \in Ends : f[k][n] = Loop(m, f, k, n)
      BY <2>2 DEF IsLoop
    <3>2. \A k \in 0 .. b - 1, n \in Ends : k \in 0 .. b /\ g[k][n] = Loop(m, f, k, n)
      BY <2>1
    <3> QED
      BY <3>1, <3>2
  <2>4. ASSUME NEW k \in 0 .. b, NEW n \in Ends PROVE Loop(m, g, k, n) = Loop(m, f, k, n)
    <3>1. CASE n \in DOMAIN m /\ k # 0
      <4>1. m[n].next \in Ends /\ k - 1 \in 0 .. b - 1
        BY <3>1
      <4>2. g[k - 1][m[n].next] = f[k - 1][m[n].next]
        BY <4>1, <2>3
      <4> HIDE DEF g
      <4> QED
        BY <4>2 DEF Loop
    <3>2. CASE n \notin DOMAIN m \/ k = 0
      BY <3>2 DEF Loop
    <3> QED
      BY <3>1, <3>2
  <2>5. IsLoop(m, g, b)
    BY <2>4 DEF IsLoop
  <2> QED
    BY <1>2, <2>5
<1> QED
  BY <1>3, <1>4

LEMMA LoopSteps ==
  ASSUME NEW m, NEW from, NEW size, IsLoop(m, from, size)
  PROVE  \A k \in 0 .. size, n \in Ends : from[k][n] = Loop(m, from, k, n)
<1>1. PICK F : F = [k \in 0 .. size |-> [n \in Ends |-> Loop(m, from, k, n)]]
  OBVIOUS
<1>2. \A k \in 0 .. size, n \in Ends : F[k][n] = Loop(m, from, k, n)
  BY <1>1
<1>3. from = F
  BY <1>1 DEF IsLoop
<1> QED
  BY <1>2, <1>3

LEMMA NodeCount == Cardinality(Nodes) \in Nat
  BY LinkedListAssumption, FS_CardinalityType

LEMMA ChainIsLoop ==
  ASSUME NEW m, \A n \in DOMAIN m : m[n].next \in Ends, NEW head
  PROVE  \E from : IsLoop(m, from, Cardinality(Nodes)) /\ Chain(m, head) = from[Cardinality(Nodes)][head]
<1> DEFINE from == CHOOSE f : IsLoop(m, f, Cardinality(Nodes))
<1>1. IsLoop(m, from, Cardinality(Nodes))
  BY NodeCount, LoopExists
<1>2. Chain(m, head) = from[Cardinality(Nodes)][head]
  BY DEF Chain, IsLoop, Loop, Ends
<1> QED
  BY <1>1, <1>2

LEMMA NoMoreThanNodes ==
  ASSUME NEW m, NEW head, NEW c, Along(m, head, c)
  PROVE  Len(c) \in Nat /\ Len(c) <= Cardinality(Nodes)
<1>1. Len(c) \in Nat /\ c \in [1 .. Len(c) -> Nodes]
  <2>1. c \in Seq(Nodes)
    BY SeqMonotonic DEF Along
  <2> QED
    BY <2>1, LenProperties
<1>2. c \in Injection(1 .. Len(c), Nodes)
  BY <1>1 DEF Along, Injection, IsInjective
<1>3. Cardinality(1 .. Len(c)) = Len(c)
  BY <1>1, FS_Interval
<1> QED
  BY <1>1, <1>2, <1>3, FS_Injection, LinkedListAssumption

\* The loop visits the blocks in their order.
LEMMA Visited ==
  ASSUME NEW m, NEW head, NEW c, Along(m, head, c)
  PROVE  Chain(m, head) = c
<1> DEFINE C == Cardinality(Nodes)
           L == Len(c)
           at(j) == IF j = 0 THEN NULL ELSE c[L - j + 1]
<1>1. C \in Nat /\ L \in Nat /\ L <= C
  BY NodeCount, NoMoreThanNodes
<1>2. PICK from : IsLoop(m, from, C) /\ Chain(m, head) = from[C][head]
  BY ChainIsLoop DEF Along
<1>3. \A k \in 0 .. C, n \in Ends : from[k][n] = Loop(m, from, k, n)
  BY <1>2, LoopSteps
<1> DEFINE Bad == {j \in 0 .. L : \E k \in j .. C : from[k][at(j)] # SubSeq(c, L - j + 1, L)}
<1>4. ASSUME Bad # {} PROVE FALSE
  <2>1. PICK b \in Bad : \A j \in Bad : b <= j
    <3>1. Bad \subseteq Nat
      BY <1>1
    <3> HIDE DEF Bad
    <3> QED
      BY <1>4, <3>1, NatMinimum
  <2>2. PICK k \in b .. C : from[k][at(b)] # SubSeq(c, L - b + 1, L)
    BY <2>1
  <2>3. b \in 0 .. L /\ k \in 0 .. C
    BY <2>1, <2>2, <1>1
  <2>4. CASE b = 0
    <3>1. from[k][NULL] = << >>
      BY <1>3, <2>3 DEF Loop, Ends
    <3>2. SubSeq(c, L + 1, L) = << >>
      BY <1>1, SubSeqEmpty
    <3>3. L - 0 + 1 = L + 1
      BY <1>1
    <3> QED
      BY <2>2, <2>4, <3>1, <3>2, <3>3
  <2>5. CASE b # 0
    <3>1. PICK p \in 1 .. L : p = L - b + 1
      BY <1>1, <2>3, <2>5
    <3>2. c[p] \in DOMAIN m /\ c[p] \in Ends /\ c[p] # NULL /\ m[c[p]].next = After(c, p)
      BY <3>1, ElementOfSeq, LinkedListAssumption DEF Along, Ends
    <3>3. from[k][c[p]] = <<c[p]>> \o from[k - 1][After(c, p)]
      <4>1. k # 0
        BY <2>3, <2>5, <2>2, <1>1
      <4>2. from[k][c[p]] = Loop(m, from, k, c[p])
        BY <1>3, <2>3, <3>2
      <4> QED
        BY <4>1, <4>2, <3>2 DEF Loop
    <3>4. After(c, p) = at(b - 1)
      BY <3>1, <1>1, <2>3, <2>5 DEF After
    <3>5. from[k - 1][at(b - 1)] = SubSeq(c, p + 1, L)
      <4>1. b - 1 \in 0 .. L /\ k - 1 \in b - 1 .. C
        BY <2>2, <2>3, <2>5, <1>1
      <4>4. b - 1 \notin Bad
        <5>1. b \in Int /\ ~(b <= b - 1)
          BY <2>3
        <5> QED
          BY <5>1, <2>1
      <4>2. from[k - 1][at(b - 1)] = SubSeq(c, L - (b - 1) + 1, L)
        BY <4>1, <4>4
      <4>3. L - (b - 1) + 1 = p + 1
        BY <3>1, <1>1, <2>3
      <4> QED
        BY <4>2, <4>3
    <3>6. SubSeq(c, p, L) = <<c[p]>> \o SubSeq(c, p + 1, L)
      <4>1. c \in Seq(DOMAIN m) /\ L \in p .. Len(c)
        BY <3>1, <1>1 DEF Along
      <4> QED
        BY <3>1, <4>1, SubSeqRecursiveFirst
    <3>7. at(b) = c[p]
      BY <3>1, <2>5
    <3> QED
      BY <2>2, <3>1, <3>3, <3>4, <3>5, <3>6, <3>7
  <2> QED
    BY <2>4, <2>5
<1>5. from[C][at(L)] = SubSeq(c, 1, L)
  <2>1. L \in 0 .. L /\ C \in L .. C /\ L - L + 1 = 1
    BY <1>1
  <2>2. L \notin Bad
    BY <1>4
  <2> QED
    BY <2>1, <2>2
<1>6. at(L) = head
  BY <1>1 DEF Along
<1>7. SubSeq(c, 1, L) = c
  BY SubSeqFull DEF Along
<1> QED
  BY <1>2, <1>5, <1>6, <1>7

LEMMA Arranged ==
  ASSUME NEW m, NEW head, NEW c, Holds(m, head, c)
  PROVE  Chain(m, head) = c
BY HoldsAlong, Visited

------------------------------------------------------------------------------
(* find and update.                                                         *)

LEMMA HoldsType ==
  ASSUME NEW m, NEW head, NEW c, Holds(m, head, c)
  PROVE  /\ Len(c) \in Nat
         /\ DOMAIN c = 1 .. Len(c)
         /\ \A p \in 1 .. Len(c) : c[p] \in DOMAIN m /\ c[p] \in Nodes /\ m[c[p]] \in Link
<1>1. c \in Seq(DOMAIN m) /\ Links(m)
  BY DEF Holds
<1> QED
  BY <1>1, LenProperties, ElementOfSeq DEF Links

LEMMA MinOfOne ==
  ASSUME NEW p \in Nat
  PROVE  Min({p}) = p
BY DEF Min

LEMMA Find ==
  ASSUME Holds(mem, list, chain), Numbered(mem, chain), NEW i \in Int
  PROVE  find(i) = IF i \in 0 .. Len(chain) - 1 THEN i + 1 ELSE 0
<1> DEFINE I == {p \in 1 .. Len(chain) : mem[chain[p]].index = i}
<1>1. Len(chain) \in Nat
  BY HoldsType
<1>2. I = {p \in 1 .. Len(chain) : p - 1 = i}
  BY DEF Numbered
<1>3. find(i) = IF I # {} THEN Min(I) ELSE 0
  BY DEF find, SelectInSeq
<1>4. CASE i \in 0 .. Len(chain) - 1
  <2>1. I = {i + 1} /\ i + 1 \in Nat
    BY <1>1, <1>2, <1>4
  <2> QED
    BY <1>3, <1>4, <2>1, MinOfOne
<1>5. CASE i \notin 0 .. Len(chain) - 1
  <2>1. I = {}
    BY <1>1, <1>2, <1>5
  <2> QED
    BY <1>3, <1>5, <2>1
<1> QED
  BY <1>4, <1>5

\* Where a node of c is.
PlaceOf(c, n) == SelectInSeq(c, LAMBDA k : k = n)

LEMMA Place ==
  ASSUME NEW m, NEW head, NEW c, Holds(m, head, c), NEW p \in 1 .. Len(c)
  PROVE  PlaceOf(c, c[p]) = p
<1> DEFINE I == {q \in 1 .. Len(c) : c[q] = c[p]}
<1>1. PlaceOf(c, c[p]) = IF I # {} THEN Min(I) ELSE 0
  BY DEF SelectInSeq, PlaceOf
<1>2. I = {p}
  BY DEF Holds
<1>3. p \in Nat
  BY HoldsType
<1> QED
  BY <1>1, <1>2, <1>3, MinOfOne

\* The blocks after update().
Renumbered(m, head) ==
  [n \in DOMAIN m |->
     IF PlaceOf(Chain(m, head), n) = 0 THEN m[n]
     ELSE [m[n] EXCEPT !.index = PlaceOf(Chain(m, head), n) - 1 + 0]]

LEMMA Update ==
  ASSUME NEW m, NEW head, NEW c, Holds(m, head, c)
  PROVE  /\ Holds(Renumbered(m, head), head, c)
         /\ Numbered(Renumbered(m, head), c)
         /\ Data(Renumbered(m, head), c) = Data(m, c)
<1> DEFINE u == Renumbered(m, head)
<1>1. Chain(m, head) = c
  BY Arranged
<1>2. DOMAIN u = DOMAIN m /\ u = [n \in DOMAIN m |-> u[n]]
  BY DEF Renumbered
<1>3. ASSUME NEW p \in 1 .. Len(c)
      PROVE  u[c[p]] = [m[c[p]] EXCEPT !.index = p - 1]
  <2>1. c[p] \in DOMAIN m /\ p \in Nat \ {0}
    BY HoldsType
  <2>2. u[c[p]] = IF PlaceOf(c, c[p]) = 0 THEN m[c[p]]
                       ELSE [m[c[p]] EXCEPT !.index = PlaceOf(c, c[p]) - 1 + 0]
    BY <1>1, <2>1 DEF Renumbered
  <2>3. p - 1 + 0 = p - 1
    BY <2>1
  <2> QED
    BY <2>1, <2>2, <2>3, Place
<1> HIDE DEF u
<1>4. ASSUME NEW p \in 1 .. Len(c)
      PROVE  /\ u[c[p]] \in Link /\ u[c[p]].next = m[c[p]].next
             /\ u[c[p]].index = p - 1 /\ u[c[p]].data = m[c[p]].data
  <2>1. p - 1 \in Nat /\ m[c[p]] \in Link
    BY HoldsType
  <2> QED
    BY <1>3, <2>1 DEF Link
<1>5. \A n \in DOMAIN m : \E p \in 1 .. Len(c) : c[p] = n
  BY DEF Holds
<1>6. Links(u)
  <2>1. \A n \in DOMAIN m : u[n] \in Link
    BY <1>4, <1>5
  <2>2. u \in [DOMAIN u -> Link]
    BY Zenon, <1>2, <2>1
  <2>3. DOMAIN m \subseteq Nodes
    BY Zenon DEF Holds, Links
  <2> QED
    BY Zenon, <1>2, <2>2, <2>3 DEF Links
<1>7. Holds(u, head, c)
  BY <1>2, <1>4, <1>6 DEF Holds
<1>8. Numbered(u, c) /\ Data(u, c) = Data(m, c)
  BY <1>4 DEF Numbered, Data
<1> QED
  BY <1>7, <1>8 DEF u

\* What a call leaves that ends with update(), and one that ends without.
Ended(r, m, head) == result' = r /\ mem' = m /\ list' = head
Updated(r, m, head) == Ended(r, Renumbered(m, head), head)

LEMMA Updates ==
  ASSUME NEW r \in BOOLEAN, NEW m, NEW head, NEW c, Holds(m, head, c), Updated(r, m, head)
  PROVE  ListInv' /\ chain' = c /\ Data(mem, chain)' = Data(m, c) /\ result' = r
<1>1. mem' = Renumbered(m, head) /\ list' = head /\ result' = r
  BY DEF Updated, Ended
<1>2. Holds(mem', list', c) /\ Numbered(mem', c) /\ Data(mem', c) = Data(m, c)
  BY <1>1, Update
<1>3. chain' = c
  BY <1>2, Arranged DEF chain
<1> QED
  BY <1>1, <1>2, <1>3 DEF ListInv

LEMMA EndedAs ==
  ASSUME NEW r \in BOOLEAN, NEW m, NEW head, NEW c, Holds(m, head, c), Numbered(m, c), Ended(r, m, head)
  PROVE  ListInv' /\ chain' = c /\ Data(mem, chain)' = Data(m, c) /\ result' = r
<1>1. mem' = m /\ list' = head /\ result' = r
  BY DEF Ended
<1>2. chain' = c
  BY <1>1, Arranged DEF chain
<1> QED
  BY <1>1, <1>2 DEF ListInv

------------------------------------------------------------------------------
(* Sequences with an element more or less.                                  *)

Inserted(s, p, e) ==
  [q \in 1 .. Len(s) + 1 |-> IF q < p THEN s[q] ELSE IF q = p THEN e ELSE s[q - 1]]

Removed(s, p) == [q \in 1 .. Len(s) - 1 |-> IF q < p THEN s[q] ELSE s[q + 1]]

\* ConcatProperties, with names for the lengths.
LEMMA Joined ==
  ASSUME NEW S, NEW s \in Seq(S), NEW t \in Seq(S), NEW m, NEW n, Len(s) = m, Len(t) = n
  PROVE  /\ s \o t \in Seq(S) /\ Len(s \o t) = m + n
         /\ \A q \in 1 .. m + n : (s \o t)[q] = IF q <= m THEN s[q] ELSE t[q - m]
  BY ConcatProperties

LEMMA InsertedSeq ==
  ASSUME NEW S, NEW s \in Seq(S), NEW e \in S, NEW p \in 1 .. Len(s) + 1
  PROVE  /\ Inserted(s, p, e) \in Seq(S) /\ Len(Inserted(s, p, e)) = Len(s) + 1
         /\ InsertAt(s, p, e) = Inserted(s, p, e)
         /\ p = 1 => Cons(e, s) = Inserted(s, p, e)
         /\ p = Len(s) + 1 => Append(s, e) = Inserted(s, p, e)
<1> DEFINE L == Len(s)
           d == Inserted(s, p, e)
<1>1. L \in Nat /\ p \in Nat /\ \A q \in 1 .. L : s[q] \in S
  BY LenProperties, ElementOfSeq
<1>2. d \in Seq(S) /\ Len(d) = L + 1
  <2>1. \A q \in 1 .. L + 1 : d[q] \in S
    BY <1>1 DEF Inserted
  <2>2. d \in [1 .. L + 1 -> S] /\ L + 1 \in Nat
    BY <1>1, <2>1 DEF Inserted
  <2> QED
    BY <2>2
<1>3. <<e>> \in Seq(S) /\ Len(<<e>>) = 1 /\ <<e>>[1] = e
  OBVIOUS
<1>4. InsertAt(s, p, e) = d
  <2> DEFINE front == SubSeq(s, 1, p - 1)
             back == SubSeq(s, p, L)
  <2>1. /\ front \in Seq(S) /\ Len(front) = p - 1
        /\ \A q \in 1 .. p - 1 : front[q] = s[q]
    <3>1. \A q \in 1 .. p - 1 : s[q] \in S
      BY <1>1
    <3>2. 1 \in Int /\ p - 1 \in Int /\ (p - 1) - 1 + 1 = p - 1
      BY <1>1
    <3>3. /\ front \in Seq(S) /\ Len(front) = IF 1 <= p - 1 THEN (p - 1) - 1 + 1 ELSE 0
          /\ \A q \in 1 .. (p - 1) - 1 + 1 : front[q] = s[1 + q - 1]
      BY <3>1, <3>2, SubSeqProperties
    <3>4. \A q \in 1 .. p - 1 : 1 + q - 1 = q
      BY <1>1
    <3> HIDE DEF front
    <3> QED
      BY <3>2, <3>3, <3>4, <1>1
  <2>2. /\ back \in Seq(S) /\ Len(back) = L - p + 1
        /\ \A q \in 1 .. L - p + 1 : back[q] = s[p + q - 1]
    <3>1. \A q \in p .. L : s[q] \in S
      BY <1>1
    <3>2. p \in Int /\ L \in Int
      BY <1>1
    <3>3. /\ back \in Seq(S) /\ Len(back) = IF p <= L THEN L - p + 1 ELSE 0
          /\ \A q \in 1 .. L - p + 1 : back[q] = s[p + q - 1]
      BY <3>1, <3>2, SubSeqProperties
    <3> HIDE DEF back
    <3> QED
      BY <3>3, <1>1
  <2>3. InsertAt(s, p, e) = front \o <<e>> \o back
    BY DEF InsertAt
  <2> HIDE DEF front, back
  <2>4. /\ front \o <<e>> \in Seq(S) /\ Len(front \o <<e>>) = p
        /\ \A q \in 1 .. p : (front \o <<e>>)[q] = IF q = p THEN e ELSE s[q]
    <3>1. p - 1 + 1 = p
      BY <1>1
    <3>2. /\ front \o <<e>> \in Seq(S) /\ Len(front \o <<e>>) = p
          /\ \A q \in 1 .. p : (front \o <<e>>)[q] = IF q <= p - 1 THEN front[q] ELSE <<e>>[q - (p - 1)]
      BY <2>1, <1>3, <3>1, ConcatProperties
    <3>3. \A q \in 1 .. p : IF q <= p - 1 THEN q \in 1 .. p - 1 /\ q # p ELSE q = p /\ q - (p - 1) = 1
      BY <1>1
    <3> QED
      BY <3>2, <3>3, <2>1, <1>3
  <2>5. PICK f \in Seq(S) : f = front \o <<e>>
    BY <2>4
  <2>6. /\ f \o back \in Seq(S) /\ Len(f \o back) = p + (L - p + 1)
        /\ \A q \in 1 .. p + (L - p + 1) : (f \o back)[q] = IF q <= p THEN f[q] ELSE back[q - p]
    <3>1. back \in Seq(S) /\ Len(f) = p /\ Len(back) = L - p + 1
      BY <2>2, <2>4, <2>5
    <3> QED
      BY SMTT(30), <3>1, Joined
  <2>7. p + (L - p + 1) = L + 1
    BY <1>1
  <2>8. ASSUME NEW q \in 1 .. L + 1 PROVE (f \o back)[q] = d[q]
    <3>1. CASE q <= p
      <4>1. (f \o back)[q] = IF q = p THEN e ELSE s[q]
        BY <3>1, <2>4, <2>5, <2>6, <2>7, <1>1
      <4> QED
        BY <3>1, <4>1, <1>1 DEF Inserted
    <3>2. CASE q > p
      <4>1. q - p \in 1 .. L - p + 1 /\ p + (q - p) - 1 = q - 1
        BY <3>2, <1>1
      <4>2. (f \o back)[q] = s[q - 1]
        BY <3>2, <4>1, <2>2, <2>6, <2>7, <1>1
      <4> QED
        BY <3>2, <4>2, <1>1 DEF Inserted
    <3>3. q <= p \/ q > p
      BY <1>1
    <3> QED
      BY <3>1, <3>2, <3>3
  <2> QED
    BY <1>2, <2>3, <2>5, <2>6, <2>7, <2>8, SeqEqual
<1>5. ASSUME p = 1 PROVE Cons(e, s) = d
  <2>1. /\ <<e>> \o s \in Seq(S) /\ Len(<<e>> \o s) = 1 + L
        /\ \A q \in 1 .. 1 + L : (<<e>> \o s)[q] = IF q <= 1 THEN <<e>>[q] ELSE s[q - 1]
    BY <1>3, ConcatProperties
  <2>2. \A q \in 1 .. 1 + L : (<<e>> \o s)[q] = d[q]
    BY <1>1, <1>3, <1>5, <2>1 DEF Inserted
  <2>3. 1 + L = L + 1
    BY <1>1
  <2> QED
    BY <1>2, <2>1, <2>2, <2>3, SeqEqual DEF Cons
<1>6. ASSUME p = L + 1 PROVE Append(s, e) = d
  <2>1. /\ Append(s, e) \in Seq(S) /\ Len(Append(s, e)) = L + 1
        /\ \A q \in 1 .. L : Append(s, e)[q] = s[q]
        /\ Append(s, e)[L + 1] = e
    BY AppendProperties
  <2>2. \A q \in 1 .. L + 1 : Append(s, e)[q] = d[q]
    BY <1>1, <1>6, <2>1 DEF Inserted
  <2> QED
    BY <1>2, <2>1, <2>2, SeqEqual
<1> QED
  BY <1>2, <1>4, <1>5, <1>6

LEMMA RemovedSeq ==
  ASSUME NEW S, NEW s \in Seq(S), NEW p \in 1 .. Len(s)
  PROVE  /\ Removed(s, p) \in Seq(S) /\ Len(Removed(s, p)) = Len(s) - 1
         /\ RemoveAt(s, p) = Removed(s, p)
         /\ p = 1 => Tail(s) = Removed(s, p)
         /\ p = Len(s) => Front(s) = Removed(s, p)
<1> DEFINE L == Len(s)
           d == Removed(s, p)
<1>1. L \in Nat /\ p \in Nat /\ L >= 1 /\ \A q \in 1 .. L : s[q] \in S
  BY LenProperties, ElementOfSeq
<1>2. d \in Seq(S) /\ Len(d) = L - 1
  <2>1. \A q \in 1 .. L - 1 : d[q] \in S
    BY <1>1 DEF Removed
  <2>2. d \in [1 .. L - 1 -> S] /\ L - 1 \in Nat
    BY <1>1, <2>1 DEF Removed
  <2> QED
    BY <2>2
<1> DEFINE front == SubSeq(s, 1, p - 1)
           back == SubSeq(s, p + 1, L)
<1>3. /\ front \in Seq(S) /\ Len(front) = p - 1
      /\ \A q \in 1 .. p - 1 : front[q] = s[q]
  <2>1. \A q \in 1 .. p - 1 : s[q] \in S
    BY <1>1
  <2>2. 1 \in Int /\ p - 1 \in Int /\ (p - 1) - 1 + 1 = p - 1
    BY <1>1
  <2>3. /\ front \in Seq(S) /\ Len(front) = IF 1 <= p - 1 THEN (p - 1) - 1 + 1 ELSE 0
        /\ \A q \in 1 .. (p - 1) - 1 + 1 : front[q] = s[1 + q - 1]
    BY <2>1, <2>2, SubSeqProperties
  <2>4. \A q \in 1 .. p - 1 : 1 + q - 1 = q
    BY <1>1
  <2> HIDE DEF front
  <2> QED
    BY <2>2, <2>3, <2>4, <1>1
<1>4. /\ back \in Seq(S) /\ Len(back) = L - p
      /\ \A q \in 1 .. L - p : back[q] = s[p + q]
  <2>1. \A q \in p + 1 .. L : s[q] \in S
    BY <1>1
  <2>2. p + 1 \in Int /\ L \in Int /\ L - (p + 1) + 1 = L - p
    BY <1>1
  <2>3. /\ back \in Seq(S) /\ Len(back) = IF p + 1 <= L THEN L - (p + 1) + 1 ELSE 0
        /\ \A q \in 1 .. L - (p + 1) + 1 : back[q] = s[p + 1 + q - 1]
    BY <2>1, <2>2, SubSeqProperties
  <2>4. \A q \in 1 .. L - p : p + 1 + q - 1 = p + q
    BY <1>1
  <2> HIDE DEF back
  <2>5. \A q \in 1 .. L - p : back[q] = s[p + 1 + q - 1]
    BY <2>2, <2>3
  <2>6. Len(back) = L - p
    BY <2>3, <1>1
  <2> QED
    BY <2>3, <2>4, <2>5, <2>6
<1>5. RemoveAt(s, p) = front \o back
  BY DEF RemoveAt
<1>6. Front(s) = SubSeq(s, 1, L - 1)
  BY DEF Front
<1> HIDE DEF front, back
<1>7. RemoveAt(s, p) = d
  <2>1. p - 1 + (L - p) = L - 1
    BY <1>1
  <2>2. /\ front \o back \in Seq(S) /\ Len(front \o back) = L - 1
        /\ \A q \in 1 .. L - 1 : (front \o back)[q] = IF q <= p - 1 THEN front[q] ELSE back[q - (p - 1)]
    <3>1. Len(front) + Len(back) = L - 1
      BY <1>3, <1>4, <2>1
    <3>2. /\ front \o back \in Seq(S) /\ Len(front \o back) = L - 1
          /\ \A q \in 1 .. L - 1 :
               (front \o back)[q] = IF q <= Len(front) THEN front[q] ELSE back[q - Len(front)]
      <4>1. front \in Seq(S) /\ back \in Seq(S)
        BY <1>3, <1>4
      <4>2. /\ front \o back \in Seq(S) /\ Len(front \o back) = Len(front) + Len(back)
            /\ \A q \in 1 .. Len(front) + Len(back) :
                 (front \o back)[q] = IF q <= Len(front) THEN front[q] ELSE back[q - Len(front)]
        BY <4>1, ConcatProperties
      <4> QED
        BY <4>2, <3>1
    <3>3. Len(front) = p - 1
      BY <1>3
    <3> QED
      BY <3>2, <3>3
  <2>3. ASSUME NEW q \in 1 .. L - 1 PROVE (front \o back)[q] = d[q]
    <3>1. CASE q < p
      <4>1. q <= p - 1 /\ q \in 1 .. p - 1
        BY <3>1, <1>1
      <4> QED
        BY <3>1, <4>1, <1>3, <2>2 DEF Removed
    <3>2. CASE ~(q < p)
      <4>1. q - (p - 1) \in 1 .. L - p /\ p + (q - (p - 1)) = q + 1 /\ ~(q <= p - 1)
        BY <3>2, <1>1
      <4> QED
        BY <3>2, <4>1, <1>4, <2>2 DEF Removed
    <3> QED
      BY <3>1, <3>2
  <2> QED
    BY <1>2, <1>5, <2>2, <2>3, SeqEqual
<1>8. ASSUME p = 1 PROVE Tail(s) = d
  <2>1. s # << >>
    BY <1>1
  <2>2. /\ Tail(s) \in Seq(S) /\ Len(Tail(s)) = L - 1
        /\ \A q \in 1 .. L - 1 : Tail(s)[q] = s[q + 1]
    BY <2>1, HeadTailProperties
  <2>3. \A q \in 1 .. L - 1 : Tail(s)[q] = d[q]
    BY <1>1, <1>8, <2>2 DEF Removed
  <2> QED
    BY <1>2, <2>2, <2>3, SeqEqual
<1>9. ASSUME p = L PROVE Front(s) = d
  <2>1. Front(s) = front
    BY <1>6, <1>9 DEF front
  <2>2. \A q \in 1 .. L - 1 : front[q] = d[q]
    BY <1>1, <1>3, <1>9 DEF Removed
  <2> QED
    BY <1>2, <1>3, <1>9, <2>1, <2>2, SeqEqual
<1> QED
  BY <1>2, <1>7, <1>8, <1>9

------------------------------------------------------------------------------
(* A node more or less.                                                     *)

Freed(m, n) == [k \in DOMAIN m \ {n} |-> m[k]]

\* A new node n, with the link of node before set to it.
Linked(before, n, v, next) ==
  [k \in DOMAIN mem \cup {n} |->
     IF k = n THEN [data |-> v, next |-> next, index |-> 0]
     ELSE IF k = before THEN [mem[k] EXCEPT !.next = n] ELSE mem[k]]

\* A block n from calloc, linked at place p of c.
LEMMA InsertNode ==
  ASSUME NEW c, Holds(mem, list, c), NEW p \in 1 .. Len(c) + 1,
         NEW n \in Nodes \ DOMAIN mem, NEW v \in Values,
         NEW before, before = IF p = 1 THEN NULL ELSE c[p - 1],
         NEW next, next = IF p = Len(c) + 1 THEN NULL ELSE c[p],
         NEW head, head = IF p = 1 THEN n ELSE list
  PROVE  /\ Holds(Linked(before, n, v, next), head, Inserted(c, p, n))
         /\ Data(Linked(before, n, v, next), Inserted(c, p, n)) = Inserted(Data(mem, c), p, v)
<1> DEFINE L == Len(c)
           m2 == Linked(before, n, v, next)
           d == Inserted(c, p, n)
<1>1. /\ L \in Nat /\ p \in Nat
      /\ \A q \in 1 .. L : c[q] \in DOMAIN mem /\ c[q] \in Nodes /\ mem[c[q]] \in Link
  BY HoldsType
<1>2. DOMAIN m2 = DOMAIN mem \cup {n} /\ m2 = [k \in DOMAIN mem \cup {n} |-> m2[k]]
  BY DEF Linked
<1>3. m2[n] = [data |-> v, next |-> next, index |-> 0]
  BY DEF Linked
<1>4. ASSUME NEW q \in 1 .. L
      PROVE  /\ m2[c[q]] \in Link /\ m2[c[q]].data = mem[c[q]].data
             /\ m2[c[q]].next = IF q = p - 1 THEN n ELSE After(c, q)
  <2>1. c[q] \in DOMAIN mem /\ c[q] # n /\ mem[c[q]] \in Link
    BY <1>1
  <2>2. m2[c[q]] = IF c[q] = before THEN [mem[c[q]] EXCEPT !.next = n] ELSE mem[c[q]]
    BY <2>1 DEF Linked
  <2>3. c[q] = before <=> q = p - 1
    <3>1. CASE p = 1
      <4>1. c[q] # NULL
        BY <1>1, LinkedListAssumption
      <4>2. q # p - 1
        BY <1>1, <3>1
      <4> QED
        BY <3>1, <4>1, <4>2
    <3>2. CASE p # 1
      <4>1. p - 1 \in 1 .. L
        BY <1>1, <3>2
      <4> QED
        BY <3>2, <4>1 DEF Holds
    <3> QED
      BY <3>1, <3>2
  <2>4. mem[c[q]].next = After(c, q)
    BY DEF Holds
  <2> QED
    BY <2>1, <2>2, <2>3, <2>4 DEF Link
<1>5. d \in Seq(DOMAIN m2) /\ Len(d) = L + 1
  <2>1. c \in Seq(DOMAIN m2) /\ n \in DOMAIN m2
    <3>1. c \in Seq(DOMAIN mem) /\ DOMAIN mem \subseteq DOMAIN m2
      BY <1>2 DEF Holds
    <3> HIDE DEF m2
    <3> QED
      BY <3>1, <1>2, SeqMonotonic
  <2> HIDE DEF m2
  <2> QED
    BY <2>1, InsertedSeq
<1>6. \A q \in 1 .. L + 1 : d[q] = IF q < p THEN c[q] ELSE IF q = p THEN n ELSE c[q - 1]
  BY DEF Inserted
<1> HIDE DEF m2, d
<1>7. Links(m2)
  <2>1. n \in Nodes /\ m2[n] \in Link
    <3>1. next \in Nodes \cup {NULL}
      <4>1. p # L + 1 => p \in 1 .. L
        BY <1>1
      <4> QED
        BY <4>1, <1>1
    <3>2. 0 \in Nat /\ v \in Values /\ n \in Nodes
      OBVIOUS
    <3>3. [data |-> v, next |-> next, index |-> 0] \in Link
      BY <3>1, <3>2 DEF Link
    <3> QED
      BY <1>3, <3>2, <3>3
  <2>2. \A k \in DOMAIN mem : m2[k] \in Link
    BY <1>4 DEF Holds
  <2>3. DOMAIN mem \subseteq Nodes
    BY DEF Holds, Links
  <2> QED
    BY <2>1, <2>2, <2>3, <1>2 DEF Links
<1>8. head = IF Len(d) = 0 THEN NULL ELSE d[1]
  <2>1. 1 \in 1 .. L + 1 /\ Len(d) # 0
    BY <1>1, <1>5
  <2>2. d[1] = IF p = 1 THEN n ELSE c[1]
    BY <1>1, <1>6, <2>1
  <2>3. p # 1 => list = c[1]
    BY <1>1 DEF Holds
  <2> QED
    BY <2>1, <2>2, <2>3
<1>9. ASSUME NEW q \in 1 .. L + 1
      PROVE  /\ m2[d[q]].next = After(d, q)
             /\ m2[d[q]].data = IF q < p THEN mem[c[q]].data ELSE IF q = p THEN v ELSE mem[c[q - 1]].data
  <2>1. After(d, q) = IF q = L + 1 THEN NULL ELSE d[q + 1]
    BY <1>5 DEF After
  <2>2. CASE q < p
    <3>1. q \in 1 .. L /\ q + 1 \in 1 .. L + 1 /\ q # L + 1
      BY <1>1, <2>2
    <3>2. d[q] = c[q] /\ d[q + 1] = IF q = p - 1 THEN n ELSE c[q + 1]
      <4>1. q = p - 1 <=> q + 1 = p
        BY <1>1
      <4>2. q # p - 1 => q + 1 < p
        BY <1>1, <2>2
      <4> QED
        BY <1>6, <2>2, <3>1, <4>1, <4>2
    <3>3. q # p - 1 => After(c, q) = c[q + 1]
      <4>1. q # p - 1 => q # L
        BY <1>1, <2>2
      <4> QED
        BY <4>1 DEF After
    <3> QED
      BY <1>4, <2>1, <2>2, <3>1, <3>2, <3>3
  <2>3. CASE q = p
    <3>1. d[q] = n
      BY <1>6, <2>3, <1>1
    <3>2. q # L + 1 => q + 1 \in 1 .. L + 1 /\ ~(q + 1 < p) /\ q + 1 # p /\ (q + 1) - 1 = q
      BY <1>1, <2>3
    <3>3. After(d, q) = next
      BY <1>6, <2>1, <2>3, <3>2
    <3>4. ~(q < p)
      BY <1>1, <2>3
    <3> QED
      BY <1>3, <2>3, <3>1, <3>3, <3>4
  <2>4. CASE q > p
    <3>1. q - 1 \in 1 .. L /\ q - 1 # p - 1 /\ ~(q < p) /\ q # p
      BY <1>1, <2>4
    <3>2. d[q] = c[q - 1]
      BY <1>6, <3>1
    <3>3. q # L + 1 => q + 1 \in 1 .. L + 1 /\ ~(q + 1 < p) /\ q + 1 # p /\ (q + 1) - 1 = q /\ (q - 1) + 1 = q
      BY <1>1, <2>4
    <3>4. q - 1 = L <=> q = L + 1
      BY <1>1
    <3>5. After(d, q) = After(c, q - 1)
      <4>1. After(c, q - 1) = IF q = L + 1 THEN NULL ELSE c[(q - 1) + 1]
        BY <3>4 DEF After
      <4> QED
        BY <1>6, <2>1, <3>3, <4>1
    <3> QED
      BY <1>4, <3>1, <3>2, <3>5
  <2>5. q < p \/ q = p \/ q > p
    BY <1>1
  <2> QED
    BY <2>2, <2>3, <2>4, <2>5
<1>10. \A q, r \in 1 .. L + 1 : d[q] = d[r] => q = r
  <2>1. \A q, r \in 1 .. L : c[q] = c[r] => q = r
    BY DEF Holds
  <2>2. \A q \in 1 .. L : c[q] # n
    BY <1>1
  <2>3. \A q \in 1 .. L + 1 : /\ q < p => q \in 1 .. L
                              /\ q > p => q - 1 \in 1 .. L
                              /\ q < p \/ q = p \/ q > p
    BY <1>1
  <2>4. SUFFICES ASSUME NEW q \in 1 .. L + 1, NEW r \in 1 .. L + 1, d[q] = d[r] PROVE q = r
    OBVIOUS
  <2>5. /\ d[q] = IF q < p THEN c[q] ELSE IF q = p THEN n ELSE c[q - 1]
        /\ d[r] = IF r < p THEN c[r] ELSE IF r = p THEN n ELSE c[r - 1]
    BY <1>6
  <2>6. /\ q < p => ~(q > p) /\ q # p
        /\ q > p => ~(q < p) /\ q # p
        /\ r < p => ~(r > p) /\ r # p
        /\ r > p => ~(r < p) /\ r # p
        /\ q < p /\ r > p => q # r - 1
        /\ q > p /\ r < p => q - 1 # r
        /\ q - 1 = r - 1 => q = r
    BY <1>1
  <2> QED
    BY <2>1, <2>2, <2>3, <2>4, <2>5, <2>6
<1>11. \A k \in DOMAIN m2 : \E q \in 1 .. L + 1 : d[q] = k
  <2>1. d[p] = n
    BY <1>1, <1>6
  <2>2. ASSUME NEW k \in DOMAIN mem PROVE \E q \in 1 .. L + 1 : d[q] = k
    <3>1. PICK q \in 1 .. L : c[q] = k
      BY DEF Holds
    <3>2. q < p => q \in 1 .. L + 1 /\ d[q] = k
      BY <1>1, <1>6, <3>1
    <3>3. ~(q < p) => q + 1 \in 1 .. L + 1 /\ ~(q + 1 < p) /\ q + 1 # p /\ (q + 1) - 1 = q
      BY <1>1
    <3>4. ~(q < p) => d[q + 1] = k
      BY <1>6, <3>1, <3>3
    <3> QED
      BY <3>2, <3>3, <3>4
  <2> QED
    BY <1>2, <2>1, <2>2
<1>12. Holds(m2, head, d)
  BY <1>5, <1>7, <1>8, <1>9, <1>10, <1>11 DEF Holds
<1>13. Data(m2, d) = Inserted(Data(mem, c), p, v)
  <2>1. Len(Data(mem, c)) = L
    BY <1>1 DEF Data
  <2>2. Data(m2, d) = [q \in 1 .. L + 1 |-> m2[d[q]].data]
    BY <1>5 DEF Data
  <2>3. ASSUME NEW q \in 1 .. L + 1
        PROVE  m2[d[q]].data = IF q < p THEN Data(mem, c)[q] ELSE IF q = p THEN v ELSE Data(mem, c)[q - 1]
    <3>1. /\ q < p => q \in 1 .. L
          /\ ~(q < p) /\ q # p => q - 1 \in 1 .. L
      BY <1>1
    <3>2. \A r \in 1 .. L : Data(mem, c)[r] = mem[c[r]].data
      BY DEF Data
    <3> QED
      BY <1>9, <3>1, <3>2
  <2> HIDE DEF L
  <2> QED
    BY <2>1, <2>2, <2>3 DEF Inserted
<1> QED
  BY <1>12, <1>13 DEF m2, d

\* The node at place p of c, unlinked and freed.
LEMMA RemoveNode ==
  ASSUME NEW c, Holds(mem, list, c), NEW p \in 1 .. Len(c),
         NEW unlinked, unlinked = IF p = 1 THEN mem ELSE [mem EXCEPT ![c[p - 1]].next = After(c, p)],
         NEW head, head = IF p = 1 THEN After(c, 1) ELSE list
  PROVE  /\ Holds(Freed(unlinked, c[p]), head, Removed(c, p))
         /\ Data(Freed(unlinked, c[p]), Removed(c, p)) = Removed(Data(mem, c), p)
         /\ p = Len(c) /\ Numbered(mem, c) => Numbered(Freed(unlinked, c[p]), Removed(c, p))
<1> DEFINE L == Len(c)
           n == c[p]
           m2 == Freed(unlinked, n)
           d == Removed(c, p)
<1>1. /\ L \in Nat /\ p \in Nat
      /\ \A q \in 1 .. L : c[q] \in DOMAIN mem /\ c[q] \in Nodes /\ mem[c[q]] \in Link
  BY HoldsType
<1>2. DOMAIN m2 = DOMAIN mem \ {n} /\ m2 = [k \in DOMAIN mem \ {n} |-> m2[k]]
  BY DEF Freed
<1>3. ASSUME NEW q \in 1 .. L
      PROVE  After(c, q) \in Nodes \cup {NULL}
  <2>1. q # L => q + 1 \in 1 .. L
    BY <1>1
  <2> QED
    BY <1>1, <2>1 DEF After
<1>4. ASSUME NEW q \in 1 .. L, q # p
      PROVE  /\ c[q] \in DOMAIN m2
             /\ m2[c[q]] \in Link /\ m2[c[q]].data = mem[c[q]].data /\ m2[c[q]].index = mem[c[q]].index
             /\ m2[c[q]].next = IF q = p - 1 THEN After(c, p) ELSE After(c, q)
  <2>1. c[q] \in DOMAIN mem /\ c[q] # n /\ mem[c[q]] \in Link
    BY <1>1, <1>4 DEF Holds
  <2>2. m2[c[q]] = unlinked[c[q]]
    BY <2>1 DEF Freed
  <2>3. mem[c[q]].next = After(c, q)
    BY DEF Holds
  <2>4. CASE p = 1
    <3>1. q # p - 1
      BY <1>1, <2>4
    <3> QED
      BY <1>2, <2>1, <2>2, <2>3, <2>4, <3>1
  <2>5. CASE p # 1
    <3>1. p - 1 \in 1 .. L
      BY <1>1, <2>5
    <3>2. c[q] = c[p - 1] <=> q = p - 1
      BY <3>1 DEF Holds
    <3>3. unlinked[c[q]] = IF q = p - 1 THEN [mem[c[q]] EXCEPT !.next = After(c, p)] ELSE mem[c[q]]
      BY <2>1, <2>5, <3>2
    <3> QED
      BY <1>2, <1>3, <2>1, <2>2, <2>3, <3>3 DEF Link
  <2> QED
    BY <2>4, <2>5
<1>5. \A q \in 1 .. L - 1 : d[q] = IF q < p THEN c[q] ELSE c[q + 1]
  BY DEF Removed
<1>6. /\ L >= 1 /\ L - 1 \in Nat
      /\ \A q \in 1 .. L - 1 : /\ q < p => q \in 1 .. L /\ q # p
                               /\ ~(q < p) => q + 1 \in 1 .. L /\ q + 1 # p
  BY <1>1
<1>7. d \in Seq(DOMAIN m2) /\ Len(d) = L - 1
  <2>1. c \in Seq(DOMAIN mem)
    BY DEF Holds
  <2>2. d \in Seq(DOMAIN mem) /\ Len(d) = L - 1
    BY <2>1, RemovedSeq
  <2>3. \A q \in 1 .. L - 1 : d[q] \in DOMAIN m2
    BY <1>4, <1>5, <1>6
  <2> HIDE DEF m2, d
  <2>4. d \in [1 .. L - 1 -> DOMAIN m2]
    BY <2>2, <2>3, LenProperties
  <2> QED
    BY <2>2, <2>4, <1>6
<1> HIDE DEF m2, d
<1>8. Links(m2)
  <2>1. ASSUME NEW k \in DOMAIN m2 PROVE k \in Nodes /\ m2[k] \in Link
    <3>1. PICK q \in 1 .. L : c[q] = k
      BY <1>2 DEF Holds
    <3> QED
      BY <1>1, <1>2, <1>4, <3>1
  <2> QED
    BY <1>2, <2>1 DEF Links
<1>9. head = IF Len(d) = 0 THEN NULL ELSE d[1]
  <2>1. list = c[1]
    BY <1>1, <1>6 DEF Holds
  <2>2. L - 1 # 0 => d[1] = IF p = 1 THEN c[2] ELSE c[1]
    <3>1. L - 1 # 0 => 1 \in 1 .. L - 1
      BY ONLY p \in Nat, SMT
    <3>2. (1 < p <=> p # 1) /\ 1 + 1 = 2
      BY <1>1
    <3>3. L - 1 # 0 => d[1] = IF 1 < p THEN c[1] ELSE c[1 + 1]
      BY <1>5, <3>1
    <3> QED
      BY <3>2, <3>3
  <2>3. After(c, 1) = IF L - 1 = 0 THEN NULL ELSE c[2]
    BY <1>1 DEF After
  <2>4. p # 1 => L - 1 # 0
    BY <1>1
  <2> QED
    BY <1>7, <2>1, <2>2, <2>3, <2>4
<1>10. ASSUME NEW q \in 1 .. L - 1
       PROVE  /\ m2[d[q]].next = After(d, q)
              /\ m2[d[q]].data = IF q < p THEN mem[c[q]].data ELSE mem[c[q + 1]].data
  <2>1. After(d, q) = IF q = L - 1 THEN NULL ELSE d[q + 1]
    BY <1>7 DEF After
  <2>2. CASE q < p
    <3>1. q \in 1 .. L /\ q # p /\ d[q] = c[q]
      BY <1>5, <1>6, <2>2
    <3>2. CASE q = p - 1
      <4>1. q = L - 1 <=> p = L
        BY <1>1, <3>2
      <4>2. q # L - 1 => q + 1 \in 1 .. L - 1 /\ ~(q + 1 < p) /\ (q + 1) + 1 = p + 1
        BY <1>1, <3>2
      <4>3. After(d, q) = After(c, p)
        BY <1>5, <2>1, <4>1, <4>2 DEF After
      <4> QED
        BY <1>4, <2>2, <3>1, <3>2, <4>3
    <3>3. CASE q # p - 1
      <4>1. q # L - 1 /\ q # L /\ q + 1 \in 1 .. L - 1 /\ q + 1 < p
        BY <1>1, <2>2, <3>3
      <4>2. After(d, q) = After(c, q)
        BY <1>5, <2>1, <4>1 DEF After
      <4> QED
        BY <1>4, <2>2, <3>1, <3>3, <4>2
    <3> QED
      BY <3>2, <3>3
  <2>3. CASE ~(q < p)
    <3>1. q + 1 \in 1 .. L /\ q + 1 # p /\ q + 1 # p - 1 /\ d[q] = c[q + 1]
      <4>1. q + 1 # p - 1
        BY <1>1, <2>3
      <4> QED
        BY <1>5, <1>6, <2>3, <4>1
    <3>2. q = L - 1 <=> q + 1 = L
      BY <1>1
    <3>3. q # L - 1 => q + 1 \in 1 .. L - 1 /\ ~(q + 1 < p)
      BY <1>1, <2>3
    <3>4. After(d, q) = After(c, q + 1)
      BY <1>5, <2>1, <3>2, <3>3 DEF After
    <3> QED
      BY <1>4, <2>3, <3>1, <3>4
  <2> QED
    BY <2>2, <2>3
<1>11. \A q, r \in 1 .. L - 1 : d[q] = d[r] => q = r
  <2>1. \A q, r \in 1 .. L : c[q] = c[r] => q = r
    BY DEF Holds
  <2>2. SUFFICES ASSUME NEW q \in 1 .. L - 1, NEW r \in 1 .. L - 1, d[q] = d[r] PROVE q = r
    OBVIOUS
  <2>3. /\ d[q] = IF q < p THEN c[q] ELSE c[q + 1]
        /\ d[r] = IF r < p THEN c[r] ELSE c[r + 1]
    BY <1>5
  <2>4. /\ q < p /\ ~(r < p) => q # r + 1
        /\ r < p /\ ~(q < p) => q + 1 # r
        /\ q + 1 = r + 1 => q = r
    BY <1>1
  <2> QED
    BY <1>6, <2>1, <2>2, <2>3, <2>4
<1>12. \A k \in DOMAIN m2 : \E q \in 1 .. L - 1 : d[q] = k
  <2>1. SUFFICES ASSUME NEW k \in DOMAIN mem \ {n} PROVE \E q \in 1 .. L - 1 : d[q] = k
    BY <1>2
  <2>2. PICK q \in 1 .. L : c[q] = k
    BY DEF Holds
  <2>3. q # p
    BY <2>2
  <2>4. CASE q < p
    <3>1. q \in 1 .. L - 1
      BY <1>1, <2>4
    <3>2. d[q] = k
      BY <1>5, <2>2, <2>4, <3>1
    <3> QED
      BY <3>1, <3>2
  <2>5. CASE ~(q < p)
    <3>1. q - 1 \in 1 .. L - 1 /\ ~(q - 1 < p) /\ (q - 1) + 1 = q
      BY <1>1, <2>3, <2>5
    <3>2. d[q - 1] = k
      BY <1>5, <2>2, <3>1
    <3> QED
      BY <3>1, <3>2
  <2> QED
    BY <2>4, <2>5
<1>13. Holds(m2, head, d)
  BY <1>7, <1>8, <1>9, <1>10, <1>11, <1>12 DEF Holds
<1>14. Data(m2, d) = Removed(Data(mem, c), p)
  <2>1. Len(Data(mem, c)) = L
    BY <1>1 DEF Data
  <2>2. Data(m2, d) = [q \in 1 .. L - 1 |-> m2[d[q]].data]
    BY <1>7 DEF Data
  <2>3. ASSUME NEW q \in 1 .. L - 1
        PROVE  m2[d[q]].data = IF q < p THEN Data(mem, c)[q] ELSE Data(mem, c)[q + 1]
    <3>1. \A r \in 1 .. L : Data(mem, c)[r] = mem[c[r]].data
      BY DEF Data
    <3> QED
      BY <1>6, <1>10, <3>1
  <2> HIDE DEF L
  <2> QED
    BY <2>1, <2>2, <2>3 DEF Removed
<1>15. ASSUME p = L, Numbered(mem, c) PROVE Numbered(m2, d)
  <2>1. ASSUME NEW q \in 1 .. L - 1 PROVE m2[d[q]].index = q - 1
    <3>1. q < p
      BY <1>1, <1>15
    <3>2. q \in 1 .. L /\ q # p /\ d[q] = c[q]
      BY <1>5, <1>6, <3>1
    <3> QED
      BY <1>4, <1>15, <3>2 DEF Numbered
  <2> QED
    BY <1>7, <2>1 DEF Numbered
<1> QED
  BY <1>13, <1>14, <1>15 DEF m2, d

------------------------------------------------------------------------------
(* Memory while a call runs.                                                *)

H(m, w) == [mem |-> m, stray |-> w]

\* The blocks with n filled in.
Node(m, n, v, next) ==
  [k \in DOMAIN m \cup {n} |->
     IF k = n THEN [data |-> v, next |-> next, index |-> 0] ELSE m[k]]

\* The blocks with a spare one.
Spare(s) ==
  [k \in DOMAIN mem \cup {s} |->
     IF k = s THEN [data |-> NULL, next |-> NULL, index |-> 0] ELSE mem[k]]

LEMMA SetsNext ==
  ASSUME NEW m, NEW w, NEW n \in DOMAIN m, NEW x
  PROVE  SetNext(H(m, w), n, x) =
           H([k \in DOMAIN m |-> IF k = n THEN [m[k] EXCEPT !.next = x] ELSE m[k]], w)
<1>1. H(m, w).mem = m /\ H(m, w).stray = w /\ w \cup ({n} \ DOMAIN m) = w
  BY DEF H
<1> QED
  BY <1>1 DEF SetNext, H

LEMMA FreesOwn ==
  ASSUME NEW m, NEW w, NEW n \in DOMAIN m
  PROVE  free(H(m, w), n) = H(Freed(m, n), w)
<1>1. H(m, w).mem = m /\ H(m, w).stray = w /\ w \cup ({n} \ DOMAIN m) = w
  BY DEF H
<1> QED
  BY <1>1 DEF free, Freed, H

LEMMA FreesStray ==
  ASSUME NEW m, NEW w, NEW n, n \notin DOMAIN m
  PROVE  free(H(m, w), n) = H(Freed(m, n), w \cup {n})
<1>1. H(m, w).mem = m /\ H(m, w).stray = w /\ {n} \ DOMAIN m = {n}
  BY DEF H
<1> QED
  BY <1>1 DEF free, Freed, H

LEMMA DoneIs ==
  ASSUME NEW r, NEW m, NEW w, NEW head, Done(r, H(m, w), head)
  PROVE  Ended(r, m, head) /\ stray' = w
BY DEF Done, Ended, H

LEMMA Allocates ==
  ASSUME NEW s
  PROVE  calloc(Now, s) = H(Spare(s), {}) /\ Now = H(mem, {})
BY DEF calloc, Now, H, Spare

LEMMA FillsNew ==
  ASSUME NEW m, NEW w, NEW n, n \notin DOMAIN m, NEW v, NEW next
  PROVE  Fill(calloc(H(m, w), n), n, v, next) = H(Node(m, n, v, next), w)
<1>1. PICK a : a = [k \in DOMAIN m \cup {n} |->
                    IF k = n THEN [data |-> NULL, next |-> NULL, index |-> 0] ELSE m[k]]
  OBVIOUS
<1>2. calloc(H(m, w), n) = H(a, w)
  BY <1>1 DEF calloc, H
<1>3. Fill(H(a, w), n, v, next) =
        H([k \in DOMAIN a |->
             IF k = n THEN [data |-> v, next |-> next, index |-> a[k].index] ELSE a[k]], w)
  BY DEF Fill, H
<1>4. [k \in DOMAIN a |-> IF k = n THEN [data |-> v, next |-> next, index |-> a[k].index] ELSE a[k]]
        = Node(m, n, v, next)
  <2>1. /\ DOMAIN a = DOMAIN m \cup {n} /\ a[n].index = 0
        /\ \A k \in DOMAIN m : a[k] = m[k]
    BY <1>1
  <2> QED
    BY <2>1 DEF Node
<1> QED
  BY <1>2, <1>3, <1>4

LEMMA UpdatesIt ==
  ASSUME NEW m, NEW w, NEW head
  PROVE  update(H(m, w), head) = H(Renumbered(m, head), w)
<1>1. H(m, w).mem = m
  BY DEF H
<1>2. update(H(m, w), head) = [H(m, w) EXCEPT !.mem = Renumbered(m, head)]
  BY <1>1 DEF update, numbered, Renumbered, PlaceOf, SelectInSeq
<1> QED
  BY <1>2 DEF H

\* Block s of m2 is no node: update() passes it by, and once it is freed nothing is left
\* of it.
LEMMA SpareFreed ==
  ASSUME NEW m, NEW head, NEW c, Holds(m, head, c),
         NEW s \in Nodes \ DOMAIN m, NEW m2, DOMAIN m2 = DOMAIN m \cup {s},
         m2[s].next = NULL, \A k \in DOMAIN m : m2[k] = m[k]
  PROVE  \A w : free(update(H(m2, w), head), s) = H(Renumbered(m, head), w)
<1> SUFFICES ASSUME NEW w PROVE free(update(H(m2, w), head), s) = H(Renumbered(m, head), w)
  OBVIOUS
<1>1. Chain(m, head) = c
  BY Arranged
<1>2. Chain(m2, head) = c
  <2>1. Along(m, head, c)
    BY HoldsAlong
  <2>2. \A k \in DOMAIN m2 : m2[k].next \in Ends
    BY <2>1 DEF Along, Ends
  <2>3. c \in Seq(DOMAIN m2)
    BY <2>1, SeqMonotonic DEF Along
  <2>4. \A p \in 1 .. Len(c) : m2[c[p]].next = After(c, p)
    <3>1. \A p \in 1 .. Len(c) : c[p] \in DOMAIN m
      BY HoldsType
    <3> QED
      BY <2>1, <3>1 DEF Along
  <2>5. Along(m2, head, c)
    BY <2>1, <2>2, <2>3, <2>4 DEF Along
  <2> QED
    BY <2>5, Visited
<1> DEFINE u == Renumbered(m2, head)
<1>3. DOMAIN u = DOMAIN m \cup {s}
  BY DEF Renumbered
<1>4. \A k \in DOMAIN m : u[k] = IF PlaceOf(c, k) = 0 THEN m[k]
                                 ELSE [m[k] EXCEPT !.index = PlaceOf(c, k) - 1 + 0]
  BY <1>2 DEF Renumbered
<1> HIDE DEF u
<1>5. Freed(u, s) = Renumbered(m, head)
  <2>1. DOMAIN u \ {s} = DOMAIN m
    BY <1>3
  <2> QED
    BY <1>1, <1>4, <2>1 DEF Freed, Renumbered
<1>6. free(H(u, w), s) = H(Freed(u, s), w)
  BY <1>3, FreesOwn
<1> QED
  BY <1>5, <1>6, UpdatesIt DEF u

\* A new node of memory h, with the link of node before, if any, set to it.
WithNode(h, before, n, v, next) ==
  IF before = NULL THEN Fill(calloc(h, n), n, v, next)
  ELSE SetNext(Fill(calloc(h, n), n, v, next), before, n)

\* Linked, of blocks m, a spare one perhaps among them.
LinkedIn(m, before, n, v, next) ==
  [k \in DOMAIN m \cup {n} |->
     IF k = n THEN [data |-> v, next |-> next, index |-> 0]
     ELSE IF k = before THEN [m[k] EXCEPT !.next = n] ELSE m[k]]

LEMMA LinksNode ==
  ASSUME NEW m, NULL \notin DOMAIN m, NEW n, n \notin DOMAIN m,
         NEW v, NEW next, NEW w, NEW before \in DOMAIN m \cup {NULL}
  PROVE  WithNode(H(m, w), before, n, v, next) = H(LinkedIn(m, before, n, v, next), w)
<1>1. PICK filled : filled = Node(m, n, v, next)
  OBVIOUS
<1>2. Fill(calloc(H(m, w), n), n, v, next) = H(filled, w)
  BY <1>1, FillsNew
<1>3. /\ DOMAIN filled = DOMAIN m \cup {n} /\ filled[n] = [data |-> v, next |-> next, index |-> 0]
      /\ \A k \in DOMAIN m : filled[k] = m[k]
  BY <1>1 DEF Node
<1>4. CASE before = NULL
  <2>1. filled = LinkedIn(m, before, n, v, next)
    BY <1>1, <1>4 DEF Node, LinkedIn
  <2> QED
    BY <1>2, <1>4, <2>1 DEF WithNode
<1>5. CASE before # NULL
  <2>1. before \in DOMAIN filled /\ before # n
    BY <1>3, <1>5
  <2>2. SetNext(H(filled, w), before, n) =
          H([k \in DOMAIN filled |-> IF k = before THEN [filled[k] EXCEPT !.next = n] ELSE filled[k]], w)
    BY <2>1, SetsNext
  <2>3. [k \in DOMAIN filled |-> IF k = before THEN [filled[k] EXCEPT !.next = n] ELSE filled[k]]
          = LinkedIn(m, before, n, v, next)
    BY <1>3, <2>1 DEF LinkedIn
  <2> QED
    BY <1>2, <1>5, <2>2, <2>3 DEF WithNode
<1> QED
  BY <1>4, <1>5

------------------------------------------------------------------------------
(* The calls.                                                               *)

\* The value of List's variable.
Items == [p \in DOMAIN chain |-> mem[chain[p]].data]

LEMMA ItemsType ==
  ASSUME Holds(mem, list, chain)
  PROVE  Items \in Seq(Values) /\ Len(Items) = Len(chain) /\ Items = Data(mem, chain)
<1>1. /\ Len(chain) \in Nat /\ DOMAIN chain = 1 .. Len(chain)
      /\ \A p \in 1 .. Len(chain) : mem[chain[p]].data \in Values
  BY HoldsType DEF Link
<1>2. Items \in [1 .. Len(chain) -> Values]
  BY <1>1 DEF Items
<1>3. Items = Data(mem, chain)
  BY <1>1 DEF Items, Data
<1> QED
  BY <1>1, <1>2, <1>3

LEMMA HeadIsFirst ==
  ASSUME Holds(mem, list, chain)
  PROVE  /\ list = NULL <=> Len(chain) = 0
         /\ list # NULL => list = chain[1] /\ Len(chain) \in Nat /\ Len(chain) >= 1
<1>1. Len(chain) \in Nat
  BY HoldsType
<1>2. CASE Len(chain) = 0
  BY <1>2 DEF Holds
<1>3. CASE Len(chain) # 0
  <2>1. 1 \in 1 .. Len(chain)
    BY <1>1, <1>3
  <2>2. list = chain[1] /\ chain[1] # NULL
    BY <1>3, <2>1, HoldsType, LinkedListAssumption DEF Holds
  <2> QED
    BY <1>1, <1>3, <2>1, <2>2
<1> QED
  BY <1>2, <1>3

\* What the lemmas below prove of a call: r is returned, and the data are d.
Leaves(r, d) == ListInv' /\ result' = r /\ Items' = d

LEMMA Inserts ==
  ASSUME ListInv, NEW r \in BOOLEAN, NEW v \in Values, NEW n \in Nodes \ DOMAIN mem,
         NEW p \in 1 .. Len(chain) + 1,
         NEW before, before = IF p = 1 THEN NULL ELSE chain[p - 1],
         NEW next, next = IF p = Len(chain) + 1 THEN NULL ELSE chain[p],
         NEW head, head = IF p = 1 THEN n ELSE list,
         Updated(r, Linked(before, n, v, next), head)
  PROVE  Leaves(r, Inserted(Items, p, v))
<1> DEFINE m == Linked(before, n, v, next)
           d == Inserted(chain, p, n)
<1>1. Holds(m, head, d) /\ Data(m, d) = Inserted(Data(mem, chain), p, v)
  BY InsertNode DEF ListInv
<1> HIDE DEF m
<1>2. ListInv' /\ chain' = d /\ Data(mem, chain)' = Data(m, d) /\ result' = r
  BY <1>1, Updates DEF m
<1>3. Items = Data(mem, chain)
  BY ItemsType DEF ListInv
<1>4. Holds(mem', list', chain')
  BY <1>2 DEF ListInv
<1>5. Items' = Data(mem, chain)'
  <2>1. DOMAIN chain' = 1 .. Len(chain')
    BY <1>4, HoldsType
  <2> QED
    BY <2>1 DEF Items, Data
<1> QED
  BY <1>1, <1>2, <1>3, <1>5 DEF Leaves

\* The same, of the calls' own terms: with a spare block that is freed, and without.
Spot(p, n, before, next, head) ==
  /\ p \in 1 .. Len(chain) + 1
  /\ before = IF p = 1 THEN NULL ELSE chain[p - 1]
  /\ next = IF p = Len(chain) + 1 THEN NULL ELSE chain[p]
  /\ head = IF p = 1 THEN n ELSE list

LinkingGives(m, n, v, before, next, head) ==
  /\ update(WithNode(Now, before, n, v, next), head) = H(m, {})
  /\ \A s \in Nodes \ (DOMAIN mem \cup {n}) :
       free(update(WithNode(calloc(Now, s), before, n, v, next), head), s) = H(m, {})
  /\ DOMAIN m = DOMAIN mem \cup {n} /\ m = [k \in DOMAIN m |-> m[k]]

LEMMA NodeLinked ==
  ASSUME ListInv, NEW v \in Values, NEW n \in Nodes \ DOMAIN mem,
         NEW p, NEW before, NEW next, NEW head, Spot(p, n, before, next, head)
  PROVE  LinkingGives(Renumbered(Linked(before, n, v, next), head), n, v, before, next, head)
<1> DEFINE linked == Linked(before, n, v, next)
<1>0. /\ p \in 1 .. Len(chain) + 1
      /\ before = IF p = 1 THEN NULL ELSE chain[p - 1]
      /\ next = IF p = Len(chain) + 1 THEN NULL ELSE chain[p]
      /\ head = IF p = 1 THEN n ELSE list
  BY DEF Spot
<1>1. DOMAIN mem \subseteq Nodes
  BY DEF ListInv, Holds, Links
<1>2. before \in DOMAIN mem \cup {NULL}
  <2>1. p # 1 => p - 1 \in 1 .. Len(chain)
    BY <1>0, HoldsType DEF ListInv
  <2> QED
    BY <1>0, <2>1, HoldsType DEF ListInv
<1>3. linked = [k \in DOMAIN mem \cup {n} |-> linked[k]] /\ DOMAIN linked = DOMAIN mem \cup {n}
  BY DEF Linked
<1>4. Holds(linked, head, Inserted(chain, p, n))
  BY <1>0, InsertNode DEF ListInv
<1> HIDE DEF linked
<1>5. WithNode(Now, before, n, v, next) = H(linked, {})
  <2>1. linked = LinkedIn(mem, before, n, v, next) /\ NULL \notin DOMAIN mem
    BY <1>1, LinkedListAssumption DEF linked, Linked, LinkedIn
  <2> QED
    BY <1>2, <2>1, Allocates, LinksNode
<1>6. ASSUME NEW s \in Nodes \ (DOMAIN mem \cup {n})
      PROVE  free(update(WithNode(calloc(Now, s), before, n, v, next), head), s)
               = H(Renumbered(linked, head), {})
  <2> DEFINE b == Spare(s)
  <2>1. /\ DOMAIN b = DOMAIN mem \cup {s} /\ \A k \in DOMAIN mem : b[k] = mem[k]
        /\ b[s].next = NULL
    BY DEF Spare
  <2> HIDE DEF b
  <2>2. PICK m2 : m2 = LinkedIn(b, before, n, v, next)
    OBVIOUS
  <2>6. WithNode(H(b, {}), before, n, v, next) = H(m2, {})
    <3>1. NULL \notin DOMAIN b /\ n \notin DOMAIN b /\ before \in DOMAIN b \cup {NULL}
      BY <1>1, <1>2, <2>1, LinkedListAssumption
    <3> QED
      BY <2>2, <3>1, LinksNode
  <2>3. /\ DOMAIN m2 = DOMAIN linked \cup {s} /\ \A k \in DOMAIN linked : m2[k] = linked[k]
        /\ m2[s].next = NULL /\ s \in Nodes \ DOMAIN linked
    <3>1. s # before /\ s # n
      BY <1>2, LinkedListAssumption
    <3>2. DOMAIN m2 = DOMAIN linked \cup {s} /\ s \in Nodes \ DOMAIN linked
      BY <1>3, <2>1, <2>2 DEF LinkedIn
    <3>3. m2[s] = b[s]
      BY <2>1, <2>2, <3>1 DEF LinkedIn
    <3>4. ASSUME NEW k \in DOMAIN mem \cup {n} PROVE m2[k] = linked[k]
      <4>1. m2[k] = IF k = n THEN [data |-> v, next |-> next, index |-> 0]
                    ELSE IF k = before THEN [b[k] EXCEPT !.next = n] ELSE b[k]
        BY <2>1, <2>2 DEF LinkedIn
      <4>2. linked[k] = IF k = n THEN [data |-> v, next |-> next, index |-> 0]
                        ELSE IF k = before THEN [mem[k] EXCEPT !.next = n] ELSE mem[k]
        BY DEF linked, Linked
      <4>3. k # n => b[k] = mem[k]
        BY <2>1
      <4> QED
        BY <4>1, <4>2, <4>3
    <3> QED
      BY <1>3, <2>1, <3>2, <3>3, <3>4
  <2>4. free(update(H(m2, {}), head), s) = H(Renumbered(linked, head), {})
    BY <1>4, <2>3, SpareFreed
  <2>5. calloc(Now, s) = H(b, {})
    BY Allocates DEF b
  <2> QED
    BY <2>6, <2>4, <2>5
<1>7. DOMAIN Renumbered(linked, head) = DOMAIN linked
      /\ Renumbered(linked, head) = [k \in DOMAIN linked |-> Renumbered(linked, head)[k]]
  BY DEF Renumbered
<1> QED
  BY <1>3, <1>5, <1>6, <1>7, UpdatesIt DEF linked, LinkingGives

LEMMA InsertsNode ==
  ASSUME ListInv, NEW r \in BOOLEAN, NEW v \in Values, NEW n \in Nodes \ DOMAIN mem,
         NEW p \in 1 .. Len(chain) + 1,
         NEW before, before = IF p = 1 THEN NULL ELSE chain[p - 1],
         NEW next, next = IF p = Len(chain) + 1 THEN NULL ELSE chain[p],
         NEW head, head = IF p = 1 THEN n ELSE list,
         \/ Done(r, update(WithNode(Now, before, n, v, next), head), head)
         \/ \E s \in Nodes \ (DOMAIN mem \cup {n}) :
              Done(r, free(update(WithNode(calloc(Now, s), before, n, v, next), head), s), head)
  PROVE  Leaves(r, Inserted(Items, p, v)) /\ stray' = {}
<1> PICK m : m = Renumbered(Linked(before, n, v, next), head)
  OBVIOUS
<1>1. Done(r, H(m, {}), head)
  <2>1. /\ update(WithNode(Now, before, n, v, next), head) = H(m, {})
        /\ \A s \in Nodes \ (DOMAIN mem \cup {n}) :
             free(update(WithNode(calloc(Now, s), before, n, v, next), head), s) = H(m, {})
    <3>1. Spot(p, n, before, next, head)
      BY DEF Spot
    <3>2. LinkingGives(m, n, v, before, next, head)
      BY <3>1, NodeLinked
    <3> QED
      BY <3>2 DEF LinkingGives
  <2> QED
    BY <2>1
<1>2. Ended(r, m, head) /\ stray' = {}
  <2> QED
    BY <1>1, DoneIs
<1> QED
  BY <1>2, Inserts DEF Updated

\* Where push and push_back put the node.
LEMMA HeadAndTail ==
  ASSUME ListInv, NEW h, NEW v, NEW n
  PROVE  LET L == Len(chain)
             last == IF L + 1 = 1 THEN NULL ELSE chain[(L + 1) - 1]
         IN  /\ L \in Nat /\ 1 \in 1 .. L + 1 /\ L + 1 \in 1 .. L + 1
             /\ list = IF 1 = L + 1 THEN NULL ELSE chain[1]
             /\ pushed(h, v, n) = update(WithNode(h, NULL, n, v, list), n)
             /\ TailAfter(n) = IF L + 1 = 1 THEN n ELSE list
             /\ pushed_back(h, v, n) = update(WithNode(h, last, n, v, NULL), TailAfter(n))
<1> DEFINE L == Len(chain)
           last == IF L + 1 = 1 THEN NULL ELSE chain[(L + 1) - 1]
<1>1. /\ L \in Nat /\ 1 \in 1 .. L + 1 /\ L + 1 \in 1 .. L + 1
      /\ (L + 1 = 1 <=> L = 0) /\ (L + 1) - 1 = L
  BY HoldsType DEF ListInv
<1>2. /\ list = NULL <=> L = 0
      /\ list # NULL => list = chain[1]
  BY HeadIsFirst DEF ListInv
<1>3. last = NULL <=> list = NULL
  <2>1. L # 0 => L \in 1 .. L
    BY <1>1
  <2>2. L # 0 => chain[L] # NULL
    BY <2>1, HoldsType, LinkedListAssumption DEF ListInv
  <2> QED
    BY <1>1, <1>2, <2>2
<1>4. list # NULL => last = Last(chain)
  BY <1>1, <1>2 DEF Last
<1>5. pushed(h, v, n) = update(WithNode(h, NULL, n, v, list), n)
  BY DEF pushed, WithNode
<1>6. TailAfter(n) = IF L + 1 = 1 THEN n ELSE list
  BY <1>1, <1>2 DEF TailAfter
<1> HIDE DEF last
<1>7. pushed_back(h, v, n) = update(WithNode(h, last, n, v, NULL), TailAfter(n))
  BY <1>3, <1>4 DEF pushed_back, WithNode
<1> QED
  BY <1>1, <1>2, <1>5, <1>6, <1>7 DEF last

\* With the spare block s of insert_before and insert_after, or without.
LEMMA InsertsAtHead ==
  ASSUME ListInv, NEW r \in BOOLEAN, NEW v \in Values, NEW n \in Nodes \ DOMAIN mem,
         \/ Done(r, pushed(Now, v, n), n)
         \/ \E s \in Nodes \ (DOMAIN mem \cup {n}) : Done(r, free(pushed(calloc(Now, s), v, n), s), n)
  PROVE  Leaves(r, Inserted(Items, 1, v)) /\ stray' = {}
<1>1. \/ Done(r, update(WithNode(Now, NULL, n, v, list), n), n)
      \/ \E s \in Nodes \ (DOMAIN mem \cup {n}) :
           Done(r, free(update(WithNode(calloc(Now, s), NULL, n, v, list), n), s), n)
  BY HeadAndTail
<1>2. 1 \in 1 .. Len(chain) + 1 /\ list = IF 1 = Len(chain) + 1 THEN NULL ELSE chain[1]
  BY HeadAndTail
<1> QED
  BY <1>1, <1>2, InsertsNode

LEMMA InsertsAtTail ==
  ASSUME ListInv, NEW r \in BOOLEAN, NEW v \in Values, NEW n \in Nodes \ DOMAIN mem,
         \/ Done(r, pushed_back(Now, v, n), TailAfter(n))
         \/ \E s \in Nodes \ (DOMAIN mem \cup {n}) :
              Done(r, free(pushed_back(calloc(Now, s), v, n), s), TailAfter(n))
  PROVE  Leaves(r, Inserted(Items, Len(chain) + 1, v)) /\ stray' = {}
<1> DEFINE L == Len(chain)
<1>1. PICK last : last = IF L + 1 = 1 THEN NULL ELSE chain[(L + 1) - 1]
  OBVIOUS
<1>2. \/ Done(r, update(WithNode(Now, last, n, v, NULL), TailAfter(n)), TailAfter(n))
      \/ \E s \in Nodes \ (DOMAIN mem \cup {n}) :
           Done(r, free(update(WithNode(calloc(Now, s), last, n, v, NULL), TailAfter(n)), s), TailAfter(n))
  BY <1>1, HeadAndTail
<1>3. L + 1 \in 1 .. L + 1 /\ TailAfter(n) = IF L + 1 = 1 THEN n ELSE list
  BY HeadAndTail
<1> HIDE DEF L
<1>4. PICK q \in 1 .. L + 1 : q = L + 1
  BY <1>3
<1> QED
  BY <1>1, <1>2, <1>3, <1>4, InsertsNode DEF L

\* insert_after at the tail: the spare block is freed twice.
LEMMA FreedTwice ==
  ASSUME ListInv, NEW v \in Values, NEW n \in Nodes \ DOMAIN mem,
         NEW s \in Nodes \ (DOMAIN mem \cup {n}),
         Done(FALSE, free(free(pushed_back(calloc(Now, s), v, n), s), s), TailAfter(n))
  PROVE  /\ Leaves(FALSE, Inserted(Items, Len(chain) + 1, v))
         /\ stray' = {s} /\ s \notin DOMAIN mem'
<1> DEFINE L == Len(chain)
<1>1. PICK last : last = IF L + 1 = 1 THEN NULL ELSE chain[(L + 1) - 1]
  OBVIOUS
<1>2. PICK m : m = Renumbered(Linked(last, n, v, NULL), TailAfter(n))
  OBVIOUS
<1>3. L + 1 \in 1 .. L + 1 /\ TailAfter(n) = IF L + 1 = 1 THEN n ELSE list
  BY HeadAndTail
<1>4. /\ free(update(WithNode(calloc(Now, s), last, n, v, NULL), TailAfter(n)), s) = H(m, {})
      /\ DOMAIN m = DOMAIN mem \cup {n} /\ m = [k \in DOMAIN m |-> m[k]]
  <2>1. Spot(L + 1, n, last, NULL, TailAfter(n))
    BY <1>1, <1>3 DEF Spot
  <2>2. LinkingGives(m, n, v, last, NULL, TailAfter(n))
    BY <1>2, <2>1, NodeLinked
  <2> QED
    BY <2>2 DEF LinkingGives
<1>5. free(pushed_back(calloc(Now, s), v, n), s) = H(m, {})
  BY <1>1, <1>4, HeadAndTail
<1>6. s \notin DOMAIN m
  BY <1>4
<1>7. free(H(m, {}), s) = H(m, {s})
  <2>1. DOMAIN m \ {s} = DOMAIN m
    BY <1>6
  <2>2. Freed(m, s) = m
    BY <1>4, <2>1 DEF Freed
  <2>3. {} \cup {s} = {s}
    OBVIOUS
  <2> QED
    BY <1>6, <2>2, <2>3, FreesStray
<1>8. Ended(FALSE, m, TailAfter(n)) /\ stray' = {s}
  <2>1. Done(FALSE, H(m, {s}), TailAfter(n))
    BY <1>5, <1>7
  <2> QED
    BY <2>1, DoneIs
<1>9. Updated(FALSE, Linked(last, n, v, NULL), TailAfter(n))
  BY <1>2, <1>8 DEF Updated
<1>10. Leaves(FALSE, Inserted(Items, L + 1, v))
  <2> PICK q \in 1 .. L + 1 : q = L + 1
    BY <1>3
  <2> HIDE DEF L
  <2> QED
    BY <1>1, <1>3, <1>9, Inserts DEF L
<1>11. mem' = m
  BY <1>8 DEF Ended
<1> QED
  BY <1>6, <1>8, <1>10, <1>11

\* With update() behind it, and of the last node without.
LEMMA Removes ==
  ASSUME ListInv, NEW p \in 1 .. Len(chain),
         NEW unlinked,
         unlinked = IF p = 1 THEN mem ELSE [mem EXCEPT ![chain[p - 1]].next = After(chain, p)],
         NEW head, head = IF p = 1 THEN After(chain, 1) ELSE list,
         \/ Updated(TRUE, Freed(unlinked, chain[p]), head)
         \/ /\ p = Len(chain)
            /\ Ended(TRUE, Freed(unlinked, chain[p]), head)
  PROVE  Leaves(TRUE, Removed(Items, p))
<1> DEFINE m == Freed(unlinked, chain[p])
           d == Removed(chain, p)
<1>1. /\ Holds(m, head, d) /\ Data(m, d) = Removed(Data(mem, chain), p)
      /\ p = Len(chain) => Numbered(m, d)
  BY RemoveNode DEF ListInv
<1>2. Updated(TRUE, m, head) \/ (p = Len(chain) /\ Ended(TRUE, m, head))
  OBVIOUS
<1> HIDE DEF m
<1>3. ListInv' /\ chain' = d /\ Data(mem, chain)' = Data(m, d) /\ result' = TRUE
  BY <1>1, <1>2, Updates, EndedAs
<1>4. Items = Data(mem, chain)
  BY ItemsType DEF ListInv
<1>5. Holds(mem', list', chain')
  BY <1>3 DEF ListInv
<1>6. Items' = Data(mem, chain)'
  <2>1. DOMAIN chain' = 1 .. Len(chain')
    BY <1>5, HoldsType
  <2> QED
    BY <2>1 DEF Items, Data
<1> QED
  BY <1>1, <1>3, <1>4, <1>6 DEF Leaves

\* The call, or the spare block, is given up.
LEMMA ChangesNothing ==
  ASSUME ListInv, NEW r \in BOOLEAN,
         \/ Done(r, Now, list)
         \/ \E s \in Nodes \ DOMAIN mem : Done(r, free(calloc(Now, s), s), list)
  PROVE  Leaves(r, Items) /\ stray' = {}
<1>1. mem = [k \in DOMAIN mem |-> mem[k]]
  BY DEF ListInv, Holds, Links
<1>2. ASSUME NEW s \in Nodes \ DOMAIN mem
      PROVE  free(calloc(Now, s), s) = H(mem, {})
  <2> DEFINE b == Spare(s)
  <2>1. s \in DOMAIN b /\ DOMAIN b \ {s} = DOMAIN mem /\ \A k \in DOMAIN mem : b[k] = mem[k]
    BY DEF Spare
  <2> HIDE DEF b
  <2>2. Freed(b, s) = mem
    BY <1>1, <2>1 DEF Freed
  <2> QED
    BY <2>1, <2>2, Allocates, FreesOwn DEF b
<1>3. Done(r, H(mem, {}), list)
  BY <1>2, Allocates
<1>4. Ended(r, mem, list) /\ stray' = {}
  BY <1>3, DoneIs
<1>5. ListInv' /\ chain' = chain /\ result' = r /\ mem' = mem
  BY <1>4, EndedAs DEF ListInv, Ended
<1> QED
  BY <1>4, <1>5 DEF Leaves, Items

------------------------------------------------------------------------------
(* The calls are List's.                                                    *)

LEMMA PushStep ==
  ASSUME ListInv, NEW v \in Values, push(v)
  PROVE  ListInv' /\ stray' = {} /\ Abstract!Push(v)
<1>1. Leaves(TRUE, Inserted(Items, 1, v)) /\ stray' = {}
  BY InsertsAtHead DEF push
<1>2. Items \in Seq(Values) /\ 1 \in 1 .. Len(Items) + 1
  <2>1. Items \in Seq(Values)
    BY ItemsType DEF ListInv
  <2> QED
    BY <2>1
<1>3. Cons(v, Items) = Inserted(Items, 1, v)
  BY <1>2, InsertedSeq
<1> QED
  BY <1>1, <1>3 DEF Leaves, push, Abstract!Push, Abstract!Cons, Cons, Items

LEMMA PushBackStep ==
  ASSUME ListInv, NEW v \in Values, push_back(v)
  PROVE  ListInv' /\ stray' = {} /\ Abstract!PushBack(v)
<1>1. Leaves(TRUE, Inserted(Items, Len(chain) + 1, v)) /\ stray' = {}
  BY InsertsAtTail DEF push_back
<1>2. Items \in Seq(Values) /\ Len(chain) = Len(Items) /\ Len(Items) + 1 \in 1 .. Len(Items) + 1
  <2>1. Items \in Seq(Values) /\ Len(chain) = Len(Items)
    BY ItemsType DEF ListInv
  <2> QED
    BY <2>1
<1>3. Append(Items, v) = Inserted(Items, Len(chain) + 1, v)
  BY <1>2, InsertedSeq
<1> QED
  BY <1>1, <1>3 DEF Leaves, push_back, Abstract!PushBack, Items

LEMMA FindPlace ==
  ASSUME ListInv, NEW i \in Int
  PROVE  /\ Len(chain) \in Nat /\ Len(Items) = Len(chain) /\ Items \in Seq(Values)
         /\ i \in Abstract!Indices => /\ find(i) = i + 1 /\ find(i) \in 1 .. Len(chain)
         /\ i \notin Abstract!Indices => find(i) = 0
<1>1. Len(chain) \in Nat /\ Len(Items) = Len(chain) /\ Items \in Seq(Values)
  BY HoldsType, ItemsType DEF ListInv
<1>2. Abstract!Indices = 0 .. Len(chain) - 1
  BY <1>1 DEF Abstract!Indices, Items
<1>3. find(i) = IF i \in 0 .. Len(chain) - 1 THEN i + 1 ELSE 0
  BY Find DEF ListInv
<1>4. i \in 0 .. Len(chain) - 1 => i + 1 \in 1 .. Len(chain)
  BY <1>1
<1> QED
  BY <1>1, <1>2, <1>3, <1>4

\* The block of push is another one than the spare.
LEMMA SpareIsThere ==
  ASSUME NEW s
  PROVE  DOMAIN calloc(Now, s).mem = DOMAIN mem \cup {s}
<1>1. calloc(Now, s).mem = Spare(s)
  BY Allocates DEF H
<1> QED
  BY <1>1 DEF Spare

LEMMA NoStrays == stray' = {} => Strays'
  BY DEF Strays

LEMMA InsertBeforeStep ==
  ASSUME ListInv, NEW i \in Int, NEW v \in Values, NEW s \in Nodes \ DOMAIN mem, insert_before(i, v, s)
  PROVE  ListInv' /\ stray' = {} /\ Abstract!InsertBefore(i, v)
<1>1. CASE i \notin Abstract!Indices
  <2>1. Done(FALSE, free(calloc(Now, s), s), list)
    <3>1. find(i) = 0
      BY <1>1, FindPlace
    <3>2. 0 # 1 /\ ~(0 > 1)
      OBVIOUS
    <3> QED
      BY <3>1, <3>2, Zenon DEF insert_before
  <2>2. Leaves(FALSE, Items) /\ stray' = {}
    BY <2>1, ChangesNothing
  <2>3. (i \in Abstract!Indices) = FALSE
    BY <1>1
  <2>4. call' = <<"insert_before", i, v>> /\ ListInv' /\ result' = FALSE /\ Items' = Items
    BY <2>2, Zenon DEF Leaves, insert_before
  <2> QED
    BY <1>1, <2>2, <2>3, <2>4, Zenon DEF Abstract!InsertBefore, Items
<1>2. CASE i \in Abstract!Indices
  <2>1. PICK p \in 1 .. Len(chain) : p = find(i) /\ p = i + 1
    BY <1>2, FindPlace
  <2>2. Len(chain) \in Nat /\ Len(Items) = Len(chain) /\ Items \in Seq(Values)
    BY FindPlace
  <2>3. p \in 1 .. Len(chain) + 1 /\ p # Len(chain) + 1 /\ p # 0
    BY <2>2
  <2>4. Leaves(TRUE, Inserted(Items, p, v)) /\ stray' = {}
    <3>1. CASE p = 1
      <4>1. find(i) = 1 /\ 1 # 0 /\ ~(1 > 1)
        BY <2>1, <3>1
      <4>2. PICK n \in Nodes \ DOMAIN calloc(Now, s).mem : Done(TRUE, free(pushed(calloc(Now, s), v, n), s), n)
        BY <4>1, Zenon DEF insert_before
      <4>3. n \in Nodes \ DOMAIN mem /\ s \in Nodes \ (DOMAIN mem \cup {n})
        BY SpareIsThere
      <4> QED
        BY <3>1, <4>2, <4>3, InsertsAtHead
    <3>2. CASE p # 1
      <4>1. p - 1 \in 1 .. Len(chain) /\ p > 1
        BY <2>2, <3>2
      <4> DEFINE linked == SetNext(Fill(calloc(Now, s), s, v, chain[p]), chain[p - 1], s)
      <4>2. Done(TRUE, update(linked, list), list)
        BY <2>1, <2>3, <3>2, <4>1 DEF insert_before
      <4>3. chain[p - 1] # NULL
        BY <4>1, HoldsType, LinkedListAssumption DEF ListInv
      <4>4. linked = WithNode(Now, chain[p - 1], s, v, chain[p])
        BY <4>3 DEF WithNode
      <4> HIDE DEF linked
      <4> QED
        BY <2>3, <3>2, <4>2, <4>4, InsertsNode
    <3> QED
      BY <3>1, <3>2
  <2>5. InsertAt(Items, i + 1, v) = Inserted(Items, p, v)
    BY <2>1, <2>2, <2>3, InsertedSeq
  <2> QED
    BY <1>2, <2>4, <2>5 DEF Leaves, insert_before, Abstract!InsertBefore, Abstract!InsertAt, InsertAt, Items
<1> QED
  BY <1>1, <1>2

LEMMA InsertAfterStep ==
  ASSUME ListInv, NEW i \in Int, NEW v \in Values, NEW s \in Nodes \ DOMAIN mem, insert_after(i, v, s)
  PROVE  ListInv' /\ Strays' /\ Abstract!InsertAfter(i, v)
<1>1. CASE i \notin Abstract!Indices
  <2>1. find(i) = 0
    BY <1>1, FindPlace
  <2>2. Done(FALSE, free(calloc(Now, s), s), list)
    BY <2>1, Zenon DEF insert_after
  <2>3. Leaves(FALSE, Items) /\ stray' = {}
    BY <2>2, ChangesNothing
  <2>4. call' = <<"insert_after", i, v>> /\ ListInv' /\ result' \in BOOLEAN /\ Items' = Items
    BY <2>3, Zenon DEF Leaves, insert_after
  <2> QED
    BY <1>1, <2>3, <2>4, NoStrays, Zenon DEF Abstract!InsertAfter, Items
<1>2. CASE i \in Abstract!Indices
  <2>1. PICK p \in 1 .. Len(chain) : p = find(i) /\ p = i + 1
    BY <1>2, FindPlace
  <2>2. Len(chain) \in Nat /\ Len(Items) = Len(chain) /\ Items \in Seq(Values)
    BY FindPlace
  <2>3. /\ p \in 1 .. Len(chain) /\ p # 0 /\ p + 1 \in 1 .. Len(chain) + 1
        /\ p + 1 # 1 /\ (p + 1) - 1 = p /\ p + 1 = i + 2
        /\ p # Len(chain) => p + 1 # Len(chain) + 1
    BY <2>1, <2>2
  <2>4. Strays' /\ \E r \in BOOLEAN : Leaves(r, Inserted(Items, p + 1, v))
    <3>1. CASE p = Len(chain)
      <4>1. PICK n \in Nodes \ DOMAIN calloc(Now, s).mem :
              Done(FALSE, free(free(pushed_back(calloc(Now, s), v, n), s), s), TailAfter(n))
        BY <2>1, <2>3, <3>1, Zenon DEF insert_after
      <4>2. n \in Nodes \ DOMAIN mem /\ s \in Nodes \ (DOMAIN mem \cup {n})
        BY SpareIsThere
      <4>3. /\ Leaves(FALSE, Inserted(Items, Len(chain) + 1, v))
            /\ stray' = {s} /\ s \notin DOMAIN mem'
        BY <4>1, <4>2, FreedTwice
      <4>4. call'[1] = "insert_after" /\ result' = FALSE
        BY <4>3 DEF insert_after, Leaves
      <4> QED
        BY <3>1, <4>3, <4>4 DEF Strays
    <3>2. CASE p # Len(chain)
      <4> DEFINE linked == SetNext(Fill(calloc(Now, s), s, v, mem[chain[p]].next), chain[p], s)
      <4>1. Done(TRUE, update(linked, list), list)
        BY <2>1, <2>3, <3>2, Zenon DEF insert_after
      <4>2. mem[chain[p]].next = chain[p + 1]
        BY <3>2, <2>3 DEF ListInv, Holds, After
      <4>3. chain[p] # NULL
        BY HoldsType, LinkedListAssumption DEF ListInv
      <4>4. linked = WithNode(Now, chain[(p + 1) - 1], s, v, chain[p + 1])
        BY <2>3, <4>2, <4>3 DEF WithNode
      <4> HIDE DEF linked
      <4>5. Leaves(TRUE, Inserted(Items, p + 1, v)) /\ stray' = {}
        BY <2>3, <3>2, <4>1, <4>4, InsertsNode
      <4> QED
        BY <4>5, NoStrays
    <3> QED
      BY <3>1, <3>2
  <2>5. InsertAt(Items, i + 2, v) = Inserted(Items, p + 1, v)
    BY <2>2, <2>3, InsertedSeq
  <2>6. /\ call' = <<"insert_after", i, v>> /\ ListInv' /\ result' \in BOOLEAN
        /\ Items' = InsertAt(Items, i + 2, v)
    BY <2>4, <2>5, Zenon DEF Leaves, insert_after
  <2> QED
    BY <1>2, <2>4, <2>6, Zenon DEF Abstract!InsertAfter, Abstract!InsertAt, InsertAt, Items
<1> QED
  BY <1>1, <1>2

LEMMA EmptyItems ==
  ASSUME ListInv
  PROVE  /\ Items \in Seq(Values) /\ Len(Items) = Len(chain) /\ Len(chain) \in Nat
         /\ (Items = << >>) <=> Len(chain) = 0
         /\ (Items = << >>) <=> list = NULL
<1>1. Items \in Seq(Values) /\ Len(Items) = Len(chain) /\ Len(chain) \in Nat
  BY ItemsType, HoldsType DEF ListInv
<1>2. (Items = << >>) <=> Len(chain) = 0
  BY <1>1, EmptySeq
<1>3. list = NULL <=> Len(chain) = 0
  BY HeadIsFirst DEF ListInv
<1> QED
  BY <1>1, <1>2, <1>3

\* Freeing a node, and freeing one behind the link of another.
LEMMA FreesLast ==
  ASSUME NEW n \in DOMAIN mem, NEW head
  PROVE  /\ Done(TRUE, update(free(Now, n), head), head) =>
              Updated(TRUE, Freed(mem, n), head) /\ stray' = {}
         /\ Done(TRUE, free(Now, n), head) => Ended(TRUE, Freed(mem, n), head) /\ stray' = {}
<1>1. free(Now, n) = H(Freed(mem, n), {})
  BY Allocates, FreesOwn
<1>2. update(free(Now, n), head) = H(Renumbered(Freed(mem, n), head), {})
  BY <1>1, UpdatesIt
<1> QED
  BY <1>1, <1>2, DoneIs DEF Updated

LEMMA FreesNext ==
  ASSUME ListInv, NEW b \in DOMAIN mem, NEW n \in DOMAIN mem, NEW x, NEW head
  PROVE  LET unlinked == [mem EXCEPT ![b].next = x]
         IN  /\ Done(TRUE, update(free(SetNext(Now, b, x), n), head), head) =>
                  Updated(TRUE, Freed(unlinked, n), head) /\ stray' = {}
             /\ Done(TRUE, free(SetNext(Now, b, x), n), head) =>
                  Ended(TRUE, Freed(unlinked, n), head) /\ stray' = {}
<1> DEFINE unlinked == [mem EXCEPT ![b].next = x]
<1>1. SetNext(Now, b, x) = H(unlinked, {})
  <2>1. unlinked = [k \in DOMAIN mem |-> IF k = b THEN [mem[k] EXCEPT !.next = x] ELSE mem[k]]
    OBVIOUS
  <2> QED
    BY <2>1, Allocates, SetsNext
<1>2. n \in DOMAIN unlinked
  OBVIOUS
<1> HIDE DEF unlinked
<1>3. free(SetNext(Now, b, x), n) = H(Freed(unlinked, n), {})
  BY <1>1, <1>2, FreesOwn
<1>4. update(free(SetNext(Now, b, x), n), head) = H(Renumbered(Freed(unlinked, n), head), {})
  BY <1>3, UpdatesIt
<1>5. \A r, m : Done(r, H(m, {}), head) => Ended(r, m, head) /\ stray' = {}
  BY DoneIs
<1>6. /\ Done(TRUE, update(free(SetNext(Now, b, x), n), head), head) =>
           Updated(TRUE, Freed(unlinked, n), head) /\ stray' = {}
      /\ Done(TRUE, free(SetNext(Now, b, x), n), head) =>
           Ended(TRUE, Freed(unlinked, n), head) /\ stray' = {}
  BY <1>3, <1>4, <1>5 DEF Updated
<1> QED
  BY <1>6 DEF unlinked

LEMMA PopStep ==
  ASSUME ListInv, pop
  PROVE  ListInv' /\ stray' = {} /\ Abstract!Pop
<1>1. CASE list = NULL
  <2>1. Done(FALSE, Now, list)
    BY <1>1, Zenon DEF pop
  <2>2. Leaves(FALSE, Items) /\ stray' = {}
    BY <2>1, ChangesNothing
  <2>3. Items = << >> /\ (Items # << >>) = FALSE
    BY <1>1, EmptyItems
  <2>4. call' = <<"pop">> /\ ListInv' /\ result' = FALSE /\ Items' = Items
    BY <2>2, Zenon DEF Leaves, pop
  <2> QED
    BY <2>2, <2>3, <2>4, Zenon DEF Abstract!Pop, Items
<1>2. CASE list # NULL
  <2>2. list = chain[1] /\ 1 \in 1 .. Len(chain) /\ list \in DOMAIN mem
    BY <1>2, HeadIsFirst, HoldsType DEF ListInv
  <2>1. Updated(TRUE, Freed(mem, list), mem[list].next) /\ stray' = {}
    <3>1. Done(TRUE, update(free(Now, list), mem[list].next), mem[list].next)
      BY <1>2, Zenon DEF pop
    <3> QED
      BY <2>2, <3>1, FreesLast
  <2>3. mem[list].next = After(chain, 1)
    BY <2>2 DEF ListInv, Holds
  <2>4. Leaves(TRUE, Removed(Items, 1))
    BY <2>1, <2>2, <2>3, Removes
  <2>5. Items # << >> /\ (Items # << >>) = TRUE
    BY <1>2, EmptyItems
  <2>6. Tail(Items) = Removed(Items, 1)
    BY <2>2, EmptyItems, RemovedSeq
  <2>7. call' = <<"pop">> /\ ListInv' /\ result' = TRUE /\ Items' = Tail(Items)
    BY <2>4, <2>6, Zenon DEF Leaves, pop
  <2> QED
    BY <2>1, <2>5, <2>7, Zenon DEF Abstract!Pop, Items
<1> QED
  BY <1>1, <1>2

LEMMA PopIndexStep ==
  ASSUME ListInv, NEW i \in Int, pop_index(i)
  PROVE  ListInv' /\ stray' = {} /\ Abstract!PopIndex(i)
<1>1. CASE i \notin Abstract!Indices \/ find(i) < 2
  <2>1. find(i) < 2 /\ find(i) # 2 /\ ~(find(i) > 2)
    BY <1>1, FindPlace
  <2>2. Done(FALSE, Now, list)
    BY <2>1, Zenon DEF pop_index
  <2>3. Leaves(FALSE, Items) /\ stray' = {}
    BY <2>2, ChangesNothing
  <2>4. call' = <<"pop", i>> /\ ListInv' /\ result' = FALSE /\ Items' = Items
    BY <2>3, Zenon DEF Leaves, pop_index
  <2> QED
    BY <2>3, <2>4, Zenon DEF Abstract!PopIndex, Items
<1>2. CASE i \in Abstract!Indices /\ ~(find(i) < 2)
  <2>1. PICK p \in 1 .. Len(chain) : p = find(i) /\ p = i + 1
    BY <1>2, FindPlace
  <2>2. Len(chain) \in Nat /\ Len(Items) = Len(chain) /\ Items \in Seq(Values)
    BY FindPlace
  <2>3. /\ ~(p < 2) /\ (p = 2 \/ p > 2)
        /\ p - 1 \in 1 .. Len(chain) /\ p - 1 # Len(chain) /\ (p - 1) + 1 = p
        /\ p = 2 => ~(p > 2) /\ p - 1 = 1
        /\ p > 2 => p # 2 /\ p - 1 # 1 /\ (p - 1) - 1 = p - 2
    BY <1>2, <2>1, <2>2
  <2>4. After(chain, p - 1) = chain[p]
    BY <2>3 DEF After
  <2>5. Leaves(TRUE, Removed(Items, p - 1)) /\ stray' = {}
    <3>1. CASE p = 2
      <4>2. list = chain[1] /\ chain[1] \in DOMAIN mem
        BY <2>3, <3>1, HoldsType DEF ListInv, Holds
      <4>1. Updated(TRUE, Freed(mem, list), chain[2]) /\ stray' = {}
        <5>1. Done(TRUE, update(free(Now, chain[1]), chain[2]), chain[2])
          BY <2>1, <2>3, <3>1, Zenon DEF pop_index
        <5> QED
          BY <4>2, <5>1, FreesLast
      <4> QED
        BY <2>3, <2>4, <3>1, <4>1, <4>2, Removes
    <3>2. CASE p > 2
      <4> DEFINE unlinked == [mem EXCEPT ![chain[p - 2]].next = chain[p]]
      <4>3. NodeAt(find(mem[chain[p - 1]].index - 1)) = chain[p - 2]
        <5>1. mem[chain[p - 1]].index = (p - 1) - 1
          BY <2>3 DEF ListInv, Numbered
        <5>2. (p - 1) - 1 - 1 \in 0 .. Len(chain) - 1 /\ ((p - 1) - 1 - 1) + 1 = p - 2 /\ p - 2 # 0
          BY <2>2, <2>3, <3>2
        <5>3. find(mem[chain[p - 1]].index - 1) = p - 2
          BY <5>1, <5>2, Find DEF ListInv
        <5> QED
          BY <5>2, <5>3 DEF NodeAt
      <4>4. p - 2 \in 1 .. Len(chain)
        BY <2>2, <2>3, <3>2
      <4>1. Updated(TRUE, Freed(unlinked, chain[p - 1]), list) /\ stray' = {}
        <5>1. Done(TRUE, update(free(SetNext(Now, chain[p - 2], chain[p]), chain[p - 1]), list), list)
          BY <2>1, <2>3, <3>2, <4>3, Zenon DEF pop_index
        <5>2. chain[p - 2] \in DOMAIN mem /\ chain[p - 1] \in DOMAIN mem
          BY <2>3, <4>4, HoldsType DEF ListInv
        <5> QED
          BY <5>1, <5>2, FreesNext
      <4>2. unlinked = [mem EXCEPT ![chain[(p - 1) - 1]].next = After(chain, p - 1)]
        BY <2>3, <2>4, <3>2
      <4> HIDE DEF unlinked
      <4> QED
        BY <2>3, <3>2, <4>1, <4>2, Removes
    <3> QED
      BY <2>3, <3>1, <3>2
  <2>6. PICK j \in Abstract!Indices : RemoveAt(Items, j + 1) = Removed(Items, p - 1)
    <3>1. Abstract!Indices = 0 .. Len(chain) - 1
      BY <2>2 DEF Abstract!Indices, Items
    <3>2. p - 2 \in Abstract!Indices /\ (p - 2) + 1 = p - 1
      BY <2>1, <2>2, <2>3, <3>1
    <3>3. RemoveAt(Items, p - 1) = Removed(Items, p - 1)
      BY <2>2, <2>3, RemovedSeq
    <3> QED
      BY <3>2, <3>3
  <2>7. call' = <<"pop", i>> /\ ListInv' /\ result' = TRUE /\ Items' = RemoveAt(Items, j + 1)
    BY <2>5, <2>6, Zenon DEF Leaves, pop_index
  <2> QED
    BY <1>2, <2>5, <2>7, Zenon DEF Abstract!PopIndex, Abstract!RemoveAt, RemoveAt, Items
<1> QED
  BY <1>1, <1>2

LEMMA PopBackStep ==
  ASSUME ListInv, pop_back
  PROVE  ListInv' /\ stray' = {} /\ Abstract!PopBack
<1> DEFINE L == Len(chain)
<1>1. CASE list = NULL
  <2>1. L = 0 /\ L # 1 /\ ~(L > 1)
    BY <1>1, HeadIsFirst DEF ListInv
  <2>2. Done(FALSE, Now, list)
    BY <1>1, <2>1, Zenon DEF pop_back
  <2>3. Leaves(FALSE, Items) /\ stray' = {}
    BY <2>2, ChangesNothing
  <2>4. Items = << >> /\ (Items # << >>) = FALSE
    BY <1>1, EmptyItems
  <2>5. call' = <<"pop_back">> /\ ListInv' /\ result' = FALSE /\ Items' = Items
    BY <2>3, Zenon DEF Leaves, pop_back
  <2> QED
    BY <2>3, <2>4, <2>5, Zenon DEF Abstract!PopBack, Items
<1>2. CASE list # NULL
  <2>1. /\ list = chain[1] /\ L \in Nat /\ L \in 1 .. L
        /\ L = 1 \/ L > 1
        /\ L = 1 => ~(L > 1)
        /\ L > 1 => L # 1
    <3>1. list = chain[1] /\ L \in Nat /\ L >= 1
      BY <1>2, HeadIsFirst DEF ListInv
    <3> QED
      BY <3>1
  <2>2. After(chain, L) = NULL
    BY DEF After
  <2>7. chain[L] \in DOMAIN mem
    BY <2>1, HoldsType DEF ListInv
  <2>3. Leaves(TRUE, Removed(Items, L)) /\ stray' = {}
    <3>1. CASE L = 1
      <4>1. Ended(TRUE, Freed(mem, list), NULL) /\ stray' = {}
        <5>1. Done(TRUE, free(Now, list), NULL)
          BY <1>2, <2>1, <3>1, Zenon DEF pop_back
        <5> QED
          BY <2>1, <2>7, <3>1, <5>1, FreesLast
      <4> QED
        BY <2>1, <2>2, <3>1, <4>1, Removes
    <3>2. CASE L > 1
      <4> DEFINE unlinked == [mem EXCEPT ![chain[L - 1]].next = NULL]
      <4>1. Ended(TRUE, Freed(unlinked, chain[L]), list) /\ stray' = {}
        <5>1. Done(TRUE, free(SetNext(Now, chain[L - 1], NULL), chain[L]), list)
          BY <1>2, <2>1, <3>2, Zenon DEF pop_back, Last
        <5>2. chain[L - 1] \in DOMAIN mem
          <6>1. L - 1 \in 1 .. L
            BY <2>1, <3>2
          <6> QED
            BY <6>1, HoldsType DEF ListInv
        <5> QED
          BY <2>7, <5>1, <5>2, FreesNext
      <4>2. unlinked = [mem EXCEPT ![chain[L - 1]].next = After(chain, L)]
        BY <2>2
      <4> HIDE DEF unlinked
      <4> QED
        BY <2>1, <3>2, <4>1, <4>2, Removes
    <3> QED
      BY <2>1, <3>1, <3>2
  <2>4. Items # << >> /\ (Items # << >>) = TRUE
    BY <1>2, EmptyItems
  <2>5. Front(Items) = Removed(Items, L)
    BY <2>1, EmptyItems, RemovedSeq
  <2>6. call' = <<"pop_back">> /\ ListInv' /\ result' = TRUE /\ Items' = Front(Items)
    BY <2>3, <2>5, Zenon DEF Leaves, pop_back
  <2> QED
    BY <2>3, <2>4, <2>6, Zenon DEF Abstract!PopBack, Abstract!Front, Front, Items
<1> QED
  BY <1>1, <1>2

\* A list without nodes.
LEMMA NoNodes ==
  ASSUME NEW m, DOMAIN m = {}, m = [n \in DOMAIN m |-> m[n]]
  PROVE  Holds(m, NULL, << >>) /\ Numbered(m, << >>) /\ Data(m, << >>) = << >>
<1>1. << >> \in Seq(DOMAIN m) /\ Len(<< >>) = 0 /\ 1 .. 0 = {}
  BY EmptySeq
<1>2. Links(m)
  BY DEF Links
<1>3. Data(m, << >>) = << >>
  BY <1>1 DEF Data
<1> QED
  BY <1>1, <1>2, <1>3 DEF Holds, Numbered

LEMMA ClearStep ==
  ASSUME ListInv, clear
  PROVE  ListInv' /\ stray' = {} /\ Abstract!Clear
<1> DEFINE m == [n \in DOMAIN mem \ ToSet(chain) |-> mem[n]]
<1>1. DOMAIN m = {} /\ m = [n \in DOMAIN m |-> m[n]]
  <2>1. \A n \in DOMAIN mem : n \in ToSet(chain)
    BY HoldsType DEF ListInv, Holds, ToSet
  <2> QED
    BY <2>1
<1>5. ToSet(chain) \ DOMAIN mem = {}
  BY HoldsType DEF ListInv, ToSet
<1>2. Ended(TRUE, m, NULL) /\ stray' = {} /\ call' = <<"clear">>
  <2>1. Done(TRUE, H(m, {}), NULL) /\ call' = <<"clear">>
    BY <1>5 DEF clear, H
  <2> HIDE DEF m
  <2> QED
    BY <2>1, DoneIs
<1> HIDE DEF m
<1>3. ListInv' /\ chain' = << >> /\ result' = TRUE
  BY <1>1, <1>2, NoNodes, EndedAs
<1>4. Items' = << >>
  BY <1>3 DEF Items
<1> QED
  BY <1>2, <1>3, <1>4 DEF Abstract!Clear, Items

------------------------------------------------------------------------------
(* The theorems.                                                            *)

AbstractNext == Abstract!Next \/ UNCHANGED <<Items, call, result>>

LEMMA IndicesAreInt == \A i \in Indices : i \in Int
  BY NodeCount DEF Indices

LEMMA ListStep == ListInv /\ Strays /\ [Next]_vars => ListInv' /\ Strays' /\ AbstractNext
<1> SUFFICES ASSUME ListInv, Strays, [Next]_vars PROVE ListInv' /\ Strays' /\ AbstractNext
  OBVIOUS
<1>1. ASSUME NEW v \in Values, push(v) \/ push_back(v)
      PROVE  ListInv' /\ Strays' /\ AbstractNext
  BY <1>1, PushStep, PushBackStep, NoStrays DEF AbstractNext, Abstract!Next
<1>2. ASSUME NEW v \in Values, NEW s \in Nodes \ DOMAIN mem, NEW i \in Indices,
             insert_before(i, v, s) \/ insert_after(i, v, s)
      PROVE  ListInv' /\ Strays' /\ AbstractNext
  <2>1. \/ ListInv' /\ Strays' /\ Abstract!InsertBefore(i, v)
        \/ ListInv' /\ Strays' /\ Abstract!InsertAfter(i, v)
    BY <1>2, IndicesAreInt, InsertBeforeStep, InsertAfterStep, NoStrays
  <2> QED
    BY <2>1 DEF AbstractNext, Abstract!Next
<1>3. CASE pop \/ pop_back \/ clear
  BY <1>3, PopStep, PopBackStep, ClearStep, NoStrays DEF AbstractNext, Abstract!Next
<1>4. ASSUME NEW i \in Indices, pop_index(i)
      PROVE  ListInv' /\ Strays' /\ AbstractNext
  <2>1. ListInv' /\ Strays' /\ Abstract!PopIndex(i)
    BY <1>4, IndicesAreInt, PopIndexStep, NoStrays
  <2> QED
    BY <2>1 DEF AbstractNext, Abstract!Next
<1>5. CASE UNCHANGED vars
  <2>1. UNCHANGED <<mem, list, stray, call, result>> /\ chain' = chain
    BY <1>5 DEF vars, chain
  <2> QED
    BY <2>1 DEF ListInv, Strays, AbstractNext, Items
<1> QED
  BY <1>1, <1>2, <1>3, <1>4, <1>5 DEF Next

LEMMA ListInit == Init => ListInv /\ Strays /\ Abstract!Init
<1> SUFFICES ASSUME Init PROVE ListInv /\ Strays /\ Abstract!Init
  OBVIOUS
<1>1. /\ mem = << >> /\ list = NULL /\ stray = {} /\ call = << >> /\ result = TRUE /\ DOMAIN mem = {}
      /\ mem = [n \in DOMAIN mem |-> mem[n]]
  BY DEF Init
<1>2. Holds(mem, list, << >>) /\ Numbered(mem, << >>)
  BY <1>1, NoNodes
<1>3. chain = << >>
  BY <1>2, Arranged DEF chain
<1>4. Items = << >>
  BY <1>3 DEF Items
<1> QED
  BY <1>1, <1>2, <1>3, <1>4 DEF ListInv, Strays, Abstract!Init, Items

\* The inductive invariant.
THEOREM ListInvariant == Spec => [](ListInv /\ Strays)
<1>1. ListInv /\ Strays /\ [Next]_vars => (ListInv /\ Strays)'
  BY ListStep
<1> QED
  BY <1>1, ListInit, PTL DEF Spec

\* The links, the head and the stray addresses keep their types.
THEOREM TypeCorrect == Spec => []TypeOK
<1>1. ListInv /\ Strays => TypeOK
  <2> SUFFICES ASSUME ListInv, Strays PROVE TypeOK
    OBVIOUS
  <2>1. Links(mem) /\ DOMAIN mem \subseteq Nodes
    BY DEF ListInv, Holds, Links
  <2>2. list \in Nodes \cup {NULL}
    BY HeadIsFirst, HoldsType DEF ListInv
  <2>3. mem \in [DOMAIN mem -> Link]
    BY <2>1 DEF Links
  <2> QED
    BY <2>1, <2>2, <2>3 DEF TypeOK, Strays
<1> QED
  BY <1>1, ListInvariant, PTL

\* After any calls operator[] finds just the elements of the list, each at its distance
\* from the head, although pop_back leaves out update().
THEOREM FoundByPosition == Spec => []FindsByPosition
<1>1. ListInv => FindsByPosition
  BY Find, IndicesAreInt DEF ListInv, FindsByPosition
<1> QED
  BY <1>1, ListInvariant, PTL

\* No call loses a block of the heap, and none that is linked is freed.  The spare block
\* of insert_before and insert_after (linked_list.hpp:55,84) becomes a node or is freed
\* (linked_list.hpp:70,80,98,109), no call writes through a null pointer, and only
\* insert_after, where it returns false, frees a block twice, which is none of the list's.
THEOREM NoBlockLost == Spec => []HoldsItsNodes
<1>1. ListInv /\ Strays => HoldsItsNodes
  <2> SUFFICES ASSUME ListInv, Strays PROVE HoldsItsNodes
    OBVIOUS
  <2>1. DOMAIN chain = 1 .. Len(chain) /\ \A p \in 1 .. Len(chain) : chain[p] \in DOMAIN mem
    BY HoldsType DEF ListInv
  <2>2. DOMAIN mem = ToSet(chain)
    <3>1. \A n \in DOMAIN mem : \E p \in DOMAIN chain : n = chain[p]
      BY <2>1 DEF ListInv, Holds
    <3>2. \A p \in DOMAIN chain : chain[p] \in DOMAIN mem
      BY <2>1
    <3> QED
      BY <3>1, <3>2 DEF ToSet
  <2>3. IsInjective(chain)
    BY <2>1 DEF ListInv, Holds, IsInjective
  <2>4. stray \cap (ToSet(chain) \cup {NULL}) = {}
    BY <2>2, LinkedListAssumption DEF Strays
  <2> QED
    BY <2>2, <2>3, <2>4 DEF HoldsItsNodes, Strays
<1> QED
  BY <1>1, ListInvariant, PTL

\* LinkedList is a sequence: every call has the effect and the result of List's.
THEOREM Refinement == Spec => ImplementsList
<1>1. ListInv /\ Strays /\ [Next]_vars => [Abstract!Next]_<<Items, call, result>>
  BY ListStep DEF AbstractNext
<1> QED
  BY <1>1, ListInit, ListInvariant, PTL DEF Spec, ImplementsList, Abstract!Spec, Items

==============================================================================
