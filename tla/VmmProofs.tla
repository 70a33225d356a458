------------------------------ MODULE VmmProofs ------------------------------
(***************************************************************************)
(* The page tables, for tables of any size, any RAM and what it holds, and *)
(* any calls that do not mix page sizes (NotMixed; NeverMixed for the      *)
(* refinement of AddressSpace).                                            *)
(*                                                                         *)
(* The inductive invariant gives every table a level, a path (the entries  *)
(* that lead to it) and the one entry that points to it.  The walk of a    *)
(* call is at a table whose path is the beginning of its own, and the MMU  *)
(* finds the same table on that path.                                      *)
(***************************************************************************)
EXTENDS Vmm, SparkMathProofs, FiniteSetTheorems

------------------------------------------------------------------------------
(* The invariant.  L gives the level of each table, A its path, of which    *)
(* only the levels above count, and U the entry that points to it.          *)

\* What is left of c after k steps.
Left(c, k) == [op |-> c.op, virt |-> PageAt(c, k), phys |-> c.phys + k * Stride(c),
               count |-> c.count - k, perms |-> c.perms]

Points(e) == e.addr # 0 /\ LARGE \notin e.flags

Child(L, A, U, t, i, u) ==
  /\ u \in DOMAIN L /\ L[u] = L[t] - 1
  /\ U[u] = <<t, i>>
  /\ A[u][L[t]] = i /\ Agree(A[u], A[t], L[t] + 1)

EntryOK(L, A, U, t, i, e) ==
  /\ L[t] >= 2 /\ Points(e) => Child(L, A, U, t, i, e.addr)
  /\ LARGE \in e.flags =>
       /\ L[t] = 2 /\ PRESENT \in e.flags
       /\ InAnyHuge([A[t] EXCEPT ![2] = i])
       /\ e.addr # 0 => InHuge([A[t] EXCEPT ![2] = i])
  /\ L[t] >= 2 /\ ~Points(e) /\ LARGE \notin e.flags => e = Zero
  /\ L[t] = 1 /\ PRESENT \notin e.flags => e = Zero
  /\ L[t] >= 2 /\ Points(e) /\ PRESENT \in e.flags /\ MapsForWriting => WRITE \in e.flags

TableOK(given, L, A, top, t) ==
  /\ t \in Ram /\ t \in given
  /\ L[t] \in 1 .. 4
  /\ L[t] = 4 => t = top
  /\ A[t] \in Path
  /\ L[t] = 1 => InSmall(A[t])

Tree(m, given, top, L, A, U) ==
  /\ top \in DOMAIN L /\ L[top] = 4
  /\ \A t \in DOMAIN L : TableOK(given, L, A, top, t)
  /\ \A t \in DOMAIN L, i \in Indices : EntryOK(L, A, U, t, i, m[t][i])

Given == UNION {Pages!FramesOf(h) : h \in held}

\* The walk of the call has come to a table on its path.
Walk(L, A, U) ==
  /\ pc \in {"walk", "flags", "clear"} /\ tab # Null =>
       /\ tab \in DOMAIN L /\ L[tab] = level
       /\ level >= Leaf
       /\ Agree(A[tab], offs, level + 1)
  /\ pc \in {"flags", "clear"} =>
       /\ tab # Null /\ level > Leaf
       /\ call.op \in MapOps
       /\ Points(entry) /\ Child(L, A, U, tab, offs[level], entry.addr)

\* An entry on the way of the path o leads from the table t of a level to the table u.
Leads(m, o, lev, t, u) ==
  /\ PRESENT \in m[t][o[lev]].flags /\ LARGE \notin m[t][o[lev]].flags
  /\ u = m[t][o[lev]].addr

\* The MMU, on its way along the path o, comes to the table t of a level.
Reached(m, top, o, lev, t) ==
  \/ lev = 4 /\ t = top
  \/ lev = 3 /\ Leads(m, o, 4, top, t)
  \/ lev = 2 /\ \E t3 : Leads(m, o, 4, top, t3) /\ Leads(m, o, 3, t3, t)
  \/ lev = 1 /\ \E t3, t2 : /\ Leads(m, o, 4, top, t3) /\ Leads(m, o, 3, t3, t2)
                             /\ Leads(m, o, 2, t2, t)

\* The MMU takes the way of the walk: every table but one whose flags are still to be
\* set is present.
Rooted(L) ==
  /\ pc \in {"walk", "flags", "clear"} /\ tab # Null =>
       Reached(Settled, kernel_pml4, offs, level, tab)
  /\ \A t \in DOMAIN L, i \in Indices :
       L[t] >= 2 /\ Points(Settled[t][i]) =>
         PRESENT \in Settled[t][i].flags \/ (pc = "flags" /\ t = tab /\ i = offs[level])

CallInv == call = NoCall \/ \E c \in Calls : \E k \in Steps(c) : call = Left(c, k)

VmmInv ==
  /\ TypeOK
  /\ CallInv
  /\ pc \in {"walk", "flags", "clear"} => call # NoCall
  /\ pc \in {"boot", "idle"} => call = NoCall
  /\ reserved = 0 .. MemoryBase - 1
  /\ pc = "boot" => held = {} /\ boot = 0 /\ cr3 = Null
  /\ pc # "boot" => kernel_pml4 # 0
  /\ pc # "boot" => \E L, A, U : /\ Tree(Settled, Given, kernel_pml4, L, A, U)
                                 /\ Walk(L, A, U) /\ Rooted(L)

------------------------------------------------------------------------------
(* Addresses and calls.                                                     *)

LEMMA SpanType ==
  /\ \A lev \in 1 .. 4 : Span(lev) \in Nat \ {0}
  /\ Span(1) = 1 /\ Span(2) = Slots
<1>1. Slots \in Nat \ {0}
  BY VmmAssumption
<1>2. Slots * Slots \in Nat \ {0} /\ Slots * Slots * Slots \in Nat \ {0}
  BY <1>1
<1>3. Span(1) = 1 /\ Span(2) = Slots /\ Span(3) = Slots * Slots /\ Span(4) = Slots * Slots * Slots
  BY DEF Span
<1> QED
  BY <1>1, <1>2, <1>3

LEMMA PathType ==
  ASSUME NEW v \in Nat
  PROVE  virtual_to_entries(v) \in Path
<1>1. ASSUME NEW lev \in 1 .. 4 PROVE (v \div Span(lev)) % Slots \in Indices
  <2>1. Span(lev) \in Nat \ {0}
    BY SpanType
  <2>2. v \div Span(lev) \in Nat
    BY <2>1, Quotient
  <2> QED
    BY <2>2, VmmAssumption DEF Indices
<1> QED
  BY <1>1 DEF virtual_to_entries, Path

LEMMA CallsType == Calls \subseteq CallType
<1>1. KernelRequest \in CallType /\ PhysRequest \in CallType
  BY VmmAssumption DEF KernelRequest, PhysRequest, Request, CallType
<1> QED
  BY <1>1, VmmAssumption DEF Calls

LEMMA StrideIsSpan ==
  ASSUME NEW c, call.op = c.op
  PROVE  /\ Stride(c) = Span(Leaf) /\ Stride(c) \in Nat \ {0}
         /\ Leaf = IF c.op \in HugeOps THEN 2 ELSE 1
  BY SpanType, VmmAssumption DEF Stride, Leaf

LEMMA LeftType ==
  ASSUME NEW c \in Calls, NEW k \in Steps(c)
  PROVE  /\ Left(c, k) \in CallType
         /\ k \in Nat /\ PageAt(c, k) \in Nat
<1>1. c \in CallType
  BY CallsType
<1>2. c.virt \in Nat /\ c.phys \in Nat /\ c.count \in Nat \ {0} /\ c.perms \in SUBSET {WRITE}
  BY <1>1 DEF CallType
<1>3. Stride(c) \in Nat
  BY VmmAssumption DEF Stride
<1>4. k \in Nat /\ k * Stride(c) \in Nat /\ c.count - k \in Nat \ {0}
  BY <1>2, <1>3 DEF Steps
<1>5. PageAt(c, k) \in Nat /\ c.phys + k * Stride(c) \in Nat
  BY <1>2, <1>4 DEF PageAt
<1>6. c.op \in {"map", "unmap", "update", "map_huge", "unmap_huge", "update_huge"}
  BY <1>1 DEF CallType
<1>7. Left(c, k) \in CallType
  BY <1>2, <1>4, <1>5, <1>6, Zenon DEF Left, CallType
<1> QED
  BY <1>4, <1>5, <1>7

LEMMA LeftZero ==
  ASSUME NEW c \in Calls
  PROVE  Left(c, 0) = c /\ 0 \in Steps(c)
<1>1. c \in CallType
  BY CallsType
<1>2. c.virt \in Nat /\ c.phys \in Nat /\ c.count \in Nat \ {0}
  BY <1>1 DEF CallType
<1>3. Stride(c) \in Nat
  BY VmmAssumption DEF Stride
<1>4. c = [op |-> c.op, virt |-> c.virt, phys |-> c.phys, count |-> c.count, perms |-> c.perms]
  BY <1>1 DEF CallType
<1>5. PageAt(c, 0) = c.virt /\ c.phys + 0 * Stride(c) = c.phys /\ c.count - 0 = c.count
  BY <1>2, <1>3 DEF PageAt
<1>6. 0 \in Steps(c)
  BY <1>2 DEF Steps
<1> QED
  BY <1>4, <1>5, <1>6 DEF Left

\* The call in progress.
LEMMA CallIs ==
  ASSUME CallInv, call # NoCall
  PROVE  \E c \in Calls : \E k \in Steps(c) :
           /\ call = Left(c, k) /\ call.op = c.op /\ call.perms = c.perms
           /\ call.virt = PageAt(c, k)
           /\ call.virt \in Nat /\ offs = virtual_to_entries(PageAt(c, k)) /\ offs \in Path
  BY LeftType, PathType DEF CallInv, Left, offs

\* The path of the call is one of those a call with its page size takes.
LEMMA CallPath ==
  ASSUME CallInv, call # NoCall, NEW p, Agree(p, offs, 2)
  PROVE  /\ call.op \notin HugeOps => InSmall(p)
         /\ call.op \in {"map_huge", "update_huge"} => InAnyHuge(p)
         /\ call.op \in {"map_huge", "update_huge"} /\ (call.op = "map_huge" => call.phys # 0) => InHuge(p)
<1>1. PICK c \in Calls : \E k \in Steps(c) : call = Left(c, k)
  BY DEF CallInv
<1>2. PICK k \in Steps(c) : call = Left(c, k)
  BY <1>1
<1>3. /\ call.op = c.op /\ call.phys = c.phys + k * Stride(c)
      /\ offs = virtual_to_entries(PageAt(c, k))
  BY <1>2 DEF Left, offs
<1>4. Agree(virtual_to_entries(PageAt(c, k)), p, 2)
  BY <1>3 DEF Agree
<1> QED
  BY <1>3, <1>4 DEF InHuge, InAnyHuge, InSmall

------------------------------------------------------------------------------
(* Changes of a tree.                                                       *)

\* What holds of a table does not depend on other entries.
LEMMA TreeTable ==
  ASSUME NEW m, NEW given, NEW top, NEW L, NEW A, NEW U, Tree(m, given, top, L, A, U),
         NEW t \in DOMAIN L
  PROVE  /\ t \in Ram /\ t \in given /\ L[t] \in 1 .. 4 /\ A[t] \in Path
         /\ L[t] = 4 => t = top
         /\ \A i \in Indices : EntryOK(L, A, U, t, i, m[t][i])
  BY DEF Tree, TableOK

\* An entry that is written.
LEMMA EntryStep ==
  ASSUME NEW m, m \in [Ram -> [Indices -> Entry]], NEW given, NEW top, NEW L, NEW A, NEW U,
         Tree(m, given, top, L, A, U),
         NEW t \in DOMAIN L, NEW j \in Indices, NEW e \in Entry, EntryOK(L, A, U, t, j, e)
  PROVE  /\ [m EXCEPT ![t][j] = e] \in [Ram -> [Indices -> Entry]]
         /\ Tree([m EXCEPT ![t][j] = e], given, top, L, A, U)
<1> DEFINE m2 == [m EXCEPT ![t][j] = e]
<1>1. t \in Ram
  BY TreeTable
<1>2. m2 \in [Ram -> [Indices -> Entry]]
  BY <1>1
<1>3. ASSUME NEW s \in DOMAIN L, NEW i \in Indices
      PROVE  m2[s][i] = IF s = t /\ i = j THEN e ELSE m[s][i]
  <2>1. s \in Ram
    BY TreeTable
  <2> QED
    BY <1>1, <2>1
<1> HIDE DEF m2
<1>4. ASSUME NEW s \in DOMAIN L, NEW i \in Indices
      PROVE  EntryOK(L, A, U, s, i, m2[s][i])
  BY <1>3, TreeTable
<1>5. Tree(m2, given, top, L, A, U)
  BY <1>4 DEF Tree
<1> QED
  BY <1>2, <1>5 DEF m2

\* The tables m2 are m with the empty page n below t, on the path p.
Adds(m, given, top, L, A, U, t, p, n, m2) ==
  /\ m \in [Ram -> [Indices -> Entry]] /\ m2 \in [Ram -> [Indices -> Entry]]
  /\ Tree(m, given, top, L, A, U)
  /\ t \in DOMAIN L /\ p \in Path
  /\ L[t] >= 2 /\ Agree(A[t], p, L[t] + 1) /\ (L[t] = 2 => InSmall(p))
  /\ n \in Ram /\ n # 0 /\ n \notin given
  /\ \A s \in DOMAIN L, i \in Indices :
       m2[s][i] = IF s = t /\ i = p[L[t]] THEN [addr |-> n, flags |-> {}] ELSE m[s][i]
  /\ \A i \in Indices : m2[n][i] = Zero

Grown(L, A, t, p, n, L2, A2, U2) ==
  /\ DOMAIN L2 = DOMAIN L \cup {n}
  /\ \A s \in DOMAIN L : L2[s] = L[s] /\ A2[s] = A[s]
  /\ Child(L2, A2, U2, t, p[L[t]], n)

\* They form a tree with one table more.
LEMMA TableStep ==
  ASSUME NEW m, NEW given, NEW top, NEW L, NEW A, NEW U, NEW t, NEW p, NEW n, NEW m2,
         Adds(m, given, top, L, A, U, t, p, n, m2)
  PROVE  \E L2, A2, U2 : /\ Tree(m2, given \cup {n}, top, L2, A2, U2)
                         /\ Grown(L, A, t, p, n, L2, A2, U2)
<1> USE DEF Adds
<1> DEFINE j == p[L[t]]
           T2 == DOMAIN L \cup {n}
           L2 == [s \in T2 |-> IF s = n THEN L[t] - 1 ELSE L[s]]
           A2 == [s \in T2 |-> IF s = n THEN p ELSE A[s]]
           U2 == [s \in T2 |-> IF s = n THEN <<t, j>> ELSE U[s]]
<1>1. n \notin DOMAIN L
  BY TreeTable
<1>2. \A s \in DOMAIN L : s \in T2 /\ L2[s] = L[s] /\ A2[s] = A[s] /\ U2[s] = U[s]
  BY <1>1
<1>3. n \in T2 /\ L2[n] = L[t] - 1 /\ A2[n] = p /\ U2[n] = <<t, j>> /\ DOMAIN L2 = T2
  OBVIOUS
<1>4. L[t] \in 2 .. 4 /\ L[t] - 1 \in 1 .. 3
  BY TreeTable
<1>14. j = p[L[t]] /\ j \in Indices
  BY <1>4 DEF Path
<1> HIDE DEF L2, A2, U2, j
<1>5. Child(L2, A2, U2, t, j, n)
  BY <1>2, <1>3, <1>4, <1>14 DEF Child, Agree
<1>6. ASSUME NEW s \in DOMAIN L, NEW i \in Indices, NEW u, Child(L, A, U, s, i, u)
      PROVE  Child(L2, A2, U2, s, i, u)
  BY <1>2, <1>3, <1>6 DEF Child
<1>7. ASSUME NEW s \in DOMAIN L, NEW i \in Indices, NEW e, EntryOK(L, A, U, s, i, e)
      PROVE  EntryOK(L2, A2, U2, s, i, e)
  BY <1>2, <1>6, <1>7 DEF EntryOK
<1>8. EntryOK(L2, A2, U2, t, j, [addr |-> n, flags |-> {}])
  BY <1>2, <1>4, <1>5 DEF EntryOK, Points, PRESENT, LARGE
<1>9. ASSUME NEW i \in Indices PROVE EntryOK(L2, A2, U2, n, i, Zero)
  BY <1>3, <1>4 DEF EntryOK, Points, Zero, PRESENT, LARGE
<1>10. \A s \in T2, i \in Indices : EntryOK(L2, A2, U2, s, i, m2[s][i])
  <2>1. ASSUME NEW s \in DOMAIN L, NEW i \in Indices PROVE EntryOK(L2, A2, U2, s, i, m2[s][i])
    <3>1. EntryOK(L, A, U, s, i, m[s][i])
      BY TreeTable
    <3> QED
      BY <3>1, <1>7, <1>8, <1>14
  <2> QED
    BY <2>1, <1>9
<1>11. \A s \in T2 : TableOK(given \cup {n}, L2, A2, top, s)
  <2>1. ASSUME NEW s \in DOMAIN L PROVE TableOK(given \cup {n}, L2, A2, top, s)
    BY <1>2 DEF Tree, TableOK
  <2>2. TableOK(given \cup {n}, L2, A2, top, n)
    BY <1>3, <1>4 DEF TableOK
  <2> QED
    BY <2>1, <2>2
<1>12. top \in T2 /\ L2[top] = 4
  BY <1>2 DEF Tree
<1>13. Tree(m2, given \cup {n}, top, L2, A2, U2)
  BY <1>3, <1>10, <1>11, <1>12 DEF Tree
<1>15. Grown(L, A, t, p, n, L2, A2, U2)
  BY <1>2, <1>3, <1>5, <1>14 DEF Grown
<1> QED
  BY <1>13, <1>15

------------------------------------------------------------------------------
(* The way of the MMU.                                                      *)

\* The table t is of the level and on the way of the path o.
On(L, A, o, lev, t) == t \in DOMAIN L /\ L[t] = lev /\ Agree(A[t], o, lev + 1)

\* An entry that leads to a table leads to the next one on the way.
LEMMA LeadsOn ==
  ASSUME NEW m, NEW given, NEW top, NEW L, NEW A, NEW U, Tree(m, given, top, L, A, U),
         NEW o \in Path, NEW lev \in 2 .. 4, NEW t, NEW u,
         On(L, A, o, lev, t), Leads(m, o, lev, t, u)
  PROVE  On(L, A, o, lev - 1, u)
<1>1. t \in DOMAIN L /\ L[t] = lev /\ Agree(A[t], o, lev + 1) /\ o[lev] \in Indices
  BY DEF On, Path
<1>2. EntryOK(L, A, U, t, o[lev], m[t][o[lev]])
  BY <1>1, TreeTable
<1>3. PRESENT \in m[t][o[lev]].flags /\ LARGE \notin m[t][o[lev]].flags /\ u = m[t][o[lev]].addr
  BY DEF Leads
<1>4. m[t][o[lev]] # Zero
  BY <1>3 DEF Zero
<1>5. L[t] >= 2
  BY <1>1
<1>6. Child(L, A, U, t, o[lev], u)
  BY <1>2, <1>3, <1>4, <1>5, Zenon DEF EntryOK
<1>7. u \in DOMAIN L /\ L[u] = lev - 1 /\ A[u][lev] = o[lev] /\ Agree(A[u], A[t], lev + 1)
  BY <1>1, <1>6 DEF Child
<1>8. \A l \in 1 .. 4 : l >= (lev - 1) + 1 => l = lev \/ l >= lev + 1
  OBVIOUS
<1> QED
  BY <1>1, <1>7, <1>8 DEF On, Agree

\* The top table is on every way.
LEMMA TopOn ==
  ASSUME NEW m, NEW given, NEW top, NEW L, NEW A, NEW U, Tree(m, given, top, L, A, U), NEW o
  PROVE  On(L, A, o, 4, top)
  BY DEF Tree, On, Agree

\* So are the tables the MMU comes to.
LEMMA ReachedOn ==
  ASSUME NEW m, NEW given, NEW top, NEW L, NEW A, NEW U, Tree(m, given, top, L, A, U),
         NEW o \in Path, NEW lev, NEW t, Reached(m, top, o, lev, t)
  PROVE  lev \in 1 .. 4 /\ On(L, A, o, lev, t)
<1>1. \A u : Leads(m, o, 4, top, u) => On(L, A, o, 3, u)
  BY TopOn, LeadsOn
<1>2. \A u, w : On(L, A, o, 3, u) /\ Leads(m, o, 3, u, w) => On(L, A, o, 2, w)
  BY LeadsOn
<1>3. \A u, w : On(L, A, o, 2, u) /\ Leads(m, o, 2, u, w) => On(L, A, o, 1, w)
  BY LeadsOn
<1> QED
  BY <1>1, <1>2, <1>3, TopOn DEF Reached

\* One entry further.
LEMMA ReachedNext ==
  ASSUME NEW m, NEW top, NEW o, NEW lev \in 2 .. 4, NEW t, NEW u,
         Reached(m, top, o, lev, t), Leads(m, o, lev, t, u)
  PROVE  Reached(m, top, o, lev - 1, u)
<1>1. CASE lev = 4
  BY <1>1 DEF Reached
<1>2. CASE lev = 3
  BY <1>2 DEF Reached
<1>3. CASE lev = 2
  BY <1>3 DEF Reached
<1> QED
  BY <1>1, <1>2, <1>3

\* The entries of the tables of a level and below do not matter for the way there.
LEMMA ReachedSame ==
  ASSUME NEW m, NEW given, NEW top, NEW L, NEW A, NEW U, Tree(m, given, top, L, A, U),
         NEW o \in Path, NEW lev, NEW t, Reached(m, top, o, lev, t), NEW m2,
         \A s \in DOMAIN L, i \in Indices : L[s] > lev => m2[s][i] = m[s][i]
  PROVE  Reached(m2, top, o, lev, t)
<1>1. ASSUME NEW l \in 2 .. 4, l > lev, NEW u, NEW w, On(L, A, o, l, u), Leads(m, o, l, u, w)
      PROVE  On(L, A, o, l - 1, w) /\ Leads(m2, o, l, u, w)
  <2>1. m2[u][o[l]] = m[u][o[l]]
    BY <1>1 DEF On, Path
  <2> QED
    BY <1>1, <2>1, LeadsOn DEF Leads
<1>2. CASE lev = 4
  BY <1>2 DEF Reached
<1>3. CASE lev = 3
  BY <1>1, <1>3, TopOn DEF Reached
<1>4. CASE lev = 2
  <2>1. PICK t3 : Leads(m, o, 4, top, t3) /\ Leads(m, o, 3, t3, t)
    BY <1>4 DEF Reached
  <2>2. On(L, A, o, 3, t3) /\ Leads(m2, o, 4, top, t3)
    BY <1>1, <1>4, <2>1, TopOn
  <2>3. Leads(m2, o, 3, t3, t)
    BY <1>1, <1>4, <2>1, <2>2
  <2> QED
    BY <1>4, <2>2, <2>3 DEF Reached
<1>5. CASE lev = 1
  <2>1. PICK t3, t2 : /\ Leads(m, o, 4, top, t3) /\ Leads(m, o, 3, t3, t2)
                      /\ Leads(m, o, 2, t2, t)
    BY <1>5 DEF Reached
  <2>2. On(L, A, o, 3, t3) /\ Leads(m2, o, 4, top, t3)
    BY <1>1, <1>5, <2>1, TopOn
  <2>3. On(L, A, o, 2, t2) /\ Leads(m2, o, 3, t3, t2)
    BY <1>1, <1>5, <2>1, <2>2
  <2>4. Leads(m2, o, 2, t2, t)
    BY <1>1, <1>5, <2>1, <2>3
  <2> QED
    BY <1>5, <2>2, <2>3, <2>4 DEF Reached
<1> QED
  BY <1>2, <1>3, <1>4, <1>5 DEF Reached

------------------------------------------------------------------------------
(* The steps of a walk.                                                     *)

LEMMA SettledMem == pc \notin {"flags", "clear"} => Settled = mem
  BY DEF Settled

LEMMA LeastFree ==
  ASSUME reserved = 0 .. MemoryBase - 1, Free # {}
  PROVE  Min(Free) \in Ram /\ Min(Free) # 0 /\ Min(Free) \notin Given /\ Min(Free) \in Nat
<1>1. Free \subseteq 1 .. LastFrame
  BY VmmAssumption DEF Free, Pages!Places
<1> HIDE DEF Free
<1>6. Free \subseteq Nat
  BY <1>1
<1>2. \E x \in Free : \A y \in Free : x <= y
  BY <1>6, NatMinimum
<1>3. Min(Free) \in Free
  BY <1>2 DEF Min
<1>4. PICK n \in 1 .. LastFrame : n = Min(Free)
  BY <1>1, <1>3
<1>5. (n .. n + 1 - 1) \cap (reserved \cup Given) = {}
  BY <1>3, <1>4 DEF Free, Pages!Places, Given
<1>7. n \in n .. n + 1 - 1
  OBVIOUS
<1> QED
  BY <1>4, <1>5, <1>7 DEF Ram

LEMMA GivenStep ==
  ASSUME NEW n \in Nat, Pages!Allocate([idx |-> n, count |-> 1])
  PROVE  Given' = Given \cup {n}
<1>1. held' = held \cup {[idx |-> n, count |-> 1]}
  BY DEF Pages!Allocate
<1>2. Pages!FramesOf([idx |-> n, count |-> 1]) = {n}
  BY DEF Pages!FramesOf
<1>3. Given' = UNION {Pages!FramesOf(h) : h \in held'}
  BY DEF Given, Pages!FramesOf
<1> HIDE DEF Given
<1>4. Given = UNION {Pages!FramesOf(h) : h \in held}
  BY DEF Given
<1> QED
  BY <1>1, <1>2, <1>3, <1>4, Zenon

\* The table a walk is at, and the entry it looks at.
LEMMA AtEntry ==
  ASSUME VmmInv, pc \in {"walk", "flags", "clear"}, tab # Null, NEW L, NEW A, NEW U,
         Tree(Settled, Given, kernel_pml4, L, A, U), Walk(L, A, U)
  PROVE  /\ tab \in DOMAIN L /\ tab \in Ram /\ tab \in Given
         /\ L[tab] = level /\ level \in 1 .. 4 /\ level >= Leaf /\ Leaf \in {1, 2}
         /\ A[tab] \in Path /\ offs \in Path /\ offs[level] \in Indices
         /\ Agree(A[tab], offs, level + 1)
         /\ entry = mem[tab][offs[level]] /\ entry \in Entry
         /\ pc = "walk" => EntryOK(L, A, U, tab, offs[level], entry)
<1>1. tab \in DOMAIN L /\ L[tab] = level /\ level >= Leaf /\ Agree(A[tab], offs, level + 1)
  BY DEF Walk
<1>2. /\ tab \in Ram /\ tab \in Given /\ level \in 1 .. 4 /\ A[tab] \in Path
      /\ \A i \in Indices : EntryOK(L, A, U, tab, i, Settled[tab][i])
  BY <1>1, TreeTable
<1>3. offs \in Path
  BY CallIs DEF VmmInv
<1>4. offs[level] \in Indices
  BY <1>2, <1>3 DEF Path
<1>5. entry = mem[tab][offs[level]] /\ entry \in Entry
  BY <1>2, <1>4 DEF VmmInv, TypeOK, entry
<1>6. Leaf \in {1, 2}
  BY DEF Leaf
<1> QED
  BY <1>1, <1>2, <1>3, <1>4, <1>5, <1>6, SettledMem

\* A walk that has to go on never takes a huge page for a table.
LEMMA NoHugePage ==
  ASSUME VmmInv, NotMixed, AtTable, NEW L, NEW A, NEW U,
         Tree(Settled, Given, kernel_pml4, L, A, U), Walk(L, A, U)
  PROVE  /\ level \in 2 .. 4
         /\ level = 2 => call.op \notin HugeOps /\ InSmall(offs)
         /\ entry.addr # 0 => Points(entry) /\ Child(L, A, U, tab, offs[level], entry.addr)
<1>1. pc = "walk" /\ tab # Null /\ level > Leaf
  BY DEF AtTable
<1>2. level \in 2 .. 4 /\ L[tab] = level /\ EntryOK(L, A, U, tab, offs[level], entry)
      /\ A[tab] \in Path /\ offs \in Path /\ Agree(A[tab], offs, level + 1)
  BY <1>1, AtEntry
<1>3. CallInv /\ call # NoCall
  BY <1>1 DEF VmmInv
<1>4. level = 2 => call.op \notin HugeOps
  BY <1>1 DEF Leaf
<1>5. Agree(offs, offs, 2)
  BY DEF Agree
<1>6. level = 2 => InSmall(offs)
  BY <1>3, <1>4, <1>5, CallPath
<1>7. ASSUME LARGE \in entry.flags, entry.addr # 0 PROVE FALSE
  <2>1. level = 2 /\ InHuge([A[tab] EXCEPT ![2] = offs[2]])
    BY <1>2, <1>7 DEF EntryOK
  <2> DEFINE p == [A[tab] EXCEPT ![2] = offs[2]]
  <2>2. p \in Path
    BY <1>2 DEF Path
  <2>3. \A l \in 1 .. 4 : l >= 2 => p[l] = offs[l]
    BY <1>2, <2>1 DEF Agree, Path
  <2>4. InSmall(p)
    <3>1. Agree(p, offs, 2)
      BY <2>3 DEF Agree
    <3> HIDE DEF p
    <3> QED
      BY <2>1, <1>3, <1>4, <3>1, CallPath
  <2> QED
    BY <2>1, <2>2, <2>4 DEF NotMixed
<1>8. entry.addr # 0 => Points(entry)
  BY <1>7 DEF Points
<1> QED
  BY <1>2, <1>4, <1>6, <1>7, <1>8 DEF EntryOK

\* The next table on the path.
LEMMA NextTable ==
  ASSUME NEW L, NEW A, NEW U, NEW t, NEW p, NEW u, L[t] \in 2 .. 4,
         Agree(A[t], p, L[t] + 1), Child(L, A, U, t, p[L[t]], u)
  PROVE  u \in DOMAIN L /\ L[u] = L[t] - 1 /\ Agree(A[u], p, L[t])
<1>1. u \in DOMAIN L /\ L[u] = L[t] - 1 /\ A[u][L[t]] = p[L[t]] /\ Agree(A[u], A[t], L[t] + 1)
  BY DEF Child
<1>2. \A l \in 1 .. 4 : l >= L[t] => l = L[t] \/ l >= L[t] + 1
  OBVIOUS
<1> QED
  BY <1>1, <1>2 DEF Agree

LEMMA DescendStep ==
  ASSUME VmmInv, NotMixed, Descend
  PROVE  VmmInv'
<1>1. AtTable /\ entry.addr # 0 /\ tab' = entry.addr /\ level' = level - 1
      /\ pc = "walk" /\ pc' = "walk" /\ tab # Null
      /\ UNCHANGED <<kernel_pml4, cr3, boot, call, result, mem, held, reserved>>
  BY DEF Descend, AtTable, walkVars
<1>2. PICK L, A, U : /\ Tree(Settled, Given, kernel_pml4, L, A, U) /\ Walk(L, A, U)
                     /\ Rooted(L)
  BY <1>1 DEF VmmInv
<1>3. level \in 2 .. 4 /\ L[tab] = level /\ Agree(A[tab], offs, level + 1)
      /\ Child(L, A, U, tab, offs[level], entry.addr)
  BY <1>1, <1>2, NoHugePage, AtEntry
<1>4. entry.addr \in DOMAIN L /\ L[entry.addr] = level - 1 /\ Agree(A[entry.addr], offs, level)
  <2>1. Agree(A[tab], offs, L[tab] + 1) /\ Child(L, A, U, tab, offs[L[tab]], entry.addr)
    BY <1>3
  <2> HIDE DEF entry, offs
  <2>2. entry.addr \in DOMAIN L /\ L[entry.addr] = L[tab] - 1 /\ Agree(A[entry.addr], offs, L[tab])
    BY <1>3, <2>1, NextTable
  <2> QED
    BY <1>3, <2>2
<1>5. entry.addr \in Ram
  BY <1>2, <1>4, TreeTable
<1>6. level - 1 \in 1 .. 4 /\ (level - 1) + 1 = level /\ level - 1 >= Leaf
  BY <1>1, <1>3 DEF AtTable, Leaf
<1>7. TypeOK'
  BY <1>1, <1>5, <1>6 DEF VmmInv, TypeOK
<1>8. offs' = offs /\ Leaf' = Leaf
  BY <1>1 DEF offs, Leaf, virtual_to_entries
<1>9. Walk(L, A, U)'
  BY <1>1, <1>4, <1>6, <1>8 DEF Walk
<1>10. Settled' = Settled /\ Given' = Given
  BY <1>1, SettledMem DEF Settled, Given, Pages!FramesOf
<1>11. Rooted(L)'
  <2>1. PICK m, o, lev : m = Settled /\ o = offs /\ lev = level
    OBVIOUS
  <2>2. o \in Path /\ lev \in 2 .. 4 /\ m = mem /\ o[lev] \in Indices /\ entry = m[tab][o[lev]]
        /\ tab \in DOMAIN L /\ L[tab] >= 2 /\ Points(entry)
    BY <1>1, <1>2, <1>3, <2>1, AtEntry, NoHugePage, SettledMem
  <2>3. PRESENT \in entry.flags /\ LARGE \notin entry.flags
    BY <1>1, <1>2, <2>1, <2>2 DEF Rooted, Points
  <2> HIDE DEF entry
  <2>4. Leads(m, o, lev, tab, entry.addr)
    BY <2>2, <2>3 DEF Leads
  <2>5. Reached(m, kernel_pml4, o, lev - 1, entry.addr)
    BY <1>1, <1>2, <2>1, <2>2, <2>4, ReachedNext DEF Rooted
  <2> QED
    BY <1>1, <1>2, <1>8, <1>10, <2>1, <2>5 DEF Rooted
<1> QED
  BY <1>1, <1>2, <1>7, <1>9, <1>10, <1>11 DEF VmmInv, CallInv

LEMMA SameGiven == held' = held => Given' = Given
  BY DEF Given, Pages!FramesOf

\* Nothing the call sets out from changes.
LEMMA SameCall ==
  call' = call => offs' = offs /\ Leaf' = Leaf
  BY DEF offs, Leaf, virtual_to_entries

LEMMA AllocTableStep ==
  ASSUME VmmInv, NotMixed, AllocTable
  PROVE  VmmInv'
<1> DEFINE n == Min(Free)
           j == offs[level]
           e == [addr |-> n, flags |-> {}]
<1>1. /\ AtTable /\ pc = "walk" /\ tab # Null /\ level > Leaf /\ pc' = "flags"
      /\ call.op \in MapOps /\ entry.addr = 0 /\ Free # {}
      /\ Pages!Allocate([idx |-> n, count |-> 1])
      /\ mem' = [mem EXCEPT ![tab][j] = e]
      /\ UNCHANGED <<kernel_pml4, cr3, boot, call, result, tab, level>>
  BY DEF AllocTable, AtTable, walkVars
<1>2. PICK L, A, U : /\ Tree(Settled, Given, kernel_pml4, L, A, U) /\ Walk(L, A, U)
                     /\ Rooted(L)
  BY <1>1 DEF VmmInv
<1>3. /\ tab \in DOMAIN L /\ tab \in Ram /\ L[tab] = level /\ j \in Indices
      /\ offs \in Path /\ Agree(A[tab], offs, level + 1)
  BY <1>1, <1>2, AtEntry
<1>4. level \in 2 .. 4 /\ (level = 2 => InSmall(offs))
  BY <1>1, <1>2, NoHugePage
<1>5. n \in Ram /\ n # 0 /\ n \notin Given /\ n \in Nat
  BY <1>1, LeastFree DEF VmmInv
<1>6. Given' = Given \cup {n} /\ reserved' = reserved
  BY <1>1, <1>5, GivenStep DEF Pages!Allocate
<1> HIDE DEF n
<1>7. mem \in [Ram -> [Indices -> Entry]] /\ Settled = mem /\ e \in Entry /\ Empty \in [Indices -> Entry]
  BY <1>1, <1>5, SettledMem DEF VmmInv, TypeOK, Entry, Empty, Zero
<1>8. offs' = offs /\ Leaf' = Leaf
  BY <1>1, SameCall
<1>9. mem' \in [Ram -> [Indices -> Entry]] /\ mem'[tab][j] = e
  BY <1>1, <1>3, <1>7
<1>10. entry' = e /\ entry'.addr = n
  BY <1>1, <1>8, <1>9 DEF entry
<1>11. Settled' = [mem' EXCEPT ![n] = Empty]
  BY <1>1, <1>10 DEF Settled, Empty, Zero, Indices
<1>12. Settled' \in [Ram -> [Indices -> Entry]] /\ \A i \in Indices : Settled'[n][i] = Zero
  BY <1>5, <1>7, <1>9, <1>11 DEF Empty
<1>13. ASSUME NEW s \in DOMAIN L, NEW i \in Indices
       PROVE  Settled'[s][i] = IF s = tab /\ i = j THEN e ELSE mem[s][i]
  <2>1. s \in Ram /\ s # n
    BY <1>2, <1>5, TreeTable
  <2> QED
    BY <1>1, <1>3, <1>7, <1>9, <1>11, <2>1
<1>14. level >= 2
  BY <1>4
<1>15. Tree(mem, Given, kernel_pml4, L, A, U)
  BY <1>2, <1>7
<1>16. Adds(mem, Given, kernel_pml4, L, A, U, tab, offs, n, Settled')
  <2>1. L[tab] >= 2 /\ Agree(A[tab], offs, L[tab] + 1) /\ (L[tab] = 2 => InSmall(offs))
    BY <1>3, <1>4, <1>14
  <2>2. \A s \in DOMAIN L, i \in Indices :
          Settled'[s][i] = IF s = tab /\ i = offs[L[tab]] THEN [addr |-> n, flags |-> {}] ELSE mem[s][i]
    BY <1>3, <1>13
  <2> QED
    BY <1>3, <1>5, <1>7, <1>12, <1>15, <2>1, <2>2, Zenon DEF Adds
<1>17. \E L2, A2, U2 : /\ Tree(Settled', Given \cup {n}, kernel_pml4, L2, A2, U2)
                       /\ Grown(L, A, tab, offs, n, L2, A2, U2)
  BY <1>16, TableStep, Zenon
<1>18. PICK L2, A2, U2 :
         /\ Tree(Settled', Given', kernel_pml4', L2, A2, U2)
         /\ DOMAIN L2 = DOMAIN L \cup {n}
         /\ \A s \in DOMAIN L : L2[s] = L[s] /\ A2[s] = A[s]
         /\ Child(L2, A2, U2, tab, j, n)
  BY <1>1, <1>3, <1>6, <1>17, Zenon DEF Grown
<1>19. Points(entry')
  BY <1>5, <1>10 DEF Points
<1>20. Walk(L2, A2, U2)'
  <2>1. /\ tab' \in DOMAIN L2 /\ L2[tab'] = level' /\ Agree(A2[tab'], offs', level' + 1)
        /\ Child(L2, A2, U2, tab', offs'[level'], entry'.addr)
    BY <1>1, <1>3, <1>8, <1>10, <1>18
  <2>2. level' > Leaf' /\ level' >= Leaf' /\ tab' # Null /\ call'.op \in MapOps
    BY <1>1, <1>4, <1>8 DEF Leaf
  <2> HIDE DEF entry, e, j
  <2> QED
    BY <1>19, <2>1, <2>2 DEF Walk
<1>22. Rooted(L2)'
  <2>1. PICK m, m2, o : m = Settled /\ m2 = Settled' /\ o = offs
    OBVIOUS
  <2>2. o \in Path /\ m = mem /\ Reached(m, kernel_pml4, o, level, tab)
    BY <1>1, <1>2, <1>3, <1>7, <2>1 DEF Rooted
  <2>3. \A s \in DOMAIN L, i \in Indices : L[s] > level => m2[s][i] = m[s][i]
    <3>1. ASSUME NEW s \in DOMAIN L, NEW i \in Indices, L[s] > level PROVE m2[s][i] = m[s][i]
      <4>1. s # tab
        BY <1>3, <1>4, <3>1
      <4> QED
        BY <1>7, <1>13, <2>1, <4>1
    <3> QED
      BY <3>1
  <2>4. Reached(m2, kernel_pml4, o, level, tab)
    BY <1>2, <2>1, <2>2, <2>3, ReachedSame
  <2>5. ASSUME NEW t \in DOMAIN L2, NEW i \in Indices, L2[t] >= 2, Points(m2[t][i]),
               ~(t = tab /\ i = j)
        PROVE  PRESENT \in m2[t][i].flags
    <3>1. t # n
      BY <1>12, <2>1, <2>5 DEF Points, Zero
    <3>2. t \in DOMAIN L /\ L[t] >= 2 /\ m2[t][i] = m[t][i]
      BY <1>7, <1>13, <1>18, <2>1, <2>5, <3>1
    <3> QED
      BY <1>1, <1>2, <2>1, <2>5, <3>2 DEF Rooted
  <2> HIDE DEF j
  <2>6. offs' = o /\ kernel_pml4' = kernel_pml4 /\ level' = level /\ tab' = tab /\ pc' = "flags"
        /\ j = o[level]
    BY <1>1, <1>8, <2>1 DEF j
  <2> QED
    BY <2>1, <2>4, <2>5, <2>6 DEF Rooted
<1>21. TypeOK' /\ CallInv' /\ reserved' = 0 .. MemoryBase - 1
  BY <1>1, <1>6, <1>9 DEF VmmInv, TypeOK, CallInv
<1> QED
  BY <1>1, <1>18, <1>20, <1>21, <1>22 DEF VmmInv

\* The table that a walk has put below the one it is at.
LEMMA NewTable ==
  ASSUME VmmInv, pc \in {"flags", "clear"}, NEW L, NEW A, NEW U,
         Tree(Settled, Given, kernel_pml4, L, A, U), Walk(L, A, U)
  PROVE  /\ tab # Null /\ tab \in DOMAIN L /\ tab \in Ram /\ L[tab] = level
         /\ level \in 2 .. 4 /\ level - 1 >= Leaf /\ level > Leaf
         /\ offs[level] \in Indices /\ Agree(A[tab], offs, level + 1)
         /\ entry.addr \in DOMAIN L /\ entry.addr \in Ram /\ entry.addr # tab
         /\ L[entry.addr] = level - 1 /\ Agree(A[entry.addr], offs, level)
         /\ Points(entry) /\ Child(L, A, U, tab, offs[level], entry.addr)
         /\ entry \in Entry /\ entry = mem[tab][offs[level]]
         /\ Settled = [mem EXCEPT ![entry.addr] = Empty]
         /\ Settled \in [Ram -> [Indices -> Entry]] /\ Settled[tab][offs[level]] = entry
<1>1. tab # Null /\ level > Leaf /\ Points(entry) /\ Child(L, A, U, tab, offs[level], entry.addr)
  BY DEF Walk
<1>2. /\ tab \in DOMAIN L /\ tab \in Ram /\ L[tab] = level /\ offs[level] \in Indices
      /\ Agree(A[tab], offs, level + 1) /\ entry \in Entry /\ entry = mem[tab][offs[level]]
      /\ level \in 1 .. 4 /\ Leaf \in {1, 2}
  BY <1>1, AtEntry
<1>3. level \in 2 .. 4 /\ level - 1 >= Leaf
  BY <1>1, <1>2
<1>4. entry.addr \in DOMAIN L /\ L[entry.addr] = level - 1 /\ Agree(A[entry.addr], offs, level)
  <2>1. /\ L[tab] \in 2 .. 4 /\ Agree(A[tab], offs, L[tab] + 1)
        /\ Child(L, A, U, tab, offs[L[tab]], entry.addr)
    BY <1>1, <1>2, <1>3
  <2> HIDE DEF entry, offs
  <2>2. entry.addr \in DOMAIN L /\ L[entry.addr] = L[tab] - 1 /\ Agree(A[entry.addr], offs, L[tab])
    BY <2>1, NextTable
  <2> QED
    BY <1>2, <2>2
<1>5. entry.addr \in Ram /\ entry.addr # tab
  BY <1>2, <1>3, <1>4, TreeTable
<1>6. Settled = [mem EXCEPT ![entry.addr] = Empty]
  BY DEF Settled
<1>7. Settled \in [Ram -> [Indices -> Entry]] /\ Settled[tab][offs[level]] = entry
  <2>1. Empty \in [Indices -> Entry]
    BY DEF Empty, Entry, Zero
  <2>2. mem \in [Ram -> [Indices -> Entry]]
    BY DEF VmmInv, TypeOK
  <2> QED
    BY <1>2, <1>5, <1>6, <2>1, <2>2
<1> QED
  BY <1>1, <1>2, <1>3, <1>4, <1>5, <1>6, <1>7

LEMMA ClearTableStep ==
  ASSUME VmmInv, ClearTable
  PROVE  VmmInv'
<1>1. /\ pc = "clear" /\ pc' = "walk" /\ mem' = [mem EXCEPT ![entry.addr] = Empty]
      /\ tab' = entry.addr /\ level' = level - 1
      /\ UNCHANGED <<kernel_pml4, cr3, boot, call, result, held, reserved>>
  BY DEF ClearTable, walkVars
<1>2. PICK L, A, U : /\ Tree(Settled, Given, kernel_pml4, L, A, U) /\ Walk(L, A, U)
                     /\ Rooted(L)
  BY <1>1 DEF VmmInv
<1>3. /\ level \in 2 .. 4 /\ level - 1 >= Leaf
      /\ entry.addr \in DOMAIN L /\ entry.addr \in Ram
      /\ L[entry.addr] = level - 1 /\ Agree(A[entry.addr], offs, level)
      /\ Settled = [mem EXCEPT ![entry.addr] = Empty] /\ Settled \in [Ram -> [Indices -> Entry]]
  BY <1>1, <1>2, NewTable
<1>4. Settled' = mem' /\ mem' = Settled /\ Given' = Given
  BY <1>1, <1>3, SameGiven DEF Settled
<1>5. offs' = offs /\ Leaf' = Leaf
  BY <1>1, SameCall
<1>6. tab' \in DOMAIN L /\ L[tab'] = level' /\ level' >= Leaf' /\ Agree(A[tab'], offs', level' + 1)
  BY <1>1, <1>3, <1>5
<1>7. Walk(L, A, U)'
  BY <1>1, <1>6 DEF Walk
<1>8. TypeOK' /\ CallInv'
  BY <1>1, <1>3, <1>4 DEF VmmInv, TypeOK, CallInv
<1>9. Rooted(L)'
  <2>1. PICK m, o, lev : m = Settled /\ o = offs /\ lev = level
    OBVIOUS
  <2>2. /\ tab \in DOMAIN L /\ L[tab] = lev /\ lev \in 2 .. 4 /\ o[lev] \in Indices
        /\ Points(entry) /\ m[tab][o[lev]] = entry /\ tab # Null
    BY <1>1, <1>2, <2>1, NewTable
  <2>3. PRESENT \in entry.flags /\ LARGE \notin entry.flags
    BY <1>1, <1>2, <2>1, <2>2 DEF Rooted, Points
  <2> HIDE DEF entry
  <2>4. Leads(m, o, lev, tab, entry.addr)
    BY <2>2, <2>3 DEF Leads
  <2>5. Reached(m, kernel_pml4, o, lev - 1, entry.addr)
    BY <1>1, <1>2, <2>1, <2>2, <2>4, ReachedNext DEF Rooted
  <2> QED
    BY <1>1, <1>2, <1>4, <1>5, <2>1, <2>5 DEF Rooted
<1> QED
  BY <1>1, <1>2, <1>4, <1>7, <1>8, <1>9 DEF VmmInv

LEMMA SetFlagsStep ==
  ASSUME VmmInv, SetFlags
  PROVE  VmmInv'
<1> DEFINE j == offs[level]
           e == [entry EXCEPT !.flags = call.perms \cup {PRESENT}]
<1>1. /\ pc = "flags" /\ pc' = "clear"
      /\ mem' = [mem EXCEPT ![tab][j].flags = call.perms \cup {PRESENT}]
      /\ UNCHANGED <<kernel_pml4, cr3, boot, call, result, held, reserved, tab, level>>
  BY DEF SetFlags, walkVars
<1>2. PICK L, A, U : /\ Tree(Settled, Given, kernel_pml4, L, A, U) /\ Walk(L, A, U)
                     /\ Rooted(L)
  BY <1>1 DEF VmmInv
<1>3. /\ tab # Null /\ tab \in DOMAIN L /\ tab \in Ram /\ L[tab] = level
      /\ level \in 2 .. 4 /\ level > Leaf
      /\ j \in Indices /\ Agree(A[tab], offs, level + 1)
      /\ entry.addr \in Ram /\ entry.addr # tab
      /\ Points(entry) /\ Child(L, A, U, tab, j, entry.addr)
      /\ entry \in Entry /\ entry = mem[tab][j]
      /\ Settled = [mem EXCEPT ![entry.addr] = Empty]
      /\ Settled \in [Ram -> [Indices -> Entry]] /\ Settled[tab][j] = entry
  BY <1>1, <1>2, NewTable
<1>4. call.op \in MapOps /\ call.perms \in SUBSET {WRITE} /\ call # NoCall
  <2>1. call \in CallType /\ call # NoCall
    BY <1>1 DEF VmmInv, TypeOK
  <2> QED
    BY <1>1, <1>2, <2>1 DEF Walk, CallType
<1>5. MapsForWriting => WRITE \in call.perms
  BY <1>4, CallIs DEF MapsForWriting, VmmInv
<1>6. e \in Entry /\ e.addr = entry.addr /\ e.flags = call.perms \cup {PRESENT}
  BY <1>3, <1>4 DEF Entry
<1>7. LARGE \notin e.flags /\ PRESENT \in e.flags /\ Points(e)
  BY <1>3, <1>4, <1>6 DEF Points, LARGE, PRESENT, WRITE
<1>8. mem \in [Ram -> [Indices -> Entry]]
  BY DEF VmmInv, TypeOK
<1>9. mem' = [mem EXCEPT ![tab][j] = e] /\ mem' \in [Ram -> [Indices -> Entry]] /\ mem'[tab][j] = e
  BY <1>1, <1>3, <1>6, <1>8
<1>10. offs' = offs /\ Leaf' = Leaf
  BY <1>1, SameCall
<1>11. entry' = e
  BY <1>1, <1>9, <1>10 DEF entry
<1> HIDE DEF e
<1>12. Settled' = [mem' EXCEPT ![entry.addr] = Empty]
  BY <1>1, <1>6, <1>11 DEF Settled, Empty, Zero, Indices
<1>13. Settled' = [Settled EXCEPT ![tab][j] = e]
  BY <1>3, <1>8, <1>9, <1>12
<1>14. EntryOK(L, A, U, tab, j, e)
  BY <1>3, <1>5, <1>6, <1>7 DEF EntryOK
<1>15. Tree(Settled', Given', kernel_pml4', L, A, U)
  <2>1. Tree([Settled EXCEPT ![tab][j] = e], Given, kernel_pml4, L, A, U)
    BY <1>2, <1>3, <1>6, <1>14, EntryStep
  <2> QED
    BY <1>1, <1>13, <2>1, SameGiven
<1>16. Walk(L, A, U)'
  <2>1. /\ tab' \in DOMAIN L /\ L[tab'] = level' /\ Agree(A[tab'], offs', level' + 1)
        /\ Child(L, A, U, tab', offs'[level'], entry'.addr) /\ Points(entry')
    BY <1>1, <1>3, <1>6, <1>7, <1>10, <1>11
  <2>2. level' > Leaf' /\ level' >= Leaf' /\ tab' # Null /\ call'.op \in MapOps
    BY <1>1, <1>3, <1>4, <1>10 DEF Leaf
  <2> HIDE DEF entry, j
  <2> QED
    BY <2>1, <2>2 DEF Walk
<1>18. Rooted(L)'
  <2>1. PICK m, m2, o : m = Settled /\ m2 = Settled' /\ o = offs
    OBVIOUS
  <2>2. o \in Path /\ Reached(m, kernel_pml4, o, level, tab)
    BY <1>1, <1>2, <1>3, <2>1, AtEntry DEF Rooted
  <2>3. \A s \in DOMAIN L, i \in Indices : m2[s][i] = IF s = tab /\ i = j THEN e ELSE m[s][i]
    BY <1>2, <1>3, <1>13, <2>1, TreeTable
  <2>6. \A s \in DOMAIN L, i \in Indices : L[s] > level => m2[s][i] = m[s][i]
    BY <1>3, <2>3
  <2> HIDE DEF e, j
  <2>4. Reached(m2, kernel_pml4, o, level, tab)
    BY <1>2, <2>1, <2>2, <2>6, ReachedSame
  <2>5. ASSUME NEW t \in DOMAIN L, NEW i \in Indices, L[t] >= 2, Points(m2[t][i])
        PROVE  PRESENT \in m2[t][i].flags
    <3>1. CASE t = tab /\ i = j
      <4>1. m2[t][i] = e
        BY <2>3, <3>1
      <4> QED
        BY <1>7, <4>1
    <3>2. CASE ~(t = tab /\ i = j)
      <4>1. m2[t][i] = m[t][i] /\ ~(t = tab /\ i = offs[level])
        BY <2>3, <3>2 DEF j
      <4> QED
        BY <1>2, <2>1, <2>5, <4>1 DEF Rooted
    <3> QED
      BY <3>1, <3>2
  <2> HIDE DEF j
  <2> QED
    BY <1>1, <1>10, <2>1, <2>4, <2>5 DEF Rooted
<1>17. TypeOK' /\ CallInv'
  BY <1>1, <1>9 DEF VmmInv, TypeOK, CallInv
<1> QED
  BY <1>1, <1>15, <1>16, <1>17, <1>18 DEF VmmInv

LEMMA AllocTableNullStep ==
  ASSUME VmmInv, NotMixed, AllocTableNull
  PROVE  VmmInv'
<1> DEFINE j == offs[level]
<1>1. /\ AtTable /\ pc = "walk" /\ pc' = "walk" /\ tab # Null /\ tab' = Null /\ entry.addr = 0
      /\ mem' = [mem EXCEPT ![tab][j] = Zero]
      /\ UNCHANGED <<kernel_pml4, cr3, boot, call, result, held, reserved, level>>
  BY DEF AllocTableNull, AtTable, walkVars
<1>2. PICK L, A, U : /\ Tree(Settled, Given, kernel_pml4, L, A, U) /\ Walk(L, A, U)
                     /\ Rooted(L)
  BY <1>1 DEF VmmInv
<1>3. /\ tab \in DOMAIN L /\ tab \in Ram /\ j \in Indices /\ L[tab] = level
  BY <1>1, <1>2, AtEntry
<1>4. EntryOK(L, A, U, tab, j, Zero)
  <2>1. level >= 2
    BY <1>1, <1>2, NoHugePage
  <2> QED
    BY <1>3, <2>1 DEF EntryOK, Points, Zero, LARGE, PRESENT
<1>5. mem \in [Ram -> [Indices -> Entry]] /\ Zero \in Entry
  BY DEF VmmInv, TypeOK, Entry, Zero
<1>6. Tree(mem, Given, kernel_pml4, L, A, U)
  BY <1>1, <1>2, SettledMem
<1> HIDE DEF j
<1>7. mem' \in [Ram -> [Indices -> Entry]] /\ Tree(mem', Given, kernel_pml4, L, A, U)
  BY <1>1, <1>3, <1>4, <1>5, <1>6, EntryStep
<1>8. Settled' = mem' /\ Given' = Given
  BY <1>1, SameGiven DEF Settled
<1>9. Walk(L, A, U)'
  BY <1>1 DEF Walk
<1>10. TypeOK' /\ CallInv'
  BY <1>1, <1>7 DEF VmmInv, TypeOK, CallInv
<1>11. Rooted(L)'
  <2>1. ASSUME NEW t \in DOMAIN L, NEW i \in Indices, L[t] >= 2, Points(mem'[t][i])
        PROVE  PRESENT \in mem'[t][i].flags
    <3>1. t \in Ram /\ mem'[t][i] = IF t = tab /\ i = j THEN Zero ELSE mem[t][i]
      BY <1>1, <1>2, <1>3, <1>5, TreeTable
    <3>2. mem'[t][i] = mem[t][i]
      BY <2>1, <3>1 DEF Points, Zero
    <3> QED
      BY <1>1, <1>2, <2>1, <3>2, SettledMem DEF Rooted
  <2> QED
    BY <1>1, <1>8, <2>1 DEF Rooted
<1> QED
  BY <1>1, <1>7, <1>8, <1>9, <1>10, <1>11 DEF VmmInv

\* The steps of a walk that leave the tables alone: it ends, or comes to nothing.
LEMMA NoTableStep ==
  ASSUME VmmInv, ReturnFalse \/ MissingUnchecked \/ Fault
  PROVE  VmmInv'
<1>1. /\ pc = "walk" /\ pc' \in {"walk", "idle", "fault"} /\ tab' = Null /\ level' \in 1 .. 4
      /\ call' \in {call, NoCall} /\ (pc' = "walk" => call' = call) /\ (pc' = "idle" => call' = NoCall) /\ result' \in BOOLEAN
      /\ UNCHANGED <<mem, kernel_pml4, cr3, held, reserved, boot>>
  <2>1. level \in 1 .. 4 /\ result \in BOOLEAN
    BY DEF VmmInv, TypeOK
  <2>2. CASE ReturnFalse
    <3>1. pc = "walk"
      BY <2>2 DEF ReturnFalse, AtTable
    <3>2. /\ pc' = "idle" /\ tab' = Null /\ level' = 4 /\ call' = NoCall /\ result' = FALSE
          /\ UNCHANGED <<mem, kernel_pml4, cr3, held, reserved, boot>>
      BY <2>2, Zenon DEF ReturnFalse
    <3>3. level' \in 1 .. 4
      BY <3>2
    <3>5. result' \in BOOLEAN
      BY <3>2, Zenon
    <3>4. pc' \in {"walk", "idle", "fault"} /\ pc' # "walk" /\ call' \in {call, NoCall}
      BY <3>2, Zenon
    <3> QED
      BY <3>1, <3>2, <3>3, <3>4, <3>5, Zenon
  <2>3. CASE MissingUnchecked
    BY <2>1, <2>3 DEF MissingUnchecked, AtTable, walkVars
  <2>4. CASE Fault
    BY <2>1, <2>4 DEF Fault, walkVars
  <2> QED
    BY <2>2, <2>3, <2>4
<1>2. PICK L, A, U : /\ Tree(Settled, Given, kernel_pml4, L, A, U) /\ Walk(L, A, U)
                     /\ Rooted(L)
  BY <1>1 DEF VmmInv
<1>3. Settled' = Settled /\ Given' = Given
  BY <1>1, SettledMem, SameGiven DEF Settled
<1>4. Walk(L, A, U)'
  BY <1>1 DEF Walk
<1>5. TypeOK' /\ CallInv'
  BY <1>1 DEF VmmInv, TypeOK, CallInv
<1>6. Rooted(L)'
  BY <1>1, <1>2, <1>3 DEF Rooted
<1> QED
  BY <1>1, <1>2, <1>3, <1>4, <1>5, <1>6 DEF VmmInv

LEMMA BeginStep ==
  ASSUME VmmInv, NEW c \in Calls, Begin(c), boot' \in 0 .. 2
  PROVE  VmmInv'
<1>1. /\ pc = "idle" /\ pc' = "walk" /\ call' = c /\ tab' = kernel_pml4 /\ level' = 4
      /\ UNCHANGED <<mem, kernel_pml4, cr3, held, reserved, result>>
  BY DEF Begin
<1>2. PICK L, A, U : /\ Tree(Settled, Given, kernel_pml4, L, A, U) /\ Walk(L, A, U)
                     /\ Rooted(L)
  BY <1>1 DEF VmmInv
<1>3. Settled' = Settled /\ Given' = Given
  BY <1>1, SettledMem, SameGiven DEF Settled
<1>4. c \in CallType /\ c # NoCall
  BY CallsType DEF CallType, NoCall
<1>5. CallInv'
  <2>1. 0 \in Steps(c) /\ call' = Left(c, 0)
    BY <1>1, LeftZero
  <2> QED
    BY <2>1 DEF CallInv
<1>6. Walk(L, A, U)'
  <2>1. tab' \in DOMAIN L /\ L[tab'] = level' /\ Agree(A[tab'], offs', level' + 1) /\ level' >= Leaf'
    BY <1>1, <1>2 DEF Tree, Agree, Leaf
  <2> QED
    BY <1>1, <2>1 DEF Walk
<1>7. TypeOK'
  BY <1>1, <1>4 DEF VmmInv, TypeOK
<1>8. Rooted(L)'
  BY <1>1, <1>2, <1>3 DEF Rooted, Reached
<1> QED
  BY <1>1, <1>2, <1>3, <1>4, <1>5, <1>6, <1>7, <1>8 DEF VmmInv

LEMMA MapKernelStep ==
  ASSUME VmmInv, MapKernel
  PROVE  VmmInv'
<1>1. boot \in 0 .. 1 /\ boot' = boot + 1 /\ Begin(<<KernelRequest, PhysRequest>>[boot + 1])
  BY DEF MapKernel, VmmInv, TypeOK
<1>2. <<KernelRequest, PhysRequest>>[boot + 1] \in Calls
  BY <1>1 DEF Calls
<1>3. boot' \in 0 .. 2
  BY <1>1
<1> QED
  BY <1>1, <1>2, <1>3, BeginStep

LEMMA CallStep ==
  ASSUME VmmInv, NEW c \in Requests, Call(c)
  PROVE  VmmInv'
<1>1. c \in Calls /\ Begin(c) /\ boot' \in 0 .. 2
  BY DEF Call, Calls, VmmInv, TypeOK
<1> QED
  BY <1>1, BeginStep

LEMMA SetContextStep ==
  ASSUME VmmInv, SetContext
  PROVE  VmmInv'
<1>1. /\ pc = "idle" /\ cr3' = kernel_pml4
      /\ UNCHANGED <<mem, kernel_pml4, held, reserved, pc, boot, call, tab, level, result>>
  BY DEF SetContext
<1>2. PICK L, A, U : /\ Tree(Settled, Given, kernel_pml4, L, A, U) /\ Walk(L, A, U)
                     /\ Rooted(L)
  BY <1>1 DEF VmmInv
<1>3. Settled' = Settled /\ Given' = Given
  BY <1>1, SettledMem, SameGiven DEF Settled
<1>4. Walk(L, A, U)'
  BY <1>1 DEF Walk
<1>5. TypeOK' /\ CallInv'
  BY <1>1 DEF VmmInv, TypeOK, CallInv
<1>6. Rooted(L)'
  BY <1>1, <1>2, <1>3 DEF Rooted
<1> QED
  BY <1>1, <1>2, <1>3, <1>4, <1>5, <1>6 DEF VmmInv

LEMMA InitInv ==
  ASSUME Init
  PROVE  VmmInv
<1>1. PICK c \in RamContents : mem = [f \in Ram |-> c]
  BY DEF Init
<1>2. c \in [Indices -> Entry]
  <2>1. c \in [Indices -> [addr : Ram, flags : SUBSET {PRESENT, WRITE}]]
    BY VmmAssumption
  <2>2. \A i \in Indices : c[i] \in Entry
    BY <2>1, VmmAssumption DEF Entry, Ram
  <2> QED
    BY <2>1, <2>2
<1>3. 0 \in Ram
  BY VmmAssumption DEF Ram
<1> QED
  BY <1>1, <1>2, <1>3 DEF Init, VmmInv, TypeOK, CallInv

LEMMA NewAddressSpaceStep ==
  ASSUME VmmInv, RoomForTop, NewAddressSpace
  PROVE  VmmInv'
<1>16. PICK n : n = Min(Free)
  OBVIOUS
<1> DEFINE L == [t \in {n} |-> 4]
           A == [t \in {n} |-> [l \in 1 .. 4 |-> 0]]
<1>1. pc = "boot" /\ held = {} /\ boot = 0 /\ cr3 = Null /\ reserved = 0 .. MemoryBase - 1
  BY DEF NewAddressSpace, VmmInv
<1>2. MemoryBase \in Free
  <2>1. MemoryBase \in 1 .. LastFrame - 1 + 1 /\ (MemoryBase .. MemoryBase + 1 - 1) \cap (0 .. MemoryBase - 1) = {}
    BY VmmAssumption DEF RoomForTop
  <2>2. UNION {Pages!FramesOf(h) : h \in held} = {}
    BY <1>1
  <2> QED
    BY <1>1, <2>1, <2>2 DEF Free, Pages!Places
<1>3. /\ kernel_pml4' = n /\ Pages!Allocate([idx |-> n, count |-> 1])
      /\ mem' = [mem EXCEPT ![n] = Empty] /\ pc' = "idle"
      /\ UNCHANGED <<cr3, boot, call, tab, level, result>>
  <2>1. Free # {}
    BY <1>2
  <2> HIDE DEF Free
  <2> QED
    BY <1>16, <2>1 DEF NewAddressSpace
<1>4. n \in Ram /\ n # 0 /\ n \in Nat
  BY <1>1, <1>2, <1>16, LeastFree
<1>5. n \in Given' /\ reserved' = reserved
  BY <1>3, <1>4, GivenStep DEF Pages!Allocate
<1>6. mem' \in [Ram -> [Indices -> Entry]] /\ mem'[n] = Empty
  BY <1>3, <1>4 DEF VmmInv, TypeOK, Empty, Entry, Zero
<1>7. Settled' = mem'
  BY <1>3 DEF Settled
<1>8. n \in DOMAIN L /\ L[n] = 4 /\ A[n] \in Path
  BY VmmAssumption DEF Path, Indices
<1>9. \A t \in DOMAIN L : TableOK(Given', L, A, n, t)
  BY <1>4, <1>5, <1>8 DEF TableOK
<1>10. \A t \in DOMAIN L, i \in Indices : EntryOK(L, A, A, t, i, mem'[t][i])
  <2>1. ASSUME NEW i \in Indices PROVE mem'[n][i] = Zero
    BY <1>6 DEF Empty
  <2>2. ASSUME NEW i \in Indices PROVE EntryOK(L, A, A, n, i, Zero)
    BY <1>8 DEF EntryOK, Points, Zero, LARGE, PRESENT
  <2> QED
    BY <2>1, <2>2
<1>11. Tree(Settled', Given', kernel_pml4', L, A, A)
  BY <1>3, <1>7, <1>8, <1>9, <1>10 DEF Tree
<1>12. Walk(L, A, A)'
  BY <1>3 DEF Walk
<1>13. TypeOK' /\ CallInv'
  BY <1>1, <1>3, <1>4, <1>6 DEF VmmInv, TypeOK, CallInv
<1>17. Rooted(L)'
  <2>1. \A t \in DOMAIN L, i \in Indices : Settled'[t][i] = Zero
    BY <1>6, <1>7 DEF Empty
  <2> QED
    BY <1>3, <2>1 DEF Rooted, Points, Zero
<1> HIDE DEF L, A
<1>14. \E L2, A2, U2 : Tree(Settled', Given', kernel_pml4', L2, A2, U2) /\ Walk(L2, A2, U2)' /\ Rooted(L2)'
  BY <1>11, <1>12, <1>17, Zenon
<1>15. /\ pc' \notin {"boot", "walk", "flags", "clear"} /\ reserved' = 0 .. MemoryBase - 1
       /\ call' = NoCall
  BY <1>1, <1>3, <1>5 DEF VmmInv
<1>18. kernel_pml4' # 0
  BY <1>3, <1>4
<1> QED
  BY <1>13, <1>14, <1>15, <1>18, Zenon DEF VmmInv

\* What is written into the entry of a page.
LEMMA NewEntryIs ==
  ASSUME call \in CallType, NEW old \in Entry
  PROVE  /\ NewEntry(old) \in Entry
         /\ \/ NewEntry(old) = Zero
            \/ /\ PRESENT \in NewEntry(old).flags
               /\ LARGE \in NewEntry(old).flags <=> call.op \in HugeOps
               /\ call.op \in HugeOps => call.op \in {"map_huge", "update_huge"}
               /\ call.op \in HugeOps /\ NewEntry(old).addr # 0 =>
                    /\ call.op \in {"map_huge", "update_huge"}
                    /\ call.op = "map_huge" => call.phys # 0
<1> DEFINE large == IF call.op \in HugeOps THEN {LARGE} ELSE {}
           flags == call.perms \cup large \cup {PRESENT}
<1>1. call.phys \in Nat /\ call.perms \in SUBSET {WRITE} /\ old.addr \in Nat
  BY DEF CallType, Entry
<1>2. /\ flags \in SUBSET {PRESENT, WRITE, LARGE} /\ PRESENT \in flags
      /\ LARGE \in flags <=> call.op \in HugeOps
  BY <1>1 DEF PRESENT, WRITE, LARGE
<1>3. PICK fl : fl = flags
  OBVIOUS
<1>4. \/ call.op \in MapOps /\ NewEntry(old) = [addr |-> call.phys, flags |-> fl]
      \/ NewEntry(old) = Zero
      \/ /\ call.op \notin MapOps /\ call.op \notin {"unmap", "unmap_huge"}
         /\ NewEntry(old) = [addr |-> old.addr, flags |-> fl]
  BY <1>3 DEF NewEntry
<1> HIDE DEF flags
<1>5. Zero \in Entry /\ [addr |-> call.phys, flags |-> fl] \in Entry
      /\ [addr |-> old.addr, flags |-> fl] \in Entry
  BY <1>1, <1>2, <1>3 DEF Entry, Zero
<1>6. CASE call.op \in MapOps /\ NewEntry(old) = [addr |-> call.phys, flags |-> fl]
  <2>1. NewEntry(old).addr = call.phys /\ NewEntry(old).flags = fl
    BY <1>6
  <2>2. call.op \in HugeOps => call.op = "map_huge"
    BY <1>6 DEF MapOps, HugeOps
  <2> QED
    BY <1>2, <1>3, <1>5, <1>6, <2>1, <2>2
<1>7. CASE /\ call.op \notin MapOps /\ call.op \notin {"unmap", "unmap_huge"}
           /\ NewEntry(old) = [addr |-> old.addr, flags |-> fl]
  <2>1. NewEntry(old).flags = fl
    BY <1>7
  <2>2. call.op \in HugeOps => call.op = "update_huge"
    BY <1>7 DEF MapOps, HugeOps
  <2> QED
    BY <1>2, <1>3, <1>5, <1>7, <2>1, <2>2
<1> QED
  BY <1>4, <1>5, <1>6, <1>7

\* The loop of a call: one page further, or the end.
LEMMA NextPageStep ==
  ASSUME VmmInv, call # NoCall, pc = "walk", NextPage(call.virt + Span(Leaf), call.phys + Span(Leaf))
  PROVE  /\ CallInv' /\ call' \in CallType \cup {NoCall}
         /\ pc' \in {"walk", "idle"} /\ (pc' = "walk" => call' # NoCall) /\ (pc' = "idle" => call' = NoCall)
         /\ tab' \in {Null, kernel_pml4} /\ level' = 4
<1>1. PICK c \in Calls : \E k \in Steps(c) : call = Left(c, k)
  BY DEF VmmInv, CallInv
<1>2. PICK k \in Steps(c) : call = Left(c, k)
  BY <1>1
<1>3. Stride(c) = Span(Leaf) /\ Stride(c) \in Nat
  <2>1. call.op = c.op
    BY <1>2 DEF Left
  <2> QED
    BY <2>1, StrideIsSpan
<1>4. c.virt \in Nat /\ c.phys \in Nat /\ c.count \in Nat \ {0} /\ k \in Nat /\ k < c.count
  BY CallsType DEF CallType, Steps
<1>5. CASE call.count = 1
  <2>1. call' = NoCall /\ pc' = "idle" /\ tab' = Null /\ level' = 4
    BY <1>5, Zenon DEF NextPage
  <2> QED
    BY <2>1, Zenon DEF CallInv
<1>6. CASE call.count # 1
  <2>1. /\ call' = [call EXCEPT !.virt = call.virt + Span(Leaf), !.phys = call.phys + Span(Leaf),
                                !.count = @ - 1]
        /\ pc' = pc /\ tab' = kernel_pml4 /\ level' = 4
    BY <1>6, Zenon DEF NextPage
  <2>2. call.count = c.count - k
    BY <1>2 DEF Left
  <2>3. k + 1 \in Steps(c) /\ (c.count - k) - 1 = c.count - (k + 1)
    BY <1>4, <1>6, <2>2 DEF Steps
  <2>4. (k + 1) * Stride(c) = k * Stride(c) + Stride(c) /\ k * Stride(c) \in Nat
    BY <1>3, <1>4
  <2>5. PageAt(c, k) + Stride(c) = PageAt(c, k + 1)
    BY <1>3, <1>4, <2>4 DEF PageAt
  <2>6. (c.phys + k * Stride(c)) + Stride(c) = c.phys + (k + 1) * Stride(c)
    BY <1>3, <1>4, <2>4
  <2>7. call' = [op |-> c.op, virt |-> PageAt(c, k) + Stride(c),
                 phys |-> (c.phys + k * Stride(c)) + Stride(c),
                 count |-> (c.count - k) - 1, perms |-> c.perms]
    BY <1>2, <1>3, <2>1 DEF Left
  <2>8. call' = Left(c, k + 1)
    BY <2>3, <2>5, <2>6, <2>7 DEF Left
  <2>9. call' \in CallType /\ call' # NoCall
    BY <2>3, <2>8, LeftType DEF CallType, NoCall
  <2>10. CallInv'
    BY <2>3, <2>8, Zenon DEF CallInv
  <2> QED
    BY <2>1, <2>9, <2>10, Zenon
<1> QED
  BY <1>5, <1>6

LEMMA WriteEntryStep ==
  ASSUME VmmInv, WriteEntry
  PROVE  VmmInv'
<1> DEFINE j == offs[level]
           e == NewEntry(entry)
<1>1. /\ pc = "walk" /\ tab # Null /\ level = Leaf
      /\ mem' = [mem EXCEPT ![tab][j] = NewEntry(@)]
      /\ NextPage(call.virt + Span(Leaf), call.phys + Span(Leaf))
  BY Zenon DEF WriteEntry, AtLeaf
<1>2. PICK L, A, U : /\ Tree(Settled, Given, kernel_pml4, L, A, U) /\ Walk(L, A, U)
                     /\ Rooted(L)
  BY <1>1 DEF VmmInv
<1>3. /\ tab \in DOMAIN L /\ tab \in Ram /\ L[tab] = level /\ j \in Indices /\ Leaf \in {1, 2}
      /\ A[tab] \in Path /\ offs \in Path /\ Agree(A[tab], offs, level + 1)
      /\ entry = mem[tab][j] /\ entry \in Entry
  BY <1>1, <1>2, AtEntry
<1>4. call # NoCall /\ call \in CallType /\ CallInv /\ mem \in [Ram -> [Indices -> Entry]]
  BY <1>1 DEF VmmInv, TypeOK
<1>5. /\ e \in Entry
      /\ \/ e = Zero
         \/ /\ PRESENT \in e.flags
            /\ LARGE \in e.flags <=> call.op \in HugeOps
            /\ call.op \in HugeOps => call.op \in {"map_huge", "update_huge"}
            /\ call.op \in HugeOps /\ e.addr # 0 =>
                 call.op \in {"map_huge", "update_huge"} /\ (call.op = "map_huge" => call.phys # 0)
  BY <1>3, <1>4, NewEntryIs
<1>6. mem' = [mem EXCEPT ![tab][j] = e]
  BY <1>1, <1>3, <1>4
<1> HIDE DEF e
<1>7. call.op \in HugeOps => /\ L[tab] = 2
                             /\ e # Zero => InAnyHuge([A[tab] EXCEPT ![2] = j])
                             /\ e # Zero /\ e.addr # 0 => InHuge([A[tab] EXCEPT ![2] = j])
  <2> SUFFICES ASSUME call.op \in HugeOps
               PROVE  /\ L[tab] = 2 /\ (e # Zero => InAnyHuge([A[tab] EXCEPT ![2] = j]))
                      /\ e # Zero /\ e.addr # 0 => InHuge([A[tab] EXCEPT ![2] = j])
    OBVIOUS
  <2> DEFINE p == [A[tab] EXCEPT ![2] = j]
  <2>1. L[tab] = 2 /\ level = 2
    BY <1>1, <1>3 DEF Leaf
  <2>2. \A l \in 1 .. 4 : l >= 2 => p[l] = offs[l]
    BY <1>3, <2>1 DEF Agree, Path
  <2>3. Agree(p, offs, 2)
    BY <2>2 DEF Agree
  <2> HIDE DEF p
  <2>4. (e # Zero => InAnyHuge(p)) /\ (e # Zero /\ e.addr # 0 => InHuge(p))
    BY <1>4, <1>5, <2>3, CallPath
  <2> QED
    BY <2>1, <2>4 DEF p
<1>8. call.op \notin HugeOps => L[tab] = 1
  BY <1>1, <1>3 DEF Leaf
<1>9. EntryOK(L, A, U, tab, j, e)
  BY <1>5, <1>7, <1>8 DEF EntryOK, Points, Zero
<1>10. /\ mem' \in [Ram -> [Indices -> Entry]]
       /\ Tree(mem', Given, kernel_pml4, L, A, U)
  <2>1. Settled = mem
    BY <1>1, SettledMem
  <2>2. Tree(mem, Given, kernel_pml4, L, A, U)
    BY <1>2, <2>1
  <2> HIDE DEF j
  <2> QED
    BY <1>3, <1>4, <1>5, <1>6, <1>9, <2>2, EntryStep
<1>11. /\ CallInv' /\ call' \in CallType \cup {NoCall}
       /\ pc' \in {"walk", "idle"} /\ (pc' = "walk" => call' # NoCall) /\ (pc' = "idle" => call' = NoCall)
       /\ tab' \in {Null, kernel_pml4} /\ level' = 4
  BY <1>1, <1>4, NextPageStep
<1>12. UNCHANGED <<kernel_pml4, cr3, held, reserved, boot>> /\ result' = TRUE
  BY <1>1, Zenon DEF NextPage
<1>13. Settled' = mem' /\ Given' = Given
  BY <1>11, <1>12, SettledMem, SameGiven DEF Settled
<1>14. Walk(L, A, U)'
  <2>1. kernel_pml4 \in DOMAIN L /\ L[kernel_pml4] = 4
    BY <1>2 DEF Tree
  <2>2. Leaf' \in {1, 2} /\ Agree(A[kernel_pml4], offs', 5)
    BY DEF Leaf, Agree
  <2> QED
    BY <1>11, <2>1, <2>2 DEF Walk
<1>17. Rooted(L)'
  <2>1. ASSUME NEW t \in DOMAIN L, NEW i \in Indices, L[t] >= 2, Points(mem'[t][i])
        PROVE  PRESENT \in mem'[t][i].flags
    <3>1. t \in Ram /\ mem'[t][i] = IF t = tab /\ i = j THEN e ELSE mem[t][i]
      BY <1>2, <1>3, <1>4, <1>5, <1>6, TreeTable
    <3>2. CASE t = tab /\ i = j
      BY <1>5, <2>1, <3>1, <3>2 DEF Points, Zero
    <3>3. CASE ~(t = tab /\ i = j)
      BY <1>1, <1>2, <2>1, <3>1, <3>3, SettledMem DEF Rooted
    <3> QED
      BY <3>2, <3>3
  <2> QED
    BY <1>11, <1>12, <1>13, <2>1 DEF Rooted, Reached
<1>15. TypeOK'
  <2>1. level' \in 1 .. 4
    BY <1>11
  <2>2. tab' \in Ram \cup {Null} /\ pc' \in {"boot", "idle", "walk", "flags", "clear", "fault"}
    BY <1>11 DEF VmmInv, TypeOK
  <2> QED
    BY <1>10, <1>11, <1>12, <2>1, <2>2, Zenon DEF VmmInv, TypeOK
<1>16. Tree(Settled', Given', kernel_pml4', L, A, U)
  BY <1>10, <1>12, <1>13
<1>18. kernel_pml4' # 0
  BY <1>1, <1>12 DEF VmmInv
<1> QED
  BY <1>11, <1>12, <1>14, <1>15, <1>16, <1>17, <1>18, Zenon DEF VmmInv

LEMMA StutterStep ==
  ASSUME VmmInv, UNCHANGED vmmVars
  PROVE  VmmInv'
<1>1. UNCHANGED <<mem, kernel_pml4, cr3, held, reserved, pc, boot, call, tab, level, result>>
  BY DEF vmmVars
<1>2. Settled' = Settled /\ Given' = Given
  BY <1>1, SameGiven DEF Settled, entry, offs, virtual_to_entries
<1>3. ASSUME NEW L, NEW A, NEW U, Walk(L, A, U) PROVE Walk(L, A, U)'
  <2>1. entry' = entry /\ offs' = offs /\ Leaf' = Leaf
    BY <1>1, SameCall DEF entry
  <2> QED
    BY <1>1, <1>3, <2>1 DEF Walk
<1>5. ASSUME NEW L, Rooted(L) PROVE Rooted(L)'
  BY <1>1, <1>2, <1>5, SameCall DEF Rooted
<1>4. TypeOK' /\ CallInv'
  BY <1>1 DEF VmmInv, TypeOK, CallInv
<1> QED
  BY <1>1, <1>2, <1>3, <1>4, <1>5 DEF VmmInv

------------------------------------------------------------------------------
(* Virtual pages and their paths.                                           *)

\* A quotient is determined by its multiple.
LEMMA QuotientUnique ==
  ASSUME NEW n \in Nat, NEW s \in Nat \ {0}, NEW k \in Nat, k * s <= n, n < k * s + s
  PROVE  n \div s = k
<1>1. PICK q \in Nat : q = n \div s /\ q * s <= n /\ n < q * s + s
  BY Quotient
<1>2. k * s \in Nat /\ q * s \in Nat
  OBVIOUS
<1>3. CASE k >= q + 1
  <2>1. k * s >= (q + 1) * s
    BY <1>3
  <2>2. (q + 1) * s = q * s + s
    OBVIOUS
  <2> QED
    BY <1>1, <1>2, <2>1, <2>2
<1>4. CASE q >= k + 1
  <2>1. q * s >= (k + 1) * s
    BY <1>4
  <2>2. (k + 1) * s = k * s + s
    OBVIOUS
  <2> QED
    BY <1>1, <1>2, <2>1, <2>2
<1> QED
  BY <1>1, <1>3, <1>4

\* Dividing twice is dividing by the product.
LEMMA DivDiv ==
  ASSUME NEW n \in Nat, NEW a \in Nat \ {0}, NEW b \in Nat \ {0}
  PROVE  n \div (a * b) = (n \div a) \div b
<1>1. PICK q \in Nat : q = n \div a /\ q * a <= n /\ n < q * a + a
  BY Quotient
<1>2. PICK p \in Nat : p = q \div b /\ p * b <= q /\ q < p * b + b
  BY Quotient
<1>3. a * b \in Nat \ {0} /\ p * b \in Nat /\ q * a \in Nat
  OBVIOUS
<1>4. p * (a * b) = (p * b) * a /\ (p * b + b) * a = (p * b) * a + a * b
  OBVIOUS
<1>5. (p * b) * a <= q * a
  BY <1>2, <1>3
<1>6. (q + 1) * a <= (p * b + b) * a
  <2>1. q + 1 <= p * b + b
    BY <1>2, <1>3
  <2> QED
    BY <1>3, <2>1
<1>7. (q + 1) * a = q * a + a
  OBVIOUS
<1>8. p * (a * b) \in Nat
  BY <1>3
<1>9. p * (a * b) <= n /\ n < p * (a * b) + a * b
  BY <1>1, <1>3, <1>4, <1>5, <1>6, <1>7, <1>8
<1>10. n \div (a * b) = p
  BY <1>3, <1>9, QuotientUnique
<1> QED
  BY <1>1, <1>2, <1>10

\* The quotient of a number by s, and the rest, give the number.
LEMMA Parts ==
  ASSUME NEW n \in Nat, NEW s \in Nat \ {0}
  PROVE  n = (n \div s) * s + (n % s) /\ n \div s \in Nat /\ n % s \in 0 .. s - 1
  OBVIOUS

\* Each level divides what the one below has left.
LEMMA SpanStep ==
  ASSUME NEW v \in Nat, NEW l \in 1 .. 3
  PROVE  v \div Span(l + 1) = (v \div Span(l)) \div Slots
<1>1. Slots \in Nat \ {0} /\ Slots * Slots \in Nat \ {0} /\ Span(1) = 1 /\ Span(2) = Slots
      /\ Span(3) = Slots * Slots /\ Span(4) = (Slots * Slots) * Slots
  BY VmmAssumption DEF Span
<1>2. CASE l = 1
  <2>1. v \div 1 = v
    OBVIOUS
  <2> QED
    BY <1>1, <1>2, <2>1
<1>3. CASE l = 2
  BY <1>1, <1>3, DivDiv
<1>4. CASE l = 3
  <2>1. v \div ((Slots * Slots) * Slots) = (v \div (Slots * Slots)) \div Slots
    BY <1>1, DivDiv
  <2> QED
    BY <1>1, <1>4, <2>1
<1> QED
  BY <1>2, <1>3, <1>4

\* Two pages with the same way down to a level are below the same entry.
LEMMA SameWay ==
  ASSUME NEW v \in VirtualPages, NEW w \in VirtualPages, NEW lev \in 1 .. 2,
         Agree(virtual_to_entries(v), virtual_to_entries(w), lev)
  PROVE  v \div Span(lev) = w \div Span(lev)
<1> DEFINE D(x, l) == x \div Span(l)
<1>1. v \in Nat /\ w \in Nat
  BY VmmAssumption DEF VirtualPages
<1>2. \A l \in 1 .. 4 : l >= lev => D(v, l) % Slots = D(w, l) % Slots
  BY DEF Agree, virtual_to_entries
<1>3. Slots \in Nat \ {0} /\ \A l \in 1 .. 4 : Span(l) \in Nat \ {0}
  BY VmmAssumption, SpanType
<1>4. \A l \in 1 .. 4 : D(v, l) \in Nat /\ D(w, l) \in Nat
  BY <1>1, <1>3, Quotient
<1>5. ASSUME NEW x \in VirtualPages PROVE D(x, 4) \in Nat /\ D(x, 4) % Slots = D(x, 4)
  <2>1. PICK q \in Nat, S \in Nat \ {0} :
          /\ q = D(x, 4) /\ S = Slots /\ q * (S * S * S) <= x /\ x < S * S * S * S /\ x \in Nat
    <3>1. x \in Nat /\ x < Slots * Slots * Slots * Slots
      <4>1. Slots * Slots * Slots * Slots \in Nat
        BY <1>3
      <4> QED
        BY <4>1 DEF VirtualPages
    <3>2. Span(4) = Slots * Slots * Slots
      BY DEF Span
    <3>3. D(x, 4) \in Nat /\ D(x, 4) * Span(4) <= x
      BY <1>3, <3>1, Quotient
    <3> QED
      BY <1>3, <3>1, <3>2, <3>3
  <2>2. q < S
    <3> SUFFICES ASSUME q >= S PROVE FALSE
      BY <2>1
    <3>1. PICK T \in Nat \ {0} : T = S * S * S
      OBVIOUS
    <3>2. q * T >= S * T
      BY <3>1
    <3>3. S * T = S * S * S * S
      BY <3>1
    <3>4. q * T \in Nat /\ S * T \in Nat
      BY <3>1
    <3> QED
      BY <2>1, <3>1, <3>2, <3>3, <3>4
  <2>3. q % S = q
    BY <2>2
  <2> QED
    BY <2>1, <2>3
<1>6. ASSUME NEW l \in 1 .. 3, l >= lev, D(v, l + 1) = D(w, l + 1)
      PROVE  D(v, l) = D(w, l)
  <2>1. l \in 1 .. 4 /\ D(v, l + 1) = D(v, l) \div Slots /\ D(w, l + 1) = D(w, l) \div Slots
    BY <1>1, SpanStep
  <2>2. D(v, l) \in Nat /\ D(w, l) \in Nat /\ D(v, l) % Slots = D(w, l) % Slots
    BY <1>2, <1>4, <1>6, <2>1
  <2>3. PICK a \in Nat, b \in Nat, S \in Nat \ {0} : a = D(v, l) /\ b = D(w, l) /\ S = Slots
    BY <1>3, <2>2
  <2>4. a = (a \div S) * S + (a % S) /\ b = (b \div S) * S + (b % S)
    BY Parts
  <2> HIDE DEF D
  <2> QED
    BY <1>6, <2>1, <2>2, <2>3, <2>4
<1> HIDE DEF D
<1>7. D(v, 4) = D(w, 4)
  BY <1>2, <1>5
<1>8. D(v, 3) = D(w, 3)
  <2>1. D(v, 3 + 1) = D(w, 3 + 1) /\ 3 >= lev /\ 3 \in 1 .. 3
    BY <1>7
  <2> QED
    BY <1>6, <2>1
<1>9. D(v, 2) = D(w, 2)
  <2>1. D(v, 2 + 1) = D(w, 2 + 1) /\ 2 >= lev /\ 2 \in 1 .. 3
    BY <1>8
  <2> QED
    BY <1>6, <2>1
<1>10. lev = 1 => D(v, 1) = D(w, 1)
  <2>1. D(v, 1 + 1) = D(w, 1 + 1) /\ 1 \in 1 .. 3
    BY <1>9
  <2> QED
    BY <1>6, <2>1
<1> QED
  BY <1>9, <1>10 DEF D

\* Pages below the same second-level entry have the same way down to it.
LEMMA WayOfHuge ==
  ASSUME NEW v \in Nat, NEW w \in Nat, v \div Slots = w \div Slots
  PROVE  Agree(virtual_to_entries(v), virtual_to_entries(w), 2)
<1>1. Span(2) = Slots
  BY DEF Span
<1>2. v \div Span(2 + 1) = w \div Span(2 + 1)
  BY <1>1, SpanStep
<1>3. v \div Span(3 + 1) = w \div Span(3 + 1)
  BY <1>2, SpanStep
<1>4. \A l \in 1 .. 4 : l >= 2 => v \div Span(l) = w \div Span(l)
  BY <1>1, <1>2, <1>3
<1> QED
  BY <1>4 DEF Agree, virtual_to_entries

------------------------------------------------------------------------------
(* The translation of a page.                                               *)

\* Translate, for any top table.
Tr(m, top, v) ==
  LET o == virtual_to_entries(v)
      e4 == m[top][o[4]]
      e3 == m[e4.addr][o[3]]
      e2 == m[e3.addr][o[2]]
      e1 == m[e2.addr][o[1]]
      above == e4.flags \cap e3.flags
  IN  CASE PRESENT \notin above -> Unmapped
        [] PRESENT \in above /\ PRESENT \notin e2.flags -> Unmapped
        [] PRESENT \in above /\ {PRESENT, LARGE} \subseteq e2.flags ->
             [frame |-> e2.addr + o[1], perms |-> e2.flags \cap {WRITE}, path |-> above]
        [] PRESENT \in above /\ PRESENT \in e2.flags /\ LARGE \notin e2.flags ->
             IF PRESENT \notin e1.flags THEN Unmapped
             ELSE [frame |-> e1.addr, perms |-> e1.flags \cap {WRITE},
                   path |-> above \cap e2.flags]

\* What the MMU finds at an entry that is not present: nothing.
LEMMA TrNone ==
  ASSUME NEW m, NEW top, NEW v, NEW lev \in 1 .. 4, NEW t,
         Reached(m, top, virtual_to_entries(v), lev, t),
         PRESENT \notin m[t][virtual_to_entries(v)[lev]].flags
  PROVE  Tr(m, top, v) = Unmapped
<1> DEFINE o == virtual_to_entries(v)
<1>1. CASE lev = 4
  BY <1>1 DEF Reached, Leads, Tr
<1>2. CASE lev = 3
  BY <1>2 DEF Reached, Leads, Tr
<1>3. CASE lev = 2
  BY <1>3 DEF Reached, Leads, Tr
<1>4. CASE lev = 1
  BY <1>4 DEF Reached, Leads, Tr
<1> QED
  BY <1>1, <1>2, <1>3, <1>4

\* At an entry of the last level: its frame.
LEMMA TrSmall ==
  ASSUME NEW m, NEW top, NEW v, NEW t, NEW e,
         Reached(m, top, virtual_to_entries(v), 1, t),
         e = m[t][virtual_to_entries(v)[1]], PRESENT \in e.flags, e.addr \in Nat
  PROVE  /\ Tr(m, top, v).frame = e.addr /\ Tr(m, top, v).perms = e.flags \cap {WRITE}
         /\ Tr(m, top, v) # Unmapped
<1>1. PICK o : o = virtual_to_entries(v)
  OBVIOUS
<1>2. PICK t3, t2 : Leads(m, o, 4, top, t3) /\ Leads(m, o, 3, t3, t2) /\ Leads(m, o, 2, t2, t)
  BY <1>1 DEF Reached
<1>3. PICK e4, e3, e2 : e4 = m[top][o[4]] /\ e3 = m[t3][o[3]] /\ e2 = m[t2][o[2]]
  OBVIOUS
<1>4. /\ t3 = e4.addr /\ t2 = e3.addr /\ t = e2.addr
      /\ PRESENT \in e4.flags \cap e3.flags /\ PRESENT \in e2.flags /\ LARGE \notin e2.flags
  BY <1>2, <1>3 DEF Leads
<1>5. Tr(m, top, v) = [frame |-> e.addr, perms |-> e.flags \cap {WRITE},
                       path |-> (e4.flags \cap e3.flags) \cap e2.flags]
  BY <1>1, <1>3, <1>4 DEF Tr
<1>6. Tr(m, top, v).frame = e.addr /\ Tr(m, top, v).perms = e.flags \cap {WRITE}
  BY <1>5
<1>7. Unmapped.frame = -1 /\ e.addr # -1
  BY DEF Unmapped, Null
<1> QED
  BY <1>6, <1>7

\* At the entry of a huge page: a frame of it.
LEMMA TrHuge ==
  ASSUME NEW m, NEW top, NEW v \in Nat, NEW t, NEW e,
         Reached(m, top, virtual_to_entries(v), 2, t),
         e = m[t][virtual_to_entries(v)[2]], PRESENT \in e.flags, LARGE \in e.flags,
         e.addr \in Nat
  PROVE  /\ Tr(m, top, v).frame = e.addr + virtual_to_entries(v)[1]
         /\ Tr(m, top, v).perms = e.flags \cap {WRITE}
         /\ Tr(m, top, v) # Unmapped
<1>1. PICK o : o = virtual_to_entries(v)
  OBVIOUS
<1>2. PICK t3 : Leads(m, o, 4, top, t3) /\ Leads(m, o, 3, t3, t)
  BY <1>1 DEF Reached
<1>3. PICK e4, e3 : e4 = m[top][o[4]] /\ e3 = m[t3][o[3]]
  OBVIOUS
<1>4. t3 = e4.addr /\ t = e3.addr /\ PRESENT \in e4.flags \cap e3.flags
  BY <1>2, <1>3 DEF Leads
<1>5. Tr(m, top, v) = [frame |-> e.addr + o[1], perms |-> e.flags \cap {WRITE},
                       path |-> e4.flags \cap e3.flags]
  BY <1>1, <1>3, <1>4 DEF Tr
<1>6. o[1] \in Nat
  BY <1>1, PathType, VmmAssumption DEF Path, Indices
<1>7. Tr(m, top, v).frame = e.addr + o[1] /\ Tr(m, top, v).perms = e.flags \cap {WRITE}
  BY <1>5
<1>8. Unmapped.frame = -1 /\ e.addr + o[1] # -1
  BY <1>6 DEF Unmapped, Null
<1> QED
  BY <1>1, <1>7, <1>8

\* Where the MMU goes: a chain of entries, to one that is not present, to a huge page or
\* to the last level.
LEMMA Ways ==
  ASSUME NEW m, NEW given, NEW top, NEW L, NEW A, NEW U, Tree(m, given, top, L, A, U),
         NEW o \in Path
  PROVE  \E lev, t : /\ lev \in 1 .. 4 /\ Reached(m, top, o, lev, t)
                     /\ \/ PRESENT \notin m[t][o[lev]].flags
                        \/ lev = 2 /\ LARGE \in m[t][o[lev]].flags
                        \/ lev = 1
<1>1. ASSUME NEW lev \in 3 .. 4, NEW t, On(L, A, o, lev, t)
      PROVE  LARGE \notin m[t][o[lev]].flags
  <2>1. EntryOK(L, A, U, t, o[lev], m[t][o[lev]]) /\ L[t] = lev
    BY <1>1, TreeTable DEF On, Path
  <2>2. L[t] # 2
    BY <2>1
  <2> QED
    BY <2>1, <2>2 DEF EntryOK
<1>2. ASSUME NEW lev \in 2 .. 4, NEW t, Reached(m, top, o, lev, t),
             PRESENT \in m[t][o[lev]].flags, lev = 2 => LARGE \notin m[t][o[lev]].flags
      PROVE  \E u : Reached(m, top, o, lev - 1, u)
  <2>1. LARGE \notin m[t][o[lev]].flags
    <3>1. On(L, A, o, lev, t)
      BY <1>2, ReachedOn
    <3>2. lev = 2 \/ lev \in 3 .. 4
      OBVIOUS
    <3> QED
      BY <1>1, <1>2, <3>1, <3>2
  <2>2. Leads(m, o, lev, t, m[t][o[lev]].addr)
    BY <1>2, <2>1 DEF Leads
  <2> QED
    BY <1>2, <2>2, ReachedNext
<1>3. Reached(m, top, o, 4, top)
  BY DEF Reached
<1>4. CASE PRESENT \notin m[top][o[4]].flags
  BY <1>3, <1>4
<1>5. CASE PRESENT \in m[top][o[4]].flags
  <2>1. PICK t3 : Reached(m, top, o, 3, t3)
    <3>1. \E u : Reached(m, top, o, 4 - 1, u)
      BY <1>2, <1>3, <1>5
    <3> QED
      BY <3>1
  <2>2. CASE PRESENT \notin m[t3][o[3]].flags
    BY <2>1, <2>2
  <2>3. CASE PRESENT \in m[t3][o[3]].flags
    <3>1. PICK t2 : Reached(m, top, o, 2, t2)
      <4>1. \E u : Reached(m, top, o, 3 - 1, u)
        BY <1>2, <2>1, <2>3
      <4> QED
        BY <4>1
    <3>2. CASE PRESENT \notin m[t2][o[2]].flags \/ LARGE \in m[t2][o[2]].flags
      BY <3>1, <3>2
    <3>3. CASE PRESENT \in m[t2][o[2]].flags /\ LARGE \notin m[t2][o[2]].flags
      <4>1. \E u : Reached(m, top, o, 2 - 1, u)
        BY <1>2, <3>1, <3>3
      <4> QED
        BY <4>1
    <3> QED
      BY <3>2, <3>3
  <2> QED
    BY <2>2, <2>3
<1> QED
  BY <1>4, <1>5

\* The same entries on the way of v give the same translation.
LEMMA TrFrame ==
  ASSUME NEW m, NEW given, NEW top, NEW L, NEW A, NEW U, Tree(m, given, top, L, A, U),
         NEW v \in Nat, NEW m2,
         \A s \in DOMAIN L, l \in 1 .. 4 :
            On(L, A, virtual_to_entries(v), l, s) =>
              m2[s][virtual_to_entries(v)[l]] = m[s][virtual_to_entries(v)[l]]
  PROVE  Tr(m2, top, v) = Tr(m, top, v)
<1>1. PICK o : o = virtual_to_entries(v) /\ o \in Path
  BY PathType
<1>2. \A s, l : l \in 1 .. 4 /\ On(L, A, o, l, s) => m2[s][o[l]] = m[s][o[l]]
  BY <1>1 DEF On
<1>3. PICK lev, t : /\ lev \in 1 .. 4 /\ Reached(m, top, o, lev, t)
                    /\ \/ PRESENT \notin m[t][o[lev]].flags
                       \/ lev = 2 /\ LARGE \in m[t][o[lev]].flags
                       \/ lev = 1
  BY <1>1, Ways
<1>4. m2[t][o[lev]] = m[t][o[lev]]
  BY <1>1, <1>2, <1>3, ReachedOn
<1>5. ASSUME NEW l \in 2 .. 4, NEW u, NEW w, On(L, A, o, l, u), Leads(m, o, l, u, w)
      PROVE  On(L, A, o, l - 1, w) /\ m2[u][o[l]] = m[u][o[l]]
  BY <1>1, <1>2, <1>5, LeadsOn
<1>6. On(L, A, o, 4, top)
  BY TopOn
<1>7. CASE lev = 4
  <2>1. t = top
    BY <1>3, <1>7 DEF Reached
  <2>2. PICK a, b : a = m[top][o[4]] /\ b = m2[top][o[4]]
    OBVIOUS
  <2>3. a = b /\ PRESENT \notin a.flags
    BY <1>3, <1>4, <1>7, <2>1, <2>2
  <2> QED
    BY <1>1, <2>2, <2>3 DEF Tr
<1>8. CASE lev = 3
  <2>1. Leads(m, o, 4, top, t)
    BY <1>3, <1>8 DEF Reached
  <2>2. m2[top][o[4]] = m[top][o[4]]
    BY <1>5, <1>6, <2>1
  <2>3. PICK e4, e3 : e4 = m[top][o[4]] /\ e3 = m[t][o[3]]
    OBVIOUS
  <2>4. e4.addr = t /\ m2[top][o[4]] = e4 /\ m2[t][o[3]] = e3 /\ PRESENT \notin e3.flags
    <3>1. e4.addr = t
      BY <2>1, <2>3 DEF Leads
    <3>2. m2[top][o[4]] = e4 /\ m2[t][o[3]] = e3
      BY <1>4, <1>8, <2>2, <2>3
    <3>3. PRESENT \notin e3.flags
      BY <1>3, <1>8, <2>3
    <3> QED
      BY <3>1, <3>2, <3>3
  <2> QED
    <3>1. Tr(m, top, v) = Unmapped
      BY <1>1, <2>3, <2>4 DEF Tr
    <3>2. Tr(m2, top, v) = Unmapped
      BY <1>1, <2>3, <2>4 DEF Tr
    <3> QED
      BY <3>1, <3>2
<1>9. CASE lev = 2
  <2>1. PICK t3 : Leads(m, o, 4, top, t3) /\ Leads(m, o, 3, t3, t)
    BY <1>3, <1>9 DEF Reached
  <2>2. m2[top][o[4]] = m[top][o[4]] /\ On(L, A, o, 3, t3)
    <3>1. On(L, A, o, 4 - 1, t3) /\ m2[top][o[4]] = m[top][o[4]]
      BY <1>5, <1>6, <2>1
    <3> QED
      BY <3>1
  <2>3. m2[t3][o[3]] = m[t3][o[3]]
    BY <1>5, <2>1, <2>2
  <2>4. PICK e4, e3, e2 : e4 = m[top][o[4]] /\ e3 = m[t3][o[3]] /\ e2 = m[t][o[2]]
    OBVIOUS
  <2>5. /\ e4.addr = t3 /\ e3.addr = t
        /\ m2[top][o[4]] = e4 /\ m2[t3][o[3]] = e3 /\ m2[t][o[2]] = e2
        /\ PRESENT \notin e2.flags \/ LARGE \in e2.flags
        /\ PRESENT \in e4.flags \cap e3.flags
    <3>1. e4.addr = t3 /\ e3.addr = t /\ PRESENT \in e4.flags /\ PRESENT \in e3.flags
      BY <2>1, <2>4 DEF Leads
    <3>2. m2[top][o[4]] = e4 /\ m2[t3][o[3]] = e3
      BY <2>2, <2>3, <2>4
    <3>3. m2[t][o[2]] = e2
      BY <1>4, <1>9, <2>4
    <3>4. PRESENT \notin e2.flags \/ LARGE \in e2.flags
      BY <1>3, <1>9, <2>4
    <3> QED
      BY <3>1, <3>2, <3>3, <3>4
  <2>6. CASE PRESENT \notin e2.flags
    <3>1. Tr(m, top, v) = Unmapped
      BY <1>1, <2>4, <2>5, <2>6 DEF Tr
    <3>2. Tr(m2, top, v) = Unmapped
      BY <1>1, <2>4, <2>5, <2>6 DEF Tr
    <3> QED
      BY <3>1, <3>2
  <2>7. CASE PRESENT \in e2.flags
    <3> DEFINE r == [frame |-> e2.addr + o[1], perms |-> e2.flags \cap {WRITE},
                     path |-> e4.flags \cap e3.flags]
    <3>1. Tr(m, top, v) = r
      BY <1>1, <2>4, <2>5, <2>7 DEF Tr
    <3>2. Tr(m2, top, v) = r
      BY <1>1, <2>4, <2>5, <2>7 DEF Tr
    <3> QED
      BY <3>1, <3>2
  <2> QED
    BY <2>6, <2>7
<1>10. CASE lev = 1
  <2>1. PICK t3, t2 : /\ Leads(m, o, 4, top, t3) /\ Leads(m, o, 3, t3, t2)
                      /\ Leads(m, o, 2, t2, t)
    BY <1>3, <1>10 DEF Reached
  <2>2. m2[top][o[4]] = m[top][o[4]] /\ On(L, A, o, 3, t3)
    <3>1. On(L, A, o, 4 - 1, t3) /\ m2[top][o[4]] = m[top][o[4]]
      BY <1>5, <1>6, <2>1
    <3> QED
      BY <3>1
  <2>3. m2[t3][o[3]] = m[t3][o[3]] /\ On(L, A, o, 2, t2)
    <3>1. On(L, A, o, 3 - 1, t2) /\ m2[t3][o[3]] = m[t3][o[3]]
      BY <1>5, <2>1, <2>2
    <3> QED
      BY <3>1
  <2>4. m2[t2][o[2]] = m[t2][o[2]]
    BY <1>5, <2>1, <2>3
  <2>5. PICK e4, e3, e2, e1 : /\ e4 = m[top][o[4]] /\ e3 = m[t3][o[3]]
                              /\ e2 = m[t2][o[2]] /\ e1 = m[t][o[1]]
    OBVIOUS
  <2>6. /\ e4.addr = t3 /\ e3.addr = t2 /\ e2.addr = t
        /\ m2[top][o[4]] = e4 /\ m2[t3][o[3]] = e3 /\ m2[t2][o[2]] = e2 /\ m2[t][o[1]] = e1
        /\ PRESENT \in e4.flags \cap e3.flags /\ PRESENT \in e2.flags /\ LARGE \notin e2.flags
    <3>1. /\ e4.addr = t3 /\ e3.addr = t2 /\ e2.addr = t
          /\ PRESENT \in e4.flags /\ PRESENT \in e3.flags
          /\ PRESENT \in e2.flags /\ LARGE \notin e2.flags
      BY <2>1, <2>5 DEF Leads
    <3>2. m2[top][o[4]] = e4 /\ m2[t3][o[3]] = e3 /\ m2[t2][o[2]] = e2
      BY <2>2, <2>3, <2>4, <2>5
    <3>3. m2[t][o[1]] = e1
      BY <1>4, <1>10, <2>5
    <3> QED
      BY <3>1, <3>2, <3>3
  <2>7. CASE PRESENT \notin e1.flags
    <3>1. Tr(m, top, v) = Unmapped
      BY <1>1, <2>5, <2>6, <2>7 DEF Tr
    <3>2. Tr(m2, top, v) = Unmapped
      BY <1>1, <2>5, <2>6, <2>7 DEF Tr
    <3> QED
      BY <3>1, <3>2
  <2>8. CASE PRESENT \in e1.flags
    <3> DEFINE r == [frame |-> e1.addr, perms |-> e1.flags \cap {WRITE},
                     path |-> (e4.flags \cap e3.flags) \cap e2.flags]
    <3>1. Tr(m, top, v) = r
      BY <1>1, <2>5, <2>6, <2>8 DEF Tr
    <3>2. Tr(m2, top, v) = r
      BY <1>1, <2>5, <2>6, <2>8 DEF Tr
    <3> QED
      BY <3>1, <3>2
  <2> QED
    BY <2>7, <2>8
<1> QED
  BY <1>3, <1>7, <1>8, <1>9, <1>10

------------------------------------------------------------------------------
(* The theorems.                                                            *)

\* The invariant holds whatever the calls are, as long as they do not mix page sizes.
THEOREM VmmInvariant ==
  ASSUME NotMixed, RoomForTop
  PROVE  Spec => []VmmInv
<1>1. Init => VmmInv
  BY InitInv
<1>2. VmmInv /\ [Next]_vmmVars => VmmInv'
  <2> SUFFICES ASSUME VmmInv, [Next]_vmmVars PROVE VmmInv'
    OBVIOUS
  <2>1. CASE NewAddressSpace
    BY <2>1, NewAddressSpaceStep
  <2>2. CASE MapKernel
    BY <2>2, MapKernelStep
  <2>3. CASE SetContext
    BY <2>3, SetContextStep
  <2>4. CASE \E c \in Requests : Call(c)
    BY <2>4, CallStep
  <2>5. CASE Descend
    BY <2>5, DescendStep
  <2>6. CASE GetOrAlloc
    BY <2>6, AllocTableStep, SetFlagsStep, ClearTableStep, AllocTableNullStep DEF GetOrAlloc
  <2>7. CASE GetOrNull \/ Fault
    BY <2>7, NoTableStep DEF GetOrNull
  <2>8. CASE WriteEntry
    BY <2>8, WriteEntryStep
  <2>9. CASE UNCHANGED vmmVars
    BY <2>9, StutterStep
  <2> QED
    BY <2>1, <2>2, <2>3, <2>4, <2>5, <2>6, <2>7, <2>8, <2>9 DEF Next
<1> QED
  BY <1>1, <1>2, PTL DEF Spec

\* The walk never leaves RAM and the call is always one that was asked for.
THEOREM TypeCorrect ==
  ASSUME NotMixed, RoomForTop
  PROVE  Spec => []TypeOK
<1>1. VmmInv => TypeOK
  BY DEF VmmInv
<1> QED
  BY <1>1, VmmInvariant, PTL

\* The tables below tables of one level are of the next one, and each is found once.
LEMMA BelowLevel ==
  ASSUME NEW L, NEW A, NEW U, Tree(Settled, Given, kernel_pml4, L, A, U),
         NEW T, T \subseteq DOMAIN L, NEW lev \in 2 .. 4, \A t \in T : L[t] = lev
  PROVE  /\ Below(T) \subseteq DOMAIN L /\ \A t \in Below(T) : L[t] = lev - 1
         /\ IsFiniteSet(Below(T)) /\ IsFiniteSet(Refs(T))
         /\ Cardinality(Below(T)) = Cardinality(Refs(T))
<1> DEFINE f == [r \in Refs(T) |-> Settled[r[1]][r[2]].addr]
<1>1. ASSUME NEW r \in Refs(T)
      PROVE  /\ r[1] \in T /\ r[2] \in Indices /\ r = <<r[1], r[2]>>
             /\ Child(L, A, U, r[1], r[2], Settled[r[1]][r[2]].addr)
  <2>1. /\ r[1] \in T /\ r[2] \in Indices /\ r = <<r[1], r[2]>>
        /\ Points(Settled[r[1]][r[2]])
    BY DEF Refs, Points
  <2>2. L[r[1]] >= 2 /\ EntryOK(L, A, U, r[1], r[2], Settled[r[1]][r[2]])
    BY <2>1, TreeTable
  <2> QED
    BY <2>1, <2>2 DEF EntryOK
<1>2. ASSUME NEW r \in Refs(T)
      PROVE  /\ Settled[r[1]][r[2]].addr \in DOMAIN L
             /\ L[Settled[r[1]][r[2]].addr] = lev - 1
             /\ U[Settled[r[1]][r[2]].addr] = r
  <2>1. L[r[1]] = lev /\ r = <<r[1], r[2]>>
    BY <1>1
  <2> QED
    BY <1>1, <2>1 DEF Child
<1>3. Below(T) \subseteq DOMAIN L /\ \A t \in Below(T) : L[t] = lev - 1
  BY <1>2 DEF Below
<1>4. IsFiniteSet(Refs(T))
  <2>1. IsFiniteSet(Ram) /\ IsFiniteSet(Indices)
    BY FS_Interval, VmmAssumption DEF Ram, Indices
  <2>2. IsFiniteSet(Ram \X Indices)
    BY <2>1, FS_Product
  <2>3. Refs(T) \in SUBSET (Ram \X Indices)
    BY DEF Refs
  <2> QED
    BY <2>2, <2>3, FS_Subset
<1>5. f \in Surjection(Refs(T), Below(T))
  BY DEF Below, Surjection
<1>6. f \in Injection(Refs(T), Below(T))
  <2>1. \A r1, r2 \in Refs(T) : f[r1] = f[r2] => r1 = r2
    BY <1>2
  <2>2. f \in [Refs(T) -> Below(T)]
    BY DEF Below
  <2> QED
    BY <2>1, <2>2 DEF Injection, IsInjective
<1> HIDE DEF f
<1>7. IsFiniteSet(Below(T)) /\ Cardinality(Below(T)) <= Cardinality(Refs(T))
      /\ (Cardinality(Below(T)) = Cardinality(Refs(T)) <=> f \in Injection(Refs(T), Below(T)))
  BY <1>4, <1>5, FS_Surjection
<1> QED
  BY <1>3, <1>4, <1>6, <1>7

LEMMA DisjointUnion ==
  ASSUME NEW S, NEW T, IsFiniteSet(S), IsFiniteSet(T), S \cap T = {}
  PROVE  /\ IsFiniteSet(S \cup T)
         /\ Cardinality(S \cup T) = Cardinality(S) + Cardinality(T)
<1>1. Cardinality(S \cap T) = 0 /\ Cardinality(S) \in Nat /\ Cardinality(T) \in Nat
  BY FS_EmptySet, FS_CardinalityType
<1>2. IsFiniteSet(S \cup T)
      /\ Cardinality(S \cup T) = Cardinality(S) + Cardinality(T) - Cardinality(S \cap T)
  BY FS_Union
<1> QED
  BY <1>1, <1>2

\* No page is used as two tables, and every table is in a page that Pmm gave out, as long
\* as the calls do not mix page sizes.
THEOREM TablesStayApart ==
  ASSUME NotMixed, RoomForTop
  PROVE  Spec => []TablesApart
<1>1. VmmInv => TablesApart
  <2> SUFFICES ASSUME VmmInv, pc # "boot" PROVE TablesApart
    BY DEF TablesApart
  <2> DEFINE T4 == {kernel_pml4}  T3 == Below(T4)  T2 == Below(T3)  T1 == Below(T2)
  <2>1. PICK L, A, U : Tree(Settled, Given, kernel_pml4, L, A, U)
    BY DEF VmmInv
  <2>2. T4 \subseteq DOMAIN L /\ \A t \in T4 : L[t] = 4
    BY <2>1 DEF Tree
  <2>3. IsFiniteSet(T4) /\ Cardinality(T4) = 1
    BY FS_Singleton
  <2> HIDE DEF T4
  <2>4. /\ T3 \subseteq DOMAIN L /\ \A t \in T3 : L[t] = 3
        /\ IsFiniteSet(T3) /\ Cardinality(T3) = Cardinality(Refs(T4))
    BY <2>1, <2>2, BelowLevel
  <2> HIDE DEF T3
  <2>5. /\ T2 \subseteq DOMAIN L /\ \A t \in T2 : L[t] = 2
        /\ IsFiniteSet(T2) /\ Cardinality(T2) = Cardinality(Refs(T3))
    BY <2>1, <2>4, BelowLevel
  <2> HIDE DEF T2
  <2>6. /\ T1 \subseteq DOMAIN L /\ \A t \in T1 : L[t] = 1
        /\ IsFiniteSet(T1) /\ Cardinality(T1) = Cardinality(Refs(T2))
    BY <2>1, <2>5, BelowLevel
  <2> HIDE DEF T1
  <2>7. T4 \cap T3 = {} /\ (T4 \cup T3) \cap T2 = {} /\ (T4 \cup T3 \cup T2) \cap T1 = {}
    BY <2>2, <2>4, <2>5, <2>6
  <2>8. IsFiniteSet(T4 \cup T3) /\ Cardinality(T4 \cup T3) = 1 + Cardinality(T3)
    BY <2>3, <2>4, <2>7, DisjointUnion
  <2>9. /\ IsFiniteSet(T4 \cup T3 \cup T2)
        /\ Cardinality(T4 \cup T3 \cup T2) = 1 + Cardinality(T3) + Cardinality(T2)
    BY <2>5, <2>7, <2>8, DisjointUnion
  <2>10. Cardinality(T4 \cup T3 \cup T2 \cup T1) =
           1 + Cardinality(T3) + Cardinality(T2) + Cardinality(T1)
    BY <2>6, <2>7, <2>9, DisjointUnion
  <2>11. Cardinality(T4 \cup T3 \cup T2 \cup T1) =
           1 + Cardinality(Refs(T4)) + Cardinality(Refs(T3)) + Cardinality(Refs(T2))
    BY <2>4, <2>5, <2>6, <2>10
  <2>12. \A t \in T4 \cup T3 \cup T2 \cup T1 : \E h \in held : t \in Pages!FramesOf(h)
    <3>1. \A t \in T4 \cup T3 \cup T2 \cup T1 : t \in Given
      BY <2>1, <2>2, <2>4, <2>5, <2>6, TreeTable
    <3> QED
      BY <3>1 DEF Given
  <2> QED
    BY <2>11, <2>12 DEF TablesApart, T4, T3, T2, T1
<1> QED
  BY <1>1, VmmInvariant, PTL

\* An entry above the last level that the MMU goes through.
LEMMA PresentEntry ==
  ASSUME MapsForWriting, NEW m, NEW g, NEW top, NEW L, NEW A, NEW U, Tree(m, g, top, L, A, U),
         NEW t \in DOMAIN L, NEW i \in Indices,
         L[t] >= 2, PRESENT \in m[t][i].flags, LARGE \notin m[t][i].flags
  PROVE  /\ m[t][i].addr \in DOMAIN L /\ L[m[t][i].addr] = L[t] - 1
         /\ WRITE \in m[t][i].flags
<1>1. EntryOK(L, A, U, t, i, m[t][i])
  BY TreeTable
<1>2. m[t][i] # Zero
  BY DEF Zero
<1>3. Points(m[t][i])
  BY <1>1, <1>2 DEF EntryOK
<1>4. Child(L, A, U, t, i, m[t][i].addr) /\ WRITE \in m[t][i].flags
  BY <1>1, <1>3 DEF EntryOK
<1> QED
  BY <1>4 DEF Child

\* A page that is mapped for writing can be written, as long as the calls do not mix page
\* sizes and every mapping is for writing: the flags a table got when it was made are
\* enough for those who use it later.
THEOREM WritesGoThrough ==
  ASSUME NotMixed, RoomForTop, MapsForWriting
  PROVE  Spec => []WritableAllTheWay
<1>1. VmmInv => WritableAllTheWay
  <2> SUFFICES ASSUME VmmInv, pc # "boot", NEW v \in VirtualPages,
                      Translate(Settled, v) # Unmapped, WRITE \in Translate(Settled, v).perms
               PROVE  WRITE \in Translate(Settled, v).path
    BY DEF WritableAllTheWay
  <2>1. PICK L, A, U : Tree(Settled, Given, kernel_pml4, L, A, U)
    BY DEF VmmInv
  <2>2. PICK m, top, g : m = Settled /\ top = kernel_pml4 /\ g = Given
    OBVIOUS
  <2>3. Tree(m, g, top, L, A, U) /\ top \in DOMAIN L /\ L[top] = 4
    BY <2>1, <2>2 DEF Tree
  <2>4. PICK o \in Path : o = virtual_to_entries(v)
    <3>1. v \in Nat
      BY DEF VirtualPages
    <3> QED
      BY <3>1, PathType
  <2> DEFINE e4 == m[top][o[4]]
             e3 == m[e4.addr][o[3]]
             e2 == m[e3.addr][o[2]]
             above == e4.flags \cap e3.flags
  <2>5. o[2] \in Indices /\ o[3] \in Indices /\ o[4] \in Indices
    BY <2>4 DEF Path
  <2>6. PRESENT \in above /\ PRESENT \in e2.flags
        /\ Translate(Settled, v).path = IF LARGE \in e2.flags THEN above ELSE above \cap e2.flags
    BY <2>2, <2>4 DEF Translate
  <2>7. ASSUME NEW t \in DOMAIN L, NEW i \in Indices, L[t] >= 3
        PROVE  LARGE \notin m[t][i].flags
    <3>1. EntryOK(L, A, U, t, i, m[t][i])
      BY <2>3, TreeTable
    <3>2. L[t] # 2
      BY <2>7
    <3> QED
      BY <3>1, <3>2 DEF EntryOK
  <2>12. ASSUME NEW t \in DOMAIN L, NEW i \in Indices, L[t] >= 2,
                PRESENT \in m[t][i].flags, LARGE \notin m[t][i].flags
         PROVE  /\ m[t][i].addr \in DOMAIN L /\ L[m[t][i].addr] = L[t] - 1
                /\ WRITE \in m[t][i].flags
    BY <2>3, <2>12, PresentEntry
  <2>13. e4 = m[top][o[4]] /\ e3 = m[e4.addr][o[3]] /\ e2 = m[e3.addr][o[2]]
         /\ above = e4.flags \cap e3.flags
    OBVIOUS
  <2> HIDE DEF e4, e3, e2, above
  <2>8. e4.addr \in DOMAIN L /\ L[e4.addr] = 3 /\ WRITE \in e4.flags
    <3>1. top \in DOMAIN L /\ o[4] \in Indices /\ L[top] >= 3 /\ L[top] >= 2 /\ L[top] - 1 = 3
      BY <2>3, <2>5
    <3>2. PRESENT \in m[top][o[4]].flags /\ LARGE \notin m[top][o[4]].flags
      BY <2>6, <2>7, <2>13, <3>1
    <3> QED
      BY <2>12, <2>13, <3>1, <3>2
  <2>10. e3.addr \in DOMAIN L /\ L[e3.addr] = 2 /\ WRITE \in e3.flags
    <3>1. e4.addr \in DOMAIN L /\ o[3] \in Indices /\ L[e4.addr] >= 3 /\ L[e4.addr] >= 2
          /\ L[e4.addr] - 1 = 2
      BY <2>5, <2>8
    <3>2. PRESENT \in m[e4.addr][o[3]].flags /\ LARGE \notin m[e4.addr][o[3]].flags
      BY <2>6, <2>7, <2>13, <3>1
    <3> QED
      BY <2>12, <2>13, <3>1, <3>2
  <2>11. LARGE \notin e2.flags => WRITE \in e2.flags
    <3>1. e3.addr \in DOMAIN L /\ o[2] \in Indices /\ L[e3.addr] >= 2
      BY <2>5, <2>10
    <3> QED
      BY <2>6, <2>12, <2>13, <3>1
  <2>14. WRITE \in above
    BY <2>8, <2>10, <2>13
  <2> QED
    BY <2>6, <2>11, <2>14
<1> QED
  BY <1>1, VmmInvariant, PTL

------------------------------------------------------------------------------
(* Vmm implements AddressSpace.                                             *)

\* The pages that the tables m below top map.
SpaceOf(m, top) ==
  [v \in {w \in VirtualPages : Tr(m, top, w) # Unmapped} |->
     [frame |-> Tr(m, top, v).frame, perms |-> Tr(m, top, v).perms]]

\* What Translate says is what Tr says.
LEMMA SpaceIs ==
  /\ pc # "boot" => Space = SpaceOf(Settled, kernel_pml4)
  /\ pc = "boot" => Space = [v \in {} |-> << >>]
<1>1. \A v : Translate(Settled, v) = Tr(Settled, kernel_pml4, v)
  BY DEF Translate, Tr
<1>2. pc # "boot" => Space = SpaceOf(Settled, kernel_pml4)
  BY <1>1 DEF Space, SpaceOf
<1>3. pc = "boot" => Space = [v \in {} |-> << >>]
  BY DEF Space
<1> QED
  BY <1>2, <1>3

\* The same of the next state.
LEMMA SpaceIsNext ==
  pc' # "boot" => Space' = SpaceOf(Settled', kernel_pml4')
<1>1. \A v : Translate(Settled, v)' = Tr(Settled', kernel_pml4', v)
  BY DEF Translate, Tr
<1>2. pc' # "boot" => Space' = SpaceOf(Settled', kernel_pml4')
  BY <1>1 DEF Space, SpaceOf
<1> QED
  BY <1>2

\* A step that changes no translation changes nothing.
LEMMA SameSpace ==
  ASSUME pc # "boot", pc' # "boot", kernel_pml4' = kernel_pml4,
         \A v \in VirtualPages : Tr(Settled', kernel_pml4, v) = Tr(Settled, kernel_pml4, v)
  PROVE  Space' = Space
<1>1. SpaceOf(Settled', kernel_pml4) = SpaceOf(Settled, kernel_pml4)
  BY DEF SpaceOf
<1> QED
  BY <1>1, SpaceIs, SpaceIsNext

\* Virtual pages are natural numbers.
LEMMA VirtualNat == VirtualPages \subseteq Nat
  BY VmmAssumption DEF VirtualPages

\* The same way to a table for pages with the same path down to its level.
LEMMA ReachedAgree ==
  ASSUME NEW m, NEW top, NEW o, NEW p, NEW lev, NEW t,
         Reached(m, top, p, lev, t), Agree(o, p, lev + 1)
  PROVE  Reached(m, top, o, lev, t)
<1>1. CASE lev = 4
  BY <1>1 DEF Reached
<1>2. CASE lev = 3
  BY <1>2 DEF Reached, Leads, Agree
<1>3. CASE lev = 2
  BY <1>3 DEF Reached, Leads, Agree
<1>4. CASE lev = 1
  BY <1>4 DEF Reached, Leads, Agree
<1> QED
  BY <1>1, <1>2, <1>3, <1>4 DEF Reached

\* The tables m2 are m with e at the entry that the path p takes in the table t.
Writes(m, given, top, L, A, U, p, lev, t, e, m2) ==
  /\ Tree(m, given, top, L, A, U)
  /\ p \in Path /\ lev \in 1 .. 4 /\ Reached(m, top, p, lev, t)
  /\ \A s \in DOMAIN L, i \in Indices :
       m2[s][i] = IF s = t /\ i = p[lev] THEN e ELSE m[s][i]

\* The pages whose way is p down to the entry find e there; no other page is affected.
LEMMA WritesOne ==
  ASSUME NEW m, NEW given, NEW top, NEW L, NEW A, NEW U, NEW p, NEW lev, NEW t, NEW e, NEW m2,
         Writes(m, given, top, L, A, U, p, lev, t, e, m2), NEW v \in VirtualPages
  PROVE  /\ Agree(virtual_to_entries(v), p, lev) =>
              /\ Reached(m, top, virtual_to_entries(v), lev, t)
              /\ Reached(m2, top, virtual_to_entries(v), lev, t)
              /\ m[t][virtual_to_entries(v)[lev]] = m[t][p[lev]]
              /\ m2[t][virtual_to_entries(v)[lev]] = e
         /\ ~Agree(virtual_to_entries(v), p, lev) => Tr(m2, top, v) = Tr(m, top, v)
<1>1. PICK o \in Path : o = virtual_to_entries(v)
  BY PathType, VirtualNat
<1>2. /\ Tree(m, given, top, L, A, U) /\ p \in Path /\ lev \in 1 .. 4
      /\ Reached(m, top, p, lev, t)
  BY DEF Writes
<1>3. t \in DOMAIN L /\ L[t] = lev /\ Agree(A[t], p, lev + 1)
  BY <1>2, ReachedOn DEF On
<1>4. \A s \in DOMAIN L, i \in Indices : m2[s][i] = IF s = t /\ i = p[lev] THEN e ELSE m[s][i]
  BY DEF Writes
<1>5. p[lev] \in Indices
  BY <1>2 DEF Path
<1>6. ASSUME Agree(o, p, lev)
      PROVE  /\ Reached(m, top, o, lev, t) /\ Reached(m2, top, o, lev, t)
             /\ m[t][o[lev]] = m[t][p[lev]] /\ m2[t][o[lev]] = e
  <2>1. o[lev] = p[lev] /\ Agree(o, p, lev + 1)
    BY <1>2, <1>6 DEF Agree
  <2>2. Reached(m, top, o, lev, t)
    BY <1>2, <2>1, ReachedAgree
  <2>3. \A s \in DOMAIN L, i \in Indices : L[s] > lev => m2[s][i] = m[s][i]
    BY <1>2, <1>3, <1>4
  <2>4. Reached(m2, top, p, lev, t)
    BY <1>2, <2>3, ReachedSame
  <2>5. Reached(m2, top, o, lev, t)
    BY <2>1, <2>4, ReachedAgree
  <2> QED
    BY <1>3, <1>4, <1>5, <2>1, <2>2, <2>5
<1>7. ASSUME ~Agree(o, p, lev) PROVE Tr(m2, top, v) = Tr(m, top, v)
  <2>1. ASSUME NEW s \in DOMAIN L, NEW l \in 1 .. 4, On(L, A, o, l, s)
        PROVE  m2[s][o[l]] = m[s][o[l]]
    <3>1. o[l] \in Indices
      BY DEF Path
    <3>2. ASSUME s = t, o[l] = p[lev] PROVE FALSE
      <4>1. l = lev /\ Agree(A[t], o, lev + 1)
        BY <1>3, <2>1, <3>2 DEF On
      <4>2. \A k \in 1 .. 4 : k >= lev + 1 => o[k] = p[k]
        BY <1>3, <4>1 DEF Agree
      <4>3. \A k \in 1 .. 4 : k >= lev => k = lev \/ k >= lev + 1
        BY <1>2
      <4> QED
        BY <1>7, <3>2, <4>1, <4>2, <4>3 DEF Agree
    <3> QED
      BY <1>4, <3>1, <3>2
  <2> QED
    BY <1>1, <1>2, <2>1, TrFrame, VirtualNat
<1> QED
  BY <1>1, <1>6, <1>7

\* Below an entry for an empty table, present or not, nothing is mapped.
LEMMA TrEmpty ==
  ASSUME NEW m, NEW top, NEW v \in VirtualPages, NEW lev \in 2 .. 4, NEW t, NEW e,
         Reached(m, top, virtual_to_entries(v), lev, t),
         e = m[t][virtual_to_entries(v)[lev]],
         PRESENT \in e.flags => LARGE \notin e.flags /\ \A i \in Indices : m[e.addr][i] = Zero
  PROVE  Tr(m, top, v) = Unmapped
<1>1. PICK o \in Path : o = virtual_to_entries(v)
  BY PathType, VirtualNat
<1>2. CASE PRESENT \notin e.flags
  BY <1>2, TrNone
<1>3. CASE PRESENT \in e.flags
  <2>1. Leads(m, o, lev, t, e.addr)
    BY <1>1, <1>3 DEF Leads
  <2>2. Reached(m, top, o, lev - 1, e.addr)
    BY <1>1, <2>1, ReachedNext
  <2>3. lev - 1 \in 1 .. 4 /\ m[e.addr][o[lev - 1]] = Zero
    BY <1>3 DEF Path
  <2>4. PRESENT \notin m[e.addr][o[lev - 1]].flags
    BY <2>3 DEF Zero
  <2> QED
    BY <1>1, <2>2, <2>3, <2>4, TrNone
<1> QED
  BY <1>2, <1>3

\* An entry without an address, on the way of a call, maps nothing: only a huge page may
\* have frame 0 above the last level, and no call on small pages comes to one.
LEMMA EntryIsZero ==
  ASSUME VmmInv, NeverMixed, AtTable, entry.addr = 0, NEW L, NEW A, NEW U,
         Tree(Settled, Given, kernel_pml4, L, A, U), Walk(L, A, U)
  PROVE  entry = Zero
<1>1. pc = "walk" /\ tab # Null /\ level > Leaf
  BY DEF AtTable
<1>2. /\ L[tab] = level /\ EntryOK(L, A, U, tab, offs[level], entry) /\ level \in 1 .. 4
      /\ A[tab] \in Path /\ offs \in Path /\ Agree(A[tab], offs, level + 1) /\ Leaf \in {1, 2}
  BY <1>1, AtEntry
<1>3. ASSUME LARGE \in entry.flags PROVE FALSE
  <2>1. L[tab] = 2 /\ InAnyHuge([A[tab] EXCEPT ![2] = offs[2]])
    BY <1>2, <1>3 DEF EntryOK
  <2> DEFINE p == [A[tab] EXCEPT ![2] = offs[2]]
  <2>2. p \in Path
    BY <1>2 DEF Path
  <2>3. \A l \in 1 .. 4 : l >= 2 => p[l] = offs[l]
    BY <1>2, <2>1 DEF Agree, Path
  <2>4. Agree(p, offs, 2)
    BY <2>3 DEF Agree
  <2>5. call.op \notin HugeOps /\ CallInv /\ call # NoCall
    BY <1>1, <1>2, <2>1 DEF Leaf, VmmInv
  <2> HIDE DEF p
  <2>6. InSmall(p)
    BY <2>4, <2>5, CallPath
  <2> QED
    BY <2>1, <2>2, <2>6 DEF NeverMixed, p
<1>4. ~Points(entry)
  BY DEF Points
<1>5. L[tab] >= 2
  BY <1>1, <1>2
<1> QED
  BY <1>2, <1>3, <1>4, <1>5 DEF EntryOK

\* The new table is not present yet: nothing changes for the MMU.
LEMMA AllocTableSpace ==
  ASSUME VmmInv, NeverMixed, AllocTable
  PROVE  Space' = Space
<1> DEFINE n == Min(Free)
           j == offs[level]
           e == [addr |-> n, flags |-> {}]
<1>1. /\ AtTable /\ pc = "walk" /\ tab # Null /\ pc' = "flags" /\ entry.addr = 0 /\ Free # {}
      /\ mem' = [mem EXCEPT ![tab][j] = e]
      /\ UNCHANGED <<kernel_pml4, call, tab, level>>
  BY DEF AllocTable, AtTable, walkVars
<1>2. PICK L, A, U : /\ Tree(Settled, Given, kernel_pml4, L, A, U) /\ Walk(L, A, U)
                     /\ Rooted(L)
  BY <1>1 DEF VmmInv
<1>3. /\ tab \in DOMAIN L /\ tab \in Ram /\ L[tab] = level /\ j \in Indices
      /\ offs \in Path /\ level \in 1 .. 4 /\ entry = mem[tab][j]
  BY <1>1, <1>2, AtEntry
<1>4. entry = Zero
  BY <1>1, <1>2, EntryIsZero
<1>5. n \in Ram /\ n \notin Given
  BY <1>1, LeastFree DEF VmmInv
<1>6. mem \in [Ram -> [Indices -> Entry]] /\ Settled = mem
  BY <1>1, SettledMem DEF VmmInv, TypeOK
<1>7. offs' = offs
  BY <1>1, SameCall
<1> HIDE DEF n
<1>8. mem'[tab][j] = e /\ entry' = mem'[tab][j]
  BY <1>1, <1>3, <1>6, <1>7 DEF entry
<1>9. Settled' = [mem' EXCEPT ![n] = Empty]
  BY <1>1, <1>8 DEF Settled, Empty, Zero, Indices
<1>10. ASSUME NEW s \in DOMAIN L, NEW i \in Indices
       PROVE  Settled'[s][i] = IF s = tab /\ i = j THEN e ELSE mem[s][i]
  <2>1. s \in Ram /\ s # n
    BY <1>2, <1>5, TreeTable
  <2> QED
    BY <1>1, <1>3, <1>6, <1>8, <1>9, <2>1
<1>11. PICK m, m2, p : m = Settled /\ m2 = Settled' /\ p = offs
  OBVIOUS
<1>12. Writes(m, Given, kernel_pml4, L, A, U, p, level, tab, e, m2)
  BY <1>1, <1>2, <1>3, <1>6, <1>10, <1>11 DEF Writes, Rooted
<1> HIDE DEF e
<1>13. ASSUME NEW v \in VirtualPages PROVE Tr(m2, kernel_pml4, v) = Tr(m, kernel_pml4, v)
  <2>1. CASE Agree(virtual_to_entries(v), p, level)
    <3>1. /\ Reached(m, kernel_pml4, virtual_to_entries(v), level, tab)
          /\ Reached(m2, kernel_pml4, virtual_to_entries(v), level, tab)
          /\ m[tab][virtual_to_entries(v)[level]] = m[tab][p[level]]
          /\ m2[tab][virtual_to_entries(v)[level]] = e
      BY <1>12, <2>1, WritesOne
    <3>2. PRESENT \notin m[tab][p[level]].flags /\ PRESENT \notin e.flags
      <4>1. m[tab][p[level]] = Zero
        BY <1>3, <1>4, <1>6, <1>11
      <4> QED
        BY <4>1 DEF Zero, e
    <3>3. Tr(m, kernel_pml4, v) = Unmapped
      BY <1>3, <3>1, <3>2, TrNone
    <3>4. Tr(m2, kernel_pml4, v) = Unmapped
      BY <1>3, <3>1, <3>2, TrNone
    <3> QED
      BY <3>3, <3>4
  <2>2. CASE ~Agree(virtual_to_entries(v), p, level)
    BY <1>12, <2>2, WritesOne
  <2> QED
    BY <2>1, <2>2
<1> QED
  BY <1>1, <1>11, <1>13, SameSpace

\* The new table is present and taken for empty: it maps nothing.
LEMMA SetFlagsSpace ==
  ASSUME VmmInv, SetFlags
  PROVE  Space' = Space
<1> DEFINE j == offs[level]
           e == [entry EXCEPT !.flags = call.perms \cup {PRESENT}]
<1>1. /\ pc = "flags" /\ pc' = "clear"
      /\ mem' = [mem EXCEPT ![tab][j].flags = call.perms \cup {PRESENT}]
      /\ UNCHANGED <<kernel_pml4, call, tab, level>>
  BY DEF SetFlags, walkVars
<1>2. PICK L, A, U : /\ Tree(Settled, Given, kernel_pml4, L, A, U) /\ Walk(L, A, U)
                     /\ Rooted(L)
  BY <1>1 DEF VmmInv
<1>3. /\ tab # Null /\ tab \in DOMAIN L /\ tab \in Ram /\ level \in 2 .. 4 /\ j \in Indices
      /\ entry.addr \in Ram /\ entry.addr # tab /\ Points(entry)
      /\ entry \in Entry /\ entry = mem[tab][j]
      /\ Settled = [mem EXCEPT ![entry.addr] = Empty] /\ Settled[tab][j] = entry
  BY <1>1, <1>2, NewTable
<1>4. offs \in Path
  BY <1>1, <1>2, <1>3, AtEntry
<1>5. call.perms \in SUBSET {WRITE}
  <2>1. call \in CallType /\ call # NoCall
    BY <1>1 DEF VmmInv, TypeOK
  <2> QED
    BY <2>1 DEF CallType
<1>6. e \in Entry /\ e.addr = entry.addr /\ e.flags = call.perms \cup {PRESENT}
  BY <1>3, <1>5 DEF Entry
<1>7. LARGE \notin e.flags /\ LARGE \notin entry.flags
  BY <1>3, <1>5, <1>6 DEF Points, LARGE, PRESENT, WRITE
<1>8. mem \in [Ram -> [Indices -> Entry]]
  BY DEF VmmInv, TypeOK
<1>9. mem' = [mem EXCEPT ![tab][j] = e] /\ mem'[tab][j] = e
  BY <1>1, <1>3, <1>6, <1>8
<1>10. offs' = offs
  BY <1>1, SameCall
<1>11. entry' = e
  BY <1>1, <1>9, <1>10 DEF entry
<1> HIDE DEF e
<1>12. Settled' = [mem' EXCEPT ![entry.addr] = Empty]
  BY <1>1, <1>6, <1>11 DEF Settled, Empty, Zero, Indices
<1>13. PICK m, m2, p, n : m = Settled /\ m2 = Settled' /\ p = offs /\ n = entry.addr
  OBVIOUS
<1>14. /\ m2 = [m EXCEPT ![tab][j] = e] /\ \A i \in Indices : m[n][i] = Zero /\ m2[n][i] = Zero
  BY <1>3, <1>8, <1>9, <1>12, <1>13 DEF Empty
<1>15. \A s \in DOMAIN L, i \in Indices : m2[s][i] = IF s = tab /\ i = j THEN e ELSE m[s][i]
  <2>1. \A s \in DOMAIN L : s \in Ram
    BY <1>2, TreeTable
  <2>2. m \in [Ram -> [Indices -> Entry]]
    BY <1>1, <1>2, <1>13, NewTable
  <2> QED
    BY <1>3, <1>14, <2>1, <2>2
<1>16. Writes(m, Given, kernel_pml4, L, A, U, p, level, tab, e, m2)
  BY <1>1, <1>2, <1>3, <1>4, <1>13, <1>15 DEF Writes, Rooted
<1>17. ASSUME NEW v \in VirtualPages PROVE Tr(m2, kernel_pml4, v) = Tr(m, kernel_pml4, v)
  <2>1. CASE Agree(virtual_to_entries(v), p, level)
    <3>1. /\ Reached(m, kernel_pml4, virtual_to_entries(v), level, tab)
          /\ Reached(m2, kernel_pml4, virtual_to_entries(v), level, tab)
          /\ m[tab][virtual_to_entries(v)[level]] = m[tab][p[level]]
          /\ m2[tab][virtual_to_entries(v)[level]] = e
      BY <1>16, <2>1, WritesOne
    <3>2. PICK e0 : e0 = entry
      OBVIOUS
    <3>3. e0 = m[tab][virtual_to_entries(v)[level]] /\ e0.addr = n /\ LARGE \notin e0.flags
      BY <1>3, <1>7, <1>13, <3>1, <3>2
    <3>4. Tr(m, kernel_pml4, v) = Unmapped
      BY <1>3, <1>14, <3>1, <3>3, TrEmpty
    <3>5. e.addr = n
      BY <1>6, <1>13
    <3>6. Tr(m2, kernel_pml4, v) = Unmapped
      <4>1. \A i \in Indices : m2[e.addr][i] = Zero
        BY <1>14, <3>5
      <4>2. e = m2[tab][virtual_to_entries(v)[level]] /\ level \in 2 .. 4 /\ LARGE \notin e.flags
        BY <1>3, <1>7, <3>1
      <4> QED
        BY <3>1, <4>1, <4>2, TrEmpty
    <3> QED
      BY <3>4, <3>6
  <2>2. CASE ~Agree(virtual_to_entries(v), p, level)
    BY <1>16, <2>2, WritesOne
  <2> QED
    BY <2>1, <2>2
<1> QED
  BY <1>1, <1>13, <1>17, SameSpace

\* The other steps of a walk that do not write the entry of a page.
LEMMA WalkSpace ==
  ASSUME VmmInv, NeverMixed, Descend \/ ClearTable \/ AllocTableNull \/ GetOrNull \/ Fault
  PROVE  Space' = Space
<1>1. pc # "boot" /\ pc' # "boot" /\ kernel_pml4' = kernel_pml4
  BY DEF Descend, ClearTable, AllocTableNull, GetOrNull, ReturnFalse, MissingUnchecked, Fault,
         AtTable, walkVars
<1>2. Settled' = Settled
  <2>1. CASE Descend \/ GetOrNull \/ Fault
    <3>1. mem' = mem /\ pc \notin {"flags", "clear"} /\ pc' \notin {"flags", "clear"}
      BY <2>1 DEF Descend, GetOrNull, ReturnFalse, MissingUnchecked, Fault, AtTable, walkVars
    <3> QED
      BY <3>1 DEF Settled
  <2>2. CASE ClearTable
    BY <2>2 DEF ClearTable, Settled
  <2>3. CASE AllocTableNull
    <3>1. /\ AtTable /\ pc = "walk" /\ tab # Null /\ pc' = "walk" /\ entry.addr = 0
          /\ mem' = [mem EXCEPT ![tab][offs[level]] = Zero]
      BY <2>3 DEF AllocTableNull, AtTable, walkVars
    <3>2. PICK L, A, U : Tree(Settled, Given, kernel_pml4, L, A, U) /\ Walk(L, A, U)
      BY <3>1 DEF VmmInv
    <3>3. tab \in Ram /\ offs[level] \in Indices /\ mem[tab][offs[level]] = Zero
      BY <3>1, <3>2, AtEntry, EntryIsZero
    <3>4. mem \in [Ram -> [Indices -> Entry]]
      BY DEF VmmInv, TypeOK
    <3>5. mem' = mem
      BY <3>1, <3>3, <3>4
    <3> QED
      BY <3>1, <3>5 DEF Settled
  <2> QED
    BY <2>1, <2>2, <2>3
<1> QED
  BY <1>1, <1>2, SameSpace

\* A new address space is empty.
LEMMA NewSpace ==
  ASSUME VmmInv, RoomForTop, NewAddressSpace
  PROVE  Space' = Space
<1>1. pc = "boot" /\ pc' = "idle"
  BY DEF NewAddressSpace
<1>2. Settled' = mem' /\ mem' = [mem EXCEPT ![kernel_pml4'] = Empty] /\ kernel_pml4' \in Ram
  <2>1. VmmInv'
    BY NewAddressSpaceStep
  <2> QED
    BY <1>1, <2>1 DEF NewAddressSpace, Settled, VmmInv, TypeOK
<1>3. PICK m, top : m = Settled' /\ top = kernel_pml4'
  OBVIOUS
<1>4. \A i \in Indices : m[top][i] = Zero
  BY <1>2, <1>3 DEF VmmInv, TypeOK, Empty
<1>5. ASSUME NEW v \in VirtualPages PROVE Tr(m, top, v) = Unmapped
  <2>1. Reached(m, top, virtual_to_entries(v), 4, top)
    BY DEF Reached
  <2>2. virtual_to_entries(v)[4] \in Indices
    BY PathType, VirtualNat DEF Path
  <2>3. PRESENT \notin m[top][virtual_to_entries(v)[4]].flags
    BY <1>4, <2>2 DEF Zero
  <2> QED
    BY <2>1, <2>3, TrNone
<1>6. SpaceOf(m, top) = [v \in {} |-> << >>]
  BY <1>5 DEF SpaceOf
<1> QED
  BY <1>1, <1>3, <1>6, SpaceIs, SpaceIsNext

\* The pages of the next step of the call.
LEMMA CallPages ==
  ASSUME CallInv, call # NoCall, WithinPages
  PROVE  /\ call.virt \in VirtualPages
         /\ Abstract!Target(call) = call.virt .. call.virt + Span(Leaf) - 1
         /\ Abstract!Target(call) \subseteq VirtualPages
         /\ Leaf = 2 => \E q \in Nat : call.virt = q * Slots
<1>1. PICK c \in Calls : \E k \in Steps(c) : call = Left(c, k)
  BY DEF CallInv
<1>2. PICK k \in Steps(c) : call = Left(c, k)
  BY <1>1
<1>3. call.op = c.op /\ call.virt = c.virt + k * Stride(c)
  BY <1>2 DEF Left, PageAt
<1>4. c.virt \in Nat /\ c.count \in Nat \ {0} /\ k \in Nat /\ k <= c.count - 1
  BY CallsType DEF CallType, Steps
<1>5. PICK S \in Nat \ {0}, T \in Nat \ {0} :
        /\ S = Slots /\ T = Stride(c) /\ T = Span(Leaf)
        /\ Leaf = IF c.op \in HugeOps THEN 2 ELSE 1
  BY <1>3, StrideIsSpan, VmmAssumption
<1>6. PICK V \in Nat : V = Slots * Slots * Slots * Slots /\ c.virt + c.count * T <= V
  <2>1. PICK V \in Nat : V = Slots * Slots * Slots * Slots
    <3>1. Slots * Slots * Slots * Slots \in Nat
      BY VmmAssumption
    <3> QED
      BY <3>1
  <2>2. PageAt(c, c.count) <= Slots * Slots * Slots * Slots
    BY Zenon DEF WithinPages
  <2>3. c.virt + c.count * T <= V
    BY <1>5, <2>1, <2>2 DEF PageAt
  <2> QED
    BY <2>1, <2>3
<1>7. call.virt \in Nat /\ call.virt + T <= V
  <2>1. (k + 1) * T <= c.count * T
    BY <1>4, <1>5
  <2>2. (k + 1) * T = k * T + T /\ k * T \in Nat /\ c.count * T \in Nat
    BY <1>4, <1>5
  <2> QED
    BY <1>3, <1>4, <1>5, <1>6, <2>1, <2>2
<1>8. VirtualPages = 0 .. V - 1
  BY <1>6 DEF VirtualPages
<1>9. Abstract!Target(call) = call.virt .. call.virt + T - 1
  <2>1. Abstract!Step(call) = T
    BY <1>3, <1>5 DEF Abstract!Step, Stride, HugeOps, Abstract!HugeOps
  <2> QED
    BY <2>1 DEF Abstract!Target
<1>10. ASSUME Leaf = 2 PROVE \E q \in Nat : call.virt = q * Slots
  <2>1. c.virt % Slots = 0 /\ T = S
    <3>1. c.op \in HugeOps
      BY <1>5, <1>10
    <3>2. c.virt % Slots = 0
      BY <3>1, Zenon DEF WithinPages
    <3>3. T = S
      BY <1>5, <1>10, SpanType
    <3> QED
      BY <3>2, <3>3
  <2>2. PICK r \in Nat : r = c.virt \div S /\ c.virt = r * S
    <3>1. c.virt = (c.virt \div S) * S + (c.virt % S) /\ c.virt \div S \in Nat
      BY <1>4, Parts
    <3>2. (c.virt \div S) * S \in Nat
      BY <3>1
    <3> QED
      BY <1>5, <2>1, <3>1, <3>2
  <2>3. r * S + k * S = (r + k) * S
    BY <1>4
  <2>4. call.virt = r * S + k * S
    BY <1>3, <1>5, <2>1, <2>2
  <2>5. call.virt = (r + k) * Slots /\ r + k \in Nat
    BY <1>4, <1>5, <2>3, <2>4
  <2> QED
    BY <2>5
<1> QED
  BY <1>5, <1>7, <1>8, <1>9, <1>10

\* They are the pages whose way leads through the entry that the step writes.
LEMMA TargetIs ==
  ASSUME CallInv, call # NoCall, WithinPages, NEW v \in VirtualPages
  PROVE  /\ Agree(virtual_to_entries(v), offs, Leaf) <=> v \in Abstract!Target(call)
         /\ v \in Abstract!Target(call) =>
              /\ Leaf = 1 => v = call.virt
              /\ Leaf = 2 => virtual_to_entries(v)[1] = v - call.virt
<1>1. PICK w \in VirtualPages : w = call.virt
  BY CallPages
<1>2. v \in Nat /\ w \in Nat
  BY VirtualNat
<1>3. Abstract!Target(call) = w .. w + Span(Leaf) - 1 /\ offs = virtual_to_entries(w)
  BY <1>1, CallPages DEF offs
<1>4. Span(1) = 1 /\ Span(2) = Slots /\ Slots \in Nat \ {0}
  BY SpanType, VmmAssumption
<1>5. Leaf \in {1, 2}
  BY DEF Leaf
<1>6. CASE Leaf = 1
  <2>1. Abstract!Target(call) = {w}
    BY <1>2, <1>3, <1>4, <1>6
  <2>2. ASSUME Agree(virtual_to_entries(v), offs, 1) PROVE v = w
    <3>1. v \div 1 = w \div 1
      BY <1>3, <1>4, <2>2, SameWay
    <3> QED
      BY <1>2, <3>1
  <2>3. Agree(virtual_to_entries(w), virtual_to_entries(w), 1)
    BY DEF Agree
  <2> QED
    BY <1>1, <1>3, <1>6, <2>1, <2>2, <2>3
<1>7. CASE Leaf = 2
  <2>1. PICK q \in Nat, S \in Nat \ {0} : w = q * S /\ S = Slots
    BY <1>1, <1>4, <1>7, CallPages
  <2>2. w \div S = q
    BY <1>2, <2>1, QuotientUnique
  <2>3. v \in w .. w + S - 1 <=> v \div S = q
    <3>1. ASSUME v \in w .. w + S - 1 PROVE v \div S = q
      BY <1>2, <2>1, <3>1, QuotientUnique
    <3>2. ASSUME v \div S = q PROVE v \in w .. w + S - 1
      <4>1. q * S <= v /\ v < q * S + S
        BY <1>2, <3>2, Quotient
      <4> QED
        BY <1>2, <2>1, <4>1
    <3> QED
      BY <3>1, <3>2
  <2>4. Agree(virtual_to_entries(v), offs, 2) <=> v \div S = q
    <3>1. ASSUME Agree(virtual_to_entries(v), offs, 2) PROVE v \div S = q
      <4>1. v \div Span(2) = w \div Span(2)
        BY <1>3, <3>1, SameWay
      <4> QED
        BY <1>4, <2>1, <2>2, <4>1
    <3>2. ASSUME v \div S = q PROVE Agree(virtual_to_entries(v), offs, 2)
      BY <1>2, <1>3, <2>1, <2>2, <3>2, WayOfHuge
    <3> QED
      BY <3>1, <3>2
  <2>5. ASSUME v \div S = q PROVE virtual_to_entries(v)[1] = v - w
    <3>1. v = q * S + (v % S) /\ v % S \in Nat
      <4>1. v = (v \div S) * S + (v % S) /\ v % S \in Nat
        BY <1>2, <2>1, Parts
      <4> QED
        BY <2>5, <4>1
    <3>2. v \div 1 = v /\ q * S \in Nat
      BY <1>2
    <3>3. virtual_to_entries(v)[1] = v % S
      BY <1>4, <2>1, <3>2 DEF virtual_to_entries
    <3> QED
      BY <1>2, <2>1, <3>1, <3>2, <3>3
  <2> QED
    BY <1>1, <1>3, <1>4, <1>7, <2>1, <2>3, <2>4, <2>5
<1> QED
  BY <1>5, <1>6, <1>7

\* What the entry of a page holds before it is written, when the call does not look
\* for a table there: a page, or nothing at all.
LEMMA OldEntry ==
  ASSUME VmmInv, NeverMixed, AtLeaf, call.op \in {"map_huge", "update_huge", "map", "update"},
         NEW L, NEW A, NEW U,
         Tree(Settled, Given, kernel_pml4, L, A, U), Walk(L, A, U)
  PROVE  IF PRESENT \in entry.flags THEN Leaf = 2 => LARGE \in entry.flags ELSE entry = Zero
<1>1. pc = "walk" /\ tab # Null /\ level = Leaf
  BY DEF AtLeaf
<1>2. /\ L[tab] = level /\ EntryOK(L, A, U, tab, offs[level], entry) /\ Leaf \in {1, 2}
      /\ A[tab] \in Path /\ offs \in Path /\ Agree(A[tab], offs, level + 1)
  BY <1>1, AtEntry
<1>3. CASE Leaf = 1
  BY <1>1, <1>2, <1>3 DEF EntryOK
<1>4. CASE Leaf = 2
  <2>1. ASSUME Points(entry) PROVE FALSE
    <3>1. PICK u : u = entry.addr
      OBVIOUS
    <3>2. /\ u \in DOMAIN L /\ L[u] = 1
          /\ A[u][2] = offs[2] /\ Agree(A[u], A[tab], 3)
      BY <1>1, <1>2, <1>4, <2>1, <3>1 DEF EntryOK, Child
    <3>3. A[u] \in Path /\ InSmall(A[u])
      BY <3>2 DEF Tree, TableOK
    <3>4. Agree(A[tab], offs, 3)
      BY <1>1, <1>2, <1>4
    <3>5. Agree(A[u], offs, 2)
      <4>1. \A l \in 1 .. 4 : l >= 2 => l = 2 \/ l >= 3
        OBVIOUS
      <4> QED
        BY <3>2, <3>4, <4>1 DEF Agree
    <3>6. call.op \in {"map_huge", "update_huge"} /\ CallInv /\ call # NoCall
      BY <1>1, <1>4 DEF Leaf, HugeOps, VmmInv
    <3>7. InAnyHuge(A[u])
      BY <3>5, <3>6, CallPath
    <3> QED
      BY <3>3, <3>7 DEF NeverMixed
  <2>2. L[tab] = 2
    BY <1>1, <1>2, <1>4
  <2>3. LARGE \notin entry.flags => entry = Zero
    BY <1>2, <2>1, <2>2 DEF EntryOK
  <2>4. LARGE \in entry.flags => PRESENT \in entry.flags
    BY <1>2 DEF EntryOK
  <2>5. entry = Zero => PRESENT \notin entry.flags
    BY DEF Zero
  <2> QED
    BY <1>4, <2>3, <2>4, <2>5
<1> QED
  BY <1>2, <1>3, <1>4

\* The entry e maps the page v of the call in the tables m.
Maps(m, v, e) ==
  /\ Tr(m, kernel_pml4, v) # Unmapped
  /\ Tr(m, kernel_pml4, v).frame = e.addr + (v - call.virt)
  /\ Tr(m, kernel_pml4, v).perms = e.flags \cap {WRITE}

\* An entry of the right kind at the level of the call maps its page.
LEMMA EntryMaps ==
  ASSUME CallInv, call # NoCall, WithinPages, NEW v \in VirtualPages,
         v \in Abstract!Target(call), NEW m, NEW t, NEW e,
         Reached(m, kernel_pml4, virtual_to_entries(v), Leaf, t),
         e = m[t][virtual_to_entries(v)[Leaf]], PRESENT \in e.flags, e.addr \in Nat,
         Leaf = 2 => LARGE \in e.flags
  PROVE  Maps(m, v, e)
<1>1. Leaf = 1 \/ Leaf = 2
  BY DEF Leaf
<1>2. v \in Nat /\ call.virt \in Nat
  BY CallPages, VirtualNat
<1>3. CASE Leaf = 1
  <2>1. v = call.virt
    BY <1>3, TargetIs
  <2>2. e.addr + (v - call.virt) = e.addr
    BY <1>2, <2>1
  <2>3. /\ Tr(m, kernel_pml4, v).frame = e.addr
        /\ Tr(m, kernel_pml4, v).perms = e.flags \cap {WRITE}
        /\ Tr(m, kernel_pml4, v) # Unmapped
    BY <1>3, TrSmall
  <2> QED
    BY <2>2, <2>3, Zenon DEF Maps
<1>4. CASE Leaf = 2
  <2>1. virtual_to_entries(v)[1] = v - call.virt
    BY <1>4, TargetIs
  <2>2. /\ Tr(m, kernel_pml4, v).frame = e.addr + virtual_to_entries(v)[1]
        /\ Tr(m, kernel_pml4, v).perms = e.flags \cap {WRITE}
        /\ Tr(m, kernel_pml4, v) # Unmapped
    BY <1>2, <1>4, TrHuge
  <2> QED
    BY <2>1, <2>2, Zenon DEF Maps
<1> QED
  BY <1>1, <1>3, <1>4

\* What writing the entry does to the pages of the call, and to no others.
LEMMA WritePages ==
  ASSUME VmmInv, NeverMixed, WithinPages, WriteEntry, NEW v \in VirtualPages
  PROVE  /\ v \notin Abstract!Target(call) =>
              Tr(Settled', kernel_pml4, v) = Tr(Settled, kernel_pml4, v)
         /\ v \in Abstract!Target(call) =>
              /\ IF NewEntry(entry) = Zero THEN Tr(Settled', kernel_pml4, v) = Unmapped
                                           ELSE Maps(Settled', v, NewEntry(entry))
              /\ call.op \in {"update", "update_huge"} =>
                   IF PRESENT \in entry.flags THEN Maps(Settled, v, entry)
                   ELSE Tr(Settled, kernel_pml4, v) = Unmapped /\ entry.addr = 0
<1> DEFINE j == offs[level]
<1>1. /\ pc = "walk" /\ tab # Null /\ level = Leaf /\ AtLeaf
      /\ mem' = [mem EXCEPT ![tab][j] = NewEntry(@)]
      /\ NextPage(call.virt + Span(Leaf), call.phys + Span(Leaf))
  BY Zenon DEF WriteEntry, AtLeaf
<1>2. PICK L, A, U : /\ Tree(Settled, Given, kernel_pml4, L, A, U) /\ Walk(L, A, U)
                     /\ Rooted(L)
  BY <1>1 DEF VmmInv
<1>3. /\ tab \in DOMAIN L /\ tab \in Ram /\ L[tab] = level /\ j \in Indices /\ Leaf \in {1, 2}
      /\ offs \in Path /\ entry = mem[tab][j] /\ entry \in Entry
  BY <1>1, <1>2, AtEntry
<1>4. call # NoCall /\ call \in CallType /\ CallInv /\ mem \in [Ram -> [Indices -> Entry]]
  BY <1>1 DEF VmmInv, TypeOK
<1>5. PICK e, old, m, m2, p :
        /\ e = NewEntry(entry) /\ old = entry /\ m = Settled /\ m2 = Settled' /\ p = offs
  OBVIOUS
<1>6. /\ e \in Entry
      /\ \/ e = Zero
         \/ PRESENT \in e.flags /\ (LARGE \in e.flags <=> call.op \in HugeOps)
  BY <1>3, <1>4, <1>5, NewEntryIs
<1>7. m = mem /\ m2 = mem'
  <2>1. pc' \in {"walk", "idle"}
    BY <1>1, <1>4, NextPageStep
  <2> QED
    BY <1>1, <1>5, <2>1 DEF Settled
<1>8. m2 = [m EXCEPT ![tab][j] = e]
  BY <1>1, <1>3, <1>4, <1>5, <1>7
<1>9. \A s \in DOMAIN L, i \in Indices : m2[s][i] = IF s = tab /\ i = j THEN e ELSE m[s][i]
  <2>1. \A s \in DOMAIN L : s \in Ram
    BY <1>2, TreeTable
  <2> QED
    BY <1>3, <1>4, <1>7, <1>8, <2>1
<1>10. PICK lev \in 1 .. 2 : lev = level /\ lev = Leaf /\ j = p[lev]
  BY <1>1, <1>3, <1>5
<1>11. Writes(m, Given, kernel_pml4, L, A, U, p, lev, tab, e, m2)
  <2>1. Reached(m, kernel_pml4, p, lev, tab)
    BY <1>1, <1>2, <1>5, <1>10 DEF Rooted
  <2>2. lev \in 1 .. 4
    BY <1>10
  <2> HIDE DEF j
  <2> QED
    BY <1>2, <1>3, <1>5, <1>9, <1>10, <2>1, <2>2, Zenon DEF Writes
<1>12. Agree(virtual_to_entries(v), p, lev) <=> v \in Abstract!Target(call)
  BY <1>4, <1>5, <1>10, TargetIs
<1>13. v \notin Abstract!Target(call) => Tr(m2, kernel_pml4, v) = Tr(m, kernel_pml4, v)
  BY <1>11, <1>12, WritesOne
<1>14. ASSUME v \in Abstract!Target(call)
       PROVE  /\ IF e = Zero THEN Tr(m2, kernel_pml4, v) = Unmapped ELSE Maps(m2, v, e)
              /\ call.op \in {"update", "update_huge"} =>
                   IF PRESENT \in old.flags THEN Maps(m, v, old)
                   ELSE Tr(m, kernel_pml4, v) = Unmapped /\ old.addr = 0
  <2>1. /\ Reached(m, kernel_pml4, virtual_to_entries(v), lev, tab)
        /\ Reached(m2, kernel_pml4, virtual_to_entries(v), lev, tab)
        /\ old = m[tab][virtual_to_entries(v)[lev]]
        /\ e = m2[tab][virtual_to_entries(v)[lev]]
    <3>1. old = m[tab][p[lev]]
      BY <1>3, <1>5, <1>7, <1>10
    <3> QED
      BY <1>11, <1>12, <1>14, <3>1, WritesOne
  <2>2. ASSUME e = Zero PROVE Tr(m2, kernel_pml4, v) = Unmapped
    <3>1. PRESENT \notin e.flags /\ lev \in 1 .. 4
      BY <2>2 DEF Zero
    <3> QED
      BY <2>1, <3>1, TrNone
  <2>3. ASSUME e # Zero PROVE Maps(m2, v, e)
    <3>1. PRESENT \in e.flags /\ e.addr \in Nat /\ (Leaf = 2 => LARGE \in e.flags)
      BY <1>6, <2>3 DEF Entry, Leaf
    <3> QED
      BY <1>4, <1>10, <1>14, <2>1, <3>1, EntryMaps
  <2>4. ASSUME call.op \in {"update", "update_huge"}
        PROVE  IF PRESENT \in old.flags THEN Maps(m, v, old)
               ELSE Tr(m, kernel_pml4, v) = Unmapped /\ old.addr = 0
    <3>1. IF PRESENT \in old.flags THEN Leaf = 2 => LARGE \in old.flags ELSE old = Zero
      BY <1>1, <1>2, <1>5, <2>4, OldEntry
    <3>2. CASE PRESENT \in old.flags
      <4>1. old.addr \in Nat
        BY <1>3, <1>5 DEF Entry
      <4>2. Maps(m, v, old)
        BY <1>4, <1>10, <1>14, <2>1, <3>1, <3>2, <4>1, EntryMaps
      <4> QED
        BY <3>2, <4>2
    <3>3. CASE PRESENT \notin old.flags
      <4>1. Tr(m, kernel_pml4, v) = Unmapped /\ lev \in 1 .. 4
        BY <2>1, <3>3, TrNone
      <4>2. old.addr = 0
        BY <3>1, <3>3 DEF Zero
      <4> QED
        BY <3>3, <4>1, <4>2
    <3> QED
      BY <3>2, <3>3
  <2> QED
    BY <2>2, <2>3, <2>4
<1> QED
  BY <1>5, <1>13, <1>14

\* Writing an entry is a Change of the abstract address space.
LEMMA WriteRefines ==
  ASSUME VmmInv, NeverMixed, WithinPages, WriteEntry
  PROVE  Abstract!Change
<1>1. /\ pc = "walk"
      /\ NextPage(call.virt + Span(Leaf), call.phys + Span(Leaf))
  BY Zenon DEF WriteEntry, AtLeaf
<1>2. call # NoCall /\ call \in CallType /\ CallInv
  BY <1>1 DEF VmmInv, TypeOK
<1>3. /\ call.phys \in Nat /\ call.perms \in SUBSET {WRITE} /\ call.virt \in Nat
      /\ call.op \in {"map", "unmap", "update", "map_huge", "unmap_huge", "update_huge"}
  BY <1>2 DEF CallType
<1>4. Abstract!Step(call) = Span(Leaf)
  BY SpanType DEF Abstract!Step, Leaf, HugeOps, Abstract!HugeOps
<1>5. call' = Abstract!Rest(call) /\ result' = TRUE
  <2>1. CASE call.count = 1
    BY <1>1, <2>1 DEF NextPage, Abstract!Rest, NoCall, Abstract!NoCall
  <2>2. CASE call.count # 1
    BY <1>1, <1>4, <2>2 DEF NextPage, Abstract!Rest
  <2> QED
    BY <2>1, <2>2
<1>6. PICK m, m2, top : m = Settled /\ m2 = Settled' /\ top = kernel_pml4
  OBVIOUS
<1>7. Space = SpaceOf(m, top) /\ Space' = SpaceOf(m2, top)
  <2>1. pc' # "boot"
    BY <1>1, <1>2, NextPageStep
  <2>2. kernel_pml4' = kernel_pml4
    BY <1>1, Zenon DEF NextPage
  <2> QED
    BY <1>1, <1>6, <2>1, <2>2, SpaceIs, SpaceIsNext
<1> DEFINE T == Abstract!Target(call)
           M == {w \in VirtualPages : Tr(m, top, w) # Unmapped}
           M2 == {w \in VirtualPages : Tr(m2, top, w) # Unmapped}
           V(w) == [frame |-> Tr(m, top, w).frame, perms |-> Tr(m, top, w).perms]
           V2(w) == [frame |-> Tr(m2, top, w).frame, perms |-> Tr(m2, top, w).perms]
<1>8. SpaceOf(m, top) = [w \in M |-> V(w)] /\ SpaceOf(m2, top) = [w \in M2 |-> V2(w)]
  BY DEF SpaceOf
<1>9. T \subseteq VirtualPages
  BY <1>2, CallPages
<1>10. PICK e, old : e = NewEntry(entry) /\ old = entry
  OBVIOUS
<1>11. \A w \in VirtualPages \ T : Tr(m2, top, w) = Tr(m, top, w)
  BY <1>6, WritePages
<1>12. \A w \in T : IF e = Zero THEN Tr(m2, top, w) = Unmapped ELSE Maps(m2, w, e)
  BY <1>6, <1>9, <1>10, WritePages
<1>13. call.op \in {"update", "update_huge"} =>
         \A w \in T : IF PRESENT \in old.flags THEN Maps(m, w, old)
                      ELSE Tr(m, top, w) = Unmapped /\ old.addr = 0
  BY <1>6, <1>9, <1>10, WritePages
<1>14. \A w \in VirtualPages \ T : (w \in M2 <=> w \in M) /\ V2(w) = V(w)
  BY <1>11
<1>15. CASE call.op \in {"unmap", "unmap_huge"}
  <2>1. e = Zero
    BY <1>10, <1>15 DEF NewEntry, MapOps
  <2>2. M2 = M \ T
    BY <1>12, <1>14, <2>1
  <2>3. Space' = [w \in M \ T |-> V(w)]
    BY <1>7, <1>8, <1>14, <2>2
  <2>4. Abstract!Applied(call, Space) = Abstract!Unmapped(call, Space)
    BY <1>15 DEF Abstract!Applied
  <2>5. Abstract!Unmapped(call, Space) = [w \in M \ T |-> V(w)]
    BY <1>7, <1>8 DEF Abstract!Unmapped
  <2> QED
    BY <1>2, <1>5, <2>3, <2>4, <2>5 DEF Abstract!Change, NoCall, Abstract!NoCall
<1>16. ASSUME call.op \notin {"unmap", "unmap_huge"}
       PROVE  /\ M2 = M \cup T
              /\ \A w \in T : V2(w) = [frame |-> e.addr + (w - call.virt), perms |-> call.perms]
              /\ e.addr = IF call.op \in MapOps THEN call.phys ELSE old.addr
  <2> DEFINE large == IF call.op \in HugeOps THEN {LARGE} ELSE {}
  <2>1. PICK fl : fl = call.perms \cup large \cup {PRESENT}
    OBVIOUS
  <2>2. e = [addr |-> IF call.op \in MapOps THEN call.phys ELSE old.addr, flags |-> fl]
    BY <1>3, <1>10, <1>16, <2>1 DEF NewEntry, MapOps
  <2>3. e.addr = (IF call.op \in MapOps THEN call.phys ELSE old.addr) /\ e.flags = fl
    BY <2>2
  <2>4. e # Zero /\ fl \cap {WRITE} = call.perms
    BY <1>3, <2>1, <2>3 DEF Zero, WRITE, LARGE, PRESENT
  <2>5. \A w \in T : Maps(m2, w, e)
    BY <1>12, <2>4
  <2>6. \A w \in T : w \in M2 /\ V2(w) = [frame |-> e.addr + (w - call.virt), perms |-> call.perms]
    BY <1>6, <1>9, <2>3, <2>4, <2>5 DEF Maps
  <2>7. M2 = M \cup T
    BY <1>9, <1>14, <2>6
  <2> QED
    BY <2>3, <2>6, <2>7
<1>17. CASE call.op \in {"map", "map_huge"}
  <2> DEFINE F(w) == IF w \in T THEN [frame |-> call.phys + w - call.virt, perms |-> call.perms]
                     ELSE V(w)
  <2>1. /\ M2 = M \cup T /\ e.addr = call.phys
        /\ \A w \in T : V2(w) = [frame |-> e.addr + (w - call.virt), perms |-> call.perms]
    BY <1>16, <1>17 DEF MapOps
  <2>2. \A w \in M2 : V2(w) = F(w)
    <3>1. \A w \in T : w \in Nat /\ call.phys + (w - call.virt) = call.phys + w - call.virt
      BY <1>3, <1>9, VirtualNat
    <3>2. \A w \in T : V2(w) = F(w)
      BY <2>1, <3>1
    <3>3. \A w \in M2 \ T : V2(w) = F(w)
      BY <1>14
    <3> QED
      BY <3>2, <3>3
  <2>3. Space' = [w \in M \cup T |-> F(w)]
    BY <1>7, <1>8, <2>1, <2>2
  <2>4. Abstract!Applied(call, Space) = Abstract!Mapped(call, Space)
    BY <1>17 DEF Abstract!Applied
  <2>5. DOMAIN Space = M /\ \A w \in M : Space[w] = V(w)
    BY <1>7, <1>8
  <2> HIDE DEF V, V2
  <2>6. Abstract!Mapped(call, Space) = [w \in M \cup T |-> F(w)]
    <3>1. Abstract!Mapped(call, Space) =
            [w \in M \cup T |-> IF w \in T
                                THEN [frame |-> call.phys + w - call.virt, perms |-> call.perms]
                                ELSE Space[w]]
      BY <2>5 DEF Abstract!Mapped
    <3> QED
      BY <2>5, <3>1
  <2> QED
    BY <1>2, <1>5, <2>3, <2>4, <2>6 DEF Abstract!Change, NoCall, Abstract!NoCall
<1>18. CASE call.op \in {"update", "update_huge"}
  <2> DEFINE F(w) == IF w \notin T THEN V(w)
                     ELSE [frame |-> IF w \in M THEN V(w).frame ELSE w - call.virt,
                           perms |-> call.perms]
  <2>1. /\ M2 = M \cup T /\ e.addr = old.addr
        /\ \A w \in T : V2(w) = [frame |-> e.addr + (w - call.virt), perms |-> call.perms]
    BY <1>16, <1>18 DEF MapOps
  <2>2. \A w \in M2 : V2(w) = F(w)
    <3>1. ASSUME NEW w \in T PROVE V2(w) = F(w)
      <4>1. w \in Nat /\ w \in VirtualPages
        BY <1>9, VirtualNat
      <4>2. CASE PRESENT \in old.flags
        <5>1. w \in M /\ V(w).frame = old.addr + (w - call.virt)
          BY <1>6, <1>13, <1>18, <3>1, <4>1, <4>2 DEF Maps
        <5> HIDE DEF V, M
        <5> QED
          BY <2>1, <3>1, <5>1
      <4>3. CASE PRESENT \notin old.flags
        <5>1. w \notin M /\ old.addr = 0
          BY <1>13, <1>18, <3>1, <4>3
        <5>2. old.addr + (w - call.virt) = w - call.virt
          BY <1>3, <4>1, <5>1
        <5> HIDE DEF V, M
        <5> QED
          BY <2>1, <3>1, <5>1, <5>2
      <4> QED
        BY <4>2, <4>3
    <3>2. \A w \in M2 \ T : V2(w) = F(w)
      BY <1>14
    <3> QED
      BY <3>1, <3>2
  <2>3. Space' = [w \in M \cup T |-> F(w)]
    BY <1>7, <1>8, <2>1, <2>2
  <2>4. Abstract!Applied(call, Space) = Abstract!Updated(call, Space)
    BY <1>18 DEF Abstract!Applied
  <2>5. DOMAIN Space = M /\ \A w \in M : Space[w] = V(w)
    BY <1>7, <1>8
  <2> HIDE DEF V, V2
  <2>6. Abstract!Updated(call, Space) = [w \in M \cup T |-> F(w)]
    <3>1. Abstract!Updated(call, Space) =
            [w \in M \cup T |->
               IF w \notin T THEN Space[w]
               ELSE [frame |-> IF w \in M THEN Space[w].frame ELSE w - call.virt,
                     perms |-> call.perms]]
      BY <2>5 DEF Abstract!Updated
    <3> QED
      BY <2>5, <3>1
  <2> QED
    BY <1>2, <1>5, <2>3, <2>4, <2>6 DEF Abstract!Change, NoCall, Abstract!NoCall
<1> QED
  BY <1>3, <1>15, <1>17, <1>18

\* Calls that never mix page sizes do not mix them where the invariant minds.
LEMMA NeverMixedNotMixed == NeverMixed => NotMixed
<1>1. \A p : InHuge(p) => InAnyHuge(p)
  BY DEF InHuge, InAnyHuge
<1> QED
  BY <1>1 DEF NeverMixed, NotMixed

\* Before new_address_space nothing is mapped.
LEMMA InitRefines == Init => Abstract!Init
<1> SUFFICES ASSUME Init PROVE Abstract!Init
  OBVIOUS
<1>1. pc = "boot" /\ call = NoCall /\ result = TRUE
  BY DEF Init
<1> QED
  BY <1>1, SpaceIs DEF Abstract!Init, NoCall, Abstract!NoCall

\* The first step of a call takes it on and changes no page.
LEMMA BeginRefines ==
  ASSUME VmmInv, NEW c \in Calls, Begin(c)
  PROVE  Space' = Space /\ call = Abstract!NoCall /\ call' = c /\ result' = result
<1>1. /\ pc = "idle" /\ pc' = "walk" /\ call' = c
      /\ UNCHANGED <<mem, kernel_pml4, result>>
  BY DEF Begin
<1>2. Settled' = Settled
  BY <1>1 DEF Settled
<1>3. Space' = Space
  BY <1>1, <1>2, SameSpace
<1> QED
  BY <1>1, <1>3 DEF VmmInv, NoCall, Abstract!NoCall

\* Steps that change no table, no call and no program counter.
LEMMA StillSpace ==
  ASSUME UNCHANGED <<mem, kernel_pml4, pc, call, tab, level>>
  PROVE  Space' = Space
<1>1. Settled' = Settled
  BY DEF Settled, entry, offs
<1>2. CASE pc = "boot"
  <2>1. Space' = [v \in {} |-> << >>]
    BY <1>2 DEF Space
  <2> QED
    BY <1>2, <2>1, SpaceIs
<1>3. CASE pc # "boot"
  BY <1>1, <1>3, SameSpace
<1> QED
  BY <1>2, <1>3

\* A call gives up when it finds a table missing, and keeps what it has done.
LEMMA ReturnFalseRefines ==
  ASSUME VmmInv, NeverMixed, ReturnFalse
  PROVE  Abstract!GiveUp
<1>1. call.op \notin MapOps /\ call' = NoCall /\ result' = FALSE /\ pc = "walk"
  BY DEF ReturnFalse, AtTable
<1>2. Space' = Space
  BY WalkSpace DEF GetOrNull
<1>3. call # NoCall
  BY <1>1 DEF VmmInv
<1> QED
  BY <1>1, <1>2, <1>3 DEF Abstract!GiveUp, MapOps, NoCall, Abstract!NoCall

\* Every step is one of the abstract address space or changes nothing of it.
LEMMA StepRefines ==
  ASSUME NeverMixed, RoomForTop, WithinPages, VmmInv, [Next]_vmmVars
  PROVE  [Abstract!Next]_<<Space, call, result>>
<1>1. CASE NewAddressSpace
  <2>1. Space' = Space
    BY <1>1, NewSpace
  <2> QED
    BY <1>1, <2>1 DEF NewAddressSpace
<1>2. CASE MapKernel
  <2>1. PICK c \in Calls : Begin(c)
    <3>1. boot \in {0, 1}
      BY <1>2 DEF MapKernel, VmmInv, TypeOK
    <3>2. <<KernelRequest, PhysRequest>>[boot + 1] \in Calls
      BY <3>1 DEF Calls
    <3> QED
      BY <1>2, <3>2 DEF MapKernel
  <2> QED
    BY <2>1, BeginRefines DEF Abstract!Next, Abstract!Begin
<1>3. CASE \E c \in Requests : Call(c)
  <2>1. PICK c \in Calls : Begin(c)
    BY <1>3 DEF Call, Calls
  <2> QED
    BY <2>1, BeginRefines DEF Abstract!Next, Abstract!Begin
<1>4. CASE SetContext \/ UNCHANGED vmmVars
  <2>1. UNCHANGED <<mem, kernel_pml4, pc, call, tab, level, result>>
    BY <1>4 DEF SetContext, vmmVars
  <2> QED
    BY <2>1, StillSpace
<1>5. CASE Descend \/ ClearTable \/ AllocTableNull \/ MissingUnchecked \/ Fault
  <2>1. Space' = Space
    BY <1>5, WalkSpace DEF GetOrNull
  <2>2. UNCHANGED <<call, result>>
    BY <1>5 DEF Descend, ClearTable, AllocTableNull, MissingUnchecked, Fault, walkVars
  <2> QED
    BY <2>1, <2>2
<1>6. CASE AllocTable
  <2>1. Space' = Space /\ UNCHANGED <<call, result>>
    BY <1>6, AllocTableSpace DEF AllocTable, walkVars
  <2> QED
    BY <2>1
<1>7. CASE SetFlags
  <2>1. Space' = Space /\ UNCHANGED <<call, result>>
    BY <1>7, SetFlagsSpace DEF SetFlags, walkVars
  <2> QED
    BY <2>1
<1>8. CASE ReturnFalse
  BY <1>8, ReturnFalseRefines DEF Abstract!Next
<1>9. CASE WriteEntry
  BY <1>9, WriteRefines DEF Abstract!Next
<1> QED
  BY <1>1, <1>2, <1>3, <1>4, <1>5, <1>6, <1>7, <1>8, <1>9 DEF Next, GetOrAlloc, GetOrNull

\* To its callers Vmm is a function from pages to frames: every step of map_pages,
\* unmap_pages, update_perms and their huge variants (vmm.cpp) changes the page it has
\* come to, as asked, and no other, whatever tables it allocates, fills and clears on the
\* way, and a call that finds a table missing leaves what it has done and nothing else.
\* The calls must not put small pages below a huge one.
THEOREM Refinement ==
  ASSUME NeverMixed, RoomForTop, WithinPages
  PROVE  Spec => ImplementsAddressSpace
<1>1. VmmInv /\ [Next]_vmmVars => [Abstract!Next]_<<Space, call, result>>
  BY StepRefines
<1>2. Spec => []VmmInv
  BY NeverMixedNotMixed, VmmInvariant
<1>3. Spec => Abstract!Init /\ [][Abstract!Next]_<<Space, call, result>>
  BY <1>1, <1>2, InitRefines, PTL DEF Spec
<1> QED
  BY <1>3 DEF ImplementsAddressSpace, Abstract!Spec

------------------------------------------------------------------------------
(* get_entry.                                                               *)

\* The pages of the kernel's windows are mapped to the frames they have there.
Windows == \A v \in DOMAIN Space : v >= PhysBase => Space[v].frame = WindowFrame(v)

\* The page of a call's step, and what WindowsLinear says of it.
LEMMA WindowPage ==
  ASSUME WindowsLinear, CallInv, call # NoCall, WithinPages,
         NEW v \in Abstract!Target(call), v >= PhysBase
  PROVE  /\ call.op \in MapOps => call.phys + v - call.virt = WindowFrame(v)
         /\ call.op \notin {"update", "update_huge"}
<1>1. PICK c \in Calls : \E k \in Steps(c) : call = Left(c, k)
  BY DEF CallInv
<1>2. PICK k \in Steps(c) : call = Left(c, k)
  BY <1>1
<1>3. call.op = c.op /\ call.virt = PageAt(c, k) /\ call.phys = c.phys + k * Stride(c)
  BY <1>2 DEF Left
<1>4. call.virt \in Nat /\ v \in Nat
  BY CallPages, VirtualNat
<1>5. call.phys \in Nat
  BY LeftType, <1>1, <1>2 DEF CallType
<1>6. PICK T \in Nat \ {0} : T = Stride(c) /\ Abstract!Target(call) = call.virt .. call.virt + T - 1
  <2>1. Stride(c) = Abstract!Step(call) /\ Stride(c) \in Nat \ {0}
    BY <1>3, VmmAssumption DEF Stride, Abstract!Step, HugeOps, Abstract!HugeOps
  <2> QED
    BY <2>1 DEF Abstract!Target
<1>7. PICK i \in 0 .. T - 1 : i = v - call.virt
  BY <1>4, <1>6
<1>8. call.virt + i = v /\ call.phys + i = call.phys + v - call.virt
  BY <1>4, <1>5, <1>7
<1>9. /\ c.op \in MapOps => c.phys + k * Stride(c) + i = WindowFrame(PageAt(c, k) + i)
      /\ c.op \notin {"update", "update_huge"}
  BY <1>3, <1>6, <1>7, <1>8 DEF WindowsLinear
<1> QED
  BY <1>3, <1>8, <1>9

\* No step of the abstract address space maps a page of the windows elsewhere.
LEMMA WindowsStep ==
  ASSUME WindowsLinear, WithinPages, VmmInv, Windows, [Abstract!Next]_<<Space, call, result>>
  PROVE  Windows'
<1>1. CASE Abstract!Change
  <2>1. call # NoCall /\ Space' = Abstract!Applied(call, Space)
    BY <1>1 DEF Abstract!Change, NoCall, Abstract!NoCall
  <2>2. CallInv /\ call \in CallType
    BY <2>1 DEF VmmInv, TypeOK
  <2>3. PICK s, s2, T : s = Space /\ s2 = Space' /\ T = Abstract!Target(call)
    OBVIOUS
  <2>4. \A v \in DOMAIN s : v >= PhysBase => s[v].frame = WindowFrame(v)
    BY <2>3 DEF Windows
  <2>5. \A v \in T : v >= PhysBase =>
          /\ call.op \in MapOps => call.phys + v - call.virt = WindowFrame(v)
          /\ call.op \notin {"update", "update_huge"}
    BY <2>1, <2>2, <2>3, WindowPage
  <2>6. CASE call.op \in {"map", "map_huge"}
    <3>1. s2 = [v \in DOMAIN s \cup T |->
                  IF v \in T THEN [frame |-> call.phys + v - call.virt, perms |-> call.perms]
                             ELSE s[v]]
      BY <2>1, <2>3, <2>6 DEF Abstract!Applied, Abstract!Mapped
    <3>2. \A v \in DOMAIN s2 : v >= PhysBase => s2[v].frame = WindowFrame(v)
      BY <2>4, <2>5, <2>6, <3>1 DEF MapOps
    <3> QED
      BY <2>3, <3>2 DEF Windows
  <2>7. CASE call.op \in {"unmap", "unmap_huge"}
    <3>1. s2 = [v \in DOMAIN s \ T |-> s[v]]
      BY <2>1, <2>3, <2>7 DEF Abstract!Applied, Abstract!Unmapped
    <3> QED
      BY <2>3, <2>4, <3>1 DEF Windows
  <2>8. CASE call.op \in {"update", "update_huge"}
    <3>1. s2 = [v \in DOMAIN s \cup T |->
                  IF v \notin T THEN s[v]
                  ELSE [frame |-> IF v \in DOMAIN s THEN s[v].frame ELSE v - call.virt,
                        perms |-> call.perms]]
      BY <2>1, <2>3, <2>8 DEF Abstract!Applied, Abstract!Updated
    <3>2. \A v \in DOMAIN s2 : v >= PhysBase => v \notin T
      BY <2>5, <2>8
    <3> QED
      BY <2>3, <2>4, <3>1, <3>2 DEF Windows
  <2> QED
    BY <2>2, <2>6, <2>7, <2>8 DEF CallType
<1>2. CASE ~Abstract!Change
  <2>1. Space' = Space
    BY <1>2 DEF Abstract!Next, Abstract!Begin, Abstract!GiveUp
  <2> QED
    BY <2>1 DEF Windows
<1> QED
  BY <1>1, <1>2

\* An entry between calls: present, to a table; a huge page; or nothing.
LEMMA IdleEntry ==
  ASSUME NEW L, NEW A, NEW U, Tree(Settled, Given, kernel_pml4, L, A, U), Rooted(L),
         pc = "idle", NEW t \in DOMAIN L, NEW i \in Indices, NEW e, e = mem[t][i]
  PROVE  /\ L[t] >= 2 =>
              \/ /\ PRESENT \in e.flags /\ LARGE \notin e.flags
                 /\ e.addr # 0 /\ e.addr \in DOMAIN L /\ L[e.addr] = L[t] - 1
              \/ L[t] = 2 /\ PRESENT \in e.flags /\ LARGE \in e.flags
              \/ e = Zero
         /\ L[t] = 1 => PRESENT \in e.flags \/ e = Zero
<1>1. Settled = mem
  BY SettledMem
<1>2. EntryOK(L, A, U, t, i, e)
  BY <1>1, TreeTable
<1>3. L[t] >= 2 /\ Points(e) => PRESENT \in e.flags
  BY <1>1 DEF Rooted
<1> QED
  BY <1>2, <1>3 DEF EntryOK, Child, Points

\* Below the windows get_entry takes the way of the MMU.
LEMMA LowPages ==
  ASSUME VmmInv, pc = "idle", NEW v \in VirtualPages, v < PhysBase
  PROVE  LET o == virtual_to_entries(v)
             pd == get_or_null_ent(mem, get_or_null_ent(mem, kernel_pml4, o[4]), o[3])
             t == Tr(mem, kernel_pml4, v)
             e == get_entry(mem, v)
         IN  /\ t # Unmapped /\ LARGE \notin mem[pd][o[2]].flags =>
                  /\ e.addr = t.frame
                  /\ PRESENT \in e.flags /\ e.flags \cap {WRITE} = t.perms
             /\ t = Unmapped => e = Zero
<1>1. PICK L, A, U : Tree(Settled, Given, kernel_pml4, L, A, U) /\ Rooted(L)
  BY DEF VmmInv
<1>2. PICK o \in Path : o = virtual_to_entries(v)
  BY PathType, VirtualNat
<1>3. PICK m, top : m = mem /\ top = kernel_pml4
  OBVIOUS
<1>4. top \in DOMAIN L /\ L[top] = 4 /\ top # 0
  BY <1>1, <1>3 DEF Tree, VmmInv
<1>5. \A l \in 1 .. 4 : o[l] \in Indices
  BY <1>2 DEF Path
<1>6. PICK e4 : e4 = m[top][o[4]]
  OBVIOUS
<1> DEFINE pdp == get_or_null_ent(m, top, o[4])
           pd == get_or_null_ent(m, pdp, o[3])
           pt == get_or_null_ent(m, pd, o[2])
           ent == IF pt = 0 THEN Zero ELSE m[pt][o[1]]
           tr == Tr(m, top, v)
           Goal == /\ tr # Unmapped /\ LARGE \notin m[pd][o[2]].flags =>
                        /\ ent.addr = tr.frame
                        /\ PRESENT \in ent.flags /\ ent.flags \cap {WRITE} = tr.perms
                   /\ tr = Unmapped => ent = Zero
<1>7. get_entry(mem, v) = ent
  <2>1. ~(v >= PhysBase)
    BY VirtualNat, VmmAssumption
  <2> QED
    BY <1>2, <1>3, <2>1 DEF get_entry
<1>8. Goal
  <2>1. pdp = e4.addr
    BY <1>4, <1>6 DEF get_or_null_ent
  <2>2. CASE e4 = Zero
    <3>1. pdp = 0
      BY <2>1, <2>2 DEF Zero
    <3>2. ent = Zero
      BY <3>1 DEF get_or_null_ent
    <3>3. tr = Unmapped
      <4>1. Reached(m, top, o, 4, top) /\ PRESENT \notin m[top][o[4]].flags
        BY <1>6, <2>2 DEF Reached, Zero
      <4> QED
        BY <1>2, <4>1, TrNone
    <3> HIDE DEF ent, tr
    <3> QED
      BY <3>2, <3>3
  <2>3. CASE e4 # Zero
    <3>1. /\ PRESENT \in e4.flags /\ LARGE \notin e4.flags
          /\ e4.addr # 0 /\ e4.addr \in DOMAIN L /\ L[e4.addr] = 3
      BY <1>1, <1>3, <1>4, <1>5, <1>6, <2>3, IdleEntry
    <3>2. PICK t3, e3 : t3 = e4.addr /\ e3 = m[t3][o[3]]
      OBVIOUS
    <3>3. Leads(m, o, 4, top, t3) /\ pdp = t3 /\ pd = e3.addr
      BY <1>6, <2>1, <3>1, <3>2 DEF Leads, get_or_null_ent
    <3>4. CASE e3 = Zero
      <4>1. pd = 0
        BY <3>3, <3>4 DEF Zero
      <4>2. ent = Zero
        BY <4>1 DEF get_or_null_ent
      <4>3. tr = Unmapped
        <5>1. Reached(m, top, o, 3, t3) /\ PRESENT \notin m[t3][o[3]].flags
          BY <3>2, <3>3, <3>4 DEF Reached, Zero
        <5> QED
          BY <1>2, <5>1, TrNone
      <4> HIDE DEF ent, tr
      <4> QED
        BY <4>2, <4>3
    <3>5. CASE e3 # Zero
      <4>1. /\ PRESENT \in e3.flags /\ LARGE \notin e3.flags
            /\ e3.addr # 0 /\ e3.addr \in DOMAIN L /\ L[e3.addr] = 2
        BY <1>1, <1>3, <1>5, <3>1, <3>2, <3>5, IdleEntry
      <4>2. PICK t2, e2 : t2 = e3.addr /\ e2 = m[t2][o[2]]
        OBVIOUS
      <4>3. Leads(m, o, 3, t3, t2) /\ pd = t2 /\ pt = e2.addr
        BY <3>2, <3>3, <4>1, <4>2 DEF Leads, get_or_null_ent
      <4>4. Reached(m, top, o, 2, t2)
        BY <3>3, <4>3 DEF Reached
      <4>5. CASE e2 = Zero
        <5>1. pt = 0
          BY <4>3, <4>5 DEF Zero
        <5>2. ent = Zero
          BY <5>1
        <5>3. tr = Unmapped
          <6>1. PRESENT \notin m[t2][o[2]].flags
            BY <4>2, <4>5 DEF Zero
          <6> QED
            BY <1>2, <4>4, <6>1, TrNone
        <5> HIDE DEF ent, tr
        <5> QED
          BY <5>2, <5>3
      <4>6. CASE e2 # Zero /\ LARGE \in e2.flags
        <5>1. LARGE \in m[pd][o[2]].flags
          BY <4>2, <4>3, <4>6
        <5>2. tr # Unmapped
          <6>1. PRESENT \in e2.flags
            BY <1>1, <1>3, <1>5, <4>1, <4>2, <4>6, IdleEntry
          <6>2. e2.addr \in Nat
            <7>1. t2 \in Ram /\ mem \in [Ram -> [Indices -> Entry]]
              BY <1>1, <4>1, <4>2, TreeTable DEF VmmInv, TypeOK
            <7> QED
              BY <1>3, <1>5, <4>2, <7>1 DEF Entry
          <6>3. v \in Nat
            BY VirtualNat
          <6> QED
            BY <1>2, <4>2, <4>4, <4>6, <6>1, <6>2, <6>3, TrHuge
        <5> HIDE DEF pd, ent, tr
        <5> QED
          BY <5>1, <5>2
      <4>7. CASE e2 # Zero /\ LARGE \notin e2.flags
        <5>1. /\ PRESENT \in e2.flags
              /\ e2.addr # 0 /\ e2.addr \in DOMAIN L /\ L[e2.addr] = 1
          BY <1>1, <1>3, <1>5, <4>1, <4>2, <4>7, IdleEntry
        <5>2. PICK t1, e1 : t1 = e2.addr /\ e1 = m[t1][o[1]]
          OBVIOUS
        <5>3. Leads(m, o, 2, t2, t1) /\ pt = t1 /\ ent = e1
          BY <4>2, <4>3, <4>7, <5>1, <5>2 DEF Leads, get_or_null_ent
        <5>4. Reached(m, top, o, 1, t1)
          BY <3>3, <4>3, <5>3 DEF Reached
        <5>5. CASE e1 = Zero
          <6>1. PRESENT \notin m[t1][o[1]].flags /\ ent = Zero
            BY <5>2, <5>3, <5>5 DEF Zero
          <6>2. tr = Unmapped
            BY <1>2, <5>4, <6>1, TrNone
          <6> HIDE DEF ent, tr
          <6> QED
            BY <6>1, <6>2
        <5>6. CASE e1 # Zero
          <6>1. PRESENT \in e1.flags
            BY <1>1, <1>3, <1>5, <5>1, <5>2, <5>6, IdleEntry
          <6>2. e1.addr \in Nat
            <7>1. t1 \in Ram /\ mem \in [Ram -> [Indices -> Entry]]
              BY <1>1, <5>1, <5>2, TreeTable DEF VmmInv, TypeOK
            <7> QED
              BY <1>3, <1>5, <5>2, <7>1 DEF Entry
          <6>3. /\ tr.frame = e1.addr /\ tr # Unmapped
                /\ tr.perms = e1.flags \cap {WRITE}
            BY <1>2, <5>2, <5>4, <6>1, <6>2, TrSmall
          <6> HIDE DEF ent, tr
          <6> QED
            BY <5>3, <6>1, <6>3
        <5> QED
          BY <5>5, <5>6
      <4> QED
        BY <4>5, <4>6, <4>7
    <3> QED
      BY <3>4, <3>5
  <2> QED
    BY <2>2, <2>3
<1> QED
  BY <1>2, <1>3, <1>7, <1>8

\* The frames that get_entry (vmm.cpp:178-203) computes for kernel addresses are those
\* the MMU finds, and below the windows it walks the tables as the MMU does.
\* The calls must leave the windows as new_address_space set them up.
THEOREM EntriesAgree ==
  ASSUME NeverMixed, RoomForTop, WithinPages, WindowsLinear
  PROVE  Spec => []GetEntryAgrees
<1>1. Init => Windows
  <2>1. Init => Space = [v \in {} |-> << >>]
    BY SpaceIs DEF Init
  <2> QED
    BY <2>1 DEF Windows
<1>2. VmmInv /\ Windows /\ [Next]_vmmVars => Windows'
  BY StepRefines, WindowsStep
<1>3. VmmInv /\ Windows => GetEntryAgrees
  <2> SUFFICES ASSUME VmmInv, Windows, pc = "idle", NEW v \in VirtualPages
               PROVE  LET t == Translate(mem, v)
                          e == get_entry(mem, v)
                      IN  /\ t # Unmapped /\ ~InLowHugePage(mem, v) =>
                               /\ e.addr = t.frame
                               /\ v < PhysBase =>
                                    PRESENT \in e.flags /\ e.flags \cap {WRITE} = t.perms
                          /\ t = Unmapped /\ v < PhysBase => e = Zero
    BY DEF GetEntryAgrees
  <2>1. Translate(mem, v) = Tr(mem, kernel_pml4, v)
    BY DEF Translate, Tr
  <2>2. CASE v < PhysBase
    BY <2>1, <2>2, LowPages DEF InLowHugePage
  <2>3. CASE ~(v < PhysBase)
    <3>1. v >= PhysBase
      BY <2>3, VirtualNat, VmmAssumption
    <3>2. get_entry(mem, v).addr = WindowFrame(v)
      BY <3>1 DEF get_entry
    <3>3. ASSUME Tr(mem, kernel_pml4, v) # Unmapped
          PROVE  Tr(mem, kernel_pml4, v).frame = WindowFrame(v)
      <4>1. Space = SpaceOf(mem, kernel_pml4)
        BY SpaceIs, SettledMem
      <4>2. v \in DOMAIN Space /\ Space[v].frame = Tr(mem, kernel_pml4, v).frame
        BY <3>3, <4>1 DEF SpaceOf
      <4> QED
        BY <3>1, <4>2 DEF Windows
    <3> QED
      BY <2>1, <2>3, <3>2, <3>3
  <2> QED
    BY <2>2, <2>3
<1>4. Spec => []VmmInv
  BY NeverMixedNotMixed, VmmInvariant
<1> QED
  BY <1>1, <1>2, <1>3, <1>4, PTL DEF Spec

==============================================================================
