------------------------------ MODULE HeapProofs -----------------------------
(***************************************************************************)
(* The heap, for any set of processors, any page size, memory and requests.*)
(*                                                                         *)
(* First mm_lock does its work: no two processors are inside the critical  *)
(* sections of malloc and free.  The inductive invariant adds to           *)
(* MutualExclusion that a processor inside holds the lock.                 *)
(*                                                                         *)
(* Then the blocks: HeapInv says that the mapped pages are exactly those   *)
(* below top, each on a frame of its own that Pmm has given out, and that  *)
(* every block with a header lies in pages of its own below top.           *)
(***************************************************************************)
EXTENDS Heap, SparkMathProofs, FiniteSetTheorems

PcType == pc = [c \in Cpus |-> pc[c]]

HolderInside == \A c \in Cpus : pc[c] \in InSection => mm_lock

LockInv == PcType /\ HolderInside /\ MutualExclusion

\* A step in which processor c goes from inside to inside, or leaves, keeps the
\* invariant, whatever it does to the lock on leaving.
LEMMA InsideStep ==
  ASSUME LockInv, NEW c \in Cpus, NEW to, pc' = [pc EXCEPT ![c] = to],
         pc[c] \in InSection,
         to \in InSection => mm_lock' = mm_lock
  PROVE  LockInv'
<1>1. PcType'
  BY DEF LockInv, PcType
<1>2. \A d \in Cpus : pc'[d] \in InSection => d = c /\ to \in InSection
  BY DEF LockInv, PcType, MutualExclusion
<1> QED
  BY <1>1, <1>2 DEF LockInv, HolderInside, MutualExclusion

\* A step outside the sections that leaves the lock alone.
LEMMA OutsideStep ==
  ASSUME LockInv, NEW c \in Cpus, NEW to, pc' = [pc EXCEPT ![c] = to],
         to \notin InSection, mm_lock' = mm_lock
  PROVE  LockInv'
<1>1. PcType'
  BY DEF LockInv, PcType
<1>2. \A d \in Cpus : pc'[d] \in InSection => pc[d] \in InSection
  BY DEF LockInv, PcType
<1> QED
  BY <1>1, <1>2 DEF LockInv, HolderInside, MutualExclusion

\* A processor enters only when the lock is free, so when nobody is inside.
LEMMA LockStep ==
  ASSUME LockInv, NEW c \in Cpus, NEW from, NEW to, lock(c, from, to)
  PROVE  LockInv'
<1>1. pc' = [pc EXCEPT ![c] = to] /\ ~mm_lock /\ mm_lock'
  BY DEF lock, Goto
<1>2. PcType'
  BY <1>1 DEF LockInv, PcType
<1>3. \A d \in Cpus : pc'[d] \in InSection => d = c
  BY <1>1 DEF LockInv, PcType, HolderInside
<1> QED
  BY <1>1, <1>2, <1>3 DEF LockInv, HolderInside, MutualExclusion

\* At boot nobody is inside and the lock is free.
LEMMA LockInvInit == Init => LockInv
  BY DEF Init, LockInv, PcType, HolderInside, MutualExclusion, InSection

\* Every step of a processor keeps the invariant of the lock.
LEMMA LockInvNext == LockInv /\ [Next]_heapVars => LockInv'
<1> SUFFICES ASSUME LockInv, [Next]_heapVars PROVE LockInv'
  OBVIOUS
<1>1. ASSUME NEW c \in Cpus, NewCall(c) PROVE LockInv'
  <2>1. PICK to \in {"malloc", "free"} : pc' = [pc EXCEPT ![c] = to] /\ mm_lock' = mm_lock
    BY <1>1 DEF NewCall, CallMalloc, CallFree, Call, Goto
  <2> QED
    BY <2>1, OutsideStep DEF InSection
<1>2. ASSUME NEW c \in Cpus, Lock(c) PROVE LockInv'
  BY <1>2, LockStep DEF Lock
<1>3. ASSUME NEW c \in Cpus, AllocPages(c) PROVE LockInv'
  <2>1. pc' = [pc EXCEPT ![c] = "map"] /\ pc[c] = "alloc" /\ mm_lock' = mm_lock
    BY <1>3 DEF AllocPages, Goto
  <2> QED
    BY <2>1, InsideStep DEF InSection
<1>4. ASSUME NEW c \in Cpus, MapPages(c) PROVE LockInv'
  <2>1. pc' = [pc EXCEPT ![c] = "advance"] /\ pc[c] = "map" /\ mm_lock' = mm_lock
    BY <1>4 DEF MapPages, Goto
  <2> QED
    BY <2>1, InsideStep DEF InSection
<1>5. ASSUME NEW c \in Cpus, AllocNull(c) PROVE LockInv'
  <2>1. pc' = [pc EXCEPT ![c] = "malloced"] /\ pc[c] = "alloc"
    BY <1>5 DEF AllocNull, Goto
  <2> QED
    BY <2>1, InsideStep DEF InSection
<1>6. ASSUME NEW c \in Cpus, WriteHeader(c) PROVE LockInv'
  <2>1. pc' = [pc EXCEPT ![c] = "malloced"] /\ pc[c] = "advance"
    BY <1>6 DEF WriteHeader, Finish, Goto
  <2> QED
    BY <2>1, InsideStep DEF InSection
<1>7. ASSUME NEW c \in Cpus, FreeFails(c) PROVE LockInv'
  <2>1. pc' = [pc EXCEPT ![c] = "idle"] /\ pc[c] = "compare"
    BY <1>7 DEF FreeFails, Return, Goto
  <2> QED
    BY <2>1, InsideStep DEF InSection
<1>8. ASSUME NEW c \in Cpus, MallocReturns(c) \/ CallocReturns(c) PROVE LockInv'
  <2>1. PICK to \in {"idle", "fault"} : pc' = [pc EXCEPT ![c] = to] /\ mm_lock' = mm_lock
    BY <1>8 DEF MallocReturns, CallocReturns, Return, Fault, Goto
  <2> QED
    BY <2>1, OutsideStep DEF InSection
<1>9. CASE UNCHANGED heapVars
  BY <1>9 DEF heapVars, LockInv, PcType, HolderInside, MutualExclusion
<1> QED
  BY <1>1, <1>2, <1>3, <1>4, <1>5, <1>6, <1>7, <1>8, <1>9 DEF Next, Step

\* No two processors are ever between mm_lock.lock() and mm_lock.release().
THEOREM MutuallyExclusive == Spec => []MutualExclusion
<1>1. LockInv => MutualExclusion
  BY DEF LockInv
<1> QED
  BY <1>1, LockInvInit, LockInvNext, PTL DEF Spec

------------------------------------------------------------------------------
(* The invariant of the blocks.                                             *)

Base == PageOf(MemoryBase)
Top == PageOf(top)

InMalloc == {"malloc", "alloc", "map", "advance", "malloced"}

\* The range that malloc has from Pmm and is about to map.
Taken(c) == [idx |-> got[c], count |-> MallocPages(c)]

CallsInv ==
  /\ got \in [Cpus -> Nat] /\ DOMAIN call = Cpus
  /\ \A c \in Cpus :
    /\ pc[c] \in InSection \cup InMalloc \cup {"idle", "free", "fault"}
    /\ pc[c] \in InMalloc => call[c] \in [op : {"malloc", "calloc"}, bytes : Sizes]
    /\ pc[c] = "malloced" /\ got[c] # 0 => got[c] \in DOMAIN header
    /\ pc[c] \in {"map", "advance"} => Taken(c) \in held

HeldInv ==
  \A r \in held : /\ r.idx \in Nat \ {0} /\ r.count \in Nat
                  /\ r.idx + r.count - 1 <= Frames

TopInv == top = PageSize * Top /\ Top \in Nat /\ Top >= Base

\* The mapped pages are those from the base on up to top, and between map_pages and
\* the assignment to top those of the new block too.
MappedInv ==
  /\ (\A c \in Cpus : pc[c] # "advance") => DOMAIN mapping = Base .. Top - 1
  /\ \A c \in Cpus : pc[c] = "advance" =>
       /\ DOMAIN mapping = Base .. Top + MallocPages(c) - 1
       /\ \A v \in Top .. Top + MallocPages(c) - 1 : mapping[v] = got[c] + v - Top

\* No two of them are on the same frame, and all frames are held.
FramesInv ==
  /\ \A v \in DOMAIN mapping : \E r \in held : mapping[v] \in Pages!FramesOf(r)
  /\ \A v, w \in DOMAIN mapping : mapping[v] = mapping[w] => v = w
  /\ \A c \in Cpus : pc[c] = "map" =>
       \A v \in DOMAIN mapping : mapping[v] \notin Pages!FramesOf(Taken(c))

\* What holds of each block that malloc has finished.
Block(a) ==
  /\ a \in Nat /\ a > HeaderBytes
  /\ header[a].size \in Nat
  /\ (a + header[a].size) % PageSize = 0
  /\ a <= top
  /\ BlockPages(a) \subseteq Base .. Top - 1
  /\ \E r \in held : /\ r.count = header[a].pages
                     /\ \A v \in BlockPages(a) : mapping[v] \in Pages!FramesOf(r)

BlocksInv ==
  /\ \A a \in DOMAIN header : Block(a)
  /\ \A a, b \in DOMAIN header : a # b => BlockPages(a) \cap BlockPages(b) = {}
  /\ live \subseteq DOMAIN header

HeapInv ==
  /\ LockInv
  /\ mm_lock \in BOOLEAN /\ calls \in 0 .. MaxCalls
  /\ CallsInv /\ HeldInv /\ TopInv /\ MappedInv /\ FramesInv /\ BlocksInv

------------------------------------------------------------------------------
(* Sizes and addresses.                                                     *)

\* An address on page n is on no other page.
LEMMA PageOfAddress ==
  ASSUME NEW n \in Nat, NEW r \in 0 .. PageSize - 1
  PROVE  PageOf(PageSize * n + r) = n
  BY HeapAssumption DEF PageOf

\* Pages are in the order of their addresses.
LEMMA PageOfMonotone ==
  ASSUME NEW m \in Nat, NEW n \in Nat, m <= n
  PROVE  PageOf(m) \in Nat /\ PageOf(m) <= PageOf(n)
  BY HeapAssumption DEF PageOf

\* The bytes of a block hold its header.
LEMMA RoundedType ==
  ASSUME NEW n \in Nat
  PROVE  rounded(n) \in Nat /\ rounded(n) >= HeaderBytes
  BY DEF rounded, HeaderBytes

\* malloc takes at least a page and less than two pages more than the block needs.
LEMMA PagesFor ==
  ASSUME NEW b \in Nat \ {0}
  PROVE  /\ pages_for(b) \in Nat \ {0}
         /\ PageSize * pages_for(b) - b >= PageSize
         /\ PageSize * pages_for(b) - b < 2 * PageSize
<1>1. PageSize \in Nat \ {0}
  BY HeapAssumption
<1> DEFINE q == (b + PageSize - 1) \div PageSize
<1>2. q \in Nat /\ q * PageSize <= b + PageSize - 1 /\ b + PageSize - 1 < q * PageSize + PageSize
  BY <1>1, Quotient
<1>3. pages_for(b) = q + 1
  BY DEF pages_for
<1>4. PageSize * (q + 1) = q * PageSize + PageSize
  BY <1>1, <1>2
<1> HIDE DEF q
<1> QED
  BY <1>1, <1>2, <1>3, <1>4

\* The least place is one of the places.
LEMMA LeastPlace ==
  ASSUME NEW count, NEW places, places = Pages!Places(count, Frames), places # {}
  PROVE  Min(places) \in places
<1>1. places \subseteq Nat
  BY DEF Pages!Places
<1>2. \E x \in places : \A y \in places : x <= y
  BY <1>1, NatMinimum
<1> QED
  BY <1>2 DEF Min

------------------------------------------------------------------------------
(* The steps.                                                               *)

\* A step of one processor that touches neither memory nor Pmm nor the address space.
LEMMA QuietStep ==
  ASSUME HeapInv, NEW c \in Cpus, UNCHANGED <<top, mapping, header, held>>,
         pc[c] # "advance", pc'[c] \notin {"map", "advance"},
         \A d \in Cpus \ {c} : pc'[d] = pc[d] /\ got'[d] = got[d] /\ call'[d] = call[d],
         live' \subseteq DOMAIN header
  PROVE  HeldInv' /\ TopInv' /\ MappedInv' /\ FramesInv' /\ BlocksInv'
<1>1. HeldInv'
  BY DEF HeapInv, HeldInv
<1>2. TopInv'
  BY DEF HeapInv, TopInv, Top
<1>3. MappedInv'
  BY DEF HeapInv, MappedInv, Top, MallocPages, MallocBytes
<1>4. FramesInv'
  BY DEF HeapInv, FramesInv, Taken, MallocPages, MallocBytes, Pages!FramesOf
<1>5. BlocksInv'
  BY DEF HeapInv, BlocksInv, Block, BlockPages, Top
<1> QED
  BY <1>1, <1>2, <1>3, <1>4, <1>5

\* The same for the calls, at the place the processor goes to.
LEMMA CallsStep ==
  ASSUME HeapInv, NEW c \in Cpus, NEW to, pc' = [pc EXCEPT ![c] = to],
         to \in InSection \cup InMalloc \cup {"idle", "free", "fault"},
         got' \in [Cpus -> Nat], DOMAIN call' = Cpus,
         held \subseteq held', DOMAIN header \subseteq DOMAIN header',
         \A d \in Cpus \ {c} : got'[d] = got[d] /\ call'[d] = call[d],
         to \in InMalloc => call'[c] \in [op : {"malloc", "calloc"}, bytes : Sizes],
         to = "malloced" /\ got'[c] # 0 => got'[c] \in DOMAIN header',
         to \in {"map", "advance"} => Taken(c)' \in held'
  PROVE  CallsInv'
<1>1. \A d \in Cpus : pc'[d] = IF d = c THEN to ELSE pc[d]
  BY DEF HeapInv, LockInv, PcType
<1>2. \A d \in Cpus \ {c} : Taken(d)' = Taken(d)
  BY DEF Taken, MallocPages, MallocBytes
<1> QED
  BY <1>1, <1>2 DEF HeapInv, CallsInv

\* A call that starts.
LEMMA NewCallStep ==
  ASSUME HeapInv, LockInv', NEW c \in Cpus, NewCall(c)
  PROVE  HeapInv'
<1> DEFINE Started(to, request) ==
             /\ to \in {"malloc", "free"}
             /\ pc[c] = "idle" /\ pc' = [pc EXCEPT ![c] = to]
             /\ call' = [call EXCEPT ![c] = request]
             /\ UNCHANGED <<mm_lock, top, mapping, header, held, got>>
             /\ live' \subseteq live
             /\ calls < MaxCalls /\ calls' = calls + 1
             /\ to = "malloc" => request \in [op : {"malloc", "calloc"}, bytes : Sizes]
<1>1. PICK to, request : Started(to, request)
  <2>1. CASE \E n \in Sizes : CallMalloc(c, n)
    <3>1. PICK n \in Sizes, op \in {"malloc", "calloc"} :
            Call(c, [op |-> op, bytes |-> n], "malloc") /\ UNCHANGED live
      BY <2>1 DEF CallMalloc
    <3>2. [op |-> op, bytes |-> n] \in [op : {"malloc", "calloc"}, bytes : Sizes]
      OBVIOUS
    <3>3. Started("malloc", [op |-> op, bytes |-> n])
      BY <3>1, <3>2 DEF Call, Goto
    <3> HIDE DEF Started
    <3> QED
      BY <3>3
  <2>2. CASE \E old \in live : CallFree(c, old)
    <3>1. PICK old \in live : CallFree(c, old)
      BY <2>2
    <3>2. Started("free", [op |-> "free", old |-> old])
      BY <3>1 DEF CallFree, Call, Goto
    <3> HIDE DEF Started
    <3> QED
      BY <3>2
  <2> QED
    BY <2>1, <2>2 DEF NewCall
<1>2. DOMAIN pc = Cpus /\ DOMAIN call = Cpus
  BY DEF HeapInv, LockInv, PcType, CallsInv
<1>3. CallsInv'
  <2>1. to \in InSection \cup InMalloc \cup {"idle", "free", "fault"}
    BY <1>1 DEF InMalloc
  <2>2. got' \in [Cpus -> Nat] /\ DOMAIN call' = Cpus
    BY <1>1, <1>2 DEF HeapInv, CallsInv
  <2>3. \A d \in Cpus \ {c} : got'[d] = got[d] /\ call'[d] = call[d]
    BY <1>1
  <2>4. to \in InMalloc => call'[c] \in [op : {"malloc", "calloc"}, bytes : Sizes]
    BY <1>1, <1>2 DEF InMalloc
  <2> QED
    BY <1>1, <2>1, <2>2, <2>3, <2>4, CallsStep
<1>4. HeldInv' /\ TopInv' /\ MappedInv' /\ FramesInv' /\ BlocksInv'
  <2>1. live' \subseteq DOMAIN header
    BY <1>1 DEF HeapInv, BlocksInv
  <2>2. pc[c] # "advance" /\ pc'[c] \notin {"map", "advance"}
    BY <1>1, <1>2
  <2>3. \A d \in Cpus \ {c} : pc'[d] = pc[d] /\ got'[d] = got[d] /\ call'[d] = call[d]
    BY <1>1
  <2> QED
    BY <1>1, <2>1, <2>2, <2>3, QuietStep
<1>5. mm_lock' \in BOOLEAN /\ calls' \in 0 .. MaxCalls
  BY <1>1, HeapAssumption DEF HeapInv
<1> QED
  BY <1>3, <1>4, <1>5 DEF HeapInv

\* The lock taken, by malloc or by free.
LEMMA LockedStep ==
  ASSUME HeapInv, LockInv', NEW c \in Cpus, Lock(c)
  PROVE  HeapInv'
<1>1. PICK to \in {"alloc", "compare"} :
         /\ pc' = [pc EXCEPT ![c] = to]
         /\ to = "alloc" => pc[c] = "malloc"
         /\ to = "compare" => pc[c] = "free"
         /\ mm_lock' = TRUE
         /\ UNCHANGED <<top, mapping, header, held, call, got, live, calls>>
  BY DEF Lock, lock, Goto
<1>2. DOMAIN pc = Cpus
  BY DEF HeapInv, LockInv, PcType
<1>3. CallsInv'
  <2>1. to \in InSection
    BY DEF InSection
  <2>2. to \in InMalloc => call'[c] \in [op : {"malloc", "calloc"}, bytes : Sizes]
    BY <1>1 DEF HeapInv, CallsInv, InMalloc
  <2> QED
    BY <1>1, <2>1, <2>2, CallsStep DEF HeapInv, CallsInv
<1>4. HeldInv' /\ TopInv' /\ MappedInv' /\ FramesInv' /\ BlocksInv'
  <2>1. live' \subseteq DOMAIN header
    BY <1>1 DEF HeapInv, BlocksInv
  <2>2. pc[c] # "advance" /\ pc'[c] \notin {"map", "advance"}
    BY <1>1, <1>2
  <2>3. \A d \in Cpus \ {c} : pc'[d] = pc[d] /\ got'[d] = got[d] /\ call'[d] = call[d]
    BY <1>1
  <2> QED
    BY <1>1, <2>1, <2>2, <2>3, QuietStep
<1>5. mm_lock' \in BOOLEAN /\ calls' \in 0 .. MaxCalls
  BY <1>1 DEF HeapInv
<1> QED
  BY <1>3, <1>4, <1>5 DEF HeapInv

\* Out of memory.
LEMMA AllocNullStep ==
  ASSUME HeapInv, LockInv', NEW c \in Cpus, AllocNull(c)
  PROVE  HeapInv'
<1>1. /\ pc[c] = "alloc" /\ pc' = [pc EXCEPT ![c] = "malloced"]
      /\ got' = [got EXCEPT ![c] = 0]
      /\ mm_lock' = FALSE
      /\ UNCHANGED <<top, mapping, header, held, call, live, calls>>
  BY DEF AllocNull, Goto
<1>2. DOMAIN pc = Cpus /\ got \in [Cpus -> Nat] /\ DOMAIN call = Cpus
  BY DEF HeapInv, LockInv, PcType, CallsInv
<1>3. CallsInv'
  <2>1. call'[c] \in [op : {"malloc", "calloc"}, bytes : Sizes]
    BY <1>1 DEF HeapInv, CallsInv, InMalloc
  <2>2. got' \in [Cpus -> Nat] /\ got'[c] = 0
    BY <1>1, <1>2
  <2> QED
    BY <1>1, <1>2, <2>1, <2>2, CallsStep DEF InMalloc
<1>4. HeldInv' /\ TopInv' /\ MappedInv' /\ FramesInv' /\ BlocksInv'
  <2>1. live' \subseteq DOMAIN header
    BY <1>1 DEF HeapInv, BlocksInv
  <2>2. pc[c] # "advance" /\ pc'[c] \notin {"map", "advance"}
    BY <1>1, <1>2
  <2>3. \A d \in Cpus \ {c} : pc'[d] = pc[d] /\ got'[d] = got[d] /\ call'[d] = call[d]
    BY <1>1
  <2> QED
    BY <1>1, <2>1, <2>2, <2>3, QuietStep
<1>5. mm_lock' \in BOOLEAN /\ calls' \in 0 .. MaxCalls
  BY <1>1 DEF HeapInv
<1> QED
  BY <1>3, <1>4, <1>5 DEF HeapInv

\* The return of malloc, of calloc or of free, or the fault of calloc.
LEMMA ReturnStep ==
  ASSUME HeapInv, LockInv', NEW c \in Cpus,
         MallocReturns(c) \/ CallocReturns(c) \/ FreeFails(c)
  PROVE  HeapInv'
<1>1. PICK to \in {"idle", "fault"} :
         /\ pc[c] \in {"malloced", "compare"} /\ pc' = [pc EXCEPT ![c] = to]
         /\ \/ UNCHANGED <<got, call, live>>
            \/ /\ got' = [got EXCEPT ![c] = 0]
               /\ call' = [call EXCEPT ![c] = NoCall]
               /\ \/ live' = live
                  \/ pc[c] = "malloced" /\ got[c] # 0 /\ live' = live \cup {got[c]}
         /\ UNCHANGED <<mm_lock, top, mapping, header, held, calls>>
  <2>1. CASE MallocReturns(c)
    BY <2>1 DEF MallocReturns, Return, Given, Goto
  <2>2. CASE CallocReturns(c)
    <3>1. CASE Fault(c) /\ pc[c] = "malloced"
      BY <3>1 DEF Fault, Goto
    <3>2. CASE Return(c, got[c], Given(c)) /\ pc[c] = "malloced"
      BY <3>2 DEF Return, Given, Goto
    <3> QED
      BY <2>2, <3>1, <3>2 DEF CallocReturns
  <2>3. CASE FreeFails(c)
    BY <2>3 DEF FreeFails, Return, Goto
  <2> QED
    BY <2>1, <2>2, <2>3
<1>2. DOMAIN pc = Cpus /\ got \in [Cpus -> Nat] /\ DOMAIN call = Cpus
  BY DEF HeapInv, LockInv, PcType, CallsInv
<1>3. \A d \in Cpus \ {c} : pc'[d] = pc[d] /\ got'[d] = got[d] /\ call'[d] = call[d]
  BY <1>1, <1>2
<1>4. CallsInv'
  <2>1. got' \in [Cpus -> Nat] /\ DOMAIN call' = Cpus
    BY <1>1, <1>2
  <2> QED
    BY <1>1, <1>3, <2>1, CallsStep DEF InMalloc
<1>5. HeldInv' /\ TopInv' /\ MappedInv' /\ FramesInv' /\ BlocksInv'
  <2>1. live' \subseteq DOMAIN header
    BY <1>1 DEF HeapInv, BlocksInv, CallsInv
  <2>2. pc[c] # "advance" /\ pc'[c] \notin {"map", "advance"}
    BY <1>1, <1>2
  <2> QED
    BY <1>1, <1>3, <2>1, <2>2, QuietStep
<1>6. mm_lock' \in BOOLEAN /\ calls' \in 0 .. MaxCalls
  BY <1>1 DEF HeapInv
<1> QED
  BY <1>4, <1>5, <1>6 DEF HeapInv

\* A processor in malloc asks for at least one page, and less than two pages more
\* than the block with its header.
LEMMA MallocSizes ==
  ASSUME CallsInv, NEW c \in Cpus, pc[c] \in InMalloc
  PROVE  /\ MallocBytes(c) \in Nat /\ MallocBytes(c) >= HeaderBytes
         /\ MallocPages(c) \in Nat \ {0}
         /\ PageSize * MallocPages(c) - MallocBytes(c) >= PageSize
         /\ PageSize * MallocPages(c) - MallocBytes(c) < 2 * PageSize
<1>1. call[c].bytes \in Nat
  BY HeapAssumption DEF CallsInv
<1>2. MallocBytes(c) \in Nat /\ MallocBytes(c) >= HeaderBytes
  BY <1>1, RoundedType DEF MallocBytes
<1>3. MallocBytes(c) \in Nat \ {0}
  BY <1>2 DEF HeaderBytes
<1> QED
  BY <1>2, <1>3, PagesFor DEF MallocPages

\* Inside the critical section a processor is alone.
LEMMA Alone ==
  ASSUME HeapInv, NEW c \in Cpus, pc[c] \in InSection, NEW to,
         pc' = [pc EXCEPT ![c] = to]
  PROVE  /\ pc'[c] = to
         /\ \A d \in Cpus \ {c} : pc[d] \notin InSection /\ pc'[d] = pc[d]
  BY DEF HeapInv, LockInv, PcType, MutualExclusion

\* Pmm gives malloc pages that no block has.
LEMMA AllocPagesStep ==
  ASSUME HeapInv, LockInv', NEW c \in Cpus, AllocPages(c)
  PROVE  HeapInv'
<1> DEFINE k == MallocPages(c)
           places == Pages!Places(k, Frames)
           range == [idx |-> Min(places), count |-> k]
<1>1. /\ pc[c] = "alloc" /\ pc' = [pc EXCEPT ![c] = "map"]
      /\ places # {}
      /\ \A h \in held : Pages!FramesOf(range) \cap Pages!FramesOf(h) = {}
      /\ held' = held \cup {range}
      /\ got' = [got EXCEPT ![c] = range.idx]
      /\ UNCHANGED <<mm_lock, top, mapping, header, call, live, calls>>
  BY DEF AllocPages, Goto, Pages!Allocate
<1>2. k \in Nat \ {0}
  BY <1>1, MallocSizes DEF HeapInv, InMalloc
<1>3. range.idx \in 1 .. Frames - k + 1 /\ range.count = k
  <2>1. Min(places) \in places
    BY <1>1, LeastPlace
  <2> QED
    BY <2>1 DEF Pages!Places
<1> HIDE DEF places, range
<1>4. pc'[c] = "map" /\ \A d \in Cpus \ {c} : pc[d] \notin InSection /\ pc'[d] = pc[d]
  BY <1>1, Alone DEF InSection
<1>5. got' \in [Cpus -> Nat] /\ got'[c] = range.idx
  BY <1>1, <1>3, HeapAssumption DEF HeapInv, CallsInv
<1>6. Taken(c)' = range
  BY <1>1, <1>5 DEF Taken, MallocPages, MallocBytes, range
<1>7. CallsInv'
  <2>1. call'[c] \in [op : {"malloc", "calloc"}, bytes : Sizes] /\ DOMAIN call' = Cpus
    BY <1>1 DEF HeapInv, CallsInv, InMalloc
  <2>2. \A d \in Cpus \ {c} : got'[d] = got[d] /\ call'[d] = call[d]
    BY <1>1
  <2> QED
    BY <1>1, <1>5, <1>6, <2>1, <2>2, CallsStep DEF InSection
<1>8. HeldInv'
  BY <1>1, <1>2, <1>3, HeapAssumption DEF HeapInv, HeldInv
<1>9. TopInv'
  BY <1>1 DEF HeapInv, TopInv, Top
<1>10. MappedInv'
  BY <1>1, <1>4 DEF HeapInv, MappedInv, Top, InSection
<1>11. FramesInv'
  <2>1. \A v \in DOMAIN mapping : mapping[v] \notin Pages!FramesOf(range)
    BY <1>1 DEF HeapInv, FramesInv
  <2>2. \A d \in Cpus : pc'[d] = "map" => d = c
    BY <1>4 DEF InSection
  <2> QED
    BY <1>1, <1>6, <2>1, <2>2 DEF HeapInv, FramesInv, Pages!FramesOf
<1>12. BlocksInv'
  BY <1>1 DEF HeapInv, BlocksInv, Block, BlockPages, Top, Pages!FramesOf
<1>13. mm_lock' \in BOOLEAN /\ calls' \in 0 .. MaxCalls
  BY <1>1 DEF HeapInv
<1> QED
  BY <1>7, <1>8, <1>9, <1>10, <1>11, <1>12, <1>13 DEF HeapInv

\* map_pages maps the pages from top on, where nothing is mapped, to those frames.
LEMMA MapPagesStep ==
  ASSUME HeapInv, LockInv', NEW c \in Cpus, MapPages(c)
  PROVE  HeapInv'
<1> DEFINE k == MallocPages(c)
<1>1. /\ pc[c] = "map" /\ pc' = [pc EXCEPT ![c] = "advance"]
      /\ mapping' = [v \in DOMAIN mapping \cup (Top .. Top + k - 1) |->
                       IF v >= Top THEN got[c] + v - Top ELSE mapping[v]]
      /\ UNCHANGED <<mm_lock, top, header, held, call, got, live, calls>>
  BY DEF MapPages, Goto, Top
<1>2. k \in Nat \ {0} /\ Top \in Nat /\ Base \in Nat /\ Top >= Base /\ got[c] \in Nat
  <2>1. Base \in Nat
    BY HeapAssumption DEF Base, PageOf
  <2> QED
    BY <1>1, <2>1, MallocSizes DEF HeapInv, InMalloc, TopInv, CallsInv
<1>3. pc'[c] = "advance" /\ \A d \in Cpus \ {c} : pc[d] \notin InSection /\ pc'[d] = pc[d]
  BY <1>1, Alone DEF InSection
<1>4. DOMAIN mapping = Base .. Top - 1
  BY <1>1, <1>3 DEF HeapInv, MappedInv, InSection
<1>5. DOMAIN mapping' = Base .. Top + k - 1
  BY <1>1, <1>2, <1>4
<1>6. \A v \in Base .. Top - 1 : mapping'[v] = mapping[v]
  BY <1>1, <1>2, <1>4
<1>7. \A v \in Top .. Top + k - 1 : mapping'[v] = got[c] + v - Top
  BY <1>1, <1>2
<1>8. Taken(c) \in held /\ Taken(c).idx = got[c] /\ Taken(c).count = k
  BY <1>1 DEF HeapInv, CallsInv, Taken
<1>9. Top' = Top /\ MallocPages(c)' = k
  BY <1>1 DEF Top, MallocPages, MallocBytes
<1> HIDE DEF k
<1>10. CallsInv'
  <2>1. Taken(c)' = Taken(c)
    BY <1>1, <1>9 DEF Taken, k
  <2>2. call[c] \in [op : {"malloc", "calloc"}, bytes : Sizes] /\ DOMAIN call = Cpus
    BY <1>1 DEF HeapInv, CallsInv, InMalloc
  <2> QED
    BY <1>1, <1>8, <2>1, <2>2, CallsStep DEF InSection, HeapInv, CallsInv
<1>11. HeldInv'
  BY <1>1 DEF HeapInv, HeldInv
<1>12. TopInv'
  BY <1>1, <1>9 DEF HeapInv, TopInv
<1>13. MappedInv'
  <2>1. \A d \in Cpus : pc'[d] = "advance" => d = c
    BY <1>3 DEF InSection
  <2>2. got' = got
    BY <1>1
  <2> QED
    BY <1>3, <1>5, <1>7, <1>9, <2>1, <2>2 DEF MappedInv
<1>14. FramesInv'
  <2>1. \A v \in Top .. Top + k - 1 : mapping'[v] \in Pages!FramesOf(Taken(c))
    BY <1>2, <1>7, <1>8 DEF Pages!FramesOf
  <2>2. \A v \in Base .. Top - 1 : mapping'[v] \notin Pages!FramesOf(Taken(c))
    BY <1>1, <1>4, <1>6 DEF HeapInv, FramesInv
  <2>3. \A v \in Base .. Top + k - 1 : v \in Base .. Top - 1 \/ v \in Top .. Top + k - 1
    BY <1>2
  <2>4. \A v \in DOMAIN mapping' : \E r \in held : mapping'[v] \in Pages!FramesOf(r)
    BY <1>4, <1>5, <1>6, <1>8, <2>1, <2>3 DEF HeapInv, FramesInv
  <2>5. ASSUME NEW v \in DOMAIN mapping', NEW w \in DOMAIN mapping', mapping'[v] = mapping'[w]
        PROVE  v = w
    <3>1. CASE v \in Base .. Top - 1 /\ w \in Base .. Top - 1
      BY <1>4, <1>6, <2>5, <3>1 DEF HeapInv, FramesInv
    <3>2. CASE v \in Top .. Top + k - 1 /\ w \in Top .. Top + k - 1
      BY <1>2, <1>7, <2>5, <3>2
    <3> QED
      BY <1>5, <2>1, <2>2, <2>3, <2>5, <3>1, <3>2
  <2>6. \A d \in Cpus : pc'[d] # "map"
    BY <1>3 DEF InSection
  <2> QED
    BY <1>1, <2>4, <2>5, <2>6 DEF FramesInv, Pages!FramesOf
<1>15. BlocksInv'
  <2>1. \A a : BlockPages(a)' = BlockPages(a)
    BY <1>1 DEF BlockPages
  <2>2. ASSUME NEW a \in DOMAIN header PROVE Block(a)'
    <3>1. Block(a)
      BY DEF HeapInv, BlocksInv
    <3>2. \A v \in BlockPages(a) : mapping'[v] = mapping[v]
      BY <1>6, <3>1 DEF Block
    <3> QED
      BY <1>1, <1>9, <2>1, <3>1, <3>2 DEF Block, Pages!FramesOf
  <2> QED
    BY <1>1, <2>1, <2>2 DEF HeapInv, BlocksInv
<1>16. mm_lock' \in BOOLEAN /\ calls' \in 0 .. MaxCalls
  BY <1>1 DEF HeapInv
<1> QED
  BY <1>10, <1>11, <1>12, <1>13, <1>14, <1>15, <1>16 DEF HeapInv

\* The new block: it ends where its last page does, its header is on the second page
\* of its range, and it lies behind every older one.
LEMMA NewBlock ==
  ASSUME HeapInv, NEW c \in Cpus, pc[c] = "advance", NEW out,
         out = top + PageSize * MallocPages(c) - MallocBytes(c) + HeaderBytes
  PROVE  /\ out \in Nat /\ out > top /\ out > HeaderBytes
         /\ out <= top + PageSize * MallocPages(c)
         /\ out + (MallocBytes(c) - HeaderBytes) = PageSize * (Top + MallocPages(c))
         /\ PageOf(out - HeaderBytes) = Top + 1
         /\ PageOf(out + (MallocBytes(c) - HeaderBytes) - 1) = Top + MallocPages(c) - 1
<1> DEFINE k == MallocPages(c)
           b == MallocBytes(c)
           d == PageSize * k - b
<1>1. PageSize \in Nat \ {0} /\ Top \in Nat /\ top = PageSize * Top
  BY HeapAssumption DEF HeapInv, TopInv
<1>2. /\ b \in Nat /\ b >= HeaderBytes /\ k \in Nat \ {0}
      /\ d >= PageSize /\ d < 2 * PageSize
  BY MallocSizes DEF HeapInv, InMalloc
<1>3. PageSize * k \in Nat /\ top \in Nat
  BY <1>1, <1>2
<1>4. d \in Nat /\ out = top + d + HeaderBytes
  BY <1>1, <1>2, <1>3 DEF HeaderBytes
<1>5. out + (b - HeaderBytes) = top + PageSize * k
  BY <1>2, <1>3 DEF HeaderBytes
<1>6. top + PageSize * k = PageSize * (Top + k)
  BY <1>1, <1>2
<1>7. PageSize * (Top + k) = PageSize * (Top + k - 1) + PageSize
  BY <1>1, <1>2
<1>8. PageSize * (Top + 1) = top + PageSize
  BY <1>1
<1> HIDE DEF d, b, k
<1>9. PageOf(out - HeaderBytes) = Top + 1
  <2>1. out - HeaderBytes = PageSize * (Top + 1) + (d - PageSize)
    BY <1>1, <1>3, <1>4, <1>8 DEF HeaderBytes
  <2>2. d - PageSize \in 0 .. PageSize - 1 /\ Top + 1 \in Nat
    BY <1>1, <1>2, <1>4
  <2> QED
    BY <2>1, <2>2, PageOfAddress
<1>10. PageOf(out + (b - HeaderBytes) - 1) = Top + k - 1
  <2>1. out + (b - HeaderBytes) - 1 = PageSize * (Top + k - 1) + (PageSize - 1)
    <3>1. PageSize * (Top + k - 1) \in Nat
      BY <1>1, <1>2
    <3>2. out + (b - HeaderBytes) = PageSize * (Top + k - 1) + PageSize
      BY <1>5, <1>6, <1>7
    <3>3. out \in Nat /\ b - HeaderBytes \in Nat
      BY <1>2, <1>3, <1>4 DEF HeaderBytes
    <3> QED
      BY <1>1, <3>1, <3>2, <3>3
  <2>2. PageSize - 1 \in 0 .. PageSize - 1 /\ Top + k - 1 \in Nat
    BY <1>1, <1>2
  <2> QED
    BY <2>1, <2>2, PageOfAddress
<1>11. out > top /\ out > HeaderBytes /\ out \in Nat /\ out <= top + PageSize * k
  BY <1>1, <1>2, <1>3, <1>4, <1>5 DEF HeaderBytes
<1> QED
  BY <1>5, <1>6, <1>9, <1>10, <1>11 DEF b, k

\* top moves behind the mapped pages, and the block gets its header.
LEMMA WriteHeaderStep ==
  ASSUME HeapInv, LockInv', NEW c \in Cpus, WriteHeader(c)
  PROVE  HeapInv'
<1> DEFINE k == MallocPages(c)
           b == MallocBytes(c)
<1>0. PICK out : out = top + PageSize * k - b + HeaderBytes
  OBVIOUS
<1>1. /\ pc[c] = "advance" /\ pc' = [pc EXCEPT ![c] = "malloced"]
      /\ top' = top + PageSize * k
      /\ header' = [a \in DOMAIN header \cup {out} |->
                      IF a = out THEN [size |-> b - HeaderBytes, pages |-> k] ELSE header[a]]
      /\ got' = [got EXCEPT ![c] = out]
      /\ mm_lock' = FALSE
      /\ UNCHANGED <<mapping, held, call, live, calls>>
  BY <1>0 DEF WriteHeader, Finish, Goto
<1>2. /\ PageSize \in Nat \ {0} /\ k \in Nat \ {0} /\ b \in Nat /\ b >= HeaderBytes
      /\ Top \in Nat /\ Base \in Nat /\ Top >= Base /\ top = PageSize * Top
  <2>1. Base \in Nat
    BY HeapAssumption DEF Base, PageOf
  <2> QED
    BY <1>1, <2>1, MallocSizes, HeapAssumption DEF HeapInv, InMalloc, TopInv
<1>3. /\ out \in Nat /\ out > top /\ out > HeaderBytes /\ out <= top'
      /\ out + (b - HeaderBytes) = PageSize * (Top + k)
      /\ PageOf(out - HeaderBytes) = Top + 1
      /\ PageOf(out + (b - HeaderBytes) - 1) = Top + k - 1
  BY <1>0, <1>1, NewBlock
<1>4. Top' = Top + k
  <2>1. top' = PageSize * (Top + k) + 0
    BY <1>1, <1>2
  <2>2. Top + k \in Nat /\ 0 \in 0 .. PageSize - 1
    BY <1>2
  <2> HIDE DEF k
  <2>3. PageOf(PageSize * (Top + k) + 0) = Top + k
    BY <2>2, PageOfAddress
  <2> QED
    BY <2>1, <2>3 DEF Top
<1>5. DOMAIN mapping = Base .. Top' - 1
  BY <1>1, <1>2, <1>4 DEF HeapInv, MappedInv
<1>6. pc'[c] = "malloced" /\ \A d \in Cpus \ {c} : pc[d] \notin InSection /\ pc'[d] = pc[d]
  BY <1>1, Alone DEF InSection
<1>7. out \notin DOMAIN header
  BY <1>2, <1>3 DEF HeapInv, BlocksInv, Block
<1>8. header'[out] = [size |-> b - HeaderBytes, pages |-> k]
  BY <1>1
<1>9. DOMAIN header' = DOMAIN header \cup {out} /\ \A a \in DOMAIN header : header'[a] = header[a]
  BY <1>1, <1>7
<1>10. BlockPages(out)' = Top + 1 .. Top + k - 1
  BY <1>3, <1>8 DEF BlockPages
<1>11. \A a \in DOMAIN header : BlockPages(a)' = BlockPages(a)
  BY <1>9 DEF BlockPages
<1> HIDE DEF k, b
<1>12. CallsInv'
  <2>1. got' \in [Cpus -> Nat] /\ got'[c] = out
    BY <1>1, <1>3 DEF HeapInv, CallsInv
  <2>2. \A d \in Cpus \ {c} : got'[d] = got[d] /\ call'[d] = call[d]
    BY <1>1
  <2>3. call'[c] \in [op : {"malloc", "calloc"}, bytes : Sizes] /\ DOMAIN call' = Cpus
    BY <1>1 DEF HeapInv, CallsInv, InMalloc
  <2> QED
    BY <1>1, <1>9, <2>1, <2>2, <2>3, CallsStep DEF InMalloc
<1>13. HeldInv'
  BY <1>1 DEF HeapInv, HeldInv
<1>14. TopInv'
  BY <1>1, <1>2, <1>4 DEF TopInv
<1>15. MappedInv'
  BY <1>1, <1>5, <1>6 DEF MappedInv, InSection
<1>16. FramesInv'
  BY <1>1, <1>6 DEF HeapInv, FramesInv, InSection, Pages!FramesOf
<1>17. BlocksInv'
  <2>1. ASSUME NEW a \in DOMAIN header PROVE Block(a)'
    <3>1. Block(a)
      BY DEF HeapInv, BlocksInv
    <3>2. a <= top'
      BY <1>1, <1>2, <3>1 DEF Block
    <3>3. Base .. Top - 1 \subseteq Base .. Top' - 1
      BY <1>2, <1>4
    <3> QED
      BY <1>1, <1>9, <1>11, <3>1, <3>2, <3>3 DEF Block, Pages!FramesOf
  <2>2. Block(out)'
    <3>1. (out + header'[out].size) % PageSize = 0
      <4>1. (PageSize * (Top + k)) % PageSize = 0
        BY <1>2
      <4> QED
        BY <1>3, <1>8, <4>1
    <3>2. BlockPages(out)' \subseteq Base .. Top' - 1
      BY <1>2, <1>4, <1>10
    <3>3. Taken(c) \in held /\ Taken(c).count = k /\ Taken(c).idx = got[c]
      BY <1>1 DEF HeapInv, CallsInv, Taken, k
    <3>4. \A v \in Top + 1 .. Top + k - 1 : mapping[v] \in Pages!FramesOf(Taken(c))
      <4>1. \A v \in Top .. Top + k - 1 : mapping[v] = got[c] + v - Top
        BY <1>1 DEF HeapInv, MappedInv, k
      <4>2. got[c] \in Nat
        BY DEF HeapInv, CallsInv
      <4> QED
        BY <1>2, <3>3, <4>1, <4>2 DEF Pages!FramesOf
    <3>5. header'[out].size \in Nat /\ header'[out].pages = k
      BY <1>2, <1>8 DEF HeaderBytes
    <3>6. \E r \in held' : /\ r.count = header'[out].pages
                           /\ \A v \in BlockPages(out)' : mapping'[v] \in Pages!FramesOf(r)
      BY <1>1, <1>10, <3>3, <3>4, <3>5
    <3> QED
      BY <1>3, <3>1, <3>2, <3>5, <3>6 DEF Block, Pages!FramesOf
  <2>3. \A a \in DOMAIN header : BlockPages(a) \cap (Top + 1 .. Top + k - 1) = {}
    <3> SUFFICES ASSUME NEW a \in DOMAIN header
                 PROVE  BlockPages(a) \cap (Top + 1 .. Top + k - 1) = {}
      OBVIOUS
    <3>1. BlockPages(a) \subseteq Base .. Top - 1
      BY DEF HeapInv, BlocksInv, Block
    <3> QED
      BY <1>2, <3>1
  <2>4. \A a \in DOMAIN header' : Block(a)'
    BY <1>9, <2>1, <2>2
  <2>5. \A a, e \in DOMAIN header' : a # e => BlockPages(a)' \cap BlockPages(e)' = {}
    <3>1. \A a, e \in DOMAIN header : a # e => BlockPages(a)' \cap BlockPages(e)' = {}
      BY <1>11 DEF HeapInv, BlocksInv
    <3>2. \A a \in DOMAIN header : BlockPages(a)' \cap BlockPages(out)' = {}
      BY <1>10, <1>11, <2>3
    <3> QED
      BY <1>9, <3>1, <3>2
  <2>6. live' \subseteq DOMAIN header'
    BY <1>1, <1>9 DEF HeapInv, BlocksInv
  <2> QED
    BY <2>4, <2>5, <2>6 DEF BlocksInv
<1>18. mm_lock' \in BOOLEAN /\ calls' \in 0 .. MaxCalls
  BY <1>1 DEF HeapInv
<1> QED
  BY <1>12, <1>13, <1>14, <1>15, <1>16, <1>17, <1>18 DEF HeapInv

\* Whatever malloc is doing, all pages below top are mapped.
LEMMA MappedBelowTop ==
  ASSUME HeapInv
  PROVE  Base .. Top - 1 \subseteq DOMAIN mapping
<1>1. CASE \A c \in Cpus : pc[c] # "advance"
  BY <1>1 DEF HeapInv, MappedInv
<1>2. ASSUME NEW c \in Cpus, pc[c] = "advance"
      PROVE  Base .. Top - 1 \subseteq DOMAIN mapping
  <2>1. DOMAIN mapping = Base .. Top + MallocPages(c) - 1
    BY <1>2 DEF HeapInv, MappedInv
  <2>2. MallocPages(c) \in Nat /\ Top \in Nat
    BY <1>2, MallocSizes DEF HeapInv, InMalloc, TopInv
  <2> QED
    BY <2>1, <2>2
<1> QED
  BY <1>1, <1>2

------------------------------------------------------------------------------
(* The invariant of the blocks holds.                                       *)

\* The heap starts empty.
LEMMA HeapInvInit == Init => HeapInv
<1> SUFFICES ASSUME Init PROVE HeapInv
  OBVIOUS
<1>1. LockInv
  BY LockInvInit
<1>2. CallsInv /\ HeldInv
  BY DEF Init, CallsInv, HeldInv, InMalloc, InSection
<1>3. TopInv
  <2>1. MemoryBase = PageSize * PageOf(MemoryBase) /\ PageOf(MemoryBase) \in Nat
    BY HeapAssumption DEF PageOf
  <2> QED
    BY <2>1 DEF Init, TopInv, Top, Base
<1>4. DOMAIN mapping = {} /\ DOMAIN header = {}
  BY DEF Init
<1>5. MappedInv
  <2>1. Base .. Top - 1 = {}
    BY HeapAssumption DEF Init, Top, Base, PageOf
  <2> QED
    BY <1>4, <2>1 DEF Init, MappedInv
<1>6. FramesInv /\ BlocksInv
  BY <1>4 DEF Init, FramesInv, BlocksInv
<1>7. mm_lock \in BOOLEAN /\ calls \in 0 .. MaxCalls
  <2>1. mm_lock \in BOOLEAN
    BY DEF Init
  <2>2. calls = 0
    BY DEF Init
  <2> QED
    BY <2>1, <2>2, HeapAssumption
<1> QED
  BY <1>1, <1>2, <1>3, <1>5, <1>6, <1>7 DEF HeapInv

\* Every step keeps it.
LEMMA HeapInvNext == HeapInv /\ [Next]_heapVars => HeapInv'
<1> SUFFICES ASSUME HeapInv, [Next]_heapVars PROVE HeapInv'
  OBVIOUS
<1>1. LockInv'
  BY LockInvNext DEF HeapInv
<1>2. ASSUME NEW c \in Cpus, NewCall(c) PROVE HeapInv'
  BY <1>1, <1>2, NewCallStep
<1>3. ASSUME NEW c \in Cpus, Step(c) PROVE HeapInv'
  BY <1>1, <1>3, LockedStep, AllocPagesStep, AllocNullStep, MapPagesStep,
     WriteHeaderStep, ReturnStep DEF Step
<1>4. CASE UNCHANGED heapVars
  BY <1>4 DEF heapVars, HeapInv, LockInv, PcType, HolderInside, MutualExclusion, CallsInv,
     HeldInv, TopInv, MappedInv, FramesInv, BlocksInv, Block, BlockPages, Top, Taken,
     MallocPages, MallocBytes, Pages!FramesOf
<1> QED
  BY <1>2, <1>3, <1>4 DEF Next

\* So it holds in every reachable state.
THEOREM HeapInvariant == Spec => []HeapInv
  BY HeapInvInit, HeapInvNext, PTL DEF Spec

\* No two live blocks share a byte of the address space or a physical page, and their
\* pages are mapped, however the calls of the processors interleave.
THEOREM BlocksKeptApart == Spec => []BlocksApart
<1>1. HeapInv => BlocksApart
  <2> SUFFICES ASSUME HeapInv, NEW a \in live
               PROVE  /\ BlockPages(a) \subseteq DOMAIN mapping
                      /\ \A e \in live \ {a} :
                           /\ BlockPages(a) \cap BlockPages(e) = {}
                           /\ {mapping[v] : v \in BlockPages(a)}
                                \cap {mapping[v] : v \in BlockPages(e)} = {}
    BY DEF BlocksApart
  <2>1. \A e \in DOMAIN header : BlockPages(e) \subseteq DOMAIN mapping
    BY MappedBelowTop DEF HeapInv, BlocksInv, Block
  <2>2. a \in DOMAIN header /\ live \subseteq DOMAIN header
    BY DEF HeapInv, BlocksInv
  <2>3. \A e \in live \ {a} : BlockPages(a) \cap BlockPages(e) = {}
    BY <2>2 DEF HeapInv, BlocksInv
  <2>4. \A v, w \in DOMAIN mapping : mapping[v] = mapping[w] => v = w
    BY DEF HeapInv, FramesInv
  <2> QED
    BY <2>1, <2>2, <2>3, <2>4
<1> QED
  BY <1>1, HeapInvariant, PTL

\* The header of a live block tells where its last page ends and how many pages Pmm
\* gave for it, all of them in one range: what free needs to know.
THEOREM HeaderTrue == Spec => []HeaderDescribesBlock
<1>1. HeapInv => HeaderDescribesBlock
  BY DEF HeapInv, BlocksInv, Block, HeaderDescribesBlock
<1> QED
  BY <1>1, HeapInvariant, PTL

\* The frames in use are pages that Pmm has.
LEMMA FrameRange ==
  ASSUME HeapInv, NEW v \in DOMAIN mapping
  PROVE  mapping[v] \in 1 .. Frames
<1>1. PICK r \in held : mapping[v] \in r.idx .. r.idx + r.count - 1
  BY DEF HeapInv, FramesInv, Pages!FramesOf
<1>2. r.idx \in Nat \ {0} /\ r.count \in Nat /\ r.idx + r.count - 1 <= Frames
  BY DEF HeapInv, HeldInv
<1> QED
  BY <1>1, <1>2, HeapAssumption

\* top cannot run away: each page below it has a frame of its own.
LEMMA TopBounded ==
  ASSUME HeapInv
  PROVE  Top - Base <= Frames
<1> DEFINE S == Base .. Top - 1
           T == 1 .. Frames
           f == [v \in S |-> mapping[v]]
<1>1. Base \in Nat /\ Top \in Nat /\ Frames \in Nat
  BY HeapAssumption DEF Base, PageOf, HeapInv, TopInv
<1>2. f \in [S -> T]
  BY MappedBelowTop, FrameRange
<1>3. \A v, w \in S : f[v] = f[w] => v = w
  BY MappedBelowTop DEF HeapInv, FramesInv
<1>4. IsFiniteSet(T) /\ Cardinality(T) = Frames
  <2>1. IsFiniteSet(T) /\ Cardinality(T) = IF 1 > Frames THEN 0 ELSE Frames - 1 + 1
    BY <1>1, FS_Interval
  <2> QED
    BY <1>1, <2>1
<1>5. IsFiniteSet(S) /\ Cardinality(S) = IF Base > Top - 1 THEN 0 ELSE Top - 1 - Base + 1
  <2>1. Base \in Int /\ Top - 1 \in Int
    BY <1>1
  <2> QED
    BY <2>1, FS_Interval
<1> HIDE DEF S, T, f
<1>6. ~(Cardinality(T) < Cardinality(S))
  BY <1>2, <1>3, <1>4, <1>5, FS_PigeonHole
<1> QED
  BY <1>1, <1>4, <1>5, <1>6

\* Every variable keeps its type: in particular top stays within the pages there are.
THEOREM TypeCorrect == Spec => []TypeOK
<1>1. HeapInv => TypeOK
  <2> SUFFICES ASSUME HeapInv PROVE TypeOK
    OBVIOUS
  <2>1. top \in {MemoryBase + PageSize * n : n \in 0 .. Frames}
    <3> DEFINE n == Top - Base
    <3>1. Base \in Nat /\ Top \in Nat /\ Top >= Base /\ top = PageSize * Top
      BY HeapAssumption DEF Base, PageOf, HeapInv, TopInv
    <3>2. n \in 0 .. Frames
      BY <3>1, TopBounded, HeapAssumption
    <3>3. MemoryBase = PageSize * Base
      BY HeapAssumption DEF Base, PageOf
    <3>4. top = MemoryBase + PageSize * n
      BY <3>1, <3>3, HeapAssumption
    <3> QED
      BY <3>2, <3>4
  <2>2. \A v \in DOMAIN mapping : mapping[v] \in 1 .. Frames
    BY FrameRange
  <2>3. pc \in [Cpus -> InSection \cup {"idle", "malloc", "free", "malloced", "fault"}]
    <3>1. \A c \in Cpus : pc[c] \in InSection \cup {"idle", "malloc", "free", "malloced", "fault"}
      BY DEF HeapInv, CallsInv, InMalloc, InSection
    <3> QED
      BY <3>1 DEF HeapInv, LockInv, PcType
  <2>4. \A c \in Cpus : got[c] \in Nat
    BY DEF HeapInv, CallsInv
  <2>5. mm_lock \in BOOLEAN /\ live \subseteq DOMAIN header /\ calls \in 0 .. MaxCalls
    BY DEF HeapInv, BlocksInv
  <2> QED
    BY <2>1, <2>2, <2>3, <2>4, <2>5 DEF TypeOK
<1> QED
  BY <1>1, HeapInvariant, PTL

\* No step of any processor maps the pages of a live block to other frames: what was
\* written to the block is what is read back.
THEOREM BlocksKept == Spec => BlocksStay
<1> DEFINE Stay == \A a \in live \cap live' : \A v \in BlockPages(a) : mapping'[v] = mapping[v]
<1>1. HeapInv /\ [Next]_heapVars => [Stay]_heapVars
  <2> SUFFICES ASSUME HeapInv, Next, NEW a \in live, NEW v \in BlockPages(a)
               PROVE  mapping'[v] = mapping[v]
    OBVIOUS
  <2>1. v \in Base .. Top - 1
    BY DEF HeapInv, BlocksInv, Block
  <2>2. PICK c \in Cpus : NewCall(c) \/ Step(c)
    BY DEF Next
  <2>3. CASE MapPages(c)
    <3>1. mapping'[v] = IF v >= PageOf(top) THEN got[c] + v - PageOf(top) ELSE mapping[v]
      BY <2>1, <2>3, MappedBelowTop DEF MapPages
    <3>2. Top \in Nat /\ Base \in Nat
      BY HeapAssumption DEF HeapInv, TopInv, Base, PageOf
    <3> QED
      BY <2>1, <3>1, <3>2 DEF Top
  <2>4. CASE ~MapPages(c)
    <3>1. mapping' = mapping
      BY <2>2, <2>4 DEF NewCall, CallMalloc, CallFree, Call, Step, Lock, lock, AllocPages,
         AllocNull, WriteHeader, Finish, MallocReturns, CallocReturns, FreeFails, Return, Fault
    <3> QED
      BY <3>1
  <2> QED
    BY <2>3, <2>4
<1> QED
  BY <1>1, HeapInvariant, PTL DEF BlocksStay, Spec

==============================================================================
