-------------------------------- MODULE Heap ---------------------------------
(***************************************************************************)
(* The kernel heap (hardware/mm/mm.cpp) over the page allocator and the    *)
(* address space: malloc takes whole physical pages, maps them at top,     *)
(* which only grows, and puts the block at the end of them behind a header *)
(* of two words.  mm_lock is what the code provides for several processors *)
(* calling at once; every processor here may call.                         *)
(*                                                                         *)
(* map_pages is taken as one step that maps the pages it is given.  The    *)
(* lines of free after its comparison are not modelled: they never run, the*)
(* comparison is true of every block of the heap.  realloc, which no header*)
(* declares and nothing calls, is left out.                                *)
(***************************************************************************)
EXTENDS FiniteSetsExt, Integers

CONSTANTS
  Cpus,
  PageSize,      \* page_size
  MemoryBase,    \* memory_base, where the heap starts
  Frames,        \* physical pages 1 .. Frames can be allocated
  Sizes,         \* the byte counts callers ask for
  Ops,           \* the functions they call
  MaxCalls       \* bound on the number of calls

ASSUME HeapAssumption ==
  /\ PageSize \in Nat \ {0}
  /\ MemoryBase \in Nat
  /\ MemoryBase > 16
  /\ MemoryBase % PageSize = 0
  /\ Frames \in Nat
  /\ Sizes \subseteq Nat
  /\ Ops \subseteq {"malloc", "calloc", "free"}
  /\ MaxCalls \in Nat

VARIABLES
  mm_lock,         \* Spinlock::locked
  top,
  mapping,         \* the address space above top's start: pages to frames
  header,          \* the two words written before each block
  held, reserved,  \* the page allocator
  pc,              \* where each processor is
  call,            \* the function it executes: op and its argument
  got,             \* what Pmm::alloc, then malloc, gave it; 0 is nullptr
  result,          \* what its last call returned, 0 for nullptr and false
  live,            \* history: blocks returned and not passed to free
  calls

heapVars == <<mm_lock, top, mapping, header, held, reserved, pc, call, got, result,
              live, calls>>

Pages == INSTANCE PageAllocator

------------------------------------------------------------------------------
(* Sizes and addresses.                                                     *)

HeaderBytes == 16

\* What malloc turns the requested bytes into.
rounded(bytes) == ((bytes + 7) \div 8) * 8 + HeaderBytes

pages_for(bytes) == (bytes + PageSize - 1) \div PageSize + 1

PageOf(addr) == addr \div PageSize

\* The pages of the block at addr, from its header to the end of its last page.
BlockPages(addr) ==
  PageOf(addr - HeaderBytes) .. PageOf(addr + header[addr].size - 1)

------------------------------------------------------------------------------
NoCall == [op |-> "none"]

Init ==
  /\ mm_lock = FALSE
  /\ top = MemoryBase
  /\ mapping = << >>
  /\ header = << >>
  /\ held = {} /\ reserved = {}
  /\ pc = [c \in Cpus |-> "idle"]
  /\ call = [c \in Cpus |-> NoCall]
  /\ got = [c \in Cpus |-> 0]
  /\ result = [c \in Cpus |-> 0]
  /\ live = {}
  /\ calls = 0

Goto(c, to) == pc' = [pc EXCEPT ![c] = to]

\* A caller passes free a block malloc or calloc returned, once.
Call(c, request, start) ==
  /\ pc[c] = "idle"
  /\ request.op \in Ops
  /\ calls < MaxCalls
  /\ calls' = calls + 1
  /\ call' = [call EXCEPT ![c] = request]
  /\ Goto(c, start)
  /\ UNCHANGED <<mm_lock, top, mapping, header, held, reserved, got, result>>

CallMalloc(c, n) ==
  /\ \/ Call(c, [op |-> "malloc", bytes |-> n], "malloc")
     \/ Call(c, [op |-> "calloc", bytes |-> n], "malloc")
  /\ UNCHANGED live

CallFree(c, old) ==
  /\ Call(c, [op |-> "free", old |-> old], "free")
  /\ live' = live \ {old}

------------------------------------------------------------------------------
(* malloc.  lock spins until lock bts finds the bit clear; in the mutant it *)
(* does not look.                                                           *)

lock_without_test(c, from, to) ==
  /\ pc[c] = from
  /\ mm_lock' = TRUE
  /\ Goto(c, to)
  /\ UNCHANGED <<top, mapping, header, held, reserved, call, got, result, live, calls>>

lock(c, from, to) ==
  /\ pc[c] = from
  /\ ~mm_lock
  /\ mm_lock' = TRUE
  /\ Goto(c, to)
  /\ UNCHANGED <<top, mapping, header, held, reserved, call, got, result, live, calls>>

Lock(c) == \/ lock(c, "malloc", "alloc")
           \/ lock(c, "free", "compare")

\* The pages malloc asks for, and the bytes of the block with its header.
MallocBytes(c) == rounded(call[c].bytes)
MallocPages(c) == pages_for(MallocBytes(c))

AllocPages(c) ==
  /\ pc[c] = "alloc"
  /\ LET places == Pages!Places(MallocPages(c), Frames)
         range == [idx |-> Min(places), count |-> MallocPages(c)]
     IN  /\ places # {}
         /\ Pages!Allocate(range)
         /\ got' = [got EXCEPT ![c] = range.idx]
  /\ Goto(c, "map")
  /\ UNCHANGED <<mm_lock, top, mapping, header, call, result, live, calls>>

\* Mutant: the early return keeps the lock.
AllocNullLocked(c) ==
  /\ pc[c] = "alloc"
  /\ Pages!Places(MallocPages(c), Frames) = {}
  /\ got' = [got EXCEPT ![c] = 0]
  /\ Goto(c, "malloced")
  /\ UNCHANGED <<mm_lock, top, mapping, header, held, reserved, call, result, live,
                 calls>>

\* Out of memory: the lock is released and nullptr returned.
AllocNull(c) ==
  /\ pc[c] = "alloc"
  /\ Pages!Places(MallocPages(c), Frames) = {}
  /\ got' = [got EXCEPT ![c] = 0]
  /\ mm_lock' = FALSE
  /\ Goto(c, "malloced")
  /\ UNCHANGED <<top, mapping, header, held, reserved, call, result, live, calls>>

MapPages(c) ==
  /\ pc[c] = "map"
  /\ mapping' = [v \in DOMAIN mapping \cup
                       (PageOf(top) .. PageOf(top) + MallocPages(c) - 1) |->
                   IF v >= PageOf(top) THEN got[c] + v - PageOf(top) ELSE mapping[v]]
  /\ Goto(c, "advance")
  /\ UNCHANGED <<mm_lock, top, header, held, reserved, call, got, result, live, calls>>

\* What malloc leaves once the pages are mapped: the new top, the header of the
\* block at its end and the lock released.
Finish(c, size, newTop, pages) ==
  /\ top' = newTop
  /\ LET out == top + PageSize * MallocPages(c) - MallocBytes(c) + HeaderBytes
     IN  /\ header' = [a \in DOMAIN header \cup {out} |->
                         IF a = out THEN [size |-> size, pages |-> pages]
                                    ELSE header[a]]
         /\ got' = [got EXCEPT ![c] = out]
  /\ mm_lock' = FALSE
  /\ Goto(c, "malloced")
  /\ UNCHANGED <<mapping, held, reserved, call, result, live, calls>>

\* Mutants: top moves by the bytes of the block, or by a page less than the block
\* got; the header forgets the page pages_for adds.
AdvanceByBytes(c) ==
  /\ pc[c] = "advance"
  /\ Finish(c, MallocBytes(c) - HeaderBytes, top + MallocBytes(c), MallocPages(c))

AdvanceOneShort(c) ==
  /\ pc[c] = "advance"
  /\ Finish(c, MallocBytes(c) - HeaderBytes, top + PageSize * (MallocPages(c) - 1),
            MallocPages(c))

HeaderOneShort(c) ==
  /\ pc[c] = "advance"
  /\ Finish(c, MallocBytes(c) - HeaderBytes, top + PageSize * MallocPages(c),
            MallocPages(c) - 1)

WriteHeader(c) ==
  /\ pc[c] = "advance"
  /\ Finish(c, MallocBytes(c) - HeaderBytes, top + PageSize * MallocPages(c),
            MallocPages(c))

------------------------------------------------------------------------------
(* What the callers of malloc do with the block.                            *)

Return(c, value, given) ==
  /\ result' = [result EXCEPT ![c] = value]
  /\ live' = live \cup given
  /\ call' = [call EXCEPT ![c] = NoCall]
  /\ got' = [got EXCEPT ![c] = 0]
  /\ Goto(c, "idle")
  /\ UNCHANGED <<mm_lock, top, mapping, header, held, reserved, calls>>

Given(c) == IF got[c] = 0 THEN {} ELSE {got[c]}

\* A page fault with no handler installed: the processor never comes back.
Fault(c) ==
  /\ Goto(c, "fault")
  /\ UNCHANGED <<mm_lock, top, mapping, header, held, reserved, call, got, result,
                 live, calls>>

MallocReturns(c) ==
  /\ pc[c] = "malloced"
  /\ call[c].op = "malloc"
  /\ Return(c, got[c], Given(c))

\* memset is called on whatever malloc returned.
CallocReturns(c) ==
  /\ pc[c] = "malloced"
  /\ call[c].op = "calloc"
  /\ IF got[c] = 0 /\ call[c].bytes > 0 THEN Fault(c)
                                        ELSE Return(c, got[c], Given(c))

\* free compares a number of pages computed from the address with the address
\* itself, where the two words of the header are meant.  They differ, and free
\* returns without releasing the lock.
FreeFails(c) ==
  /\ pc[c] = "compare"
  /\ pages_for(call[c].old) # call[c].old - 8
  /\ Return(c, 0, {})

Step(c) ==
  \/ Lock(c) \/ AllocPages(c) \/ AllocNull(c) \/ MapPages(c) \/ WriteHeader(c)
  \/ MallocReturns(c) \/ CallocReturns(c) \/ FreeFails(c)

NewCall(c) ==
  \/ \E n \in Sizes : CallMalloc(c, n)
  \/ \E old \in live : CallFree(c, old)

Next == \E c \in Cpus : NewCall(c) \/ Step(c)

Spec == Init /\ [][Next]_heapVars

\* A processor inside the heap goes on; nobody has to call it.
FairSpec == Spec /\ \A c \in Cpus : WF_heapVars(Step(c))

------------------------------------------------------------------------------
(* Properties.                                                              *)

InSection == {"alloc", "map", "advance", "compare"}

TypeOK ==
  /\ mm_lock \in BOOLEAN
  /\ top \in {MemoryBase + PageSize * n : n \in 0 .. Frames}
  /\ \A v \in DOMAIN mapping : mapping[v] \in 1 .. Frames
  /\ pc \in [Cpus -> InSection \cup {"idle", "malloc", "free", "malloced", "fault"}]
  /\ \A c \in Cpus : got[c] \in Nat
  /\ live \subseteq DOMAIN header
  /\ calls \in 0 .. MaxCalls

\* Spinlock::lock keeps two processors from being between lock and release.
MutualExclusion ==
  \A c, d \in Cpus : pc[c] \in InSection /\ pc[d] \in InSection => c = d

\* No two blocks share a byte of address space or a physical page, and the pages
\* of every block are mapped: whatever the processors interleave, one block can
\* be written without another changing.
BlocksApart ==
  \A a \in live :
    /\ BlockPages(a) \subseteq DOMAIN mapping
    /\ \A b \in live \ {a} :
         /\ BlockPages(a) \cap BlockPages(b) = {}
         /\ {mapping[v] : v \in BlockPages(a)} \cap {mapping[v] : v \in BlockPages(b)} = {}

\* While a block is live no other call maps its pages to other frames: what was
\* written to it can be read back.
BlocksStay ==
  [][\A a \in live \cap live' : \A v \in BlockPages(a) : mapping'[v] = mapping[v]]_heapVars

\* The header of a block says what free needs to know: where the last page of the
\* block ends and how many pages Pmm gave for it.
HeaderDescribesBlock ==
  \A a \in live :
    /\ (a + header[a].size) % PageSize = 0
    /\ \E r \in held : /\ r.count = header[a].pages
                       /\ {mapping[v] : v \in BlockPages(a)} \subseteq Pages!FramesOf(r)

\* malloc and calloc release the lock they take, on the out-of-memory path too: a
\* processor that reaches Pmm::alloc with the lock gives the others their turn.
MallocReleases == \A c \in Cpus : pc[c] = "alloc" ~> ~mm_lock

\* "Releases variable" (cpu.hpp:24): mm_lock does not stay locked.
LockReleased == mm_lock ~> ~mm_lock

==============================================================================
