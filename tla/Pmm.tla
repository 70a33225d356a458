--------------------------------- MODULE Pmm ---------------------------------
(***************************************************************************)
(* The physical memory manager (hardware/mm/pmm.cpp): one bit per physical *)
(* page, set while the page is in use.                                     *)
(*                                                                         *)
(* The bits of page idx are found with (1 << (idx % 64)).  The 1 is an int,*)
(* so the x86 build shifts modulo 32 and sign-extends: pages idx and       *)
(* idx + 32 of a 64-page group share a bit, and the mask of the last int   *)
(* bit also covers the upper half of the word.  WordBits and IntBits stand *)
(* for 64 and 32; bit_mask below is that expression, not a single bit.     *)
(*                                                                         *)
(* bitmap is the set of pairs <<off, b>> such that bit b of bitmap[off] is *)
(* 1.  live and boot_bitmap are history variables: the allocations not yet *)
(* freed, and the bitmap at the moment init has marked its own pages.      *)
(***************************************************************************)
EXTENDS Sequences, FiniteSets, SparkMath

CONSTANTS
  PageSize,      \* page_size
  MemoryBase,    \* memory_base: nothing below it is ever handed out
  WordBits,      \* bits of one element of the bitmap
  IntBits,       \* bits of the int that is shifted
  ByteBits,      \* bits memset fills per byte
  SizeMod,       \* size_t arithmetic is modulo SizeMod
  MemoryMaps,    \* the memory maps a boot loader may hand over
  DirtyRam,      \* what the RAM the bitmap is put in may hold before memset
  Requests       \* the <<count, alignment, upper>> triples callers pass to alloc

AVAILABLE == 1   \* Multiboot::MemoryState::AVAILABLE
RESERVED == 2

MemoryMapEntry == [addr : Nat, len : Nat, type : {AVAILABLE, RESERVED}]

ASSUME PmmAssumption ==
  /\ PageSize \in Nat \ {0}
  /\ MemoryBase \in Nat
  /\ MemoryBase >= PageSize
  /\ WordBits \in Nat \ {0}
  /\ IntBits \in 1 .. WordBits
  /\ ByteBits \in Nat \ {0}
  /\ SizeMod \in Nat \ {0}
  /\ \A m \in MemoryMaps : m \in Seq(MemoryMapEntry)
  /\ \A d \in DirtyRam : d \subseteq Nat \X (0 .. WordBits - 1)
  /\ \A r \in Requests : /\ r[1] \in Nat \ {0}
                         /\ r[2] \in Nat \ {0}
                         /\ r[3] \in Nat

VARIABLES
  pc,            \* where init is; "run" once it has returned
  mmap,          \* the memory map handed to init
  entry,         \* index of the loop over mmap
  mem_top,       \* end of the highest AVAILABLE entry seen
  bitmap,
  bitmap_len,
  free_pages,
  total_pages,
  ret,           \* what the last alloc returned, 0 for nullptr
  boot_bitmap,   \* history: bitmap when init calls alloc
  live           \* history: allocations handed out and not freed

pmmVars == <<pc, mmap, entry, mem_top, bitmap, bitmap_len, free_pages,
             total_pages, ret, boot_bitmap, live>>

------------------------------------------------------------------------------
(* The bitmap helpers.                                                      *)

\* Mutant: the extension runs into the next word.
shifted_too_far(b) == IF b = IntBits - 1 THEN b .. WordBits ELSE {b}

\* The bits of (1 << (idx % 64)) converted to size_t: the sign bit of the int is
\* extended.
shifted(b) == IF b = IntBits - 1 THEN b .. WordBits - 1 ELSE {b}

bit_mask(idx) == {idx \div WordBits} \X shifted((idx % WordBits) % IntBits)

bit_masks(idx, count) == UNION {bit_mask(i) : i \in idx .. idx + count - 1}

bit_read(bm, idx) == bit_mask(idx) \subseteq bm

bit_write(idx, bit, count) ==
  IF bit = 1 THEN bitmap \cup bit_masks(idx, count)
             ELSE bitmap \ bit_masks(idx, count)

\* Mutant: only the first page is looked at.
first_is_free(idx, count) == ~bit_read(bitmap, idx)

bitmap_is_free(idx, count) ==
  \A i \in idx .. idx + count - 1 : ~bit_read(bitmap, i)

\* First page considered by alloc, and the page the bitmap is stored in.
BasePage == MemoryBase \div PageSize

BitmapBytes == bitmap_len \div ByteBits

BitmapPages == (BitmapBytes + PageSize - 1) \div PageSize

max_idx(upper) ==
  IF upper = 0 \/ bitmap_len < upper \div PageSize THEN bitmap_len
                                                   ELSE upper \div PageSize

FitsAt(idx, count, alignment, upper) ==
  /\ idx \in BasePage .. max_idx(upper) - 1
  /\ (idx - BasePage) % alignment = 0
  /\ bitmap_is_free(idx, count)

------------------------------------------------------------------------------
(* alloc and free, as actions other modules compose.                        *)

\* alloc finds count free pages at idx, the first place it looks at that fits,
\* and hands them to owner.
alloc(idx, count, alignment, upper, owner) ==
  /\ FitsAt(idx, count, alignment, upper)
  /\ \A j \in BasePage .. idx - 1 : ~FitsAt(j, count, alignment, upper)
  /\ bitmap' = bit_write(idx, 1, count)
  /\ free_pages' = IF total_pages # 0 THEN (free_pages - count) % SizeMod
                                      ELSE free_pages
  /\ live' = live \cup {[idx |-> idx, count |-> count, owner |-> owner]}
  /\ ret' = idx * PageSize

\* alloc finds nothing and returns nullptr.
alloc_null(count, alignment, upper) ==
  /\ \A idx \in BasePage .. max_idx(upper) - 1 :
        ~FitsAt(idx, count, alignment, upper)
  /\ ret' = 0
  /\ UNCHANGED <<bitmap, free_pages, live>>

\* Mutants: one page too few or too many is cleared, or only one is counted.
free_one_short(mem, count) ==
  /\ bitmap' = bit_write(mem \div PageSize, 0, count - 1)
  /\ free_pages' = (free_pages + count) % SizeMod

free_one_long(mem, count) ==
  /\ bitmap' = bit_write(mem \div PageSize, 0, count + 1)
  /\ free_pages' = (free_pages + count) % SizeMod

free_counts_one(mem, count) ==
  /\ bitmap' = bit_write(mem \div PageSize, 0, count)
  /\ free_pages' = (free_pages + 1) % SizeMod

free(mem, count) ==
  /\ bitmap' = bit_write(mem \div PageSize, 0, count)
  /\ free_pages' = (free_pages + count) % SizeMod

------------------------------------------------------------------------------
(* Pmm::init.                                                               *)

Init ==
  /\ pc = "top"
  /\ mmap \in MemoryMaps
  /\ entry = 1
  /\ mem_top = 0
  /\ bitmap \in DirtyRam
  /\ bitmap_len = 64
  /\ free_pages = 0
  /\ total_pages = 0
  /\ ret = 0
  /\ boot_bitmap = {}
  /\ live = {}

IsAvailable(e) == e.type = AVAILABLE

\* One iteration of find_available_memory_top.
FindTop ==
  /\ pc = "top"
  /\ entry <= Len(mmap)
  /\ LET end == mmap[entry].addr + mmap[entry].len
     IN  mem_top' = IF IsAvailable(mmap[entry]) /\ end > mem_top THEN end ELSE mem_top
  /\ entry' = entry + 1
  /\ UNCHANGED <<pc, mmap, bitmap, bitmap_len, free_pages, total_pages, ret,
                 boot_bitmap, live>>

\* The bits of the first n bytes of the bitmap.
memset_bits(n) ==
  {<<i \div WordBits, i % WordBits>> : i \in 0 .. n * ByteBits - 1}

\* The bitmap gets a bit per page below mem_top, but memset fills whole bytes
\* only: the bits past the last full byte keep what the RAM held.
FillBitmap ==
  /\ pc = "top"
  /\ entry > Len(mmap)
  /\ LET mem_pages == (mem_top + PageSize - 1) \div PageSize
     IN  /\ bitmap_len' = mem_pages
         /\ bitmap' = bitmap \cup memset_bits(mem_pages \div ByteBits)
  /\ entry' = 1
  /\ pc' = "scan"
  /\ UNCHANGED <<mmap, mem_top, free_pages, total_pages, ret, boot_bitmap, live>>

\* The part of a region that init considers, before the bitmap is cut out.
RegionStart(e) == round_up(e.addr, PageSize)
RegionLen(e) == round_down(e.len, PageSize)

Usable(e) ==
  /\ IsAvailable(e)
  /\ RegionLen(e) # 0
  /\ RegionStart(e) + RegionLen(e) >= MemoryBase

SkipEntry ==
  /\ pc = "scan"
  /\ entry <= Len(mmap)
  /\ ~Usable(mmap[entry])
  /\ entry' = entry + 1
  /\ UNCHANGED <<pc, mmap, mem_top, bitmap, bitmap_len, free_pages, total_pages,
                 ret, boot_bitmap, live>>

\* A usable region is clipped to MemoryBase, then moved past the bitmap when it
\* contains it.  The call that would free the part before the bitmap is dead
\* code: after clipping no region starts below MemoryBase, where the bitmap is.
FreeEntry ==
  /\ pc = "scan"
  /\ entry <= Len(mmap)
  /\ Usable(mmap[entry])
  /\ LET e == mmap[entry]
         start == IF RegionStart(e) < MemoryBase THEN MemoryBase ELSE RegionStart(e)
         len == RegionStart(e) + RegionLen(e) - start
     IN  IF overlaps(MemoryBase, BitmapBytes, start, len)
         THEN free(MemoryBase + BitmapBytes, (len - BitmapBytes) \div PageSize)
         ELSE free(start, len \div PageSize)
  /\ entry' = entry + 1
  /\ UNCHANGED <<pc, mmap, mem_top, bitmap_len, total_pages, ret, boot_bitmap, live>>

\* Mutant: the last, partly used page of the bitmap is not marked.
ReserveWholePages ==
  /\ pc = "scan"
  /\ entry > Len(mmap)
  /\ total_pages' = free_pages
  /\ bitmap' = bit_write(BasePage, 1, BitmapBytes \div PageSize)
  /\ boot_bitmap' = bitmap'
  /\ pc' = "reserve"
  /\ UNCHANGED <<mmap, entry, mem_top, bitmap_len, free_pages, ret, live>>

\* The bitmap's own pages are marked, behind the back of free_pages.
ReserveBitmap ==
  /\ pc = "scan"
  /\ entry > Len(mmap)
  /\ total_pages' = free_pages
  /\ bitmap' = bit_write(BasePage, 1, BitmapPages)
  /\ boot_bitmap' = bitmap'
  /\ pc' = "reserve"
  /\ UNCHANGED <<mmap, entry, mem_top, bitmap_len, free_pages, ret, live>>

\* init then allocates as many pages again and drops the result.
BootAlloc ==
  /\ pc = "reserve"
  /\ \/ \E idx \in BasePage .. bitmap_len - 1 : alloc(idx, BitmapPages, 1, 0, "boot")
     \/ alloc_null(BitmapPages, 1, 0)
  /\ pc' = "run"
  /\ UNCHANGED <<mmap, entry, mem_top, bitmap_len, total_pages, boot_bitmap>>

------------------------------------------------------------------------------
(* The interface, once init has returned.                                   *)

bootedVars == <<pc, mmap, entry, mem_top, bitmap_len, total_pages, boot_bitmap>>

Alloc(count, alignment, upper) ==
  /\ pc = "run"
  /\ \E idx \in BasePage .. bitmap_len - 1 :
        alloc(idx, count, alignment, upper, "caller")
  /\ UNCHANGED bootedVars

AllocFails(count, alignment, upper) ==
  /\ pc = "run"
  /\ alloc_null(count, alignment, upper)
  /\ UNCHANGED bootedVars

\* A caller gives back what one alloc gave it.  Nobody holds the address of
\* the allocation made by init.
Free(a) ==
  /\ pc = "run"
  /\ a.owner # "boot"
  /\ free(a.idx * PageSize, a.count)
  /\ live' = live \ {a}
  /\ UNCHANGED <<bootedVars, ret>>

InitStep == \/ FindTop \/ FillBitmap \/ SkipEntry \/ FreeEntry
            \/ ReserveBitmap \/ BootAlloc

Next ==
  \/ InitStep
  \/ \E r \in Requests : Alloc(r[1], r[2], r[3]) \/ AllocFails(r[1], r[2], r[3])
  \/ \E a \in live : Free(a)

Spec == Init /\ [][Next]_pmmVars

------------------------------------------------------------------------------
(* Properties.                                                              *)

FramesOf(a) == a.idx .. a.idx + a.count - 1

BitmapFrames == BasePage .. BasePage + BitmapPages - 1

Allocation == [idx : Nat, count : Nat, owner : {"boot", "caller"}]

\* Every variable keeps its type; in particular bitmap only ever holds bits of
\* whole words, and the counters stay within size_t.
TypeOK ==
  /\ pc \in {"top", "scan", "reserve", "run"}
  /\ mmap \in MemoryMaps
  /\ entry \in Nat \ {0}
  /\ mem_top \in Nat
  /\ bitmap \subseteq Nat \X (0 .. WordBits - 1)
  /\ boot_bitmap \subseteq Nat \X (0 .. WordBits - 1)
  /\ bitmap_len \in Nat
  /\ free_pages \in 0 .. SizeMod - 1
  /\ total_pages \in 0 .. SizeMod - 1
  /\ ret \in Nat
  /\ live \subseteq Allocation

\* No physical page is ever in two live allocations, although pages share bits
\* of the bitmap and any free clears the bits of both.
NoSharedFrame ==
  \A a, b \in live : a # b => FramesOf(a) \cap FramesOf(b) = {}

\* The pages the bitmap is stored in are never handed out: not to a caller, and
\* not by the alloc in init, which the region loop has already given part of
\* the last bitmap page to (pmm.cpp:96, 106, 107).
BitmapReserved ==
  \A a \in live : FramesOf(a) \cap BitmapFrames = {}

\* The bitmap records exactly the pages reserved at boot and the live
\* allocations (with the pages that share their bits): however long the sequence
\* of calls, no freed page stays marked and no live or reserved one is cleared.
BitmapExact ==
  pc = "run" =>
    \A f \in 0 .. bitmap_len + WordBits :
      bit_read(bitmap, f) <=>
        \/ bit_read(boot_bitmap, f)
        \/ \E a \in live : \E g \in FramesOf(a) : bit_mask(g) = bit_mask(f)

\* free_pages moves with the allocations: it and the number of pages handed out,
\* to init's own allocation too, add up to total_pages.
Held == UNION {FramesOf(a) : a \in live}

Accounting ==
  pc = "run" /\ total_pages # 0 =>
    (free_pages + Cardinality(Held)) % SizeMod = total_pages

\* Pmm is a page allocator in the sense of PageAllocator: once init has marked
\* the bitmap's pages, every step of the code hands out one range disjoint from
\* all others and from those pages, takes one back, or changes neither.
Allocator == INSTANCE PageAllocator WITH
  held <- live,
  reserved <- IF pc \in {"reserve", "run"} THEN BitmapFrames ELSE {}

ImplementsAllocator == Allocator!Spec
==============================================================================
