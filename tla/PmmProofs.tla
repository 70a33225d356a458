------------------------------ MODULE PmmProofs ------------------------------
(***************************************************************************)
(* Pmm, for every page, word, byte and int size, every memory map and every*)
(* sequence of calls: the types, that no page is handed out twice or taken *)
(* from the bitmap, that the bitmap records what is in use, and that the   *)
(* whole implements PageAllocator.                                         *)
(*                                                                         *)
(* The argument rests on MaskPartition: pages share all the bits of their  *)
(* masks or none, so marking a page and clearing it again undoes exactly   *)
(* what was done, provided no page that shares its bits is live, and that  *)
(* is why alloc, which only takes pages that read as free, never lets two  *)
(* live allocations share bits.                                            *)
(***************************************************************************)
EXTENDS Pmm, FiniteSetTheorems, TLAPS

\* A page index splits into a word of the bitmap and a place in it.
LEMMA DivModNat ==
  ASSUME NEW i \in Nat, NEW w \in Nat \ {0}
  PROVE  /\ i % w \in 0 .. w - 1
         /\ i \div w \in Nat
  OBVIOUS

\* The address alloc returns gives its page back when free divides it.
LEMMA DivOfMultiple ==
  ASSUME NEW i \in Nat, NEW w \in Nat \ {0}
  PROVE  (i * w) \div w = i
  OBVIOUS

\* The bit of the int that page i is shifted to, before sign extension.
Bit(i) == (i % WordBits) % IntBits

\* The shift count is a bit of the int.
LEMMA BitRange ==
  ASSUME NEW i \in Nat
  PROVE  Bit(i) \in 0 .. IntBits - 1
<1>1. i % WordBits \in Nat
  BY PmmAssumption, DivModNat
<1> QED
  BY <1>1, PmmAssumption, DivModNat DEF Bit

\* The mask of a page, sign extension included, stays inside its word.
LEMMA ShiftedRange ==
  ASSUME NEW b \in 0 .. IntBits - 1
  PROVE  /\ b \in shifted(b)
         /\ shifted(b) \subseteq 0 .. WordBits - 1
         /\ \A c \in 0 .. IntBits - 1 :
               b # c => shifted(b) \cap shifted(c) = {}
  BY PmmAssumption DEF shifted

\* The mask of a page is a set of bits of the bitmap.
LEMMA MaskType ==
  ASSUME NEW i \in Nat
  PROVE  bit_mask(i) \in SUBSET (Nat \X (0 .. WordBits - 1))
<1>1. i \div WordBits \in Nat
  BY PmmAssumption, DivModNat
<1>2. shifted(Bit(i)) \subseteq 0 .. WordBits - 1
  BY BitRange, ShiftedRange
<1> QED
  BY <1>1, <1>2 DEF bit_mask, Bit

\* The mask of a page has a bit: no page reads as used by default.
LEMMA MaskNonempty ==
  ASSUME NEW i \in Nat
  PROVE  bit_mask(i) # {}
<1>1. Bit(i) \in shifted(Bit(i))
  BY BitRange, ShiftedRange
<1>2. <<i \div WordBits, Bit(i)>> \in bit_mask(i)
  BY <1>1 DEF bit_mask, Bit
<1> QED
  BY <1>2

\* The masks of two pages are the same or have no bit in common: pages share
\* all of their bits or none.
LEMMA MaskPartition ==
  ASSUME NEW i \in Nat, NEW j \in Nat
  PROVE  bit_mask(i) = bit_mask(j) \/ bit_mask(i) \cap bit_mask(j) = {}
<1>1. CASE i \div WordBits = j \div WordBits /\ Bit(i) = Bit(j)
  BY <1>1 DEF bit_mask, Bit
<1>2. CASE i \div WordBits # j \div WordBits
  BY <1>2 DEF bit_mask
<1>3. CASE Bit(i) # Bit(j)
  <2>1. shifted(Bit(i)) \cap shifted(Bit(j)) = {}
    BY <1>3, BitRange, ShiftedRange
  <2> QED
    BY <2>1 DEF bit_mask, Bit
<1> QED
  BY <1>1, <1>2, <1>3

\* The masks of a range of pages are bits of the bitmap.
LEMMA MasksType ==
  ASSUME NEW i \in Nat, NEW c \in Int
  PROVE  bit_masks(i, c) \subseteq Nat \X (0 .. WordBits - 1)
<1> SUFFICES ASSUME NEW j \in i .. i + c - 1
             PROVE  bit_mask(j) \subseteq Nat \X (0 .. WordBits - 1)
  BY DEF bit_masks
<1> QED
  BY MaskType

------------------------------------------------------------------------------
(* Type correctness.                                                        *)

\* The loops of init read an entry of the memory map.
LEMMA EntryType ==
  ASSUME TypeOK, entry <= Len(mmap)
  PROVE  mmap[entry] \in MemoryMapEntry
<1>1. mmap \in Seq(MemoryMapEntry)
  BY PmmAssumption DEF TypeOK
<1>2. entry \in 1 .. Len(mmap)
  BY <1>1 DEF TypeOK
<1> QED
  BY <1>1, <1>2

\* The roundings of a region are addresses.
LEMMA RoundType ==
  ASSUME NEW n \in Nat
  PROVE  /\ round_up(n, PageSize) \in Nat
         /\ round_down(n, PageSize) \in Nat
<1>1. n + PageSize - 1 \in Nat
  BY PmmAssumption
<1>2. (n + PageSize - 1) \div PageSize \in Nat
  BY <1>1, PmmAssumption, DivModNat
<1>3. n \div PageSize \in Nat
  BY PmmAssumption, DivModNat
<1> QED
  BY <1>2, <1>3, PmmAssumption DEF round_up, round_down

\* memory_base lies in a page.
LEMMA BasePageType == BasePage \in Nat
  BY PmmAssumption, DivModNat DEF BasePage

\* The bitmap has a number of bytes.
LEMMA BitmapBytesType ==
  ASSUME bitmap_len \in Nat
  PROVE  BitmapBytes \in Nat
  BY PmmAssumption, DivModNat DEF BitmapBytes

\* The bitmap has a number of pages.
LEMMA BitmapPagesType ==
  ASSUME bitmap_len \in Nat
  PROVE  BitmapPages \in Nat
<1>1. BitmapBytes + PageSize - 1 \in Nat
  BY BitmapBytesType, PmmAssumption
<1> QED
  BY <1>1, PmmAssumption, DivModNat DEF BitmapPages

\* What size_t arithmetic leaves fits in a size_t.
LEMMA ModSizeType ==
  ASSUME NEW n \in Int
  PROVE  n % SizeMod \in 0 .. SizeMod - 1
  BY PmmAssumption

\* memset fills bits of the bitmap.
LEMMA MemsetType ==
  ASSUME NEW n \in Nat
  PROVE  memset_bits(n) \subseteq Nat \X (0 .. WordBits - 1)
<1>1. n * ByteBits \in Nat
  BY PmmAssumption
<1>2. ASSUME NEW i \in 0 .. n * ByteBits - 1
      PROVE  <<i \div WordBits, i % WordBits>> \in Nat \X (0 .. WordBits - 1)
  <2>1. i \in Nat
    BY <1>1
  <2>2. i \div WordBits \in Nat /\ i % WordBits \in 0 .. WordBits - 1
    BY <2>1, PmmAssumption, DivModNat
  <2> QED
    BY <2>2
<1> QED
  BY <1>2 DEF memset_bits

\* What free does to the bitmap and to the counter has their types.
LEMMA FreeType ==
  ASSUME TypeOK, NEW mem \in Nat, NEW count \in Nat, free(mem, count)
  PROVE  /\ bitmap' \subseteq Nat \X (0 .. WordBits - 1)
         /\ free_pages' \in 0 .. SizeMod - 1
<1>1. bitmap' \subseteq bitmap
  BY DEF free, bit_write
<1>2. free_pages + count \in Int
  BY PmmAssumption DEF TypeOK
<1> QED
  BY <1>1, <1>2, ModSizeType DEF TypeOK, free

\* What alloc does to its variables has their types.
LEMMA AllocType ==
  ASSUME TypeOK, NEW idx \in BasePage .. bitmap_len - 1, NEW count \in Nat,
         NEW alignment, NEW upper, NEW owner \in {"boot", "caller"},
         alloc(idx, count, alignment, upper, owner)
  PROVE  /\ bitmap' \subseteq Nat \X (0 .. WordBits - 1)
         /\ free_pages' \in 0 .. SizeMod - 1
         /\ live' \subseteq Allocation
         /\ ret' \in Nat
<1>1. idx \in Nat
  BY BasePageType DEF TypeOK
<1>2. bitmap' = bitmap \cup bit_masks(idx, count)
  BY DEF alloc, bit_write
<1>3. free_pages - count \in Int
  BY PmmAssumption DEF TypeOK
<1>4. free_pages' \in 0 .. SizeMod - 1
  BY <1>3, ModSizeType DEF TypeOK, alloc
<1>5. live' \subseteq Allocation
  BY <1>1 DEF TypeOK, alloc, Allocation
<1>6. idx * PageSize \in Nat
  BY <1>1, PmmAssumption
<1> QED
  BY <1>1, <1>2, <1>4, <1>5, <1>6, MasksType DEF TypeOK, alloc

\* The initial values have their types.
LEMMA TypeInit == Init => TypeOK
  BY PmmAssumption DEF Init, TypeOK

\* Every step of init and of the interface keeps the types.
LEMMA TypeStep == TypeOK /\ [Next]_pmmVars => TypeOK'
<1> SUFFICES ASSUME TypeOK, [Next]_pmmVars PROVE TypeOK'
  OBVIOUS
<1>1. CASE FindTop
  <2>1. mmap[entry].addr \in Nat /\ mmap[entry].len \in Nat
    BY <1>1, EntryType DEF FindTop, MemoryMapEntry
  <2> QED
    BY SMTT(30), <1>1, <2>1 DEF FindTop, TypeOK
<1>2. CASE FillBitmap
  <2> DEFINE mem_pages == (mem_top + PageSize - 1) \div PageSize
  <2>1. mem_top + PageSize - 1 \in Nat
    BY PmmAssumption DEF TypeOK
  <2>2. mem_pages \in Nat
    BY <2>1, PmmAssumption, DivModNat
  <2>3. mem_pages \div ByteBits \in Nat
    BY <2>2, PmmAssumption, DivModNat
  <2>4. bitmap_len' = mem_pages /\ bitmap' = bitmap \cup memset_bits(mem_pages \div ByteBits)
    BY <1>2 DEF FillBitmap
  <2>5. bitmap' \subseteq Nat \X (0 .. WordBits - 1)
    BY <2>3, <2>4, MemsetType DEF TypeOK
  <2> QED
    BY <1>2, <2>2, <2>4, <2>5 DEF FillBitmap, TypeOK
<1>3. CASE SkipEntry
  BY <1>3 DEF SkipEntry, TypeOK
<1>4. CASE FreeEntry
  <2> DEFINE e == mmap[entry]
             start == IF RegionStart(e) < MemoryBase THEN MemoryBase ELSE RegionStart(e)
             len == RegionStart(e) + RegionLen(e) - start
  <2>1. e.addr \in Nat /\ e.len \in Nat
    BY <1>4, EntryType DEF FreeEntry, MemoryMapEntry
  <2>2. RegionStart(e) \in Nat /\ RegionLen(e) \in Nat
    BY <2>1, RoundType DEF RegionStart, RegionLen
  <2>3. start \in Nat /\ len \in Nat /\ start >= MemoryBase
    BY <1>4, <2>2, PmmAssumption DEF FreeEntry, Usable
  <2>4. BitmapBytes \in Nat
    BY BitmapBytesType DEF TypeOK
  <2> HIDE DEF start, len
  <2>5. /\ bitmap' \subseteq Nat \X (0 .. WordBits - 1)
        /\ free_pages' \in 0 .. SizeMod - 1
    <3>1. CASE overlaps(MemoryBase, BitmapBytes, start, len)
      <4>1. len - BitmapBytes \in Nat
        BY <2>3, <2>4, <3>1, PmmAssumption DEF overlaps
      <4>2. (len - BitmapBytes) \div PageSize \in Nat
        BY <4>1, PmmAssumption, DivModNat
      <4>3. MemoryBase + BitmapBytes \in Nat
        BY <2>4, PmmAssumption
      <4>4. free(MemoryBase + BitmapBytes, (len - BitmapBytes) \div PageSize)
        BY <1>4, <3>1 DEF FreeEntry, start, len
      <4> QED
        BY <4>2, <4>3, <4>4, FreeType
    <3>2. CASE ~overlaps(MemoryBase, BitmapBytes, start, len)
      <4>1. len \div PageSize \in Nat
        BY <2>3, PmmAssumption, DivModNat
      <4>2. free(start, len \div PageSize)
        BY <1>4, <3>2 DEF FreeEntry, start, len
      <4> QED
        BY <2>3, <4>1, <4>2, FreeType
    <3> QED
      BY <3>1, <3>2
  <2> QED
    BY <1>4, <2>5 DEF FreeEntry, TypeOK
<1>5. CASE ReserveBitmap
  <2>1. bitmap' = bitmap \cup bit_masks(BasePage, BitmapPages)
    BY <1>5 DEF ReserveBitmap, bit_write
  <2>2. bit_masks(BasePage, BitmapPages) \subseteq Nat \X (0 .. WordBits - 1)
    BY BasePageType, BitmapPagesType, MasksType DEF TypeOK
  <2> QED
    BY <1>5, <2>1, <2>2 DEF ReserveBitmap, TypeOK
<1>6. CASE BootAlloc
  <2>1. CASE alloc_null(BitmapPages, 1, 0)
    BY <1>6, <2>1 DEF BootAlloc, alloc_null, TypeOK
  <2>2. CASE \E idx \in BasePage .. bitmap_len - 1 :
                alloc(idx, BitmapPages, 1, 0, "boot")
    <3>1. BitmapPages \in Nat
      BY BitmapPagesType DEF TypeOK
    <3>2. /\ bitmap' \subseteq Nat \X (0 .. WordBits - 1)
          /\ free_pages' \in 0 .. SizeMod - 1
          /\ live' \subseteq Allocation
          /\ ret' \in Nat
      BY <2>2, <3>1, AllocType
    <3> QED
      BY <1>6, <3>2 DEF BootAlloc, TypeOK
  <2> QED
    BY <1>6, <2>1, <2>2 DEF BootAlloc
<1>7. ASSUME NEW r \in Requests, Alloc(r[1], r[2], r[3]) PROVE TypeOK'
  <2>1. /\ bitmap' \subseteq Nat \X (0 .. WordBits - 1)
        /\ free_pages' \in 0 .. SizeMod - 1
        /\ live' \subseteq Allocation
        /\ ret' \in Nat
    BY <1>7, AllocType, PmmAssumption DEF Alloc
  <2> QED
    BY <1>7, <2>1 DEF Alloc, bootedVars, TypeOK
<1>8. ASSUME NEW r \in Requests, AllocFails(r[1], r[2], r[3]) PROVE TypeOK'
  BY <1>8 DEF AllocFails, alloc_null, bootedVars, TypeOK
<1>9. ASSUME NEW a \in live, Free(a) PROVE TypeOK'
  <2>1. a.idx \in Nat /\ a.count \in Nat
    BY DEF TypeOK, Allocation
  <2>2. a.idx * PageSize \in Nat
    BY <2>1, PmmAssumption
  <2>3. /\ bitmap' \subseteq Nat \X (0 .. WordBits - 1)
        /\ free_pages' \in 0 .. SizeMod - 1
    BY <1>9, <2>1, <2>2, FreeType DEF Free
  <2> QED
    BY <1>9, <2>3 DEF Free, bootedVars, TypeOK
<1>10. CASE UNCHANGED pmmVars
  BY <1>10 DEF pmmVars, TypeOK
<1> QED
  BY <1>1, <1>2, <1>3, <1>4, <1>5, <1>6, <1>7, <1>8, <1>9, <1>10 DEF Next, InitStep

\* Every variable of the page allocator keeps its type, for every page size,
\* word size, memory map and sequence of calls.
THEOREM TypeCorrect == Spec => []TypeOK
  BY TypeInit, TypeStep, PTL DEF Spec

------------------------------------------------------------------------------
(* The inductive invariant.                                                 *)

Marked == pc \in {"reserve", "run"}

\* Nothing is handed out while init still builds the bitmap.
NothingHeldEarly == pc # "run" => live = {}

\* The pages of the bitmap were marked at boot, and what was marked at boot stays
\* marked.
BitmapPagesMarked == Marked => \A f \in BitmapFrames : bit_read(boot_bitmap, f)

BootMarksStay ==
  Marked => \A f \in Nat : bit_read(boot_bitmap, f) => bit_read(bitmap, f)

\* A page that is handed out is marked, and was not at boot.
HeldMarked ==
  \A a \in live : \A f \in FramesOf(a) :
     bit_read(bitmap, f) /\ ~bit_read(boot_bitmap, f)

\* Two allocations share no mask, hence no page and no bit.
HeldApart ==
  \A a, b \in live : a # b =>
     \A f \in FramesOf(a), g \in FramesOf(b) : bit_mask(f) # bit_mask(g)

\* A marked page was marked at boot or shares its mask with a page handed out.
MarkedHeld ==
  Marked =>
    \A f \in Nat : bit_read(bitmap, f) =>
       \/ bit_read(boot_bitmap, f)
       \/ \E a \in live : \E g \in FramesOf(a) : bit_mask(g) = bit_mask(f)

IInv ==
  /\ TypeOK
  /\ NothingHeldEarly
  /\ BitmapPagesMarked
  /\ BootMarksStay
  /\ HeldMarked
  /\ HeldApart
  /\ MarkedHeld

------------------------------------------------------------------------------
(* Reading the bitmap after marking or clearing a range.                    *)

\* After a range is marked a page reads as used when it did, or when it shares
\* its bits with a page of the range.
LEMMA ReadAfterMark ==
  ASSUME NEW bm, NEW i \in Nat, NEW c \in Nat, NEW f \in Nat,
         bit_read(bm \cup bit_masks(i, c), f)
  PROVE  bit_read(bm, f) \/ \E g \in i .. i + c - 1 : bit_mask(g) = bit_mask(f)
<1> SUFFICES ASSUME \A g \in i .. i + c - 1 : bit_mask(g) # bit_mask(f)
             PROVE  bit_read(bm, f)
  OBVIOUS
<1>1. \A g \in i .. i + c - 1 : bit_mask(g) \cap bit_mask(f) = {}
  BY MaskPartition
<1>2. bit_masks(i, c) \cap bit_mask(f) = {}
  BY <1>1 DEF bit_masks
<1> QED
  BY <1>2 DEF bit_read

\* The pages of a marked range read as used.
LEMMA MarkedIsRead ==
  ASSUME NEW bm, NEW i \in Nat, NEW c \in Nat, NEW g \in i .. i + c - 1
  PROVE  bit_read(bm \cup bit_masks(i, c), g)
  BY DEF bit_read, bit_masks

\* After a range is cleared a page reads as used when it did and shares its bits
\* with no page of the range.
LEMMA ReadAfterClear ==
  ASSUME NEW bm, NEW i \in Nat, NEW c \in Nat, NEW f \in Nat,
         bit_read(bm, f),
         \A g \in i .. i + c - 1 : bit_mask(g) # bit_mask(f)
  PROVE  bit_read(bm \ bit_masks(i, c), f)
<1>1. \A g \in i .. i + c - 1 : bit_mask(g) \cap bit_mask(f) = {}
  BY MaskPartition
<1>2. bit_masks(i, c) \cap bit_mask(f) = {}
  BY <1>1 DEF bit_masks
<1> QED
  BY <1>2 DEF bit_read

\* A page that shares its bits with a cleared one reads as free.
LEMMA ClearedIsNotRead ==
  ASSUME NEW bm, NEW i \in Nat, NEW c \in Nat, NEW f \in Nat,
         bit_read(bm \ bit_masks(i, c), f)
  PROVE  \A g \in i .. i + c - 1 : bit_mask(g) # bit_mask(f)
<1> SUFFICES ASSUME NEW g \in i .. i + c - 1, bit_mask(g) = bit_mask(f)
             PROVE  FALSE
  OBVIOUS
<1>1. bit_mask(f) \subseteq bit_masks(i, c)
  BY DEF bit_masks
<1> QED
  BY <1>1, MaskNonempty DEF bit_read

\* The pages of an allocation are page numbers.
LEMMA FrameType ==
  ASSUME TypeOK, NEW a \in live
  PROVE  /\ a.idx \in Nat /\ a.count \in Nat
         /\ FramesOf(a) \subseteq Nat
  BY DEF TypeOK, Allocation, FramesOf

\* What a step of alloc does to the invariant, whoever calls it.
LEMMA AllocStep ==
  ASSUME IInv, Marked, pc' = "run", UNCHANGED <<bitmap_len, boot_bitmap>>,
         NEW idx \in BasePage .. bitmap_len - 1, NEW count \in Nat,
         NEW alignment, NEW upper, NEW owner,
         alloc(idx, count, alignment, upper, owner)
  PROVE  /\ NothingHeldEarly' /\ BitmapPagesMarked' /\ BootMarksStay'
         /\ HeldMarked' /\ HeldApart' /\ MarkedHeld'
<1> DEFINE new == [idx |-> idx, count |-> count, owner |-> owner]
<1>1. idx \in Nat
  BY BasePageType DEF IInv, TypeOK
<1>2. bitmap' = bitmap \cup bit_masks(idx, count)
  BY DEF alloc, bit_write
<1>3. live' = live \cup {new}
  BY DEF alloc
<1>4. FramesOf(new) = idx .. idx + count - 1
  BY DEF FramesOf
<1>5. \A f \in FramesOf(new) : f \in Nat /\ ~bit_read(bitmap, f)
  BY <1>1, <1>4 DEF alloc, FitsAt, bitmap_is_free
<1> HIDE DEF new
<1>6. NothingHeldEarly'
  BY DEF NothingHeldEarly
<1>7. BitmapPagesMarked'
  BY DEF IInv, BitmapPagesMarked, BitmapFrames, BitmapPages, BitmapBytes, Marked, bit_read
<1>8. BootMarksStay'
  BY <1>2 DEF IInv, BootMarksStay, Marked, bit_read
<1>9. HeldMarked'
  <2> SUFFICES ASSUME NEW a \in live', NEW f \in FramesOf(a)
               PROVE  bit_read(bitmap', f) /\ ~bit_read(boot_bitmap, f)
    BY DEF HeldMarked, bit_read
  <2>1. CASE a \in live
    BY <2>1, <1>2 DEF IInv, HeldMarked, bit_read
  <2>2. CASE a = new
    <3>1. bit_read(bitmap', f)
      BY <2>2, <1>1, <1>2, <1>4, MarkedIsRead
    <3>2. ~bit_read(boot_bitmap, f)
      BY <2>2, <1>5 DEF IInv, BootMarksStay
    <3> QED
      BY <3>1, <3>2
  <2> QED
    BY <2>1, <2>2, <1>3
<1>10. HeldApart'
  <2>1. ASSUME NEW a \in live, NEW f \in FramesOf(a), NEW g \in FramesOf(new)
        PROVE  bit_mask(f) # bit_mask(g)
    BY <1>5 DEF IInv, HeldMarked, bit_read
  <2> SUFFICES ASSUME NEW a \in live', NEW b \in live', a # b,
                      NEW f \in FramesOf(a), NEW g \in FramesOf(b)
               PROVE  bit_mask(f) # bit_mask(g)
    BY DEF HeldApart
  <2>2. CASE a \in live /\ b \in live
    BY <2>2 DEF IInv, HeldApart
  <2>3. CASE a \in live /\ b = new
    BY <2>1, <2>3
  <2>4. CASE a = new /\ b \in live
    BY <2>1, <2>4
  <2> QED
    BY <2>2, <2>3, <2>4, <1>3
<1>11. MarkedHeld'
  <2> SUFFICES ASSUME NEW f \in Nat, bit_read(bitmap', f)
               PROVE  \/ bit_read(boot_bitmap, f)
                      \/ \E a \in live' : \E g \in FramesOf(a) : bit_mask(g) = bit_mask(f)
    BY DEF MarkedHeld, bit_read
  <2>1. CASE bit_read(bitmap, f)
    BY <2>1, <1>3 DEF IInv, MarkedHeld
  <2>2. CASE \E g \in idx .. idx + count - 1 : bit_mask(g) = bit_mask(f)
    BY <2>2, <1>3, <1>4
  <2> QED
    BY <2>1, <2>2, <1>1, <1>2, ReadAfterMark
<1> QED
  BY <1>6, <1>7, <1>8, <1>9, <1>10, <1>11

\* What a free of a live allocation does to the invariant.
LEMMA FreeStep ==
  ASSUME IInv, NEW a \in live, Free(a)
  PROVE  /\ NothingHeldEarly' /\ BitmapPagesMarked' /\ BootMarksStay'
         /\ HeldMarked' /\ HeldApart' /\ MarkedHeld'
<1>1. a.idx \in Nat /\ a.count \in Nat /\ FramesOf(a) = a.idx .. a.idx + a.count - 1
  BY FrameType DEF IInv, FramesOf
<1>2. (a.idx * PageSize) \div PageSize = a.idx
  BY <1>1, PmmAssumption, DivOfMultiple
<1>3. bitmap' = bitmap \ bit_masks(a.idx, a.count)
  BY <1>2 DEF Free, free, bit_write
<1>4. live' = live \ {a} /\ UNCHANGED <<pc, bitmap_len, boot_bitmap>>
  BY DEF Free, bootedVars
<1>5. pc = "run" /\ Marked
  BY DEF Free, Marked
<1>6. NothingHeldEarly'
  BY <1>4, <1>5 DEF NothingHeldEarly
<1>7. BitmapPagesMarked'
  BY <1>4 DEF IInv, BitmapPagesMarked, BitmapFrames, BitmapPages, BitmapBytes, Marked, bit_read
<1>8. BootMarksStay'
  <2> SUFFICES ASSUME NEW f \in Nat, bit_read(boot_bitmap, f)
               PROVE  bit_read(bitmap', f)
    BY <1>4 DEF BootMarksStay, bit_read
  <2>1. bit_read(bitmap, f)
    BY <1>5 DEF IInv, BootMarksStay
  <2>2. \A g \in a.idx .. a.idx + a.count - 1 : bit_mask(g) # bit_mask(f)
    BY <1>1 DEF IInv, HeldMarked, bit_read
  <2> QED
    BY <1>1, <1>3, <2>1, <2>2, ReadAfterClear
<1>9. HeldMarked'
  <2> SUFFICES ASSUME NEW b \in live, b # a, NEW f \in FramesOf(b)
               PROVE  bit_read(bitmap', f) /\ ~bit_read(boot_bitmap, f)
    BY <1>4 DEF HeldMarked, bit_read
  <2>1. f \in Nat
    BY FrameType DEF IInv
  <2>2. bit_read(bitmap, f) /\ ~bit_read(boot_bitmap, f)
    BY DEF IInv, HeldMarked
  <2>3. \A g \in a.idx .. a.idx + a.count - 1 : bit_mask(g) # bit_mask(f)
    BY <1>1 DEF IInv, HeldApart
  <2> QED
    BY <1>1, <1>3, <2>1, <2>2, <2>3, ReadAfterClear
<1>10. HeldApart'
  BY <1>4 DEF IInv, HeldApart
<1>11. MarkedHeld'
  <2> SUFFICES ASSUME NEW f \in Nat, bit_read(bitmap', f), ~bit_read(boot_bitmap, f)
               PROVE  \E b \in live' : \E g \in FramesOf(b) : bit_mask(g) = bit_mask(f)
    BY <1>4 DEF MarkedHeld, bit_read
  <2>1. bit_read(bitmap, f)
    BY <1>3 DEF bit_read
  <2>2. PICK b \in live : \E g \in FramesOf(b) : bit_mask(g) = bit_mask(f)
    BY <1>5, <2>1 DEF IInv, MarkedHeld
  <2>3. \A g \in FramesOf(a) : bit_mask(g) # bit_mask(f)
    BY <1>1, <1>3, ClearedIsNotRead
  <2> QED
    BY <1>4, <2>2, <2>3
<1> QED
  BY <1>6, <1>7, <1>8, <1>9, <1>10, <1>11

\* While init builds the bitmap nothing is handed out, so all the other
\* conjuncts hold vacuously.
LEMMA EarlyStep ==
  ASSUME IInv, live = {}, live' = {}, ~Marked'
  PROVE  /\ NothingHeldEarly' /\ BitmapPagesMarked' /\ BootMarksStay'
         /\ HeldMarked' /\ HeldApart' /\ MarkedHeld'
  BY DEF NothingHeldEarly, BitmapPagesMarked, BootMarksStay, HeldMarked, HeldApart,
         MarkedHeld

\* A step that touches neither the bitmap nor the allocations.
LEMMA QuietStep ==
  ASSUME IInv, Marked, Marked',
         UNCHANGED <<bitmap, bitmap_len, boot_bitmap, live>>,
         pc' = pc \/ pc' = "run"
  PROVE  /\ NothingHeldEarly' /\ BitmapPagesMarked' /\ BootMarksStay'
         /\ HeldMarked' /\ HeldApart' /\ MarkedHeld'
<1>1. NothingHeldEarly'
  BY DEF IInv, NothingHeldEarly
<1>2. BitmapPagesMarked'
  BY DEF IInv, BitmapPagesMarked, BitmapFrames, BitmapPages, BitmapBytes, Marked, bit_read
<1>3. BootMarksStay' /\ HeldMarked'
  BY DEF IInv, BootMarksStay, HeldMarked, Marked, bit_read
<1>4. HeldApart' /\ MarkedHeld'
  BY DEF IInv, HeldApart, MarkedHeld, Marked, bit_read
<1> QED
  BY <1>1, <1>2, <1>3, <1>4

\* Marking the bitmap's pages establishes what the invariant says of them.
LEMMA ReserveStep ==
  ASSUME IInv, ReserveBitmap
  PROVE  /\ NothingHeldEarly' /\ BitmapPagesMarked' /\ BootMarksStay'
         /\ HeldMarked' /\ HeldApart' /\ MarkedHeld'
<1>1. live = {} /\ live' = {} /\ bitmap' = boot_bitmap'
  BY DEF ReserveBitmap, IInv, NothingHeldEarly
<1>2. BitmapPages \in Nat /\ BasePage \in Nat
  BY BitmapPagesType, BasePageType DEF IInv, TypeOK
<1>3. boot_bitmap' = bitmap \cup bit_masks(BasePage, BitmapPages)
  BY DEF ReserveBitmap, bit_write
<1>4. \A f \in BitmapFrames : bit_read(boot_bitmap', f)
  BY <1>2, <1>3, MarkedIsRead DEF BitmapFrames
<1>5. BitmapPagesMarked'
  BY <1>4 DEF ReserveBitmap, BitmapPagesMarked, BitmapFrames, BitmapPages, BitmapBytes,
              bit_read
<1>6. NothingHeldEarly' /\ BootMarksStay' /\ HeldMarked' /\ HeldApart' /\ MarkedHeld'
  BY <1>1 DEF NothingHeldEarly, BootMarksStay, HeldMarked, HeldApart, MarkedHeld, bit_read
<1> QED
  BY <1>5, <1>6

\* The initial states satisfy the inductive invariant.
LEMMA IInvInit == Init => IInv
<1> SUFFICES ASSUME Init PROVE IInv
  OBVIOUS
<1>1. TypeOK
  BY TypeInit
<1>2. live = {} /\ ~Marked
  BY DEF Init, Marked
<1> QED
  BY <1>1, <1>2 DEF IInv, NothingHeldEarly, BitmapPagesMarked, BootMarksStay,
     HeldMarked, HeldApart, MarkedHeld

\* Every step preserves the inductive invariant.
LEMMA IInvStep == IInv /\ [Next]_pmmVars => IInv'
<1> SUFFICES ASSUME IInv, [Next]_pmmVars PROVE IInv'
  OBVIOUS
<1> DEFINE Others == /\ NothingHeldEarly /\ BitmapPagesMarked /\ BootMarksStay
                     /\ HeldMarked /\ HeldApart /\ MarkedHeld
<1>1. TypeOK'
  BY TypeStep DEF IInv
<1> SUFFICES Others'
  BY <1>1 DEF IInv
<1>2. CASE FindTop \/ FillBitmap \/ SkipEntry \/ FreeEntry
  <2>1. live = {} /\ live' = {} /\ ~Marked'
    BY <1>2 DEF FindTop, FillBitmap, SkipEntry, FreeEntry, free, IInv,
                NothingHeldEarly, Marked
  <2> QED
    BY <2>1, EarlyStep
<1>3. CASE ReserveBitmap
  BY <1>3, ReserveStep
<1>4. CASE BootAlloc
  <2>1. Marked /\ Marked' /\ pc' = "run" /\ UNCHANGED <<bitmap_len, boot_bitmap>>
    BY <1>4 DEF BootAlloc, Marked
  <2>2. CASE alloc_null(BitmapPages, 1, 0)
    BY <2>1, <2>2, QuietStep DEF alloc_null
  <2>3. CASE \E idx \in BasePage .. bitmap_len - 1 :
                alloc(idx, BitmapPages, 1, 0, "boot")
    <3>1. BitmapPages \in Nat
      BY BitmapPagesType DEF IInv, TypeOK
    <3> QED
      BY <2>1, <2>3, <3>1, AllocStep
  <2> QED
    BY <1>4, <2>2, <2>3 DEF BootAlloc
<1>5. ASSUME NEW r \in Requests, Alloc(r[1], r[2], r[3]) PROVE Others'
  <2>1. Marked /\ pc' = "run" /\ UNCHANGED <<bitmap_len, boot_bitmap>>
    BY <1>5 DEF Alloc, bootedVars, Marked
  <2>2. r[1] \in Nat
    BY PmmAssumption
  <2>3. PICK idx \in BasePage .. bitmap_len - 1 : alloc(idx, r[1], r[2], r[3], "caller")
    BY <1>5 DEF Alloc
  <2> QED
    BY <2>1, <2>2, <2>3, AllocStep
<1>6. ASSUME NEW r \in Requests, AllocFails(r[1], r[2], r[3]) PROVE Others'
  <2>1. Marked /\ Marked' /\ pc' = pc
    BY <1>6 DEF AllocFails, bootedVars, Marked
  <2> QED
    BY <1>6, <2>1, QuietStep DEF AllocFails, alloc_null, bootedVars
<1>7. ASSUME NEW a \in live, Free(a) PROVE Others'
  BY <1>7, FreeStep
<1>8. CASE UNCHANGED pmmVars
  <2>1. CASE Marked
    BY <1>8, <2>1, QuietStep DEF pmmVars, Marked
  <2>2. CASE ~Marked
    BY <1>8, <2>2, EarlyStep DEF pmmVars, Marked, IInv, NothingHeldEarly
  <2> QED
    BY <2>1, <2>2
<1> QED
  BY <1>2, <1>3, <1>4, <1>5, <1>6, <1>7, <1>8 DEF Next, InitStep

\* The strengthened invariant holds for ever, whatever the memory map, the sizes
\* of page, word and int, and the calls of alloc and free (pmm.cpp:70-138).
THEOREM Invariance == Spec => []IInv
  BY IInvInit, IInvStep, PTL DEF Spec

------------------------------------------------------------------------------
(* The properties.                                                          *)

\* The invariant gives the three properties of the allocator.
LEMMA IInvImplies == IInv => NoSharedFrame /\ BitmapReserved /\ BitmapExact
<1> SUFFICES ASSUME IInv PROVE NoSharedFrame /\ BitmapReserved /\ BitmapExact
  OBVIOUS
<1>1. NoSharedFrame
  BY DEF IInv, HeldApart, NoSharedFrame
<1>2. BitmapReserved
  BY DEF IInv, NothingHeldEarly, BitmapPagesMarked, HeldMarked, Marked, BitmapReserved
<1>3. BitmapExact
  <2> SUFFICES ASSUME pc = "run", NEW f \in Nat
               PROVE  bit_read(bitmap, f) <=>
                        \/ bit_read(boot_bitmap, f)
                        \/ \E a \in live : \E g \in FramesOf(a) : bit_mask(g) = bit_mask(f)
    BY DEF BitmapExact
  <2>1. Marked
    BY DEF Marked
  <2>2. ASSUME bit_read(bitmap, f), ~bit_read(boot_bitmap, f)
        PROVE  \E a \in live : \E g \in FramesOf(a) : bit_mask(g) = bit_mask(f)
    BY <2>1, <2>2 DEF IInv, MarkedHeld
  <2>3. ASSUME bit_read(boot_bitmap, f) PROVE bit_read(bitmap, f)
    BY <2>1, <2>3 DEF IInv, BootMarksStay
  <2>4. ASSUME NEW a \in live, NEW g \in FramesOf(a), bit_mask(g) = bit_mask(f)
        PROVE  bit_read(bitmap, f)
    BY <2>4 DEF IInv, HeldMarked, bit_read
  <2> QED
    BY <2>2, <2>3, <2>4
<1> QED
  BY <1>1, <1>2, <1>3

\* alloc never hands out a physical page twice (pmm.cpp:110-138), although pages
\* share bits of the bitmap.
THEOREM NeverShared == Spec => []NoSharedFrame
  BY Invariance, IInvImplies, PTL

\* alloc never hands out the pages the bitmap is stored in (pmm.cpp:106).
THEOREM BitmapSafe == Spec => []BitmapReserved
  BY Invariance, IInvImplies, PTL

\* The bitmap holds the pages marked at boot and the live allocations, and
\* nothing else, after any sequence of alloc and free.
THEOREM Exact == Spec => []BitmapExact
  BY Invariance, IInvImplies, PTL

------------------------------------------------------------------------------
(* The counter of free pages.                                               *)

\* A remainder is determined by its range.
LEMMA ModUnique ==
  ASSUME NEW S \in Nat \ {0}, NEW k \in Int, NEW t \in 0 .. S - 1
  PROVE  (S * k + t) % S = t
<1> DEFINE n == S * k + t
           m == n \div S
           u == n % S
<1>1. n \in Int
  OBVIOUS
<1>2. m \in Int /\ u \in 0 .. S - 1 /\ n = S * m + u
  BY <1>1
<1>3. n = S * k + t
  OBVIOUS
<1> HIDE DEF n, m, u
<1>4. CASE k >= m + 1
  <2>1. S * k >= S * (m + 1)
    BY <1>2, <1>4
  <2>2. S * (m + 1) = S * m + S
    BY <1>2
  <2>3. S * k \in Int /\ S * m \in Int
    BY <1>2
  <2> QED
    BY <1>2, <1>3, <2>1, <2>2, <2>3
<1>5. CASE m >= k + 1
  <2>1. S * m >= S * (k + 1)
    BY <1>2, <1>5
  <2>2. S * (k + 1) = S * k + S
    OBVIOUS
  <2>3. S * k \in Int /\ S * m \in Int
    BY <1>2
  <2> QED
    BY <1>2, <1>3, <2>1, <2>2, <2>3
<1>6. CASE k = m
  <2>1. S * m \in Int
    BY <1>2
  <2>2. u = t
    BY <1>2, <1>3, <1>6, <2>1
  <2> QED
    BY <2>2 DEF u, n
<1> QED
  BY <1>2, <1>4, <1>5, <1>6

\* size_t arithmetic may be reduced at every step or at the end.
LEMMA ModAdd ==
  ASSUME NEW a \in Int, NEW b \in Int
  PROVE  ((a % SizeMod) + b) % SizeMod = (a + b) % SizeMod
<1>1. SizeMod \in Nat \ {0}
  BY PmmAssumption
<1> DEFINE q == a \div SizeMod
           r == a % SizeMod
           k == (r + b) \div SizeMod
           t == (r + b) % SizeMod
<1>2. q \in Int /\ r \in 0 .. SizeMod - 1 /\ a = SizeMod * q + r
  BY <1>1
<1>3. k \in Int /\ t \in 0 .. SizeMod - 1 /\ r + b = SizeMod * k + t
  BY <1>1, <1>2
<1> HIDE DEF q, r, k, t
<1>4. a + b = SizeMod * (q + k) + t
  BY <1>1, <1>2, <1>3
<1>5. (a + b) % SizeMod = t
  <2>1. q + k \in Int
    BY <1>2, <1>3
  <2>2. (SizeMod * (q + k) + t) % SizeMod = t
    BY ONLY <1>1, <1>3, <2>1, ModUnique
  <2> QED
    BY ONLY <1>4, <2>2
<1> QED
  BY <1>5 DEF r, t

\* A size_t is its own remainder.
LEMMA ModSame ==
  ASSUME NEW n \in 0 .. SizeMod - 1
  PROVE  n % SizeMod = n
  BY PmmAssumption

\* From the moment total_pages is set, free_pages and the pages handed out add
\* up to it.
Balanced ==
  Marked =>
    /\ IsFiniteSet(Held)
    /\ total_pages # 0 =>
         (free_pages + Cardinality(Held)) % SizeMod = total_pages

\* The number of pages of a range.
LEMMA RangeSize ==
  ASSUME NEW i \in Nat, NEW c \in Nat
  PROVE  /\ IsFiniteSet(i .. i + c - 1)
         /\ Cardinality(i .. i + c - 1) = c
<1>1. i \in Int /\ i + c - 1 \in Int
  OBVIOUS
<1>2. /\ IsFiniteSet(i .. i + c - 1)
      /\ Cardinality(i .. i + c - 1) =
           IF i > i + c - 1 THEN 0 ELSE (i + c - 1) - i + 1
  BY <1>1, FS_Interval
<1>3. (IF i > i + c - 1 THEN 0 ELSE (i + c - 1) - i + 1) = c
  OBVIOUS
<1> QED
  BY <1>2, <1>3

\* alloc hands out pages nobody held, and takes their number off free_pages.
LEMMA AllocBalanced ==
  ASSUME IInv, Balanced, Marked, UNCHANGED total_pages,
         NEW idx \in BasePage .. bitmap_len - 1, NEW count \in Nat,
         NEW alignment, NEW upper, NEW owner,
         alloc(idx, count, alignment, upper, owner)
  PROVE  Balanced'
<1> DEFINE new == [idx |-> idx, count |-> count, owner |-> owner]
           N == idx .. idx + count - 1
<1>1. idx \in Nat
  BY BasePageType DEF IInv, TypeOK
<1>2. live' = live \cup {new} /\ FramesOf(new) = N
  BY DEF alloc, FramesOf
<1>3. Held' = Held \cup N
  BY <1>2 DEF Held, FramesOf
<1>4. Held \cap N = {}
  <2> SUFFICES ASSUME NEW h \in live, NEW f \in FramesOf(h), f \in N PROVE FALSE
    BY DEF Held
  <2> QED
    BY DEF IInv, HeldMarked, alloc, FitsAt, bitmap_is_free
<1>5. IsFiniteSet(N) /\ Cardinality(N) = count
  BY <1>1, RangeSize
<1>6. IsFiniteSet(Held) /\ Cardinality(Held) \in Nat
  BY FS_CardinalityType DEF Balanced
<1>7. IsFiniteSet(Held') /\ Cardinality(Held') = Cardinality(Held) + count
  <2>1. /\ IsFiniteSet(Held \cup N)
        /\ Cardinality(Held \cup N) =
             Cardinality(Held) + Cardinality(N) - Cardinality(Held \cap N)
    BY <1>5, <1>6, FS_Union
  <2>2. Cardinality(Held \cap N) = 0
    BY <1>4, FS_EmptySet
  <2> HIDE DEF N
  <2> QED
    BY <1>3, <1>5, <1>6, <2>1, <2>2
<1>8. ASSUME total_pages' # 0
      PROVE  (free_pages' + Cardinality(Held')) % SizeMod = total_pages'
  <2>1. free_pages' = (free_pages - count) % SizeMod
    BY <1>8 DEF alloc
  <2>2. PICK F \in Int, C \in Int : F = free_pages /\ C = Cardinality(Held)
    BY <1>6, PmmAssumption DEF IInv, TypeOK
  <2>3. (F + C) % SizeMod = total_pages
    BY <1>8, <2>2 DEF Balanced
  <2>4. (((F - count) % SizeMod) + (C + count)) % SizeMod
          = ((F - count) + (C + count)) % SizeMod
    BY ModAdd
  <2>5. (F - count) + (C + count) = F + C
    OBVIOUS
  <2> QED
    BY ONLY <1>7, <2>1, <2>2, <2>3, <2>4, <2>5, total_pages' = total_pages
<1> QED
  BY <1>7, <1>8 DEF Balanced

\* free takes back pages one allocation held, and counts them.
LEMMA FreeBalanced ==
  ASSUME IInv, Balanced, NEW a \in live, Free(a)
  PROVE  Balanced'
<1> DEFINE N == a.idx .. a.idx + a.count - 1
           R == UNION {FramesOf(b) : b \in live \ {a}}
<1>1. a.idx \in Nat /\ a.count \in Nat /\ FramesOf(a) = N
  BY FrameType DEF IInv, FramesOf
<1>2. Marked /\ total_pages' = total_pages
  BY DEF Free, bootedVars, Marked
<1>3. Held' = R
  BY DEF Held, FramesOf, Free
<1>4. Held = R \cup N
  BY <1>1 DEF Held
<1>5. R \cap N = {}
  BY <1>1 DEF IInv, HeldApart
<1>6. IsFiniteSet(N) /\ Cardinality(N) = a.count
  BY <1>1, RangeSize
<1> HIDE DEF N, R
<1>7. IsFiniteSet(R) /\ Cardinality(R) \in Nat
  <2>1. IsFiniteSet(Held) /\ R \in SUBSET Held
    BY <1>2, <1>4 DEF Balanced
  <2> QED
    BY <2>1, FS_Subset, FS_CardinalityType
<1>8. Cardinality(Held) = Cardinality(R) + a.count
  <2>1. Cardinality(R \cup N) = Cardinality(R) + Cardinality(N) - Cardinality(R \cap N)
    BY <1>6, <1>7, FS_Union
  <2>2. Cardinality(R \cap N) = 0
    BY <1>5, FS_EmptySet
  <2> QED
    BY <1>1, <1>4, <1>6, <1>7, <2>1, <2>2
<1>9. ASSUME total_pages' # 0
      PROVE  (free_pages' + Cardinality(Held')) % SizeMod = total_pages'
  <2>1. free_pages' = (free_pages + a.count) % SizeMod
    BY DEF Free, free
  <2>2. PICK F \in Int, C \in Int, n \in Int :
          F = free_pages /\ C = Cardinality(R) /\ n = a.count
    BY <1>1, <1>7, PmmAssumption DEF IInv, TypeOK
  <2>3. (F + (C + n)) % SizeMod = total_pages
    BY <1>2, <1>8, <1>9, <2>2 DEF Balanced
  <2>4. (((F + n) % SizeMod) + C) % SizeMod = ((F + n) + C) % SizeMod
    BY ModAdd
  <2>5. (F + n) + C = F + (C + n)
    OBVIOUS
  <2> QED
    BY ONLY <1>2, <1>3, <2>1, <2>2, <2>3, <2>4, <2>5
<1> QED
  BY <1>3, <1>7, <1>9 DEF Balanced

\* A step that leaves the allocations and both counters alone.
LEMMA QuietBalanced ==
  ASSUME Balanced, Marked, UNCHANGED <<live, free_pages, total_pages>>
  PROVE  Balanced'
<1>1. Held' = Held
  BY DEF Held, FramesOf
<1> QED
  BY <1>1 DEF Balanced

\* total_pages is set to free_pages while nothing is handed out.
LEMMA ReserveBalanced ==
  ASSUME IInv, ReserveBitmap
  PROVE  Balanced'
<1>1. live' = {} /\ total_pages' = free_pages /\ free_pages' = free_pages
  BY DEF IInv, NothingHeldEarly, ReserveBitmap
<1>2. Held' = {}
  BY <1>1 DEF Held
<1>3. IsFiniteSet(Held') /\ Cardinality(Held') = 0
  BY <1>2, FS_EmptySet
<1>4. free_pages \in 0 .. SizeMod - 1 /\ free_pages + 0 = free_pages
  BY PmmAssumption DEF IInv, TypeOK
<1>5. free_pages % SizeMod = free_pages
  BY <1>4, ModSame
<1> QED
  BY <1>1, <1>3, <1>4, <1>5 DEF Balanced

\* Every step keeps the balance.
LEMMA BalancedStep == IInv /\ Balanced /\ [Next]_pmmVars => Balanced'
<1> SUFFICES ASSUME IInv, Balanced, [Next]_pmmVars PROVE Balanced'
  OBVIOUS
<1>1. CASE FindTop \/ FillBitmap \/ SkipEntry \/ FreeEntry
  <2>1. ~Marked'
    BY <1>1 DEF FindTop, FillBitmap, SkipEntry, FreeEntry, Marked
  <2> QED
    BY <2>1 DEF Balanced
<1>2. CASE ReserveBitmap
  BY <1>2, ReserveBalanced
<1>3. CASE BootAlloc
  <2>1. Marked /\ UNCHANGED total_pages
    BY <1>3 DEF BootAlloc, Marked
  <2>2. CASE alloc_null(BitmapPages, 1, 0)
    BY <2>1, <2>2, QuietBalanced DEF alloc_null
  <2>3. CASE \E idx \in BasePage .. bitmap_len - 1 :
                alloc(idx, BitmapPages, 1, 0, "boot")
    <3>1. BitmapPages \in Nat
      BY BitmapPagesType DEF IInv, TypeOK
    <3> QED
      BY <2>1, <2>3, <3>1, AllocBalanced
  <2> QED
    BY <1>3, <2>2, <2>3 DEF BootAlloc
<1>4. ASSUME NEW r \in Requests, Alloc(r[1], r[2], r[3]) PROVE Balanced'
  <2>1. Marked /\ UNCHANGED total_pages
    BY <1>4 DEF Alloc, bootedVars, Marked
  <2>2. r[1] \in Nat
    BY PmmAssumption
  <2>3. PICK idx \in BasePage .. bitmap_len - 1 : alloc(idx, r[1], r[2], r[3], "caller")
    BY <1>4 DEF Alloc
  <2> QED
    BY <2>1, <2>2, <2>3, AllocBalanced
<1>5. ASSUME NEW r \in Requests, AllocFails(r[1], r[2], r[3]) PROVE Balanced'
  BY <1>5, QuietBalanced DEF AllocFails, alloc_null, bootedVars, Marked
<1>6. ASSUME NEW a \in live, Free(a) PROVE Balanced'
  BY <1>6, FreeBalanced
<1>7. CASE UNCHANGED pmmVars
  <2>1. CASE Marked
    BY <1>7, <2>1, QuietBalanced DEF pmmVars
  <2>2. CASE ~Marked
    BY <1>7, <2>2 DEF pmmVars, Marked, Balanced
  <2> QED
    BY <2>1, <2>2
<1> QED
  BY <1>1, <1>2, <1>3, <1>4, <1>5, <1>6, <1>7 DEF Next, InitStep

\* free_pages and the pages handed out add up to total_pages after any sequence
\* of calls (pmm.cpp:103-107, 126, 137): init's dropped allocation is counted,
\* the bitmap's own pages are not, and no call counts a page twice.
THEOREM Accounted == Spec => []Accounting
<1>1. Init => Balanced
  BY DEF Init, Balanced, Marked
<1>2. Balanced => Accounting
  BY DEF Balanced, Marked, Accounting
<1> QED
  BY <1>1, <1>2, BalancedStep, Invariance, PTL DEF Spec

------------------------------------------------------------------------------
(* Pmm implements PageAllocator.                                            *)

KeptPages == IF pc \in {"reserve", "run"} THEN BitmapFrames ELSE {}

\* A boot starts where the abstract allocator starts.
LEMMA RefineInit == Init => Allocator!Init
  BY DEF Init, Allocator!Init

\* The pages kept for the bitmap are page numbers.
LEMMA KeptPagesType == TypeOK => KeptPages \subseteq Nat
  BY BasePageType, BitmapPagesType DEF KeptPages, BitmapFrames, TypeOK

\* A successful alloc is an Allocate of the abstract allocator.
LEMMA RefineAlloc ==
  ASSUME IInv, Marked, pc' = "run", UNCHANGED bitmap_len,
         NEW idx, NEW count, NEW alignment, NEW upper, NEW owner,
         alloc(idx, count, alignment, upper, owner)
  PROVE  Allocator!Next
<1> DEFINE new == [idx |-> idx, count |-> count, owner |-> owner]
<1>1. live' = live \cup {new}
  BY DEF alloc
<1>2. KeptPages' = KeptPages
  BY DEF KeptPages, Marked, BitmapFrames, BitmapPages, BitmapBytes
<1>3. \A f \in FramesOf(new) : ~bit_read(bitmap, f)
  BY DEF alloc, FitsAt, bitmap_is_free, FramesOf
<1>4. \A h \in live : FramesOf(new) \cap FramesOf(h) = {}
  BY <1>3 DEF IInv, HeldMarked
<1>5. FramesOf(new) \cap KeptPages = {}
  BY <1>3, KeptPagesType DEF IInv, BootMarksStay, BitmapPagesMarked, KeptPages, Marked
<1>6. Allocator!Allocate(new)
  BY <1>1, <1>2, <1>4, <1>5 DEF Allocator!Allocate, Allocator!FramesOf, FramesOf, KeptPages
<1> QED
  BY <1>1, <1>6 DEF Allocator!Next

\* Every step of the code is a step of the abstract allocator or a stutter.
LEMMA RefineStep ==
  IInv /\ [Next]_pmmVars => [Allocator!Next]_<<live, KeptPages>>
<1> SUFFICES ASSUME IInv, [Next]_pmmVars
             PROVE  Allocator!Next \/ (live' = live /\ KeptPages' = KeptPages)
  OBVIOUS
<1>1. CASE FindTop \/ FillBitmap \/ SkipEntry \/ FreeEntry
  <2>1. KeptPages = {} /\ KeptPages' = {} /\ live' = live
    BY <1>1 DEF KeptPages, FindTop, FillBitmap, SkipEntry, FreeEntry, free, IInv,
                NothingHeldEarly
  <2> QED
    BY <2>1
<1>2. CASE ReserveBitmap
  <2>1. live = {} /\ live' = {} /\ KeptPages = {}
    BY <1>2 DEF ReserveBitmap, IInv, NothingHeldEarly, KeptPages
  <2>2. KeptPages' \subseteq Nat
    BY <1>2, BasePageType, BitmapPagesType DEF ReserveBitmap, KeptPages, BitmapFrames,
       BitmapPages, BitmapBytes, IInv, TypeOK
  <2>3. Allocator!Reserve
    BY <2>1, <2>2 DEF Allocator!Reserve, KeptPages
  <2> QED
    BY <2>3 DEF Allocator!Next
<1>3. CASE BootAlloc
  <2>1. Marked /\ pc' = "run" /\ UNCHANGED bitmap_len
    BY <1>3 DEF BootAlloc, Marked
  <2>2. KeptPages' = KeptPages
    BY <2>1 DEF KeptPages, Marked, BitmapFrames, BitmapPages, BitmapBytes
  <2>3. CASE alloc_null(BitmapPages, 1, 0)
    BY <2>2, <2>3 DEF alloc_null
  <2>4. CASE \E idx \in BasePage .. bitmap_len - 1 :
                alloc(idx, BitmapPages, 1, 0, "boot")
    BY <2>1, <2>4, RefineAlloc
  <2> QED
    BY <1>3, <2>3, <2>4 DEF BootAlloc
<1>4. ASSUME NEW r \in Requests, Alloc(r[1], r[2], r[3]) PROVE Allocator!Next
  <2>1. Marked /\ pc' = "run" /\ UNCHANGED bitmap_len
    BY <1>4 DEF Alloc, bootedVars, Marked
  <2> QED
    BY <1>4, <2>1, RefineAlloc DEF Alloc
<1>5. ASSUME NEW r \in Requests, AllocFails(r[1], r[2], r[3])
      PROVE  live' = live /\ KeptPages' = KeptPages
  BY <1>5 DEF AllocFails, alloc_null, bootedVars, KeptPages, BitmapFrames, BitmapPages,
              BitmapBytes
<1>6. ASSUME NEW a \in live, Free(a) PROVE Allocator!Next
  <2>1. live' = live \ {a} /\ KeptPages' = KeptPages
    BY <1>6 DEF Free, bootedVars, KeptPages, BitmapFrames, BitmapPages, BitmapBytes
  <2> QED
    BY <2>1 DEF Allocator!Release, Allocator!Next, KeptPages
<1>7. CASE UNCHANGED pmmVars
  BY <1>7 DEF pmmVars, KeptPages, BitmapFrames, BitmapPages, BitmapBytes
<1> QED
  BY <1>1, <1>2, <1>3, <1>4, <1>5, <1>6, <1>7 DEF Next, InitStep

\* Every behaviour of Pmm is one of the abstract allocator: clients may be
\* checked against PageAllocator instead of the bitmap.
THEOREM Refinement == Spec => ImplementsAllocator
<1>1. IInv /\ [Next]_pmmVars => [Allocator!Next]_<<live, KeptPages>>
  BY RefineStep
<1>2. Spec => Allocator!Init /\ [][Allocator!Next]_<<live, KeptPages>>
  BY <1>1, RefineInit, Invariance, PTL DEF Spec
<1> QED
  BY <1>2 DEF ImplementsAllocator, Allocator!Spec, KeptPages

==============================================================================
