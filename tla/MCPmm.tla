-------------------------------- MODULE MCPmm --------------------------------
(***************************************************************************)
(* A small machine for Pmm: pages of 4 bytes, bytes of 4 bits, bitmap words*)
(* of 8 bits and an int of 4, so that words, ints and bytes keep the       *)
(* ratios that make pages share bits.  memory_base is page 2.              *)
(***************************************************************************)
EXTENDS Pmm

avail(from, to) == [addr |-> from, len |-> to - from, type |-> AVAILABLE]
hole(from, to) == [addr |-> from, len |-> to - from, type |-> RESERVED]

\* One aligned region; a hole between two regions; regions that start and end
\* in the middle of a page; a region that starts inside the bitmap; a memory
\* too small to have a bitmap; one that the bitmap fills.
MCMemoryMaps ==
  { <<avail(0, 48)>>,
    <<avail(0, 32), hole(32, 40), avail(40, 56)>>,
    <<avail(2, 30), avail(34, 43)>>,
    <<avail(0, 9), avail(12, 52)>>,
    <<hole(4, 8), avail(0, 12)>>,
    <<avail(0, 16)>> }

AllOnes == (0 .. 4) \X (0 .. 7)

MCDirtyRam == { {}, AllOnes, {<<1, 2>>, <<1, 6>>} }

\* Single pages, runs, an alignment of two pages and an upper bound.
MCRequests == { <<1, 1, 0>>, <<3, 1, 0>>, <<2, 2, 0>>, <<2, 1, 36>> }

==============================================================================
