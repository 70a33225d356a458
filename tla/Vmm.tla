--------------------------------- MODULE Vmm ---------------------------------
(***************************************************************************)
(* The virtual memory manager (hardware/mm/vmm.cpp): page tables of four   *)
(* levels in pages that Pmm gives out, with huge pages at the second level.*)
(*                                                                         *)
(* Pages are numbered: virtual page v and frame f stand for v * 0x1000 and *)
(* f * 0x1000.  mem is physical memory seen as tables; every frame has     *)
(* contents, those Pmm has not handed out too.  One processor calls, but   *)
(* every write to memory is a step, because the MMU walks the tables at any*)
(* time.                                                                   *)
(*                                                                         *)
(* A table is found with ents[off] & address_mask: an entry that maps      *)
(* frame 0 looks absent, and one that maps a huge page looks like a table. *)
(***************************************************************************)
EXTENDS FiniteSetsExt, Integers

CONSTANTS
  Slots,         \* entries of a table: 512
  MemoryBase,    \* the first frame Pmm hands out
  LastFrame,     \* the last frame of RAM
  KernelBase,    \* the page of virtual_kernel_base, and the huge pages
  KernelHuge,    \*   new_address_space maps from there
  PhysBase,      \* the page of virtual_physical_base, likewise
  PhysHuge,
  RamContents,   \* what a frame may hold when Pmm hands it out
  Requests       \* the calls made once the address space is set up

PRESENT == "present"
WRITE == "write"
LARGE == "large"

Indices == 0 .. Slots - 1
VirtualPages == 0 .. Slots * Slots * Slots * Slots - 1
Ram == 0 .. LastFrame

Entry == [addr : Nat, flags : SUBSET {PRESENT, WRITE, LARGE}]
Zero == [addr |-> 0, flags |-> {}]
Empty == [i \in Indices |-> Zero]

CallType ==
  [op : {"map", "unmap", "update", "map_huge", "unmap_huge", "update_huge"},
   virt : Nat, phys : Nat, count : Nat \ {0}, perms : SUBSET {WRITE}]

Request(op, virt, phys, count, perms) ==
  [op |-> op, virt |-> virt, phys |-> phys, count |-> count, perms |-> perms]

\* The two calls new_address_space makes.
KernelRequest == Request("map_huge", KernelBase, 0, KernelHuge, {WRITE})
PhysRequest == Request("map_huge", PhysBase, 0, PhysHuge, {WRITE})

\* The calls of Smp::init, for the pages of the trampoline, which are mapped where they
\* lie, and of LocalApic::init, for the registers.
TrampolineRequest(page, pages) == Request("map", page, page, pages, {WRITE})
LapicRequest(registers) == Request("map", KernelBase, registers, 1, {WRITE})

ASSUME VmmAssumption ==
  /\ Slots \in Nat \ {0}
  /\ MemoryBase \in Nat \ {0}
  /\ LastFrame \in Nat
  /\ LastFrame < PhysHuge * Slots
  /\ PhysBase \in Nat /\ KernelBase \in Nat /\ PhysBase < KernelBase
  /\ KernelHuge \in Nat \ {0}
  /\ PhysHuge \in Nat \ {0}
  /\ RamContents \subseteq [Indices -> [addr : Ram, flags : SUBSET {PRESENT, WRITE}]]
  /\ Requests \subseteq CallType

VARIABLES
  mem,
  kernel_pml4,     \* the frame of the top table
  cr3,             \* the table the MMU walks; -1 for the one of the boot code
  held, reserved,  \* the page allocator
  pc,              \* "fault" is a page fault, which no handler takes
  boot,            \* how many of new_address_space's calls have been made
  call,            \* what is left of the current call
  tab,             \* the table the walk has reached, -1 for nullptr
  level,           \* its level, 4 for the top
  result

vmmVars == <<mem, kernel_pml4, cr3, held, reserved, pc, boot, call, tab, level, result>>

Pages == INSTANCE PageAllocator
Free == Pages!Places(1, LastFrame)

Null == -1
NoCall == [op |-> "none"]

MapOps == {"map", "map_huge"}
HugeOps == {"map_huge", "unmap_huge", "update_huge"}

------------------------------------------------------------------------------
(* Addresses.                                                               *)

\* Pages below one entry of a table.
Span(lev) == <<1, Slots, Slots * Slots, Slots * Slots * Slots>>[lev]

virtual_to_entries(v) == [lev \in 1 .. 4 |-> (v \div Span(lev)) % Slots]

offs == virtual_to_entries(call.virt)

\* The level whose entries a call changes, and the pages each of them maps.
Leaf == IF call.op \in HugeOps THEN 2 ELSE 1

entry == mem[tab][offs[level]]

------------------------------------------------------------------------------
(* Vmm::init.                                                               *)

Init ==
  /\ mem \in {[f \in Ram |-> c] : c \in RamContents}
  /\ kernel_pml4 = 0
  /\ cr3 = Null
  /\ held = {} /\ reserved = 0 .. MemoryBase - 1
  /\ pc = "boot"
  /\ boot = 0
  /\ call = NoCall
  /\ tab = Null
  /\ level = 4
  /\ result = TRUE

\* alloc's result is used unchecked.
NewAddressSpace ==
  /\ pc = "boot"
  /\ \/ /\ Free # {}
        /\ kernel_pml4' = Min(Free)
        /\ Pages!Allocate([idx |-> Min(Free), count |-> 1])
     \/ /\ Free = {}
        /\ kernel_pml4' = 0
        /\ UNCHANGED <<held, reserved>>
  /\ mem' = [mem EXCEPT ![kernel_pml4'] = Empty]
  /\ pc' = "idle"
  /\ UNCHANGED <<cr3, boot, call, tab, level, result>>

Begin(c) ==
  /\ pc = "idle"
  /\ call' = c
  /\ tab' = kernel_pml4
  /\ level' = 4
  /\ pc' = "walk"
  /\ UNCHANGED <<mem, kernel_pml4, cr3, held, reserved, result>>

MapKernel ==
  /\ boot < 2
  /\ Begin(<<KernelRequest, PhysRequest>>[boot + 1])
  /\ boot' = boot + 1

SetContext ==
  /\ pc = "idle"
  /\ boot = 2
  /\ cr3 = Null
  /\ cr3' = kernel_pml4
  /\ UNCHANGED <<mem, kernel_pml4, held, reserved, pc, boot, call, tab, level, result>>

Call(c) ==
  /\ cr3 # Null
  /\ Begin(c)
  /\ UNCHANGED boot

------------------------------------------------------------------------------
(* The walk: get_or_alloc_ent for the calls that map, get_or_null_ent for   *)
(* the others.                                                              *)

walkVars == <<kernel_pml4, cr3, boot, call, result>>

AtTable == pc = "walk" /\ tab # Null /\ level > Leaf

Descend ==
  /\ AtTable
  /\ entry.addr # 0
  /\ tab' = entry.addr
  /\ level' = level - 1
  /\ UNCHANGED <<walkVars, mem, held, reserved, pc>>

\* Mutant: the page is not kept.
AllocSameTable ==
  /\ AtTable
  /\ call.op \in MapOps
  /\ entry.addr = 0
  /\ Free # {}
  /\ mem' = [mem EXCEPT ![tab][offs[level]] = [addr |-> Min(Free), flags |-> {}]]
  /\ pc' = "flags"
  /\ UNCHANGED <<walkVars, held, reserved, tab, level>>

AllocTable ==
  /\ AtTable
  /\ call.op \in MapOps
  /\ entry.addr = 0
  /\ Free # {}
  /\ Pages!Allocate([idx |-> Min(Free), count |-> 1])
  /\ mem' = [mem EXCEPT ![tab][offs[level]] = [addr |-> Min(Free), flags |-> {}]]
  /\ pc' = "flags"
  /\ UNCHANGED <<walkVars, tab, level>>

\* Mutant: the flags asked for do not reach the tables.
SetPresent ==
  /\ pc = "flags"
  /\ mem' = [mem EXCEPT ![tab][offs[level]].flags = {PRESENT}]
  /\ pc' = "clear"
  /\ UNCHANGED <<walkVars, held, reserved, tab, level>>

\* The table is present before it is cleared.
SetFlags ==
  /\ pc = "flags"
  /\ mem' = [mem EXCEPT ![tab][offs[level]].flags = call.perms \cup {PRESENT}]
  /\ pc' = "clear"
  /\ UNCHANGED <<walkVars, held, reserved, tab, level>>

\* Mutant: the table keeps what the RAM held.
ClearNothing ==
  /\ pc = "clear"
  /\ tab' = entry.addr
  /\ level' = level - 1
  /\ pc' = "walk"
  /\ UNCHANGED <<walkVars, mem, held, reserved>>

ClearTable ==
  /\ pc = "clear"
  /\ mem' = [mem EXCEPT ![entry.addr] = Empty]
  /\ tab' = entry.addr
  /\ level' = level - 1
  /\ pc' = "walk"
  /\ UNCHANGED <<walkVars, held, reserved>>

\* No page left: nullptr, and the next line uses it.
AllocTableNull ==
  /\ AtTable
  /\ call.op \in MapOps
  /\ entry.addr = 0
  /\ Free = {}
  /\ mem' = [mem EXCEPT ![tab][offs[level]] = Zero]
  /\ tab' = Null
  /\ UNCHANGED <<walkVars, held, reserved, pc, level>>

\* A table is missing: the call returns false, unless it is the last one of a call
\* on huge pages, which is not checked.
ReturnFalse ==
  /\ AtTable
  /\ call.op \notin MapOps
  /\ entry.addr = 0
  /\ call.op \in HugeOps => level = 4
  /\ call' = NoCall
  /\ result' = FALSE
  /\ pc' = "idle"
  /\ tab' = Null /\ level' = 4
  /\ UNCHANGED <<mem, kernel_pml4, cr3, held, reserved, boot>>

MissingUnchecked ==
  /\ AtTable
  /\ call.op \in {"unmap_huge", "update_huge"}
  /\ level = 3
  /\ entry.addr = 0
  /\ tab' = Null
  /\ UNCHANGED <<walkVars, mem, held, reserved, pc, level>>

Fault ==
  /\ pc = "walk"
  /\ tab = Null
  /\ pc' = "fault"
  /\ UNCHANGED <<walkVars, mem, held, reserved, tab, level>>

------------------------------------------------------------------------------
(* The entry that maps the page, and the next page.                         *)

NewEntry(old) ==
  LET large == IF call.op \in HugeOps THEN {LARGE} ELSE {}
  IN  CASE call.op \in MapOps ->
             [addr |-> call.phys, flags |-> call.perms \cup large \cup {PRESENT}]
        [] call.op \in {"unmap", "unmap_huge"} -> Zero
        [] OTHER ->
             [addr |-> old.addr, flags |-> call.perms \cup large \cup {PRESENT}]

\* Mutant: one page too many.
NextPageOneMore(virt, phys) ==
  /\ IF call.count = 0
     THEN /\ call' = NoCall
          /\ pc' = "idle"
          /\ tab' = Null
     ELSE /\ call' = [call EXCEPT !.virt = virt, !.phys = phys, !.count = @ - 1]
          /\ tab' = kernel_pml4
          /\ UNCHANGED pc
  /\ level' = 4
  /\ result' = TRUE
  /\ UNCHANGED <<kernel_pml4, cr3, held, reserved, boot>>

\* The loop goes on at the page and the frame given, or ends.
NextPage(virt, phys) ==
  /\ IF call.count = 1
     THEN /\ call' = NoCall
          /\ pc' = "idle"
          /\ tab' = Null
     ELSE /\ call' = [call EXCEPT !.virt = virt, !.phys = phys, !.count = @ - 1]
          /\ tab' = kernel_pml4
          /\ UNCHANGED pc
  /\ level' = 4
  /\ result' = TRUE
  /\ UNCHANGED <<kernel_pml4, cr3, held, reserved, boot>>

AtLeaf == pc = "walk" /\ tab # Null /\ level = Leaf

\* Mutant: every page is mapped to the first frame.
WriteSameFrame ==
  /\ AtLeaf
  /\ mem' = [mem EXCEPT ![tab][offs[level]] = NewEntry(@)]
  /\ NextPage(call.virt + Span(Leaf), call.phys)

WriteEntry ==
  /\ AtLeaf
  /\ mem' = [mem EXCEPT ![tab][offs[level]] = NewEntry(@)]
  /\ NextPage(call.virt + Span(Leaf), call.phys + Span(Leaf))

GetOrAlloc == AllocTable \/ SetFlags \/ ClearTable \/ AllocTableNull

GetOrNull == ReturnFalse \/ MissingUnchecked

Next ==
  \/ NewAddressSpace \/ MapKernel \/ SetContext
  \/ \E c \in Requests : Call(c)
  \/ Descend \/ GetOrAlloc \/ GetOrNull \/ Fault \/ WriteEntry

Spec == Init /\ [][Next]_vmmVars

------------------------------------------------------------------------------
(* The calls taken together, and what the proofs assume of them and of RAM.  *)

Calls == Requests \cup {KernelRequest, PhysRequest}

Stride(c) == IF c.op \in HugeOps THEN Slots ELSE 1

Steps(c) == 0 .. c.count - 1

PageAt(c, k) == c.virt + k * Stride(c)

Path == [1 .. 4 -> Indices]

\* The paths p and q are the same down to a level.
Agree(p, q, lev) == \A l \in 1 .. 4 : l >= lev => p[l] = q[l]

\* The second-level entries on the way of calls with small pages, and those that calls
\* with huge pages make point elsewhere than to frame 0.
InSmall(p) == \E c \in Calls : /\ c.op \notin HugeOps
                               /\ \E k \in Steps(c) : Agree(virtual_to_entries(PageAt(c, k)), p, 2)
InHuge(p) ==
  \E c \in Calls : /\ c.op \in {"map_huge", "update_huge"}
                   /\ \E k \in Steps(c) :
                        /\ Agree(virtual_to_entries(PageAt(c, k)), p, 2)
                        /\ c.op = "map_huge" => c.phys + k * Stride(c) # 0

\* The second-level entries that calls make huge pages, of frame 0 too.
InAnyHuge(p) ==
  \E c \in Calls : /\ c.op \in {"map_huge", "update_huge"}
                   /\ \E k \in Steps(c) : Agree(virtual_to_entries(PageAt(c, k)), p, 2)

\* No call on small pages comes to a huge page, new_address_space's included, but for one
\* that maps frame 0, which looks absent: LocalApic::init puts its page there.
NotMixed == \A p \in Path : ~(InSmall(p) /\ InHuge(p))

\* No call on small pages comes to a huge page at all.
NeverMixed == \A p \in Path : ~(InSmall(p) /\ InAnyHuge(p))

\* Calls stay within the virtual pages, and huge pages are where huge pages begin.
WithinPages ==
  \A c \in Calls : /\ PageAt(c, c.count) <= Slots * Slots * Slots * Slots
                   /\ c.op \in HugeOps => c.virt % Slots = 0

\* The frame of a page of the kernel's two windows, as get_entry has it.
WindowFrame(v) == IF v >= KernelBase THEN v - KernelBase ELSE v - PhysBase

\* In its windows the kernel maps every page to the frame it has there, and updates none.
\* LocalApic::init does not: its registers are not at frame 0.
WindowsLinear ==
  \A c \in Calls : \A k \in Steps(c), i \in 0 .. Stride(c) - 1 :
    PageAt(c, k) + i >= PhysBase =>
      /\ c.op \in MapOps => c.phys + k * Stride(c) + i = WindowFrame(PageAt(c, k) + i)
      /\ c.op \notin {"update", "update_huge"}

\* There is a page for the top table: new_address_space does not check.
RoomForTop == MemoryBase <= LastFrame

\* Whatever is mapped is mapped for writing, as every caller in the kernel does.
MapsForWriting == \A c \in Calls : c.op \in MapOps => WRITE \in c.perms

------------------------------------------------------------------------------
(* What the MMU and get_entry make of the tables.                           *)

Unmapped == [frame |-> Null]

\* The frame that page v is translated to in the tables m, with the permissions of
\* its entry and those that every table on the way grants.
Translate(m, v) ==
  LET o == virtual_to_entries(v)
      e4 == m[kernel_pml4][o[4]]
      e3 == m[e4.addr][o[3]]
      e2 == m[e3.addr][o[2]]
      e1 == m[e2.addr][o[1]]
      above == e4.flags \cap e3.flags
  IN  CASE PRESENT \notin above -> Unmapped
        [] PRESENT \in above /\ PRESENT \notin e2.flags -> Unmapped
        [] PRESENT \in above /\ {PRESENT, LARGE} \subseteq e2.flags ->
             [frame |-> e2.addr + o[1], perms |-> e2.flags \cap {WRITE}, path |-> above]
        [] PRESENT \in above /\ PRESENT \in e2.flags /\ LARGE \notin e2.flags ->
             IF PRESENT \notin e1.flags THEN Unmapped
             ELSE [frame |-> e1.addr, perms |-> e1.flags \cap {WRITE},
                   path |-> above \cap e2.flags]

get_or_null_ent(m, f, i) == IF f = 0 THEN 0 ELSE m[f][i].addr

\* The frame of a page of the windows; for the others what the tables hold, the entry
\* with its flags (vmm.cpp:202).
get_entry(m, v) ==
  IF v >= PhysBase THEN [addr |-> WindowFrame(v), flags |-> {}]
  ELSE LET o == virtual_to_entries(v)
           pdp == get_or_null_ent(m, kernel_pml4, o[4])
           pd == get_or_null_ent(m, pdp, o[3])
           pt == get_or_null_ent(m, pd, o[2])
       IN  IF pt = 0 THEN Zero ELSE m[pt][o[1]]

\* Page v lies in a huge page below the windows, of which get_entry knows nothing.
InLowHugePage(m, v) ==
  LET o == virtual_to_entries(v)
      pd == get_or_null_ent(m, get_or_null_ent(m, kernel_pml4, o[4]), o[3])
  IN  v < PhysBase /\ LARGE \in m[pd][o[2]].flags

------------------------------------------------------------------------------
(* Properties.                                                              *)

TypeOK ==
  /\ mem \in [Ram -> [Indices -> Entry]]
  /\ kernel_pml4 \in Ram
  /\ cr3 \in {Null, kernel_pml4}
  /\ pc \in {"boot", "idle", "walk", "flags", "clear", "fault"}
  /\ boot \in 0 .. 2
  /\ call \in CallType \cup {NoCall}
  /\ tab \in Ram \cup {Null}
  /\ level \in 1 .. 4
  /\ result \in BOOLEAN

\* The tables once the one being set up has been cleared.
Settled == IF pc \in {"flags", "clear"} THEN [mem EXCEPT ![entry.addr] = Empty] ELSE mem

\* The entries of the tables T that point to tables, and those tables.
Refs(T) ==
  {r \in (T \cap Ram) \X Indices : LET e == Settled[r[1]][r[2]]
                        IN  e.addr # 0 /\ LARGE \notin e.flags}
Below(T) == {Settled[r[1]][r[2]].addr : r \in Refs(T)}

\* The tables form a tree in pages that Pmm gave to Vmm: no page is used as two
\* tables, so that no mapping changes another one's entries.
TablesApart ==
  pc # "boot" =>
    LET T4 == {kernel_pml4}  T3 == Below(T4)  T2 == Below(T3)  T1 == Below(T2)
    IN  /\ Cardinality(T4 \cup T3 \cup T2 \cup T1) =
             1 + Cardinality(Refs(T4)) + Cardinality(Refs(T3)) + Cardinality(Refs(T2))
        /\ \A f \in T4 \cup T3 \cup T2 \cup T1 : \E h \in held : f \in Pages!FramesOf(h)

\* A page mapped for writing can be written: the tables above it, which keep the
\* permissions of the first call that needed them, allow it.
WritableAllTheWay ==
  pc # "boot" =>
    \A v \in VirtualPages :
      LET t == Translate(Settled, v)
      IN  t # Unmapped /\ WRITE \in t.perms => WRITE \in t.path

\* get_entry, which computes the frame of a kernel address and reads the tables for
\* the others, agrees with the MMU about every page that is not part of a huge page
\* below virtual_physical_base: about the frame, and where it returns the entry about
\* its permissions too.  It returns 0 for a page that is not mapped.
GetEntryAgrees ==
  pc = "idle" /\ cr3 # Null =>
    \A v \in VirtualPages :
      LET t == Translate(mem, v)
          e == get_entry(mem, v)
      IN  /\ t # Unmapped /\ ~InLowHugePage(mem, v) =>
               /\ e.addr = t.frame
               /\ v < PhysBase => PRESENT \in e.flags /\ e.flags \cap {WRITE} = t.perms
          /\ t = Unmapped /\ v < PhysBase => e = Zero

\* "Gets physical address from 4-level paging entry" (vmm.hpp:136): what get_entry
\* returns for a mapped page is an address, which free hands to Pmm::free (mm.cpp:63).
GetEntryIsAddress ==
  pc = "idle" /\ cr3 # Null =>
    \A v \in VirtualPages :
      LET t == Translate(mem, v)
      IN  t # Unmapped /\ ~InLowHugePage(mem, v) =>
            get_entry(mem, v) = [addr |-> t.frame, flags |-> {}]

\* Vmm implements AddressSpace: each step of a call changes the translation of the
\* page it has come to, as asked, and of no other.
Space ==
  LET mapped == IF pc = "boot" THEN {}
                ELSE {v \in VirtualPages : Translate(Settled, v) # Unmapped}
  IN  [v \in mapped |-> LET t == Translate(Settled, v)
                        IN  [frame |-> t.frame, perms |-> t.perms]]

Abstract == INSTANCE AddressSpace WITH
  space <- Space

ImplementsAddressSpace == Abstract!Spec

\* "Maps a virtual address" (vmm.hpp:63-73): while map_pages runs, the MMU sees the
\* translation of no page change but the one that is mapped.
MapChangesItsPages ==
  [][cr3 # Null /\ call # NoCall /\ call.op = "map" =>
       \A v \in VirtualPages \ {call.virt} : Translate(mem', v) = Translate(mem, v)]_vmmVars

==============================================================================
