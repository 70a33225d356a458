# Spark Kernel: TLA+ models and proofs

Formal models of the Spark kernel (`src/Spark/`), a small x86-64 kernel booted
by Multiboot 1: physical memory, page tables, the heap, the start-up of the other
processors and their interrupt controllers, the firmware's tables, PCI, the linked
list and everything that is written on the screen. The modules are model-checked
with TLC; the safety properties and refinements that TLC checks there are also proved
with TLAPS for every value of the parameters.

- [The system](#the-system): inventory of components
- [The modules](#the-modules): what models what
- [The runs](#the-runs): what TLC checks, bounds, fairness
- [The proofs](#the-proofs)
- [Disagreements between code and text](#disagreements-between-code-and-text)
- [What is not modelled](#what-is-not-modelled)
- [Plan](#plan)

Check everything from this directory:

    tlc -config MCPmm.cfg MCPmm        # likewise the other configurations
    tlapm PmmProofs.tla                # likewise the other modules named *Proofs

## The system

`loader` (main.asm:91) enters long mode and calls `kernel_main` (spark.cpp:20) on
the boot processor (BSP): `Pmm::init` → `Vmm::init` → map the framebuffer →
`malloc` a back buffer → `Graphics::init` → `Idt::init` → `Acpi::init` (which
starts the other processors, the APs, one by one through `Cpu::Smp::boot_cpu`) →
`Pci::init` → `hlt`. An AP runs the trampoline, then `smp_kernel_main`:
`Idt::init`, `set_booted`, `hlt`. There is no scheduler and no interrupt handler.
At this commit only the BSP calls the memory managers; `mm_lock` is the code's own
provision for several callers.

| Component | State | Operations | Talks to | Hard behaviour | Correct when | Module |
|---|---|---|---|---|---|---|
| **Pmm** `mm/pmm.cpp` | bitmap, bitmap_len, free_pages, total_pages | init, alloc, free | memory map; called by malloc, boot_cpu, Vmm | int shift makes pages share bits; partial last byte and page of the bitmap; long sequences of calls | no page handed out twice or taken from the bitmap; the bitmap records what is in use | `Pmm` |
| **Heap** `mm/mm.cpp` | mm_lock, top, headers before the blocks | malloc, calloc, free, realloc | Pmm, Vmm | several processors, out of memory, early returns under a lock | blocks apart and mapped, lock released | `Heap` |
| **Spinlock, atomics** `lib/spinlock.cpp`, `cpu/cpu.cpp` | locked | lock, release | Heap | `lock bts` is the only atomic step | one holder | `Heap` |
| **Math** `lib/math.cpp` | none | round_up, round_down, overlaps, max | Pmm | boundaries | least and greatest multiple | `SparkMath` |
| **SMP start-up** `cpu/smp/` | trampoline_stack, trampoline_booted, the stacks | boot_cpu, wait_for_boot, set_booted, trampoline | Pmm, Apic, Acpi, the APs | APs that answer late, lost IPIs, state shared without a lock | one stack per processor, true reports, every AP up | `Smp` |
| **Local APIC** `acpi/apic.cpp` | lapic_base, the command register | init, send_ipi | Vmm, Smp | one command register, polled | no command overwritten | `Smp`, `Vmm` |
| **ACPI** `acpi/acpi.cpp` | rsdp, rsdt, xsdt, madt | init, get_table, checksum | firmware, Smp, Pci | tables given by firmware, what lies behind them | listed tables found; every enabled AP started once; init returns | `Acpi`, `Smp` |
| **Vmm** `mm/vmm.cpp` | kernel_pml4, page tables, cr3, TLB | map, unmap, update, huge variants, contexts | Pmm | lack of memory half-way, huge pages against tables, stale TLB entries | the walk gives what was mapped | `Vmm` |
| **Linked list** `lib/linked_list.hpp` | head; in each node next, index | push, insert, pop, clear, lookup | Heap, Pci | sequences of calls, numbers that must be kept up to date, blocks on failing calls | a sequence; every node's block held once | `LinkedList` |
| **PCI** `devices/pci.cpp` | the access functions, MCFG entries | init, read, write | Acpi, Vmm | choice of mechanism, packing of fields, page under a huge page | access reaches the register asked for and nothing else | `Pci` |
| **IDT, PIC** `idt.cpp` | IDT, the two 8259s | init, set_gate | ports | APs run init at the same time on the same chips | the chips see a well-formed sequence | `Pic` |
| **Terminal** `terminal.cpp` | cursor | write, write_line, special characters | Graphics | right edge, bottom | the screen shows what was written | `Console` |
| **Framebuffer** `devices/vbe.cpp` | mode, pixels | init, clear, set_pixel, write_text | Vmm | pixels without bounds check | nothing drawn outside the mapping | `Console` |
| **Library** `lib/lib.cpp` | none | sprintf, itoa, htoa, str* | Terminal | digits, terminators, directives | text of the argument | `Format` |
| **Boot code** `main.asm`, `spark.cpp` | page tables, GDT | loader, kernel_main | all | order of initialisation | subsystems used after their init | `Console`, `Smp` |
| **Panic** `panic.cpp` | none | message and halt | Terminal | | message on the screen | `Console` |
| **Ports, MSRs** | none | one instruction each | | | | at their uses |
| **Userland** | none: an empty namespace | | | | | |

## The modules

    PageAllocator  <-- implemented by --  Pmm (PmmProofs)  -- uses -->  SparkMath
      ^    ^    ^                                                   (SparkMathProofs)
      |    |    |
     Smp  Heap  Vmm  -- implements -->  AddressSpace   (VmmProofs)
      | (HeapProofs)
      v
     Pic                LinkedList  -- implements -->  List
    Pci  -- extends -->  Acpi         Console  -- extends -->  Format

Each of `HeapProofs`, `VmmProofs`, `SmpProofs`, `PciProofs`, `LinkedListProofs` and
`ConsoleProofs` extends the module it is named after.

`PageAllocator` is the promise Pmm makes to the rest: ranges handed out are
disjoint from each other and from the pages Pmm keeps. `Pmm` is shown to
implement it, and `Heap`, `Smp` and `Vmm` use `PageAllocator`, not the bitmap.
`AddressSpace` is the promise Vmm makes: a function from pages to frames and
permissions that a call changes one page at a time. `List` is the promise of
`LinkedList`: a sequence. `Smp` instantiates `Pic`, whose words every processor
sends between its own steps; `Pci` goes on from the state `Acpi` leaves; `Console`
follows the boot as far as it is seen on the screen. Each component has an `MC`
module with the values of its constants and one `.cfg` per run. Definitions
marked "Mutant" in the modules are wrong versions of the code that the next-state
relations do not use: putting one in the place of its original must make TLC
find its property violated.

### Pmm (hardware/mm/pmm.cpp)

| TLA+ | code |
|---|---|
| `FindTop`, `FillBitmap` | `find_available_memory_top`, the `memset` of whole bytes |
| `SkipEntry`, `FreeEntry` | one iteration of the loop over the memory map |
| `ReserveBitmap`, `BootAlloc` | pmm.cpp:105-107: marking the bitmap's pages, the `alloc` whose result is dropped |
| `Alloc`/`AllocFails`, `Free` | `alloc`, `free`; `alloc(idx, ...)` and `free(mem, count)` are the bodies |
| `bit_mask`, `bit_read`, `bit_write` | the same, with the expression `1 << (idx % 64)` |

The bitmap is the set of `<<word, bit>>` that are 1. `1` is an `int`: the build
(no `-O`, x86 `shl`) shifts modulo 32 and sign-extends, so page `i` and page
`i + 32` of a group of 64 share a bit and bit 31 covers the upper half of the
word. `shifted` is that conversion and not "bit `i`". The RAM under the bitmap
is arbitrary before the `memset` (`DirtyRam`), and the bits behind the last
whole byte keep it. `free_pages` is a `size_t` and wraps at `SizeMod`.
`live` (allocations) and `boot_bitmap` are history variables. The call at
pmm.cpp:93-94 is dead code: a clipped region never starts below `memory_base`.

### Vmm (hardware/mm/vmm.cpp)

| TLA+ | code |
|---|---|
| `NewAddressSpace`, `MapKernel`, `SetContext` | `Vmm::init` and `new_address_space` with its two `map_huge_pages` |
| `Call`, `NextPage` | the arguments and the `while (count--)` of the six calls |
| `Descend`, `AllocTable`, `SetFlags`, `ClearTable`, `AllocTableNull` | `get_or_alloc_ent`, one action per write to memory |
| `ReturnFalse`, `MissingUnchecked` | `get_or_null_ent` and what the callers make of null |
| `WriteEntry` | the assignment to the last table, of each call |
| `TrampolineRequest`, `LapicRequest` | the calls of `Smp::init` (smp.cpp:34) and `LocalApic::init` (apic.cpp:22) |
| `Fault` | a null table used: page fault, no handler |
| `Translate` | the MMU (external) |
| `get_entry` | `get_entry`: a computed address in the windows, below them the entry with its flags |

`mem` holds every frame of RAM as a table, what Pmm has not handed out
included: `RamContents` says what that may be. An entry is an address and flags,
and the code takes `ents[off] & address_mask` for the address of a table, so an
entry for frame 0 looks absent and a huge page looks like a table. Nothing is
atomic for the MMU but one write. `Settled` is memory with the table that is
being set up already cleared; the refinement of `AddressSpace` is stated over it, and
`MapChangesItsPages` over memory as it is. What `get_entry` returns has an address and
flags like an entry, so that the flags it leaves in its result show. The physical pages are reached
through the direct map, which covers all of RAM by assumption (4 GiB in the code).

### Heap (hardware/mm/mm.cpp, lib/spinlock.cpp)

Each processor has a control state: waiting in `lock`, `alloc`, `map`,
`advance`, `compare` (in `free`), `malloced`, `fault`. Every access of `malloc`
to `top`, Pmm, the page tables and the header is a step of its own between
`lock` and `release`, so that without the lock the interleavings would be those
of the code (the mutant `lock_without_test` shows them). `free` is modelled up
to its comparison, which is true of every block: the lines behind it never run.
`calloc` with no memory calls `memset` on null and the processor faults (no IDT
gate is set): `Fault`. `realloc` has no declaration and no caller.

### Smp and Pic (acpi.cpp:96-127, smp.cpp, trampoline.asm, spark.cpp:51-57, apic.cpp, idt.cpp)

| TLA+ | code |
|---|---|
| `CallIdt`, `CallAcpi` | the order of `kernel_main` up to the loop of `Acpi::init` |
| `SkipEntry`, `SkipDisabled`, `CallBootCpu`, `Return` | loop of `Acpi::init` over the MADT |
| `AllocStack`, `SendIpis`, `Wait`, `Report`, `ClearBooted` | `boot_cpu`; `WriteIcr`/`AwaitIcr` are `send_ipi` |
| `wait_for_boot` | one iteration of the polling loop |
| `LoadStack`, `smp_kernel_main`, `ReturnFromIdt`, `set_booted` | an AP in the trampoline, its calls and their returns |
| `IdtInit`, `Pic!outb`, `Pic!InitWords` | one `Port::outb` of `Idt::init`, on whichever processor runs it |
| `IdtShared`, `Pic!outb_overwritten` | the same while another AP runs `Idt::init` on the same stack |
| `Fault` | a push below page 0, or a return to a torn address: the AP shuts down |
| `Deliver`, `Lose`, `Pic!Receive` | the APIC and the 8259s (external) |

The constant `Machines` describes the environment, one record per machine: its
MADT (`madt`), the processors on which an IPI may have no effect (`lossy`), and
`prompt`, whether a started AP reports before the BSP's last look at the flag:
the assumption the time-out of the code makes. The properties that need it say
`machine.prompt =>`; the others hold of late processors too. Lost commands are more
than noise here: `lapic_base` is computed from the number of the MSR and not from
its value (apic.cpp:20), which makes it `virtual_kernel_base`; the page is mapped
there over a huge page without `invlpg`, and a processor that still has the huge
page in its TLB writes its commands to RAM. That is the machine on which every
IPI may be lost.

Two late APs may load one stack, and then their calls overwrite each other. `returns`
is what the code keeps on each stack between the calls of `smp_kernel_main`: where the
callee returns to, the line behind `Idt::init` or the last loop. An AP that comes back
from `Idt::init` goes where its stack says, so `set_booted` may be called twice or not at
all. Inside `Idt::init`, while two processors use one stack, port, value and return
address of every `outb` are those of either or a mixture: after such a write the
controllers are `Unknown`, the processor goes on from its own place or from the other's,
or faults. Without memory `trampoline_stack` becomes page 0 (the check for null is dead),
below which nothing is mapped: the processor faults at its first push.

### Acpi and Pci (hardware/acpi/acpi.cpp, hardware/devices/pci.cpp)

| TLA+ | code |
|---|---|
| `DetectRsdp`, `bios_detect_rsdp`, `Valid` | the search of the EBDA, then of the BIOS area |
| `LookFurther`, `ReadUnmapped`, `Found`, `Missing` | one iteration and the ends of the loop in `get_table`, for each caller |
| `GetMadt` | `Acpi::init` up to the loop over the MADT |
| `UseMcfg`, `NoMcfg` | `Pci::init` |
| `ReadPort`, `WritePort` | `iomap_read`, `iomap_write` |
| `ReadMemory`, `WriteMemory` | `mmap_read`, `mmap_write`, with their `map_pages` |
| `port_address`, `mmap_address`, `Used` | the address expressions and the choice of the MCFG entry |
| `PortPlace`, `MemoryPlaces` | the host bridge (external) |

A table is what its signature says, and `behind` is what the kernel meets behind
the XSDT, whose entries it counts as if they were half as long: other memory, an
address that is not mapped, or by chance another table. A place is a register of
a function; `access` records for the last call which place was asked for, which
ones the address it computed decodes to, and which ones were written, the page
table entry that `map_pages` writes into configuration space included.

### LinkedList (lib/linked_list.hpp)

One action per operation. Inside it the calls of `calloc` and `free` and the writes to
links are made one after the other on the memory `h`, in the code's order; `insert_before`
and `insert_after` take their spare block before they search, and `push` and `push_back`
inside them take another one. `mem` is the blocks the list has from `calloc` and has
not freed, so that a block that is lost shows, and `stray` is what the last call freed or
wrote to without having it: a second `free`, a write through a null pointer.
`free` is taken at its word (in the code it refuses every block, see `heap_leak`). `call` and `result`
are there for the refinement: `List` says of every call what it does to a
sequence and what it returns.

### Console and Format (terminal.cpp, vbe.cpp, panic.cpp, lib.cpp, main.asm, spark.cpp)

| TLA+ | code |
|---|---|
| `loader`, `KernelMain`, `NotMultiboot` | main.asm:91-151, spark.cpp:20-45 |
| `WriteNext`, `write`, `Cell`, `handle_special_characters` | `Terminal::write`, one character a step |
| `write_line` | `sprintf` and `Terminal::write_line` |
| `write_text`, `clear`, `PixelOffset` | `Graphics` |
| `AcpiLine`, `BootCpuLine`, `NoExpressLine`, `McfgLine`, `Panic`, `PanicMessage` | the lines, where they are written |
| `sprintf`, `itoa`, `htoa` | lib.cpp |

A cell of the screen holds the set of glyphs drawn into it since it was last
painted over: without a background a second character is laid over the first. A
character is a string, and a run of plain text in a message (`Words`) counts as one
character, since only its place matters; a space is written as a dot. `Printable` is
the set of all characters the font has, and the firmware's name consists of them
(`ConsoleAssumption`); the three that move the cursor are not among them.
`lines` is the history of what was to be written; the properties compare the screen with it.

The kernel takes any mode the boot loader sets, and so does the model. In two kinds of
modes the code fails, each with a run of its own, and the properties about the others say so
in a hypothesis: `Landscape`, a width at least 16 more than the height, for what is drawn
inside the mapping (`MCConsole_tall` is about the others), and `WholeColumns`, a width that is
a multiple of 8, for what the screen shows (`MCConsole_edge`): where the right edge cuts the
last column the pixels behind it land in the next line of pixels.

### SparkMath

`round_up`, `round_down` and `overlaps` as operators, used by `Pmm`.

## The runs

Passing runs:

| run | checks | shows |
|---|---|---|
| `pmm` | `TypeOK`, `NoSharedFrame`, `BitmapReserved`, `BitmapExact`, `Accounting`, refinement `ImplementsAllocator` | allocation is exclusive and the bitmap and counter exact after every boot and every sequence of calls, although pages share bits |
| `heap` | `TypeOK`, `MutualExclusion`, `BlocksApart`, `HeaderDescribesBlock`, action property `BlocksStay`, liveness `MallocReleases` | blocks of two processors never overlap in address space or in memory and keep their pages, headers are right, malloc and calloc always give the lock back |
| `vmm` | `TypeOK`, `TablesApart`, `WritableAllTheWay`, `GetEntryAgrees`, refinement `ImplementsAddressSpace` | whatever the RAM held and wherever memory runs out, the tables stay a tree in pages of their own and each step changes the translation of its page as asked and of no other, as long as callers do not mix page sizes |
| `smp` | `TypeOK`, `PromptDistinctStacks`, `ReportedBootedIsUp`, `ReportedFailedIsDown`, `PicRemapped`, `PicReady`, action property `StackPublished`, liveness `EnabledMadtReturns`, `EveryCpuUp` | whatever IPIs are lost, if APs are prompt the stacks are distinct, the reports true, the 8259s remapped, and every AP that the IPIs reach comes up as long as there is memory for its stack; however late they are, `Acpi::init` returns unless a processor is disabled, and the 8259s are left ready for masks unless two APs have come to share a stack |
| `list` | `TypeOK`, `FindsByPosition`, `HoldsItsNodes`, refinement `ImplementsList` | after any sequence of calls indices are positions and the list holds exactly its nodes' blocks, and no spare one |
| `pci` | `TypeOK`, `FindsListedTables`, `BootsIfListed`, `PortsReachDevice`, `SlotZeroReached` | tables that are listed are found whatever the firmware left around them, and with a MADT and an MCFG listed the machine boots; accesses by ports reach the register asked for, those by memory do in slot 0 |
| `console` | `TypeOK`, `DrawsInsideMapping`, `ShowsTranscript`, `FormatRight`, action property `OverwritesOnlyLastRow` | a screen of whole columns shows exactly what was written while it fits, then only its last row changes; on a screen wide enough for its height no pixel falls outside the mapping; numbers are right |

Runs that must find a violation (see
[Disagreements](#disagreements-between-code-and-text)): `heap_leak`, `vmm_lapic`,
`smp_disabled`, `smp_late`, `pci_read`.

Nine more configurations are kept for the smaller disagreements. They are not among the runs;
each has one property, and TLC refutes it: `MCVmm_entry`, `MCVmm_stale`, `MCSmp_credit`,
`MCSmp_below`, `MCList_twice`, `MCPci_xsdt`, `MCPci_slot`, `MCConsole_tall`, `MCConsole_edge`.

### Bounds, and why they are enough

- `MCPmm`: pages of 4 bytes, bytes of 4 bits, words of 8 bits and an int of 4
  keep the ratios that matter: two pages share a bit, the sign bit covers half a
  word, a byte is less than a word. The sizes keep `word = 2 * int`. `SizeMod = 64`
  is above every page count, and `free_pages` still wraps below 0 when a hole
  behind a shared bit is allocated. The six memory maps are one aligned region, a
  hole between regions, regions that start and end inside a page, one that starts
  inside the bitmap, a memory without room for a bitmap, one that the bitmap
  fills; the RAM is clear, all ones or mixed. The four requests are a page, a run
  of three, an aligned pair and a pair with an upper bound. No bound on the number
  of calls: the state space is finite. The proofs cover every other size.
- `MCVmm`: tables of four entries, hence 256 virtual pages in four levels; twelve
  frames, of which the kernel's own mappings take five and the calls compete for
  the rest, so that memory runs out at every level of a walk. The calls: a range
  over the edge of a table, one that needs tables of its own, the trampoline's page, a
  huge page beside them, and unmaps and updates that succeed, give up half-way or
  find a table missing. RAM is clean or full of old entries. No bound on the
  number of calls. `MCVmm_stale` needs one call that makes tables, in RAM with old entries;
  `vmm_lapic` is the call of `LocalApic::init` in clean RAM.
- `MCHeap`: two processors, pages of 32 bytes, nine frames, requests of 0, 8 and
  49 bytes (one word, exactly the boundary of one page more), at most
  `MaxCalls = 4` calls; the largest blocks take four pages, so memory runs out.
- `MCSmp`: three prompt machines on which every IPI may be lost, with one to three
  APs, the BSP first or in the middle, an I/O APIC or a disabled processor between, and a
  machine of two late APs, one of which IPIs may miss: the least on which a late
  processor meets the start of the next one, and two run on one stack. On a fourth prompt
  machine one of two APs is never missed: `EveryCpuUp` follows that one. Stacks of two pages;
  `Timeout = 2` polls instead of the code's count, enough for an AP to be early, just in time
  or late. Five frames give two stacks: the third AP of the largest machine gets none, the APs
  of the others do.
- `MCList`: four blocks, two values, indices from -1 to one behind the longest
  list: head, middle and tail are different nodes and there is one more; an insertion
  in a list of two has both its blocks, one in a list of three its spare block. No bound
  on the number of calls.
- `MCPci`: each area empty or with a broken, an old or a new descriptor or two of
  them; tables in any order, twice or missing; for an XSDT every choice of other
  memory, unmapped addresses and a second MCFG behind it. MCFG entries with 64
  buses of one segment, or with one bus of each of two segments; the functions
  lie in the first, a middle and the last bus, in slot 0 and above.
- `MCConsole`: screens of twelve or sixteen columns and three, five or five and a
  half rows, on which the lines fit, end at the right edge or run over the bottom,
  the mode the multiboot header asks for, a screen higher than wide, and one whose last
  column is cut in half; processors and MCFG entries whose
  numbers have one to three digits, the most a `uint8_t` can have.

Deadlock checking is off where the system stops: the BSP returns and the APs
halt (`MCSmp`); the calls are bounded and a processor may fault (`MCHeap`); a
walk that runs out of memory faults (`MCVmm`); the firmware has no RSDP or a table
is missing (`MCPci`); the processor halts when all is written (`MCConsole`).

### Fairness

`Smp!Fairness` is weak fairness of the BSP, of the APIC and of each AP: a
processor that executes goes on executing (there is no scheduler, and
interrupts are off), and the APIC clears its pending bit. It says nothing about
how fast: an AP may sleep for any number of polls. `Heap!FairSpec` is weak
fairness of each processor inside the heap; nobody is obliged to call. The
spinlock gives no fairness to a waiting processor, and none is assumed:
`MallocReleases` and `LockReleased` speak of the holder. The other modules state
safety only and assume none.

## The proofs

`PmmProofs` (every page, word, byte and int size with `IntBits <= WordBits`,
every memory map, RAM content and set of requests allowed by `PmmAssumption`):

| theorem | statement |
|---|---|
| `TypeCorrect` | `Spec => []TypeOK` |
| `NeverShared` | `Spec => []NoSharedFrame` |
| `BitmapSafe` | `Spec => []BitmapReserved` |
| `Exact` | `Spec => []BitmapExact` |
| `Accounted` | `Spec => []Accounting` |
| `Refinement` | `Spec => ImplementsAllocator` |

`NoSharedFrame` is not inductive: that a free page of the bitmap is not held
has to be known. The invariant `IInv` says that the bitmap is *exactly* the boot
marks and the masks of the live allocations: `HeldMarked` (a held page reads as
used and was free at boot), `HeldApart` (two allocations share no mask),
`MarkedHeld` (a page that reads as used was marked at boot or shares its mask
with a held one), `BootMarksStay`, `BitmapPagesMarked`, `NothingHeldEarly`.
What makes it inductive is the lemma `MaskPartition`: two masks are equal or
disjoint, so `free`, which clears all the bits of a mask, clears nothing that
another allocation or the boot needs. `alloc` preserves `HeldApart` because it
tests every page of the range with the same mask it writes. This is the
precise sense in which the shared bits of `bit_write` lose memory but never
give it out twice. `AllocStep` and `FreeStep` are the two central lemmas;
`EarlyStep`, `QuietStep` and `ReserveStep` cover init. `Accounting` adds `Balanced` to
`IInv`: from the moment total_pages is set, free_pages and the size of the union of the
held pages add up to it modulo `SizeMod`; `IInv` supplies that what `alloc` adds to the
union was not in it, and that what `free` takes out is in no other allocation.

`SparkMathProofs`: `RoundsUp` and `RoundsDown`, the roundings are the least multiple
from their argument on and the greatest up to it, for all arguments.

### HeapProofs

For any set of processors, page size, memory and requests allowed by
`HeapAssumption`: `MutuallyExclusive`, `TypeCorrect`, `BlocksKeptApart`
(`[]BlocksApart`), `HeaderTrue` (`[]HeaderDescribesBlock`) and the action property
`BlocksKept` (`BlocksStay`).

The lock first: `LockInv` adds to mutual exclusion that a processor inside a
critical section holds the lock. `HeapInv` builds on it. The mapped pages are
exactly those below `top` (`TopInv`, `MappedInv`; `map` has mapped the pages of the
block in the making, which lie above); no two pages have one frame and every frame
used is in a range Pmm has given out (`FramesInv`, `HeldInv`); every block with a
header lies with it below `top`, in as many pages as the header says, and two
blocks have no page in common (`BlocksInv`). The central steps are `MapPagesStep`, where
mutual exclusion is needed (another processor between `map` and `advance` would use the
same `top`), and `WriteHeaderStep`, where `pages_for` has to leave room for
the header (`PagesFor`, `NewBlock`).

### SmpProofs

For any set of processors, any MADTs, any time-out, stack size and memory. `MadtAssumption`
is what firmware guarantees: each processor is listed once. On every machine:
`TypeCorrect` and `ControllersReady` (`[]PicReady`). If the machine is prompt:
`BootedIsUp`, `FailedIsDown`, `PicStaysRemapped`, `StackStaysPublished` (the action property) and
`StacksDistinct`, which needs no memory: a processor that gets no stack is sent to page 0,
faults there and takes nobody's stack, since `OnStack` is about real ones.

`BootInv` says that what a pending command can reach is the processor of the
current entry of the MADT. `PicInv` is about all machines: the words of late processors
may come in any order, but as long as no two of them make calls on one stack
(`OwnStacks`) a controller that waits for *n* more bytes has a processor inside `Idt::init`
that has at least *n* left to send it (`Served`). Once stacks are shared nothing of the kind
holds, and `PicReady` says nothing. On prompt
machines `OnlyOneInv` (at most the processor being booted is between `trampoline`
and `up`), `FlagInv` (`trampoline_booted` is about that one), `ReturnInv` (its calls return
where they were made) and `RemapInv` (whoever is
inside `Idt::init` is alone there, and the state of the chips follows from its place)
give the rest; `StackInv` says that the stacks taken so far are disjoint and that a
processor on a stack is the owner of its range.

### VmmProofs

For tables of any size, any RAM and whatever it held before: `TypeCorrect`, `TablesStayApart`
(`[]TablesApart`) and `WritesGoThrough` (`[]WritableAllTheWay`). They assume `RoomForTop`,
a page for the top table, which `new_address_space` does not check, and `NotMixed`: a call
on small pages comes to a huge page only where that maps frame 0. Such an entry looks
absent, and this is the one case the kernel has: the page of `LocalApic::init`. Without
`NotMixed` a walk takes any other huge page for a table (`get_or_alloc_ent` does not
look at the flag), and nothing of this holds. `WritesGoThrough` assumes
`MapsForWriting` too: a table keeps the permissions of the call that made it, so a
page mapped for writing below a table made for reading cannot be written; every
caller maps for writing.

`Refinement` (`Spec => ImplementsAddressSpace`) has two more hypotheses. `NeverMixed` is `NotMixed`
without its exception: where `LocalApic::init` maps its page, a huge page gives way to an empty
table, and the other pages of it are lost, which `AddressSpace` does not allow (`vmm_lapic`). The accesses
of PCI through memory break both (`pci_read`). So `Refinement` speaks of
the rest: the kernel's own huge pages, the trampoline, the heap, the framebuffer.
`WithinPages` says that calls stay within the virtual pages (the number of a
page is taken without its sign extension) and that the huge ones begin where huge pages do.

`EntriesAgree` (`[]GetEntryAgrees`) assumes `WindowsLinear` too: from `virtual_physical_base` on, every page is mapped
to the frame it has in its window, as `new_address_space` does and as the frame buffer is, and
none is updated, which no caller does. Otherwise `get_entry`, which does not look at the
tables there, is wrong: the page of `LocalApic::init` is again the exception.
`MCAssumption` has TLC evaluate the hypotheses for the calls of both runs, and that the
call of `LocalApic::init` breaks `NeverMixed` and `WindowsLinear`, and nothing else does.

`VmmInv` gives each table a level, the path of entries that leads to it and the one
entry that points to it (`Tree`, three functions that the invariant says exist), and says
that the walk of a call is at a table whose path is the beginning of the call's own
(`Walk`). A table has one parent because a new one comes from pages that were not given
out (`TableStep`, `LeastFree`); a small page never ends in a huge one because the
paths of last-level tables are those of calls on small pages (`NoHugePage`). Between the
steps of `get_or_alloc_ent` the tables are seen as they will be once the new one is
cleared (`Settled`). `TablesStayApart` then counts: the entry that points to a table is
unique, so `Below` maps entries to tables one to one (`BelowLevel`), and tables of
two levels are distinct.

For the refinement the invariant also says that the MMU comes to the table the walk is at
(`Reached`, `Rooted`): every entry for a table is present but the one whose flags are still
to be set. Then the argument is in four parts. Where the MMU goes for a page is a chain
of present entries (`Ways`), and a page whose chain has the same entries in two memories has the
same translation (`TrFrame`). A page passes through the entry a call writes just if it is a page
of the call's next step (`SameWay`, `WayOfHuge`, `TargetIs`): the indices of a page are its digits, so pages that
agree on them down to a level are equal, or in one huge page. The steps that make a table write
an entry nothing was mapped through before or after (`AllocTableSpace`, `SetFlagsSpace`,
with `EntryIsZero` from `NeverMixed`). And the entry written at the end maps, unmaps or updates
what `AddressSpace` says (`WritePages`, `WriteRefines`).

`EntriesAgree` uses the refinement: that the windows are mapped in their order (`Windows`) is an invariant of
the abstract address space, and `WindowsStep` speaks of its steps only. Below the
windows `get_entry` returns the entry, and the theorem compares its address, its present bit
and its write bit with what the MMU finds (that it returns an address only is refuted by
`MCVmm_entry`). `LowPages` follows it down the tables: between calls an entry is a present table, a huge
page or nothing (`IdleEntry`), so looking at addresses, as `get_or_null_ent` does, is as good as
looking at flags, as the MMU does.

### PciProofs

For every firmware and every set of functions allowed by `AcpiAssumption` and
`PciAssumption`: `TypeCorrect`, `TablesFound`, `ListedBoots`, `PortsReach` and
`MemoryReachesSlotZero`. `BaseAssumption`: configuration space begins at a multiple of
1 MiB, the space of a bus, as the PCI specification demands; the code ORs addresses as if it did.
`BootInv` is the loop invariant of `get_table`: no table it has passed is the one it
looks for. The accesses are arithmetic: the fields are the digits of an
address (`PortDecodes`, `OffsetPlace`), `|` of a byte and 0 is the byte
(`BitsDiffer`, `OrZero`), and in slot 0 of one segment an address lies in one MCFG entry
only.

### LinkedListProofs

For any set of blocks and of values: `TypeCorrect`, `FoundByPosition`, `NoBlockLost` and `Refinement`
(`Spec => ImplementsList`), all from `ListInv` and `Strays`. `ListInv`: the links of the list's blocks
lead from the head through every block once (`Holds`), and each block carries the
number of its place (`Numbered`). `Chain` is a recursive function, so what it computes
is proved by taking the least length at which it would differ (`NatMinimum` in
`SparkMathProofs`): `LoopExists` and `Arranged` say that a sequence that the
links follow is what the loop visits. After that a call is a new arrangement
of the blocks (`InsertNode`, `RemoveNode`), and each of the steps
`PushStep` to `ClearStep` shows its call to be one of `List`. The spare block of an insertion
becomes a node (`LinksNode`) or is free again when the call ends (`SpareFreed`); `Strays` says
that only an `insert_after` that returns false frees a block it has not (`FreedTwice`), and that
this block is not in the list. `pop` by index looks a node up by a number (linked_list.hpp:145)
and finds it because of `Numbered` (`FindPlace`).

A call is only made with enough blocks: without memory `calloc` faults (see `Heap`). `List`
leaves open what `insert_after` returns and which element `pop` by index takes out.

### ConsoleProofs

For every mode, firmware, list of processors and table that `ConsoleAssumption` allows:
`TypeCorrect`, `TextsRight`, `KeepsRows`, `ShowsLines` and `DrawsInside`, so that every
property of the run `console` holds whatever the machine is. `ConsoleAssumption` says: width
and height are below 2^16, in which VBE counts them, and there is a whole row; a row of pixels
is at least four bytes a pixel long; the firmware's name has characters of the font; the MCFG,
whose length has 32 bits, has fewer than 2^28 entries. A mode may be higher than wide, and its
last column may be cut: `DrawsInside` has the hypothesis `Landscape`, `KeepsRows` and `ShowsLines` have
`WholeColumns`, and without them the statements are false (`MCConsole_tall`, `MCConsole_edge`).

- *Texts.* `FlattenSeq` and `FirstRow` are recursive functions; a fact about their every
  value is proved by taking the least one for which it fails (`JoinExists`, `Flatten`,
  `TopExists`, `TopNext`). `ItoaDecimal` shows the loop of `itoa`, which swaps the digits
  around the middle one, right for numbers of up to three digits, and `ArgumentOf` that a
  directive takes the argument of its number. `LineBegins` concludes for a format, and
  `PanicBegins` to `McfgBegins` apply it to the seven lines.
- *Steps.* For the screen a step begins a line, writes a character, clears the screen
  before the first line or changes nothing (`Step`, `AnyStep`).
- *`ConsoleInv`.* What is still to be written is the rest of the last text and its end
  (`TextInv`): without it `WriteNext` could write anything. Above the last whole row all
  cells drawn lie before the cursor (`DrawnInv`), so a character is drawn where none is
  (`Fresh`); this is not inductive by itself, since between `\r` and `\n` the cursor is at the start
  of a row that is written, and there the bottom must be out of reach (`CursorInv`).
- *`ShownInv`.* While the lines fit, the cells drawn are those of the characters
  written so far, and the cursor stands where `AtCursor` says, after every character
  and between the two that end a line. The next character then gets the next place,
  in the same row or at the start of the next one (`NextPlace`, `NextColumn`), and
  after the end of the line the cursor stands in the row in which the next line begins
  (`ShownEnds`), also when the line has filled its last row to the edge. A line that is appended
  leaves the rows of the others as they are (`TopKept`).
- *Pixels.* `ScreenInv` bounds the cells drawn by the mode, whose last row may be half
  below the screen and whose last column half behind its edge; if the width is at least 16
  more than the height, the width lines that kernel_main maps leave room for both.

### Only model-checked

The safety properties and the refinements that the passing runs check are all
proved. The liveness properties `MallocReleases`, `EnabledMadtReturns` and
`EveryCpuUp` stay with TLC: they hold only under weak fairness, whose meaning
rests on `ENABLED`, which the installed provers cannot reason about.

## Disagreements between code and text

Found while modelling, each shown by a run that TLC refutes:

- `heap_leak` – `free` refuses every block and keeps `mm_lock` (mm.cpp:60):
  the next `malloc` spins for ever.
- `vmm_lapic` – the page `LocalApic::init` maps replaces the kernel's first huge page by a
  table with one page in it (vmm.cpp:39, apic.cpp:22).
- `smp_disabled` – a disabled processor in the MADT stops `Acpi::init` for ever
  (acpi.cpp:114: the `continue` skips the advance of `offset`).
- `smp_late` – an AP that starts after its time-out loads the stack of the next.
- `pci_read` – a read through memory writes a page table entry into configuration
  space (pci.cpp:36, vmm.cpp:69-70).

Shown by the further configurations, which name the property and quote the text:

| configuration | property | the text says | the code does |
|---|---|---|---|
| `MCVmm_entry` | `GetEntryIsAddress` | "Gets physical address from 4-level paging entry" (vmm.hpp:136) | below the windows `get_entry` returns the entry, with its flags (vmm.cpp:202) |
| `MCVmm_stale` | `MapChangesItsPages` | "Maps a virtual address" (vmm.hpp:64) | a new table is present before it is cleared (vmm.cpp:47-48): the MMU finds what its page held before, for pages nobody has mapped |
| `MCSmp_credit` | `BootedMeansUp` | "Waits & timeouts for the AP to boot" (smp.hpp:18) | a flag set after the time-out is taken for the answer of the next AP (smp.cpp:56), which is reported as booted although it is not |
| `MCSmp_below` | `StackInsideAllocation` | "stack for CPU with lapic ID" (smp.cpp:46) | `trampoline_stack` is the lowest address of the allocation, so the first push goes below it (trampoline.asm:75) |
| `MCList_twice` | `FreesWhatItHas` | "Frees memory" (mm.hpp:39) | `insert_after` at the tail frees its spare block twice and returns false (linked_list.hpp:98, then 109) |
| `MCPci_xsdt` | `MissingTableIsMissing` | "Gets a table from a signature inside the RSDT/XSDT" (acpi.hpp:168) | the entries of the XSDT are counted by 4 bytes (acpi.cpp:73): the search for a table that is not listed goes on behind it |
| `MCPci_slot` | `SlotReached` | "Reads a value from a PCI(e) configuration space" (pci.hpp:101) | the slot is shifted by 25, over the bits of the bus (pci.cpp:33) |
| `MCConsole_tall` | `ClearsDisplay` | "Clears the display with a specific color" (vbe.hpp:28) | width lines of pixels are mapped instead of height (spark.cpp:28): in a mode higher than wide `clear` writes behind them |
| `MCConsole_edge` | `CharactersWhole` | "Writes a character on a position in the screen" (vbe.hpp:35) | where the width is not a multiple of 8 characters are drawn in a last column that the edge cuts (terminal.cpp:57) |

Noted only; where a module is named, it models the line as
the code has it:

- Memory: `bit_write` writes the bits of other pages (pmm.cpp:30, `Pmm`);
  `alloc`'s upper bound bounds only the first page (pmm.cpp:113, `Pmm`);
  `free_pages` is not the number of free bits after init (pmm.cpp:106, `Pmm`);
  `overlaps` (math.hpp:41) is containment (`SparkMath`); `calloc` writes through null when
  memory runs out (`Heap`).
- Processors: an AP reported as failed may run (`Smp`, machines that are not prompt);
  the check for a failed stack allocation is dead (smp.cpp:42-45, `Smp`); a stack must lie below
  128 MiB, since `rsp` gets `KERNEL_VMA` added (trampoline.asm:74); "Mask all IRQs"
  writes 0, which unmasks them (idt.cpp:29-31, `Pic`); words of late APs mix, and calls of late
  APs on one stack overwrite each other (`Smp`, `Pic`).
- `LinkedList`: `pop(index)` removes the node before the
  one asked for and never the head; there is no `begin`/`end`, which pci.cpp's
  range-for needs.
- PCI: an MCFG entry is skipped only under a condition that is nearly never true
  (pci.cpp:30), and a write goes through every entry that is left (`Pci`).
- Screen: `%p` swallows the next character (lib.cpp:102, 109: the MCFG line loses
  a colon), `%c` and `%%` are wrong and have no use, `itoa` is wrong from four digits on
  (`Format`); glyphs are shifted by a column (vbe.cpp:35); when the screen is full
  the last row is written over without being cleared, and a mode with part of a row
  at the bottom is drawn below the screen (`Console`); the font is
  indexed with a signed `char` (vbe.cpp:30).

## What is not modelled

- `save_context`, `restore_context`, `drop_context`, `entries_to_virtual`: no
  callers (the contexts use the value of `kernel_pml4` as a pointer). The TLB: the
  models look at the tables.
- The copy of the trampoline in `Smp::init` and its way through real and
  protected mode, the MSR of `LocalApic::init`: straight-line set-up. The boot page
  tables and descriptor tables of main.asm and `Idt::set_gate`: data, or without a
  caller.
- `realloc` (unreachable), `memset`/`memcpy` (loops over bytes).
- `Graphics::update` and drawing of strings, `sprintf`'s remaining directives,
  `strnlen`, the `copy` templates, ctype, `class_code_to_str`, `scan_all_buses`:
  without a caller. Of the font, `Console` has the set of glyphs, not their pixels.
- Ports and MSRs: single instructions, modelled at their uses. Userland is empty.
- In `Heap`, `map_pages` is one step that succeeds; its lack of memory is in `Vmm`.
  In `Pci`, the effect of `map_pages` on configuration space is what `Vmm` says of a
  page under a huge page, in one step. Behind `Pmm::init` memory does not run out in
  `Console`, and a call of `LinkedList` is not made without the blocks it needs.
- What two processors that share a stack send to the interrupt controllers: after one such
  write the state of the chips is not known to the model, and `PicReady` says nothing.

## Plan

The components with logic of their own are modelled, and the safety properties and
refinements that the runs check are proved. What is left is more of the code: a TLB without
`invlpg` for `Vmm`, and `Heap` over `Vmm` instead of the one-step `map_pages`.
