--------------------------------- MODULE Pci ---------------------------------
(***************************************************************************)
(* Access to the configuration space of PCI devices (hardware/devices/     *)
(* pci.cpp): init, which looks for the MCFG and chooses between ports and  *)
(* memory, and read and write by either.                                   *)
(*                                                                         *)
(* The memory of the MCFG lies below 4 GiB, where new_address_space has    *)
(* mapped huge pages at virtual_physical_base.  map_pages takes the huge   *)
(* page for a table (see Vmm): it writes the new entry into the first page *)
(* of the 2 MiB of configuration space that the huge page maps, and the    *)
(* access that follows goes through the huge page as before.               *)
(***************************************************************************)
EXTENDS Acpi, SequencesExt

CONSTANTS
  Devices,       \* the functions that are read and written
  Registers      \* their registers

Function == [segment : Nat, bus : 0 .. 255, slot : 0 .. 31, function : 0 .. 7]

\* A register of a function, the unit of configuration space here.
Place == [segment : Nat, bus : 0 .. 255, slot : 0 .. 31, function : 0 .. 7, register : Nat]

ASSUME PciAssumption ==
  /\ \A e \in Entries : /\ e.ecm_base \in Nat /\ e.segment \in Nat
                        /\ e.start_bus_number \in 0 .. e.end_bus_number
                        /\ e.end_bus_number \in 0 .. 255
  /\ Devices \subseteq Function
  /\ \A r \in Registers : r \in 0 .. 255 /\ r % 4 = 0

\* Configuration space begins at a multiple of the space of a bus: no bits are shared
\* when the code combines a base with the fields of an address by |.
ASSUME BaseAssumption == \A e \in Entries : e.ecm_base % 2^20 = 0

VARIABLES
  mcfg_entries,
  internal,      \* "iomap" or "mmap": the functions internal_read and internal_write
  access         \* the last call: the place it asked for, those it got to and
                 \* those it wrote

pciVars == <<mcfg_entries, internal, access>>
vars == <<acpiVars, pciVars>>

Quiet == [op |-> "none"]

\* The arguments of an access.
At(d, r) == [segment |-> d.segment, bus |-> d.bus, slot |-> d.slot, function |-> d.function,
             register |-> r]

------------------------------------------------------------------------------
(* init.                                                                    *)

\* One push_back per entry (see LinkedList), then the two functions.
UseMcfg ==
  /\ Found("mcfg", "MCFG")
  /\ mcfg_entries' = mcfg_entries \o Read[i + 1].entries
  /\ internal' = "mmap"
  /\ pc' = "running"
  /\ UNCHANGED <<machine, version, i, madt, access>>

NoMcfg ==
  /\ Missing("mcfg")
  /\ pc' = "running"
  /\ UNCHANGED <<machine, version, i, madt, pciVars>>

PciInit ==
  \/ (LookFurther("mcfg", "MCFG") \/ ReadUnmapped("mcfg")) /\ UNCHANGED pciVars
  \/ UseMcfg \/ NoMcfg

------------------------------------------------------------------------------
(* The address an access puts on the bus.                                   *)

\* Mutant: the fields of the address register are one bit too narrow.
port_address_narrow(p) == p.bus * 2^15 + p.slot * 2^10 + p.function * 2^8 + p.register

\* What is written to port 0xCF8, without the enable bit.
port_address(p) == p.bus * 2^16 + p.slot * 2^11 + p.function * 2^8 + p.register

\* The bits of a byte, by their weight.
Bits(n) == {w \in {1, 2, 4, 8, 16, 32, 64, 128} : (n \div w) % 2 = 1}
Or(a, b) == CHOOSE n \in 0 .. 255 : Bits(n) = Bits(a) \cup Bits(b)

\* Mutant: the function is shifted like the slot of a port address.
mmap_address_wrong(e, p) ==
  e.ecm_base + (p.bus - e.start_bus_number) * 2^20 + p.slot * 2^25
             + p.function * 2^11 + p.register

\* The bus is shifted by 20 and the slot by 25, so that they share bits.
mmap_address(e, p) ==
  LET b == p.bus - e.start_bus_number
  IN  e.ecm_base + Or(b \div 32, p.slot) * 2^25 + (b % 32) * 2^20
                 + p.function * 2^12 + p.register

\* mmap_read and mmap_write skip an entry if the bus is below its start and above
\* its end at once.
Used(p) == {k \in DOMAIN mcfg_entries :
              LET e == mcfg_entries[k]
              IN  ~(e.segment # p.segment /\ p.bus <= e.start_bus_number
                                          /\ p.bus >= e.end_bus_number)}

\* The place behind an address: the host bridge's decoding of ports and of memory.
PortPlace(a) ==
  [segment |-> 0, bus |-> a \div 2^16, slot |-> (a \div 2^11) % 32,
   function |-> (a \div 2^8) % 8, register |-> a % 2^8]

MemoryPlaces(a) ==
  {[segment |-> e.segment, bus |-> e.start_bus_number + (a - e.ecm_base) \div 2^20,
    slot |-> ((a - e.ecm_base) \div 2^15) % 32, function |-> ((a - e.ecm_base) \div 2^12) % 8,
    register |-> (a - e.ecm_base) % 2^12] :
     e \in {x \in Range(mcfg_entries) :
              a \in x.ecm_base .. x.ecm_base + (x.end_bus_number - x.start_bus_number + 1) * 2^20 - 1}}

\* Where map_pages puts the entry for the page of a: eight bytes per page from the
\* start of the huge page.
EntryAddress(a) == (a \div 2^21) * 2^21 + 8 * ((a \div 2^12) % 512)

Mapped(A) == UNION {MemoryPlaces(EntryAddress(a)) : a \in A}
Reached(A) == UNION {MemoryPlaces(a) : a \in A}

------------------------------------------------------------------------------
(* read and write.                                                          *)

Result(op, p, reached, written) ==
  access' = [op |-> op, asked |-> p, places |-> reached, written |-> written]

ReadPort(p) ==
  internal = "iomap" /\ Result("read", p, {PortPlace(port_address(p))}, {})

WritePort(p) ==
  /\ internal = "iomap"
  /\ LET P == {PortPlace(port_address(p))} IN Result("write", p, P, P)

\* The first entry that is not skipped.
ReadMemory(p) ==
  /\ internal = "mmap"
  /\ LET A == IF Used(p) = {} THEN {} ELSE {mmap_address(mcfg_entries[Min(Used(p))], p)}
     IN  Result("read", p, Reached(A), Mapped(A))

\* Every entry that is not skipped.
WriteMemory(p) ==
  /\ internal = "mmap"
  /\ LET A == {mmap_address(mcfg_entries[k], p) : k \in Used(p)}
     IN  Result("write", p, Reached(A), Mapped(A) \cup Reached(A))

\* A bus below the first one of an entry in use would make a negative offset: not
\* asked for.
Access ==
  /\ pc = "running"
  /\ \E d \in Devices, r \in Registers :
       LET p == At(d, r)
       IN  /\ \A k \in DOMAIN mcfg_entries : p.bus >= mcfg_entries[k].start_bus_number
           /\ ReadPort(p) \/ ReadMemory(p) \/ WritePort(p) \/ WriteMemory(p)
  /\ UNCHANGED <<acpiVars, mcfg_entries, internal>>

PciInitState ==
  /\ mcfg_entries = << >>
  /\ internal = "iomap"
  /\ access = Quiet

Boot == (AcpiInit /\ UNCHANGED pciVars) \/ PciInit

Next == Boot \/ Access

Init == AcpiInitState /\ PciInitState

Spec == Init /\ [][Next]_vars

------------------------------------------------------------------------------
(* Properties.                                                              *)

TypeOK ==
  /\ machine \in Machines
  /\ pc \in {"rsdp", "panic", "madt", "mcfg", "running", "fault"}
  /\ version \in 0 .. 2
  /\ i \in 0 .. entries
  /\ madt.signature \in {"none", "APIC"}
  /\ mcfg_entries \in Seq(Entries)
  /\ internal \in {"iomap", "mmap"}
  /\ access # Quiet => access.asked \in Place /\ access.places \cup access.written \subseteq Place

Lists(signature) == \E k \in DOMAIN Listed : Listed[k].signature = signature

FirstListed(signature) ==
  Listed[CHOOSE k \in DOMAIN Listed : /\ Listed[k].signature = signature
                                      /\ \A l \in 1 .. k - 1 : Listed[l].signature # signature]

\* get_table, "Gets a table from a signature inside the RSDT/XSDT" (acpi.hpp:168): a
\* table that the RSDT or XSDT lists is found, whatever lies behind the XSDT, and it
\* is the first one with its signature.
FindsListedTables ==
  pc = "running" =>
    /\ Lists("APIC") => madt = FirstListed("APIC")
    /\ Lists("MCFG") => mcfg_entries = FirstListed("MCFG").entries /\ internal = "mmap"

\* "Gets a table from a signature inside the RSDT/XSDT" (acpi.hpp:168): where none of
\* them is an MCFG, init goes on without PCI Express.
MissingTableIsMissing ==
  Lists("APIC") /\ ~Lists("MCFG") => pc # "fault" /\ (pc = "running" => internal = "iomap")

\* A machine whose firmware has an RSDP and lists a MADT and an MCFG boots, whatever
\* its memory holds behind the XSDT.
BootsIfListed ==
  /\ pc = "panic" => ~\E area \in {machine.ebda, machine.bios} : \E k \in DOMAIN area : Valid(area[k])
  /\ pc = "fault" => ~Lists("APIC") \/ ~Lists("MCFG")

\* "Reads a value from a PCI(e) configuration space" (pci.hpp:101): through the ports
\* an access gets to the function and register asked for, in segment 0.
PortsReachDevice ==
  internal = "iomap" /\ access # Quiet /\ access.asked.segment = 0 =>
    /\ access.places = {access.asked}
    /\ access.written = IF access.op = "write" THEN {access.asked} ELSE {}

\* Through memory, a function in slot 0 of a bus that the only MCFG entry covers is
\* reached.
SlotZeroReached ==
  internal = "mmap" /\ access # Quiet /\ Len(mcfg_entries) = 1 /\ access.asked.slot = 0 =>
    LET e == mcfg_entries[1]
    IN  access.asked.segment = e.segment
        /\ access.asked.bus \in e.start_bus_number .. e.end_bus_number
          => access.places = {access.asked}

\* "Reads a value from a PCI(e) configuration space" (pci.hpp:101): the one of the slot
\* that the call names, on a bus that the only MCFG entry covers.
SlotReached ==
  internal = "mmap" /\ access # Quiet /\ Len(mcfg_entries) = 1 =>
    LET e == mcfg_entries[1]
    IN  access.asked.segment = e.segment
        /\ access.asked.bus \in e.start_bus_number .. e.end_bus_number
          => access.places = {access.asked}

\* "Reads a value" (pci.hpp:101): a read leaves configuration space as it is.
ReadChangesNothing == access.op = "read" => access.written = {}
==============================================================================
