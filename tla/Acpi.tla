--------------------------------- MODULE Acpi --------------------------------
(***************************************************************************)
(* The tables of the firmware (hardware/acpi/acpi.cpp): the search for the *)
(* RSDP and get_table, as Acpi::init and then Pci::init use them.  The loop*)
(* over the MADT is in Smp.                                                *)
(*                                                                         *)
(* get_table divides the length of the XSDT, whose entries have 8 bytes, by*)
(* 4, and goes on behind the table as far again as the table is long.      *)
(***************************************************************************)
EXTENDS Sequences, Integers

CONSTANTS
  Machines,    \* the firmware: see AcpiAssumption
  Entries      \* what an MCFG entry may be

\* 16 bytes that may begin a descriptor: whether they begin with "RSD PTR ", the
\* sum of the 20 bytes that are checked, and the revision.
RsdpDescriptor == [signature : BOOLEAN, sum : Nat, revision : Nat]

SdtHeader == [signature : {"APIC", "FACP"}] \cup
             [signature : {"MCFG"}, entries : Seq(Entries)]

\* What the kernel finds where it takes 8 bytes for the address of a table:
\* a table, other memory, or an address that is not mapped.
Memory == SdtHeader \cup [signature : {"junk", "unmapped"}]

ASSUME AcpiAssumption ==
  \A m \in Machines :
    /\ m.ebda \in Seq(RsdpDescriptor) /\ m.bios \in Seq(RsdpDescriptor)
    /\ m.rsdt \in Seq(SdtHeader)
    /\ m.xsdt \in Seq(SdtHeader)
    /\ m.behind \in Seq(Memory) /\ Len(m.behind) = Len(m.xsdt)

VARIABLES
  machine,
  pc,          \* "panic" and "fault" are the two ways to stop
  version,     \* rsdp_info.version, 0 if no RSDP has been found
  i,           \* the loop of get_table
  madt

acpiVars == <<machine, pc, version, i, madt>>

nullptr == [signature |-> "none"]

AcpiInitState ==
  /\ machine \in Machines
  /\ pc = "rsdp"
  /\ version = 0
  /\ i = 0
  /\ madt = nullptr

------------------------------------------------------------------------------
(* bios_detect_rsdp.                                                        *)

bios_calculate_checksum(d) == d.sum % 256

Valid(d) == d.signature /\ bios_calculate_checksum(d) = 0

\* Mutant: the first copy with the signature decides, whole or broken.
detect_signature(area) ==
  LET found == {k \in DOMAIN area : area[k].signature}
      first == CHOOSE k \in found : \A l \in found : k <= l
  IN  IF found = {} THEN 0
      ELSE IF Valid(area[first]) THEN 2 ELSE 0

\* The version of the first descriptor in an area.  The second checksum, for a
\* revision above 0, is over the same 20 bytes.
bios_detect_rsdp(area) ==
  LET found == {k \in DOMAIN area : Valid(area[k])}
  IN  IF found = {} THEN 0
      ELSE LET k == CHOOSE k \in found : \A l \in found : k <= l
           IN  IF area[k].revision = 0 THEN 1 ELSE 2

\* The EBDA first, then the BIOS area.
DetectRsdp ==
  /\ pc = "rsdp"
  /\ version' = IF bios_detect_rsdp(machine.ebda) # 0 THEN bios_detect_rsdp(machine.ebda)
                                                      ELSE bios_detect_rsdp(machine.bios)
  /\ pc' = IF version' = 0 THEN "panic" ELSE "madt"
  /\ UNCHANGED <<machine, i, madt>>

------------------------------------------------------------------------------
(* get_table, in the state at which it has been called.                     *)

Listed == IF version = 2 THEN machine.xsdt ELSE machine.rsdt

\* What the loop reads at each i.
Read == IF version = 2 THEN machine.xsdt \o machine.behind ELSE machine.rsdt

\* Mutant: the last entry is left out.
entries_one_short == Len(Read) - 1

\* The number of entries the code computes.
entries == Len(Read)

Calling(from) == pc = from /\ i < entries

\* Mutant: an entry is two steps long.
LookTwoFurther(from, signature) ==
  /\ Calling(from)
  /\ Read[i + 1].signature \notin {signature, "unmapped"}
  /\ i' = i + 2
  /\ UNCHANGED <<machine, pc, version, madt>>

LookFurther(from, signature) ==
  /\ Calling(from)
  /\ Read[i + 1].signature \notin {signature, "unmapped"}
  /\ i' = i + 1
  /\ UNCHANGED <<machine, pc, version, madt>>

ReadUnmapped(from) ==
  /\ Calling(from)
  /\ Read[i + 1].signature = "unmapped"
  /\ pc' = "fault"
  /\ UNCHANGED <<machine, version, i, madt>>

Found(from, signature) == Calling(from) /\ Read[i + 1].signature = signature

Missing(from) == pc = from /\ i >= entries

\* init, up to the loop over the MADT and behind it.  The result of get_table is
\* used unchecked.
GetMadt ==
  \/ LookFurther("madt", "APIC") \/ ReadUnmapped("madt")
  \/ /\ Found("madt", "APIC")
     /\ madt' = Read[i + 1]
     /\ i' = 0
     /\ pc' = "mcfg"
     /\ UNCHANGED <<machine, version>>
  \/ /\ Missing("madt")
     /\ pc' = "fault"
     /\ UNCHANGED <<machine, version, i, madt>>

AcpiInit == DetectRsdp \/ GetMadt
==============================================================================
