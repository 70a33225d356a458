------------------------------ MODULE PciProofs ------------------------------
(***************************************************************************)
(* The search for the firmware's tables and the accesses to configuration  *)
(* space, for any firmware and any functions.                              *)
(*                                                                         *)
(* BootInv is the loop invariant of get_table: none of the tables it has   *)
(* passed is the one it looks for.  That the last access got where it      *)
(* should rests on the arithmetic of the two addresses.                    *)
(***************************************************************************)
EXTENDS Pci, SequenceTheorems, TLAPS

\* get_table has passed no table with this signature.
NotYet(signature) == \A k \in 1 .. i : Read[k].signature # signature

BootInv ==
  /\ pc = "rsdp" => i = 0
  /\ pc \in {"rsdp", "madt", "mcfg"} => mcfg_entries = << >> /\ internal = "iomap"
  /\ pc # "running" => access = Quiet
  /\ pc = "madt" => NotYet("APIC")
  /\ pc = "mcfg" => NotYet("MCFG")
  /\ pc \in {"mcfg", "running"} /\ Lists("APIC") => madt = FirstListed("APIC")

------------------------------------------------------------------------------
(* The tables.                                                              *)

\* What get_table reads begins with what the firmware lists.
LEMMA ReadType ==
  ASSUME machine \in Machines
  PROVE  /\ Read \in Seq(Memory) /\ Listed \in Seq(SdtHeader)
         /\ Len(Listed) <= Len(Read)
         /\ \A k \in 1 .. Len(Listed) : Read[k] = Listed[k]
<1>1. machine.rsdt \in Seq(SdtHeader) /\ machine.xsdt \in Seq(SdtHeader) /\ machine.behind \in Seq(Memory)
  BY AcpiAssumption
<1>2. SdtHeader \subseteq Memory
  BY DEF Memory
<1>3. machine.rsdt \in Seq(Memory) /\ machine.xsdt \in Seq(Memory)
  <2>1. \A s \in Seq(SdtHeader) : s \in Seq(Memory)
    BY <1>2
  <2> QED
    BY <1>1, <2>1
<1>4. /\ machine.xsdt \o machine.behind \in Seq(Memory)
      /\ Len(machine.xsdt \o machine.behind) = Len(machine.xsdt) + Len(machine.behind)
      /\ \A k \in 1 .. Len(machine.xsdt) : (machine.xsdt \o machine.behind)[k] = machine.xsdt[k]
  <2>1. PICK s \in Seq(Memory), t \in Seq(Memory) : s = machine.xsdt /\ t = machine.behind
    BY <1>1, <1>3
  <2>2. Len(s) \in Nat /\ Len(t) \in Nat
    BY <2>1
  <2>3. /\ s \o t \in Seq(Memory) /\ Len(s \o t) = Len(s) + Len(t)
        /\ \A k \in 1 .. Len(s) : (s \o t)[k] = s[k]
    BY <2>2, ConcatProperties
  <2> QED
    BY <2>1, <2>3
<1>5. CASE version = 2
  <2>1. Len(machine.xsdt) \in Nat /\ Len(machine.behind) \in Nat
    BY <1>1
  <2>2. Read = machine.xsdt \o machine.behind /\ Listed = machine.xsdt
    BY <1>5 DEF Read, Listed
  <2>3. PICK s : s = machine.xsdt \o machine.behind
    OBVIOUS
  <2>4. PICK x, y : x = machine.xsdt /\ y = machine.behind
    OBVIOUS
  <2>5. /\ s \in Seq(Memory) /\ Len(s) = Len(x) + Len(y) /\ Len(x) \in Nat /\ Len(y) \in Nat
        /\ \A k \in 1 .. Len(x) : s[k] = x[k]
    BY <1>4, <2>1, <2>3, <2>4
  <2>6. Len(x) <= Len(s)
    BY <2>5
  <2> QED
    BY <1>1, <2>2, <2>3, <2>4, <2>5, <2>6
<1>6. CASE version # 2
  BY <1>1, <1>3, <1>6 DEF Read, Listed
<1> QED
  BY <1>5, <1>6

\* A table with a signature looked for is a table.
LEMMA TableFound ==
  ASSUME machine \in Machines, NEW k \in 1 .. Len(Read)
  PROVE  /\ Read[k].signature = "APIC" => Read[k].signature \in {"none", "APIC"}
         /\ Read[k].signature = "MCFG" => Read[k].entries \in Seq(Entries)
<1>1. Read[k] \in Memory
  BY ReadType
<1> QED
  BY <1>1 DEF Memory, SdtHeader

\* The table get_table stops at is the first one listed with its signature.
LEMMA FirstFound ==
  ASSUME machine \in Machines, i \in Nat, i < entries, NEW signature, NotYet(signature),
         Read[i + 1].signature = signature, Lists(signature)
  PROVE  Read[i + 1] = FirstListed(signature)
<1> DEFINE First(k) == /\ k \in DOMAIN Listed /\ Listed[k].signature = signature
                       /\ \A l \in 1 .. k - 1 : Listed[l].signature # signature
<1>1. /\ Listed \in Seq(SdtHeader) /\ Len(Listed) \in Nat /\ DOMAIN Listed = 1 .. Len(Listed)
      /\ Len(Read) \in Nat /\ Len(Listed) <= Len(Read)
      /\ \A k \in 1 .. Len(Listed) : Read[k] = Listed[k]
  BY ReadType
<1>2. PICK k \in 1 .. Len(Listed) : Listed[k].signature = signature
  BY <1>1 DEF Lists
<1>3. k > i
  BY <1>1, <1>2 DEF NotYet
<1>4. i + 1 \in 1 .. Len(Listed)
  BY <1>1, <1>3
<1>5. First(i + 1)
  BY <1>1, <1>4 DEF NotYet
<1>6. \A j : First(j) => j = i + 1
  <2> SUFFICES ASSUME NEW j, First(j) PROVE j = i + 1
    OBVIOUS
  <2>1. j \in 1 .. Len(Listed)
    BY <1>1
  <2>2. ~(j < i + 1) /\ ~(i + 1 < j)
    BY <1>1, <1>4, <1>5, <2>1
  <2> QED
    BY <1>4, <2>1, <2>2
<1>7. FirstListed(signature) = Listed[i + 1]
  <2>1. (CHOOSE j \in DOMAIN Listed : /\ Listed[j].signature = signature
                                      /\ \A l \in 1 .. j - 1 : Listed[l].signature # signature) = i + 1
    BY <1>5, <1>6
  <2> QED
    BY <2>1 DEF FirstListed
<1> QED
  BY <1>1, <1>4, <1>7

\* Where get_table has come to the end, or to an address that is not mapped, nothing
\* with its signature is listed.
LEMMA NotListed ==
  ASSUME machine \in Machines, i \in Nat, NEW signature, NotYet(signature),
         i >= entries \/ Read[i + 1].signature = "unmapped"
  PROVE  ~Lists(signature)
<1> SUFFICES ASSUME Lists(signature) PROVE FALSE
  OBVIOUS
<1>1. /\ Listed \in Seq(SdtHeader) /\ Len(Listed) \in Nat /\ DOMAIN Listed = 1 .. Len(Listed)
      /\ Len(Read) \in Nat /\ Len(Listed) <= Len(Read)
      /\ \A k \in 1 .. Len(Listed) : Read[k] = Listed[k]
  BY ReadType
<1>2. PICK k \in 1 .. Len(Listed) : Listed[k].signature = signature
  BY <1>1 DEF Lists
<1>3. k > i
  BY <1>1, <1>2 DEF NotYet
<1>4. i + 1 \in 1 .. Len(Listed)
  BY <1>1, <1>3
<1>5. Read[i + 1].signature = "unmapped"
  BY <1>1, <1>4 DEF entries
<1>6. Listed[i + 1] \in SdtHeader
  BY <1>1, <1>4
<1> QED
  BY <1>1, <1>4, <1>5, <1>6 DEF SdtHeader

------------------------------------------------------------------------------
(* init, of Acpi and of Pci.                                                *)

TablesInv == BootInv /\ FindsListedTables /\ BootsIfListed

\* bios_detect_rsdp gives the version of a valid descriptor, if there is one.
LEMMA RsdpVersion ==
  ASSUME NEW area
  PROVE  /\ bios_detect_rsdp(area) \in 0 .. 2
         /\ bios_detect_rsdp(area) = 0 => ~\E k \in DOMAIN area : Valid(area[k])
  BY DEF bios_detect_rsdp

\* The search for the RSDP.
LEMMA DetectStep ==
  ASSUME TypeOK, TablesInv, DetectRsdp, UNCHANGED pciVars
  PROVE  TypeOK' /\ TablesInv'
<1>1. /\ pc = "rsdp" /\ i = 0 /\ UNCHANGED <<machine, i, madt, mcfg_entries, internal, access>>
      /\ pc' \in {"panic", "madt"}
  BY DEF DetectRsdp, TablesInv, BootInv, pciVars
<1>2. version' \in 0 .. 2
  BY RsdpVersion DEF DetectRsdp
<1>3. pc' = "panic" => ~\E area \in {machine.ebda, machine.bios} : \E k \in DOMAIN area : Valid(area[k])
  BY RsdpVersion DEF DetectRsdp
<1>4. Len(Read)' \in Nat
  <2>1. machine' \in Machines
    BY <1>1 DEF TypeOK
  <2>2. machine'.rsdt \in Seq(SdtHeader) /\ machine'.xsdt \in Seq(SdtHeader)
        /\ machine'.behind \in Seq(Memory)
    BY <2>1, AcpiAssumption
  <2>3. PICK x \in Seq(SdtHeader \cup Memory), y \in Seq(SdtHeader \cup Memory) :
          x = machine'.xsdt /\ y = machine'.behind
    <3>1. \A q \in Seq(SdtHeader) : q \in Seq(SdtHeader \cup Memory)
      OBVIOUS
    <3>2. \A q \in Seq(Memory) : q \in Seq(SdtHeader \cup Memory)
      OBVIOUS
    <3> QED
      BY <2>2, <3>1, <3>2
  <2>4. x \o y \in Seq(SdtHeader \cup Memory)
    BY <2>3, ConcatProperties
  <2>5. Len(x \o y) \in Nat /\ Len(machine'.rsdt) \in Nat
    BY <2>2, <2>4
  <2> QED
    BY <2>3, <2>5 DEF Read
<1>5. TypeOK'
  BY <1>1, <1>2, <1>4 DEF TypeOK, entries
<1>6. BootInv'
  BY <1>1 DEF TablesInv, BootInv, NotYet
<1>7. FindsListedTables' /\ BootsIfListed'
  BY <1>1, <1>3 DEF FindsListedTables, BootsIfListed, Valid, bios_calculate_checksum
<1> QED
  BY <1>5, <1>6, <1>7 DEF TablesInv

\* One turn of the loop of get_table.
LEMMA LookStep ==
  ASSUME TypeOK, TablesInv, NEW from, NEW signature,
         <<from, signature>> \in {<<"madt", "APIC">>, <<"mcfg", "MCFG">>},
         LookFurther(from, signature) \/ ReadUnmapped(from), UNCHANGED pciVars
  PROVE  TypeOK' /\ TablesInv'
<1>1. /\ pc = from /\ i \in Nat /\ i < Len(Read) /\ Len(Read) \in Nat
      /\ UNCHANGED <<machine, version, madt, mcfg_entries, internal, access>>
  <2>1. pc = from /\ i < Len(Read) /\ UNCHANGED <<machine, version, madt, mcfg_entries, internal, access>>
    BY DEF LookFurther, ReadUnmapped, Calling, entries, pciVars
  <2>2. Len(Read) \in Nat
    BY ReadType DEF TypeOK
  <2> QED
    BY <2>1, <2>2 DEF TypeOK
<1>2. Read' = Read /\ Listed' = Listed
  BY <1>1 DEF Read, Listed
<1>3. NotYet(signature)
  BY <1>1 DEF TablesInv, BootInv
<1>4. CASE LookFurther(from, signature)
  <2>1. pc' = pc /\ i' = i + 1 /\ Read[i + 1].signature # signature
    BY <1>4 DEF LookFurther
  <2>2. TypeOK'
    BY <1>1, <1>2, <2>1 DEF TypeOK, entries
  <2>3. NotYet(signature)'
    BY <1>1, <1>2, <1>3, <2>1 DEF NotYet
  <2>4. Lists("APIC")' = Lists("APIC") /\ FirstListed("APIC")' = FirstListed("APIC")
    BY <1>2 DEF Lists, FirstListed
  <2>5. BootInv'
    BY <1>1, <2>1, <2>3, <2>4 DEF TablesInv, BootInv
  <2>6. FindsListedTables' /\ BootsIfListed'
    BY <1>1, <2>1 DEF FindsListedTables, BootsIfListed
  <2> QED
    BY <2>2, <2>5, <2>6 DEF TablesInv
<1>5. CASE ReadUnmapped(from)
  <2>1. pc' = "fault" /\ i' = i /\ Read[i + 1].signature = "unmapped"
    BY <1>5 DEF ReadUnmapped
  <2>2. TypeOK'
    BY <1>1, <1>2, <2>1 DEF TypeOK, entries
  <2>3. BootInv'
    BY <1>1, <2>1 DEF TablesInv, BootInv
  <2>4. ~Lists(signature)
    BY <1>1, <1>3, <2>1, NotListed DEF TypeOK
  <2>5. FindsListedTables' /\ BootsIfListed'
    BY <1>2, <2>1, <2>4 DEF FindsListedTables, BootsIfListed, Lists
  <2> QED
    BY <2>2, <2>3, <2>5 DEF TablesInv
<1> QED
  BY <1>4, <1>5

\* get_table has found the MADT.
LEMMA MadtStep ==
  ASSUME TypeOK, TablesInv, Found("madt", "APIC"), madt' = Read[i + 1], i' = 0, pc' = "mcfg",
         UNCHANGED <<machine, version, pciVars>>
  PROVE  TypeOK' /\ TablesInv'
<1>1. /\ pc = "madt" /\ i \in Nat /\ i < entries /\ Read[i + 1].signature = "APIC" /\ NotYet("APIC")
      /\ Len(Read) \in Nat
  <2>1. Len(Read) \in Nat
    BY ReadType DEF TypeOK
  <2> QED
    BY <2>1 DEF Found, Calling, TypeOK, TablesInv, BootInv, entries
<1>2. Read' = Read /\ Listed' = Listed
  BY DEF Read, Listed
<1>3. TypeOK'
  BY <1>1, <1>2 DEF TypeOK, entries, pciVars
<1>4. Lists("APIC")' = Lists("APIC") /\ FirstListed("APIC")' = FirstListed("APIC")
  BY <1>2 DEF Lists, FirstListed
<1>5. Lists("APIC") => madt' = FirstListed("APIC")
  BY <1>1, FirstFound DEF TypeOK
<1>6. NotYet("MCFG")'
  BY DEF NotYet
<1>7. BootInv'
  BY <1>1, <1>4, <1>5, <1>6 DEF TablesInv, BootInv, pciVars
<1>8. FindsListedTables' /\ BootsIfListed'
  BY DEF FindsListedTables, BootsIfListed
<1> QED
  BY <1>3, <1>7, <1>8 DEF TablesInv

\* There is no MADT, or no MCFG.
LEMMA MissingStep ==
  ASSUME TypeOK, TablesInv, NEW from, NEW signature,
         <<from, signature, pc'>> \in {<<"madt", "APIC", "fault">>, <<"mcfg", "MCFG", "running">>},
         Missing(from), UNCHANGED <<machine, version, i, madt, pciVars>>
  PROVE  TypeOK' /\ TablesInv'
<1>1. pc = from /\ i \in Nat /\ i >= entries /\ NotYet(signature)
  <2>1. Len(Read) \in Nat
    BY ReadType DEF TypeOK
  <2> QED
    BY <2>1 DEF Missing, TypeOK, TablesInv, BootInv, entries
<1>2. Read' = Read /\ Listed' = Listed
  BY DEF Read, Listed
<1>3. ~Lists(signature)
  BY <1>1, NotListed DEF TypeOK
<1>4. TypeOK'
  BY <1>2 DEF TypeOK, entries, pciVars
<1>5. \A s : Lists(s)' = Lists(s) /\ FirstListed(s)' = FirstListed(s)
  BY <1>2 DEF Lists, FirstListed
<1>6. BootInv'
  BY <1>1, <1>5 DEF TablesInv, BootInv, pciVars
<1>7. FindsListedTables' /\ BootsIfListed'
  BY <1>1, <1>3, <1>5 DEF FindsListedTables, BootsIfListed, TablesInv, BootInv
<1> QED
  BY <1>4, <1>6, <1>7 DEF TablesInv

\* get_table has found the MCFG.
LEMMA McfgStep ==
  ASSUME TypeOK, TablesInv, UseMcfg
  PROVE  TypeOK' /\ TablesInv'
<1>1. /\ pc = "mcfg" /\ i \in Nat /\ i < entries /\ Read[i + 1].signature = "MCFG" /\ NotYet("MCFG")
      /\ Len(Read) \in Nat /\ mcfg_entries = << >> /\ internal = "iomap"
  <2>1. Len(Read) \in Nat
    BY ReadType DEF TypeOK
  <2> QED
    BY <2>1 DEF UseMcfg, Found, Calling, TypeOK, TablesInv, BootInv, entries
<1>2. Read' = Read /\ Listed' = Listed
  BY DEF Read, Listed, UseMcfg
<1>3. PICK e \in Seq(Entries) : e = Read[i + 1].entries
  BY <1>1, TableFound DEF TypeOK, entries
<1>4. mcfg_entries' = e
  <2>1. << >> \o e = e
    BY ConcatEmptySeq
  <2> QED
    BY <1>1, <1>3, <2>1 DEF UseMcfg
<1>5. TypeOK'
  BY <1>2, <1>4 DEF TypeOK, entries, UseMcfg
<1>6. \A s : Lists(s)' = Lists(s) /\ FirstListed(s)' = FirstListed(s)
  BY <1>2 DEF Lists, FirstListed
<1>7. BootInv'
  BY <1>1, <1>6 DEF TablesInv, BootInv, UseMcfg
<1>8. Lists("MCFG") => Read[i + 1] = FirstListed("MCFG")
  BY <1>1, FirstFound DEF TypeOK
<1>9. FindsListedTables'
  <2>1. Lists("APIC")' => madt' = FirstListed("APIC")'
    BY <1>7 DEF BootInv, UseMcfg
  <2>2. Lists("MCFG")' => mcfg_entries' = FirstListed("MCFG")'.entries /\ internal' = "mmap"
    BY <1>3, <1>4, <1>6, <1>8 DEF UseMcfg
  <2> QED
    BY <2>1, <2>2 DEF FindsListedTables
<1>10. BootsIfListed'
  BY DEF BootsIfListed, UseMcfg
<1> QED
  BY <1>5, <1>7, <1>9, <1>10 DEF TablesInv

------------------------------------------------------------------------------
(* The addresses.                                                           *)

\* The ports decode what port_address encodes, for a register of one byte.
LEMMA PortDecodes ==
  ASSUME NEW p \in Place, p.register \in 0 .. 255
  PROVE  PortPlace(port_address(p)) = [p EXCEPT !.segment = 0]
<1>1. PICK b \in 0 .. 255, s \in 0 .. 31, f \in 0 .. 7, r \in 0 .. 255 :
        b = p.bus /\ s = p.slot /\ f = p.function /\ r = p.register
  BY DEF Place
<1>2. port_address(p) = b * 65536 + s * 2048 + f * 256 + r
  BY <1>1 DEF port_address
<1>3. PICK a \in Nat : a = b * 65536 + s * 2048 + f * 256 + r
  OBVIOUS
<1>4. a \div 65536 = b
  BY <1>3
<1>5. (a \div 2048) % 32 = s
  <2>1. a \div 2048 = b * 32 + s
    BY <1>3
  <2> QED
    BY <2>1
<1>6. (a \div 256) % 8 = f
  <2>1. a \div 256 = (b * 32 + s) * 8 + f
    BY <1>3
  <2> QED
    BY <2>1
<1>7. a % 256 = r
  BY <1>3
<1> QED
  <2>1. PortPlace(a) = [segment |-> 0, bus |-> b, slot |-> s, function |-> f, register |-> r]
    BY <1>4, <1>5, <1>6, <1>7 DEF PortPlace
  <2>2. p = [segment |-> p.segment, bus |-> b, slot |-> s, function |-> f, register |-> r]
    BY <1>1 DEF Place
  <2> QED
    BY <1>2, <1>3, <2>1, <2>2

\* No two bytes have the same bits.
LEMMA BitsDiffer ==
  ASSUME NEW m \in 0 .. 255, NEW n \in 0 .. 255, Bits(m) = Bits(n)
  PROVE  m = n
<1>1. /\ m % 2 = n % 2 /\ (m \div 2) % 2 = (n \div 2) % 2
      /\ (m \div 4) % 2 = (n \div 4) % 2 /\ (m \div 8) % 2 = (n \div 8) % 2
      /\ (m \div 16) % 2 = (n \div 16) % 2 /\ (m \div 32) % 2 = (n \div 32) % 2
      /\ (m \div 64) % 2 = (n \div 64) % 2 /\ (m \div 128) % 2 = (n \div 128) % 2
  <2>1. /\ m \div 1 = m /\ n \div 1 = n
    OBVIOUS
  <2>2. \A l \in {1, 2, 4, 8, 16, 32, 64, 128} : (m \div l) % 2 = 1 <=> (n \div l) % 2 = 1
    <3> SUFFICES ASSUME NEW l \in {1, 2, 4, 8, 16, 32, 64, 128}
                 PROVE  (m \div l) % 2 = 1 <=> (n \div l) % 2 = 1
      OBVIOUS
    <3>1. l \in Bits(m) <=> l \in Bits(n)
      OBVIOUS
    <3>2. /\ l \in Bits(m) <=> (m \div l) % 2 = 1
          /\ l \in Bits(n) <=> (n \div l) % 2 = 1
      BY Zenon DEF Bits
    <3> QED
      BY <3>1, <3>2
  <2>3. \A l \in {1, 2, 4, 8, 16, 32, 64, 128} : (m \div l) % 2 \in {0, 1} /\ (n \div l) % 2 \in {0, 1}
    OBVIOUS
  <2>4. \A l \in {1, 2, 4, 8, 16, 32, 64, 128} : (m \div l) % 2 = (n \div l) % 2
    BY <2>2, <2>3
  <2> QED
    BY <2>1, <2>4
<1> DEFINE Byte(x) == (x % 2) + 2 * ((x \div 2) % 2) + 4 * ((x \div 4) % 2) + 8 * ((x \div 8) % 2)
                      + 16 * ((x \div 16) % 2) + 32 * ((x \div 32) % 2) + 64 * ((x \div 64) % 2)
                      + 128 * ((x \div 128) % 2)
<1>2. \A x \in 0 .. 255 : x = Byte(x)
  OBVIOUS
<1>3. Byte(m) = Byte(n)
  BY <1>1
<1> QED
  BY <1>2, <1>3

LEMMA OrZero ==
  ASSUME NEW m \in 0 .. 255
  PROVE  Or(m, 0) = m
<1>1. Bits(0) = {}
  <2>1. \A l \in {1, 2, 4, 8, 16, 32, 64, 128} : 0 \div l = 0
    OBVIOUS
  <2> QED
    BY <2>1 DEF Bits
<1>2. Bits(m) \cup Bits(0) = Bits(m)
  BY <1>1
<1>3. ASSUME NEW n \in 0 .. 255, Bits(n) = Bits(m) PROVE n = m
  BY ONLY <1>3, m \in 0 .. 255, n \in 0 .. 255, BitsDiffer, Zenon
<1> QED
  BY <1>2, <1>3, Zenon DEF Or

BusSpace == 1048576
Offset(b, f, r) == b * BusSpace + f * 4096 + r

\* What an entry decodes at an offset.
EntryPlace(e, o) ==
  [segment |-> e.segment, bus |-> e.start_bus_number + o \div 1048576,
   slot |-> (o \div 32768) % 32, function |-> (o \div 4096) % 8, register |-> o % 4096]

InEntry(e, a) ==
  a \in e.ecm_base .. e.ecm_base + (e.end_bus_number - e.start_bus_number + 1) * BusSpace - 1

\* The fields of an offset into memory-mapped configuration space.
LEMMA OffsetPlace ==
  ASSUME NEW b \in 0 .. 255, NEW f \in 0 .. 7, NEW r \in 0 .. 255, NEW e
  PROVE  /\ Offset(b, f, r) \in Nat /\ Offset(b, f, r) < (b + 1) * BusSpace
         /\ EntryPlace(e, Offset(b, f, r)) =
              [segment |-> e.segment, bus |-> e.start_bus_number + b, slot |-> 0, function |-> f,
               register |-> r]
<1>1. PICK o \in Int : o = Offset(b, f, r) /\ o = b * 1048576 + f * 4096 + r
  BY SMT DEF Offset, BusSpace
<1>2. /\ o \div 1048576 = b /\ (o \div 32768) % 32 = 0 /\ (o \div 4096) % 8 = f /\ o % 4096 = r
      /\ o >= 0 /\ o < (b + 1) * 1048576
  <2>1. o \div 1048576 = b /\ o % 4096 = r /\ o >= 0 /\ o < (b + 1) * 1048576
    BY SMT, <1>1
  <2>2. (o \div 32768) % 32 = 0
    <3>1. o \div 32768 = b * 32
      BY SMT, <1>1
    <3> QED
      BY SMT, <3>1
  <2>3. (o \div 4096) % 8 = f
    <3>1. o \div 4096 = (b * 32) * 8 + f
      BY SMT, <1>1
    <3> QED
      BY SMT, <3>1
  <2> QED
    BY SMT, <2>1, <2>2, <2>3
<1> QED
  BY SMT, <1>1, <1>2 DEF EntryPlace, BusSpace

LEMMA OffsetTypes ==
  ASSUME NEW o \in Int, NEW n \in 0 .. 255, o >= 0, o < (n + 1) * 1048576
  PROVE  /\ o \div 1048576 \in 0 .. n /\ (o \div 32768) % 32 \in 0 .. 31
         /\ (o \div 4096) % 8 \in 0 .. 7 /\ o % 4096 \in Nat
<1>1. o \div 1048576 \in 0 .. n
  BY SMT
<1>2. o \div 32768 \in Nat /\ o \div 4096 \in Nat
  BY SMT
<1> QED
  BY SMT, <1>1, <1>2

\* The address, for slot 0.
Fields(base, b, f, r) == base + (b \div 32) * 2^25 + (b % 32) * 2^20 + f * 2^12 + r

LEMMA AddressSum ==
  ASSUME NEW base \in Nat, NEW b \in 0 .. 255, NEW f \in 0 .. 7, NEW r \in 0 .. 255
  PROVE  Fields(base, b, f, r) = base + Offset(b, f, r)
<1>1. 2^25 = 33554432 /\ 2^20 = 1048576 /\ 2^12 = 4096
  BY SMT
<1>2. (b \div 32) * 33554432 + (b % 32) * 1048576 = b * 1048576
  BY SMT
<1> QED
  BY SMT, <1>1, <1>2 DEF Fields, Offset, BusSpace

LEMMA MemoryPlacesAre ==
  ASSUME NEW a
  PROVE  MemoryPlaces(a) = {EntryPlace(e, a - e.ecm_base) : e \in {x \in Range(mcfg_entries) : InEntry(x, a)}}
<1>1. 2^20 = 1048576 /\ 2^15 = 32768 /\ 2^12 = 4096
  BY SMT
<1> QED
  BY SMT, <1>1 DEF MemoryPlaces, EntryPlace, InEntry, BusSpace

LEMMA EntryType ==
  ASSUME NEW e \in Entries
  PROVE  /\ e.ecm_base \in Nat /\ e.segment \in Nat /\ e.start_bus_number \in 0 .. 255
         /\ e.end_bus_number \in 0 .. 255 /\ e.end_bus_number - e.start_bus_number \in 0 .. 255
<1>1. /\ e.ecm_base \in Nat /\ e.segment \in Nat
      /\ e.start_bus_number \in 0 .. e.end_bus_number /\ e.end_bus_number \in 0 .. 255
  BY PciAssumption
<1>2. PICK t \in 0 .. 255 : t = e.end_bus_number
  BY <1>1
<1>3. PICK s \in 0 .. t : s = e.start_bus_number
  BY <1>1, <1>2
<1>4. t \in Nat /\ s \in 0 .. 255 /\ t - s \in 0 .. 255
  OBVIOUS
<1> QED
  BY <1>1, <1>2, <1>3, <1>4

LEMMA EntryRange ==
  ASSUME NEW e \in Entries, NEW a, NEW base \in Nat, NEW n \in 0 .. 255,
         base = e.ecm_base, n = e.end_bus_number - e.start_bus_number
  PROVE  InEntry(e, a) <=> a \in base .. base + (n + 1) * BusSpace - 1
  BY Zenon DEF InEntry

LEMMA OnlyEntry ==
  ASSUME NEW s \in Seq(Entries), Len(s) = 1
  PROVE  s[1] \in Entries /\ DOMAIN s = {1}
  OBVIOUS

\* p lies in slot 0 of a bus that the only entry e covers.
Covered(e, p) ==
  /\ mcfg_entries \in Seq(Entries) /\ Len(mcfg_entries) = 1 /\ mcfg_entries[1] = e
  /\ p \in Place /\ p.register \in 0 .. 255 /\ p.slot = 0
  /\ p.segment = e.segment /\ p.bus \in e.start_bus_number .. e.end_bus_number

\* In slot 0, the memory of the only entry decodes what mmap_address encodes.
LEMMA MemoryDecodes ==
  ASSUME NEW e, NEW p, Covered(e, p)
  PROVE  MemoryPlaces(mmap_address(e, p)) = {p}
<1>0. e \in Entries
  BY OnlyEntry, Zenon DEF Covered
<1>1. PICK f \in 0 .. 7, r \in 0 .. 255 : f = p.function /\ r = p.register
  BY DEF Place, Covered
<1>2. PICK base \in Nat, start \in 0 .. 255, n \in 0 .. 255 :
        base = e.ecm_base /\ start = e.start_bus_number /\ n = e.end_bus_number - e.start_bus_number
  BY <1>0, EntryType
<1>3. PICK t \in 0 .. 255 : t = e.end_bus_number /\ n = t - start
  BY <1>0, <1>2, EntryType
<1>4. PICK bus \in start .. t : bus = p.bus
  BY <1>2, <1>3 DEF Covered
<1>5. PICK b \in 0 .. 255 : b = bus - start /\ b <= n
  <2>1. n = t - start
    BY <1>3
  <2>2. bus - start \in 0 .. 255 /\ bus - start <= n
    BY <2>1
  <2> QED
    BY <2>2
<1>6. b \div 32 \in 0 .. 255 /\ bus = start + b
  BY <1>5
<1>7. PICK o \in Nat :
        /\ o = Offset(b, f, r) /\ o < (b + 1) * BusSpace
        /\ EntryPlace(e, o) = [segment |-> e.segment, bus |-> e.start_bus_number + b, slot |-> 0,
                               function |-> f, register |-> r]
  <2>1. /\ Offset(b, f, r) \in Nat /\ Offset(b, f, r) < (b + 1) * BusSpace
        /\ EntryPlace(e, Offset(b, f, r)) =
             [segment |-> e.segment, bus |-> e.start_bus_number + b, slot |-> 0,
              function |-> f, register |-> r]
    BY OffsetPlace
  <2> QED
    BY <2>1
<1>8. mmap_address(e, p) = base + o
  <2>1. Or(b \div 32, p.slot) = b \div 32
    <3>1. p.slot = 0
      BY Zenon DEF Covered
    <3>2. Or(b \div 32, 0) = b \div 32
      BY Zenon, <1>6, OrZero
    <3> QED
      BY Zenon, <3>1, <3>2
  <2>2. mmap_address(e, p) = Fields(base, b, f, r)
    BY <1>1, <1>2, <1>4, <1>5, <2>1 DEF mmap_address, Fields
  <2>3. Fields(base, b, f, r) = base + Offset(b, f, r)
    BY ONLY base \in Nat, b \in 0 .. 255, f \in 0 .. 7, r \in 0 .. 255, AddressSum, ZenonT(60)
  <2> QED
    BY Zenon, <1>7, <2>2, <2>3
<1>9. InEntry(e, base + o)
  <2>1. base + o \in base .. base + (n + 1) * BusSpace - 1
    <3>1. o < (b + 1) * BusSpace /\ b <= n
      BY <1>5, <1>7
    <3> QED
      BY SMT, <3>1 DEF BusSpace
  <2>2. InEntry(e, base + o) <=> base + o \in base .. base + (n + 1) * BusSpace - 1
    BY Zenon, <1>2 DEF InEntry
  <2> QED
    BY Zenon, <2>1, <2>2
<1>10. (base + o) - e.ecm_base = o
  <2>1. (base + o) - base = o
    BY SMT
  <2> QED
    BY <1>2, <2>1
<1>11. Range(mcfg_entries) = {e}
  BY DEF Range, Covered
<1>12. MemoryPlaces(base + o) = {EntryPlace(e, o)}
  BY <1>9, <1>10, <1>11, MemoryPlacesAre
<1>13. p = [segment |-> e.segment, bus |-> start + b, slot |-> 0, function |-> f, register |-> r]
  BY <1>1, <1>4, <1>6 DEF Place, Covered
<1> QED
  BY <1>2, <1>7, <1>8, <1>12, <1>13

\* Everything memory decodes is a place.
LEMMA MemoryPlacesType ==
  ASSUME mcfg_entries \in Seq(Entries), NEW a
  PROVE  MemoryPlaces(a) \subseteq Place
<1> SUFFICES ASSUME NEW e \in Range(mcfg_entries), InEntry(e, a)
             PROVE  EntryPlace(e, a - e.ecm_base) \in Place
  BY MemoryPlacesAre
<1>1. e \in Entries
  BY DEF Range
<1>2. PICK base \in Nat, start \in 0 .. 255, n \in 0 .. 255 :
        base = e.ecm_base /\ start = e.start_bus_number /\ n = e.end_bus_number - e.start_bus_number
  BY <1>1, EntryType
<1>3. PICK t \in 0 .. 255 : t = e.end_bus_number /\ n = t - start
  BY <1>1, <1>2, EntryType
<1>4. a \in base .. base + (n + 1) * BusSpace - 1
  BY <1>1, <1>2, EntryRange
<1>5. PICK o \in Int : o = a - base /\ o >= 0 /\ o < (n + 1) * 1048576
  BY SMT, <1>4 DEF BusSpace
<1>6. /\ o \div 1048576 \in 0 .. n /\ (o \div 32768) % 32 \in 0 .. 31
      /\ (o \div 4096) % 8 \in 0 .. 7 /\ o % 4096 \in Nat
  <2>1. o >= 0 /\ o < (n + 1) * 1048576
    BY <1>5
  <2> QED
    BY ONLY o \in Int, n \in 0 .. 255, <2>1, SMT
<1>7. PICK q \in 0 .. n, s \in 0 .. 31, f \in 0 .. 7, r \in Nat :
        q = o \div 1048576 /\ s = (o \div 32768) % 32 /\ f = (o \div 4096) % 8 /\ r = o % 4096
  BY SMTT(30), <1>6
<1>8. start + q \in 0 .. 255
  <2>1. n = t - start
    BY <1>3
  <2> QED
    BY SMT, <2>1
<1>9. EntryPlace(e, o) = [segment |-> e.segment, bus |-> start + q, slot |-> s, function |-> f,
                          register |-> r]
  BY SMT, <1>2, <1>7 DEF EntryPlace
<1>10. e.segment \in Nat
  BY <1>1, EntryType
<1>11. EntryPlace(e, o) \in Place
  BY <1>8, <1>9, <1>10 DEF Place
<1> QED
  BY <1>2, <1>5, <1>11

------------------------------------------------------------------------------
(* read and write.                                                          *)

PlacesOK == PortsReachDevice /\ SlotZeroReached

\* An access gets where it was asked to, and changes nothing else of the model.
LEMMA AccessStep ==
  ASSUME TypeOK, TablesInv, Access
  PROVE  TypeOK' /\ TablesInv' /\ PlacesOK'
<1>1. /\ pc = "running" /\ UNCHANGED <<machine, pc, version, i, madt, mcfg_entries, internal>>
  BY DEF Access, acpiVars
<1>2. PICK d \in Devices, r \in Registers :
        LET p == At(d, r) IN ReadPort(p) \/ ReadMemory(p) \/ WritePort(p) \/ WriteMemory(p)
  BY DEF Access
<1>3. PICK p \in Place : p = At(d, r) /\ p.register \in 0 .. 255
  <2>1. d \in Function /\ r \in 0 .. 255
    BY PciAssumption
  <2>2. At(d, r) \in Place /\ At(d, r).register = r
    BY <2>1 DEF At, Function, Place
  <2> QED
    BY <2>1, <2>2
<1>4. ReadPort(p) \/ ReadMemory(p) \/ WritePort(p) \/ WriteMemory(p)
  BY <1>2, <1>3
<1>5. PICK t \in Place : t = PortPlace(port_address(p)) /\ t = [p EXCEPT !.segment = 0]
  BY <1>3, PortDecodes DEF Place
<1>6. /\ mcfg_entries \in Seq(Entries)
      /\ \A A : Reached(A) \subseteq Place /\ Mapped(A) \subseteq Place
  <2>1. mcfg_entries \in Seq(Entries)
    BY DEF TypeOK
  <2> QED
    BY <2>1, MemoryPlacesType DEF Reached, Mapped
<1>7. /\ access'.asked = p /\ access'.op \in {"read", "write"} /\ access' # Quiet
      /\ access'.places \cup access'.written \subseteq Place
  BY <1>4, <1>5, <1>6 DEF ReadPort, ReadMemory, WritePort, WriteMemory, Result, Quiet
<1>8. TypeOK'
  BY <1>1, <1>7 DEF TypeOK, entries, Read
<1>9. TablesInv'
  BY <1>1 DEF TablesInv, BootInv, FindsListedTables, BootsIfListed, Lists, FirstListed, Listed, NotYet,
     Read
<1>10. PortsReachDevice'
  <2> SUFFICES ASSUME internal = "iomap", p.segment = 0
               PROVE  /\ access'.places = {p}
                      /\ access'.written = IF access'.op = "write" THEN {p} ELSE {}
    BY <1>1, <1>7 DEF PortsReachDevice
  <2>1. t = p
    BY <1>5 DEF Place
  <2> QED
    BY <1>4, <1>5, <2>1 DEF ReadPort, WritePort, ReadMemory, WriteMemory, Result
<1>11. SlotZeroReached'
  <2> DEFINE e == mcfg_entries[1]
  <2> SUFFICES ASSUME internal = "mmap", Len(mcfg_entries) = 1, p.slot = 0, p.segment = e.segment,
                      p.bus \in e.start_bus_number .. e.end_bus_number
               PROVE  access'.places = {p}
    BY <1>1, <1>7 DEF SlotZeroReached
  <2>1. e \in Entries /\ DOMAIN mcfg_entries = {1}
    BY <1>6, OnlyEntry
  <2>2. Used(p) = {1}
    BY <2>1 DEF Used
  <2>3. MemoryPlaces(mmap_address(e, p)) = {p}
    BY <1>3, <1>6, <2>1, MemoryDecodes DEF Covered
  <2>4. Min({1}) = 1
    BY DEF Min
  <2>5. Reached({mmap_address(e, p)}) = {p}
    BY <2>3 DEF Reached
  <2>6. {mmap_address(mcfg_entries[k], p) : k \in Used(p)} = {mmap_address(e, p)}
    BY <2>2
  <2> QED
    BY <1>4, <2>2, <2>4, <2>5, <2>6 DEF ReadPort, WritePort, ReadMemory, WriteMemory, Result
<1> QED
  BY <1>8, <1>9, <1>10, <1>11 DEF PlacesOK

------------------------------------------------------------------------------
(* The theorems.                                                            *)

PciInv == TypeOK /\ TablesInv /\ PlacesOK

LEMMA InitInv == Init => PciInv
<1> SUFFICES ASSUME Init PROVE PciInv
  OBVIOUS
<1>1. /\ machine \in Machines /\ pc = "rsdp" /\ version = 0 /\ i = 0 /\ madt = nullptr
      /\ mcfg_entries = << >> /\ internal = "iomap" /\ access = Quiet
  BY DEF Init, AcpiInitState, PciInitState
<1>2. Len(Read) \in Nat
  BY <1>1, ReadType
<1>3. TypeOK
  BY <1>1, <1>2 DEF TypeOK, entries, nullptr
<1> QED
  BY <1>1, <1>3 DEF PciInv, TablesInv, PlacesOK, BootInv, FindsListedTables, BootsIfListed,
     PortsReachDevice, SlotZeroReached

\* Until init has returned there has been no access.
LEMMA BootKeepsPlaces ==
  ASSUME TablesInv, pc # "running", UNCHANGED access
  PROVE  PlacesOK'
  BY DEF TablesInv, BootInv, PlacesOK, PortsReachDevice, SlotZeroReached

LEMMA NextInv == PciInv /\ [Next]_vars => PciInv'
<1> SUFFICES ASSUME TypeOK, TablesInv, PlacesOK, [Next]_vars PROVE PciInv'
  BY DEF PciInv
<1>1. CASE AcpiInit /\ UNCHANGED pciVars
  <2>1. pc # "running" /\ UNCHANGED access
    BY <1>1 DEF AcpiInit, DetectRsdp, GetMadt, LookFurther, ReadUnmapped, Found, Missing, Calling, pciVars
  <2>2. CASE DetectRsdp
    BY <1>1, <2>1, <2>2, DetectStep, BootKeepsPlaces DEF PciInv
  <2>3. CASE LookFurther("madt", "APIC") \/ ReadUnmapped("madt")
    BY <1>1, <2>1, <2>3, LookStep, BootKeepsPlaces DEF PciInv
  <2>4. CASE /\ Found("madt", "APIC") /\ madt' = Read[i + 1] /\ i' = 0 /\ pc' = "mcfg"
             /\ UNCHANGED <<machine, version>>
    BY <1>1, <2>1, <2>4, MadtStep, BootKeepsPlaces DEF PciInv
  <2>5. CASE Missing("madt") /\ pc' = "fault" /\ UNCHANGED <<machine, version, i, madt>>
    BY <1>1, <2>1, <2>5, MissingStep, BootKeepsPlaces DEF PciInv
  <2> QED
    BY <1>1, <2>2, <2>3, <2>4, <2>5 DEF AcpiInit, GetMadt
<1>2. CASE PciInit
  <2>1. pc # "running" /\ UNCHANGED access
    BY <1>2 DEF PciInit, UseMcfg, NoMcfg, LookFurther, ReadUnmapped, Found, Missing, Calling, pciVars
  <2>2. CASE (LookFurther("mcfg", "MCFG") \/ ReadUnmapped("mcfg")) /\ UNCHANGED pciVars
    BY <2>1, <2>2, LookStep, BootKeepsPlaces DEF PciInv
  <2>3. CASE UseMcfg
    BY <2>1, <2>3, McfgStep, BootKeepsPlaces DEF PciInv
  <2>4. CASE NoMcfg
    BY <2>1, <2>4, MissingStep, BootKeepsPlaces DEF PciInv, NoMcfg
  <2> QED
    BY <1>2, <2>2, <2>3, <2>4 DEF PciInit
<1>3. CASE Access
  BY <1>3, AccessStep DEF PciInv
<1>4. CASE UNCHANGED vars
  <2>1. UNCHANGED <<machine, pc, version, i, madt, mcfg_entries, internal, access>>
    BY <1>4 DEF vars, acpiVars, pciVars
  <2>2. TypeOK'
    BY Zenon, <2>1 DEF TypeOK, entries, Read
  <2>3. TablesInv'
    BY ZenonT(30), <2>1 DEF TablesInv, BootInv, NotYet, Read, FindsListedTables, BootsIfListed, Lists, FirstListed,
       Listed
  <2>4. PlacesOK'
    BY <2>1 DEF PlacesOK, PortsReachDevice, SlotZeroReached
  <2> QED
    BY <2>2, <2>3, <2>4 DEF PciInv
<1> QED
  BY <1>1, <1>2, <1>3, <1>4 DEF Next, Boot

THEOREM PciInvariant == Spec => []PciInv
  BY InitInv, NextInv, PTL DEF Spec

\* The variables of Acpi and Pci keep their types; an access asks for a place and gets to
\* places.
THEOREM TypeCorrect == Spec => []TypeOK
<1>1. PciInv => TypeOK
  BY DEF PciInv
<1> QED
  BY <1>1, PciInvariant, PTL

\* get_table finds the first table listed with a signature, in any firmware.
THEOREM TablesFound == Spec => []FindsListedTables
<1>1. PciInv => FindsListedTables
  BY DEF PciInv, TablesInv
<1> QED
  BY <1>1, PciInvariant, PTL

\* Firmware with a valid RSDP does not make the kernel panic, and firmware that lists
\* both tables does not make it fault.
THEOREM ListedBoots == Spec => []BootsIfListed
<1>1. PciInv => BootsIfListed
  BY DEF PciInv, TablesInv
<1> QED
  BY <1>1, PciInvariant, PTL

\* Through the ports every function of segment 0 is reached, and no other.
THEOREM PortsReach == Spec => []PortsReachDevice
<1>1. PciInv => PortsReachDevice
  BY DEF PciInv, PlacesOK
<1> QED
  BY <1>1, PciInvariant, PTL

\* Through memory every function in slot 0 of a bus of the only entry is reached.
THEOREM MemoryReachesSlotZero == Spec => []SlotZeroReached
<1>1. PciInv => SlotZeroReached
  BY DEF PciInv, PlacesOK
<1> QED
  BY <1>1, PciInvariant, PTL

==============================================================================
