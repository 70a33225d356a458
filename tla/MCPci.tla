-------------------------------- MODULE MCPci --------------------------------
(***************************************************************************)
(* Firmware with the RSDP in either area, broken copies of it, both        *)
(* versions, tables in any order or missing, and all that may follow the   *)
(* XSDT.  Memory-mapped configuration space of 64 buses for one segment,   *)
(* or of one bus for two.                                                  *)
(***************************************************************************)
EXTENDS Pci

rsdp(revision) == [signature |-> TRUE, sum |-> 512, revision |-> revision]
broken == [signature |-> TRUE, sum |-> 513, revision |-> 2]
other == [signature |-> FALSE, sum |-> 0, revision |-> 0]

entry(base, segment, end) ==
  [ecm_base |-> base, segment |-> segment, start_bus_number |-> 0, end_bus_number |-> end]

one == <<entry(2^26, 0, 63)>>
two == <<entry(2^21, 0, 0), entry(2^22, 1, 0)>>
MCEntries == {one[1], two[1], two[2]}

apic == [signature |-> "APIC"]
facp == [signature |-> "FACP"]
mcfg(e) == [signature |-> "MCFG", entries |-> e]

Lists3 == {<<facp, apic, mcfg(one)>>, <<mcfg(two), apic>>, <<mcfg(one), mcfg(two), apic>>,
           <<facp, apic>>, <<facp, mcfg(one)>>}
Behinds(n) == [1 .. n -> {[signature |-> "junk"], [signature |-> "unmapped"], mcfg(two)}]

Areas == {<< >>, <<other, rsdp(0)>>, <<broken, rsdp(2)>>, <<rsdp(0), rsdp(2)>>}

MCMachines ==
  {[ebda |-> e, bios |-> b, rsdt |-> t, xsdt |-> <<facp, apic>>,
    behind |-> <<[signature |-> "junk"], [signature |-> "junk"]>>] :
     e \in Areas, b \in Areas, t \in Lists3}
  \cup
  UNION {{[ebda |-> << >>, bios |-> <<broken, rsdp(2)>>, rsdt |-> <<facp>>, xsdt |-> t,
           behind |-> h] : h \in Behinds(Len(t))} : t \in Lists3}

device(segment, bus, slot, function) ==
  [segment |-> segment, bus |-> bus, slot |-> slot, function |-> function]

MCDevices == {device(0, 0, 0, 0), device(0, 1, 0, 3), device(0, 63, 0, 7), device(0, 40, 9, 1),
              device(1, 0, 0, 0)}

MCExpressMachines ==
  {m \in MCMachines : m.ebda = <<other, rsdp(0)>> /\ m.rsdt = <<facp, apic, mcfg(one)>>}
==============================================================================
