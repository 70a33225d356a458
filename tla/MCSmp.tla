-------------------------------- MODULE MCSmp --------------------------------
(***************************************************************************)
(* A machine with a boot processor and up to three others.                 *)
(***************************************************************************)
EXTENDS Smp

CONSTANTS c0, c1, c2, c3

lapic(c) == [type |-> LAPIC, id |-> c, enabled |-> TRUE]
disabled(c) == [type |-> LAPIC, id |-> c, enabled |-> FALSE]
ioapic == [type |-> "other"]

MCCpus == {c0, c1, c2, c3}

\* The boot processor first or in the middle, with an I/O APIC entry between.
Four == <<lapic(c0), lapic(c1), ioapic, lapic(c2), lapic(c3)>>
Three == <<lapic(c2), lapic(c0), lapic(c1)>>
WithDisabled == <<lapic(c0), disabled(c1), lapic(c2)>>

Machine(m, l, p) == [madt |-> m, lossy |-> l, prompt |-> p]

MCLateMachines == {Machine(Three, {c1}, FALSE)}
MCDisabledMachines == {Machine(WithDisabled, {}, TRUE)}

MCMachines ==
  {Machine(m, MCCpus, TRUE) : m \in {Four, Three, WithDisabled}}
    \cup {Machine(Three, {c2}, TRUE)} \cup MCLateMachines
==============================================================================
