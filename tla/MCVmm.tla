-------------------------------- MODULE MCVmm --------------------------------
(***************************************************************************)
(* Tables of four entries: 256 virtual pages, huge pages of four pages.    *)
(* virtual_physical_base is page 128, with three huge pages that map the   *)
(* twelve frames of RAM; virtual_kernel_base is page 240.                  *)
(***************************************************************************)
EXTENDS Vmm

clean == Empty
\* What a frame holds that was a table before the machine was reset.
stale == [i \in Indices |-> [addr |-> 1, flags |-> {PRESENT, WRITE}]]

MCClean == {clean}
MCRam == {clean, stale}

\* A range over the edge of a table, one that needs its own tables, a huge page
\* beside them, and calls that find a table missing.
MCRequests ==
  { Request("map", 3, 20, 2, {WRITE}),
    Request("map", 64, 30, 1, {WRITE}),
    TrampolineRequest(1, 1),
    Request("unmap", 4, 0, 1, {}),
    Request("unmap", 6, 0, 3, {}),
    Request("update", 3, 0, 2, {}),
    Request("map_huge", 16, 32, 1, {WRITE}),
    Request("unmap_huge", 16, 0, 1, {}),
    Request("update_huge", 16, 0, 1, {}) }

\* LocalApic::init maps one page at virtual_kernel_base, under a huge page.
MCLapicRequests == { LapicRequest(40) }

\* A page that needs tables of its own.
MCMapRequests == { Request("map", 64, 30, 1, {WRITE}) }

\* The hypotheses of the theorems in VmmProofs.  LocalApic::init's page lies in the huge
\* page of the kernel.
ASSUME MCAssumption ==
  /\ NotMixed /\ RoomForTop /\ MapsForWriting /\ WithinPages
  /\ NeverMixed <=> Requests \cap MCLapicRequests = {}
  /\ WindowsLinear <=> Requests \cap MCLapicRequests = {}
==============================================================================
