------------------------------ MODULE MCConsole ------------------------------
(***************************************************************************)
(* Screens of twelve or sixteen columns and of three, five or five and a   *)
(* half rows, and the mode the header asks for; firmware without ACPI and  *)
(* with one or two versions; up to three processors, whose numbers have one*)
(* to three digits, and up to two MCFG entries, so that the lines fit      *)
(* exactly, end at the right edge, or run over the bottom.  Two more       *)
(* screens, MCOtherMachines, are higher than wide, or cut in half the last *)
(* of their columns.                                                       *)
(***************************************************************************)
EXTENDS Console

info(w, h, pitch) == [width |-> w, height |-> h, pitch |-> pitch, bpp |-> 32]
Infos == {info(96, 80, 384), info(128, 88, 512), info(128, 48, 640), mb_header}

cpu(id, booted) == [id |-> id, booted |-> booted]
Cpus == {<< >>, <<cpu(1, TRUE)>>, <<cpu(20, TRUE), cpu(255, FALSE)>>,
         <<cpu(9, TRUE), cpu(10, TRUE), cpu(105, TRUE)>>}

base(n) == [k \in 1 .. 16 |-> IF k = 9 THEN n ELSE IF k = 10 THEN 11 ELSE 0]
entry(n, segment, end) ==
  [ecm_base |-> base(n), segment |-> segment, start_bus_number |-> 0, end_bus_number |-> end]
Mcfgs == {<< >>, <<entry(14, 0, 255)>>, <<entry(14, 0, 255), entry(0, 100, 63)>>}

OemIds == {<< >>, <<"B", "O", "C">>, <<"B", "O", "C", "H", "S", ".">>}

MCPrintable == Words \cup ToSet(Figure) \cup {"x"} \cup UNION {ToSet(o) : o \in OemIds}

MCOtherMachines ==
  [extended_cpuid : {TRUE}, long_mode : {TRUE}, multiboot : {TRUE},
   info : {info(80, 128, 320), info(100, 80, 512)}, version : {2}, oem_id : OemIds,
   cpus : Cpus, express : {FALSE}, mcfg : {<< >>}]

MCMachines ==
  MCOtherMachines
  \cup
  [extended_cpuid : {TRUE}, long_mode : {TRUE}, multiboot : {TRUE}, info : Infos,
   version : {0, 2}, oem_id : OemIds, cpus : Cpus, express : BOOLEAN, mcfg : Mcfgs]
  \cup
  [extended_cpuid : BOOLEAN, long_mode : BOOLEAN, multiboot : BOOLEAN, info : Infos,
   version : {1}, oem_id : {<< >>}, cpus : {<< >>}, express : {FALSE}, mcfg : {<< >>}]
==============================================================================
