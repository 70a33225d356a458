-------------------------------- MODULE MCList -------------------------------
(***************************************************************************)
(* Four blocks, two values: every arrangement of up to four nodes.     *)
(***************************************************************************)
EXTENDS LinkedList

MCNodes == 1 .. 4
==============================================================================
