-------------------------------- MODULE MCHeap -------------------------------
(***************************************************************************)
(* Two processors, pages of 32 bytes, and requests of one word, of a whole *)
(* page less the header, and of none.                                      *)
(***************************************************************************)
EXTENDS Heap

AllOps == {"malloc", "calloc", "free"}
==============================================================================
