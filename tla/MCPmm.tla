------------------------------- MODULE MCPmm -------------------------------
(***************************************************************************)
(* TLC instance of Pmm for the disagreements: four frames of two bytes in  *)
(* a word of 16 values, and one region with a partial first frame.         *)
(***************************************************************************)
EXTENDS Pmm

CONSTANTS Reserved

SingleMaps == {<<[type |-> USABLE, base |-> 1, length |-> 7]>>}
=============================================================================
