------------------------------ MODULE MCPages -------------------------------
(***************************************************************************)
(* TLC instances of Pages, and with it Pmm and Ppa: frames of two bytes in *)
(* a word of 16 values, four of them supported by the PMM, two pages in a  *)
(* byte of the PPA's bitmap, and every memory map of at most two entries   *)
(* whose bases and lengths are at, just before and just after the          *)
(* boundaries that the code tests.                                         *)
(***************************************************************************)
EXTENDS Pages

CONSTANTS Reserved

Bases   == {0, 1, 2, 5, 7, 8, 15}
Lengths == {0, 1, 3, 4, 8, 15}

Regions == [type : {USABLE}, base : Bases, length : Lengths]
             \cup {[type |-> Reserved, base |-> 2, length |-> 4]}
Maps    == UNION {[1 .. n -> Regions] : n \in 0 .. 2}
=============================================================================
