------------------------------- MODULE Pages --------------------------------
(***************************************************************************)
(* Both page managers on one memory map: the physical memory manager of    *)
(* pmm.c (Pmm) and the page bitmap allocator of main.c (Ppa).              *)
(*                                                                         *)
(* kmain calls pmm_init, and later prints the free pages of the PPA as if  *)
(* eX_PPA_Init had been called as well; it is not.  Here it may be, once,  *)
(* before pmm_init and after the check that there is a memory map.         *)
(***************************************************************************)
EXTENDS Pmm

CONSTANT BITS   \* pages in a byte of the PPA's bitmap

ASSUME BitsAssumption == BITS \in Nat \ {0} /\ BITS <= PMM_PAGE_SIZE

VARIABLES
  ppaPc, entry, highest_address, eX_PageCount, eX_PageBitmap, usedBits,
  eX_FreePageCount, strayed

Ppa == INSTANCE Ppa WITH eX_PAGE_SIZE <- PMM_PAGE_SIZE

ppaState  == <<ppaPc, entry, highest_address, eX_PageCount, eX_PageBitmap,
               usedBits, eX_FreePageCount, strayed>>
pagesVars == <<vars, ppaState>>

PagesInit == Init /\ Ppa!PpaInit

\* eX_PPA_Init has begun and has neither returned nor halted the kernel.
Running == ppaPc \in {"place", "release"} \/ (ppaPc = "highest" /\ entry > 1)

PagesNext ==
  \/ /\ pc = "boot" /\ response # NoResponse
     /\ Ppa!eX_PPA_Init
     /\ UNCHANGED vars
  \/ /\ ~Running /\ ppaPc # "halted"
     /\ Next
     /\ UNCHANGED ppaState

PagesSpec == PagesInit /\ [][PagesNext]_pagesVars

-----------------------------------------------------------------------------
(***************************************************************************)
(* Properties.                                                             *)
(***************************************************************************)

\* After eX_PPA_Init exactly the complete pages of usable regions are free that
\* hold no byte of the bitmap, wherever it came to lie (main.c:1693-1797).
PpaFreePagesExact == Ppa!FreePagesExact

\* The PPA's counter is the number of its free pages (main.c:1775, 1794).
PpaFreeCountExact == Ppa!FreeCountExact

\* The PPA touches no bit outside its bitmap (main.c:1673-1687).
PpaStaysInBitmap == Ppa!StaysInBitmap
=============================================================================
