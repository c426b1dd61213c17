-------------------------------- MODULE Pmm --------------------------------
(***************************************************************************)
(* The physical memory manager (src/src/pmm.c): a page frame allocator     *)
(* over two bitmaps, set up from the memory map of the boot loader.        *)
(*                                                                         *)
(* A bitmap is the set of the frames whose bit is 1.  Addresses, lengths   *)
(* and the frame counter are unsigned words of WORD values.  pmm_init is   *)
(* one step for each memory map entry, in the order of the code; the other *)
(* operations are one step each: no interrupt handler uses the manager.    *)
(***************************************************************************)
EXTENDS Integers, Sequences, FiniteSets

CONSTANTS
  PMM_PAGE_SIZE,   \* bytes of a frame
  PMM_MAX_PAGES,   \* frames the bitmaps have a bit for
  WORD,            \* number of uint64_t values
  Types,           \* memory map entry types
  USABLE,          \* LIMINE_MEMMAP_USABLE
  MemoryMaps,      \* the responses the boot loader may give
  NoResponse,      \* a null response, or one with null entries
  Addresses,       \* addresses handed to pmm_free_page
  MaxAllocs        \* bound on successful allocations

PMM_MAX_PHYS_ADDR == PMM_PAGE_SIZE * PMM_MAX_PAGES

Word   == 0 .. WORD - 1
Frames == 0 .. PMM_MAX_PAGES - 1
Entry  == [type : Types, base : Word, length : Word]

ASSUME PmmAssumption ==
  /\ PMM_PAGE_SIZE \in Nat \ {0}
  /\ PMM_MAX_PAGES \in Nat \ {0}
  /\ WORD \in Nat
  /\ PMM_MAX_PHYS_ADDR + PMM_PAGE_SIZE <= WORD
  /\ MemoryMaps \subseteq Seq(Entry)
  /\ NoResponse \notin MemoryMaps
  \* pmm_init uses the index of an entry as a bit number.
  /\ \A map \in MemoryMaps : Len(map) <= PMM_MAX_PAGES
  /\ Addresses \subseteq Word
  /\ MaxAllocs \in Nat

VARIABLES
  response,             \* eX_MemoryMapRequest.response
  pmm_bitmap,
  pmm_usable_bitmap,
  pmm_available_pages,
  pmm_initialized,
  pc,                   \* "boot", "entries", "ready" or "failed"
  i,                    \* pmm_init's loop variable
  allocs,               \* how often pmm_alloc_page has returned a frame
  granted               \* granted[f]: holders of f, a successful free ends one

vars == <<response, pmm_bitmap, pmm_usable_bitmap, pmm_available_pages,
          pmm_initialized, pc, i, allocs, granted>>

\* The bitmaps, the counter and the flag are in the BSS.
Init ==
  /\ response \in MemoryMaps \cup {NoResponse}
  /\ pmm_bitmap = {}
  /\ pmm_usable_bitmap = {}
  /\ pmm_available_pages = 0
  /\ pmm_initialized = FALSE
  /\ pc = "boot"
  /\ i = 0
  /\ allocs = 0
  /\ granted = [f \in Frames |-> 0]

-----------------------------------------------------------------------------
(* pmm_init                                                                *)

Add(a, b) == (a + b) % WORD

Sub(a, b) == (a - b) % WORD

pmm_init ==
  /\ pc = "boot"
  /\ \/ /\ response = NoResponse
        /\ pc' = "failed"
        /\ UNCHANGED <<pmm_bitmap, pmm_usable_bitmap, pmm_available_pages, pmm_initialized>>
     \/ /\ response # NoResponse
        /\ pmm_bitmap' = Frames
        /\ pmm_usable_bitmap' = {}
        /\ pmm_available_pages' = 0
        /\ pmm_initialized' = FALSE
        /\ pc' = "entries"
  /\ UNCHANGED <<response, i, allocs, granted>>

\* Where the entry ends, cut at the highest supported address.
EntryEnd(e) ==
  IF e.length > PMM_MAX_PHYS_ADDR - e.base THEN PMM_MAX_PHYS_ADDR
                                           ELSE Add(e.base, e.length)

\* Variant: a partial first frame is included.
FirstPageRoundedDown(e) == e.base \div PMM_PAGE_SIZE

first_page(e) == Add(e.base, PMM_PAGE_SIZE - 1) \div PMM_PAGE_SIZE
last_page(e)  == EntryEnd(e) \div PMM_PAGE_SIZE

\* The frames the inner loop visits.
EntryFrames(e) ==
  IF e.type = USABLE /\ e.base < PMM_MAX_PHYS_ADDR
    THEN {f \in Frames : first_page(e) <= f /\ f < last_page(e)}
    ELSE {}

\* The frames the inner loop takes out of pmm_bitmap.  Its test reads bit i,
\* the index of the entry, so it has one outcome for all frames of the entry.
ClearedFrames(e) == IF i \in pmm_bitmap THEN {} ELSE EntryFrames(e) \ {0}

pmm_init_entry ==
  /\ pc = "entries"
  /\ i < Len(response)
  /\ LET e == response[i + 1] IN
       /\ pmm_usable_bitmap' = pmm_usable_bitmap \cup EntryFrames(e)
       /\ pmm_bitmap' = pmm_bitmap \ ClearedFrames(e)
       /\ pmm_available_pages' = Add(pmm_available_pages, Cardinality(ClearedFrames(e)))
  /\ i' = i + 1
  /\ UNCHANGED <<response, pmm_initialized, pc, allocs, granted>>

pmm_init_done ==
  /\ pc = "entries"
  /\ i >= Len(response)
  /\ pmm_initialized' = TRUE
  /\ pc' = "ready"
  /\ UNCHANGED <<response, pmm_bitmap, pmm_usable_bitmap, pmm_available_pages,
                 i, allocs, granted>>

-----------------------------------------------------------------------------
(* pmm_alloc_page, pmm_free_page and pmm_free_pages                        *)

\* The scan of pmm_alloc_page stops at f.
StopsAt(f) == f \in pmm_usable_bitmap /\ f \in pmm_bitmap

\* bitmap_set changes nothing here: the scan has found the bit set.
pmm_alloc_page ==
  /\ pc # "entries"
  /\ \/ \E f \in Frames \ {0} :
          /\ pmm_initialized
          /\ StopsAt(f)
          /\ \A g \in 1 .. f - 1 : ~StopsAt(g)
          /\ allocs < MaxAllocs
          /\ pmm_bitmap' = pmm_bitmap \cup {f}
          /\ pmm_available_pages' = Sub(pmm_available_pages, 1)
          /\ allocs' = allocs + 1
          /\ granted' = [granted EXCEPT ![f] = @ + 1]
     \/ /\ ~pmm_initialized \/ \A f \in Frames \ {0} : ~StopsAt(f)
        /\ UNCHANGED <<pmm_bitmap, pmm_available_pages, allocs, granted>>
  /\ UNCHANGED <<response, pmm_usable_bitmap, pmm_initialized, pc, i>>

FrameOf(address) == address \div PMM_PAGE_SIZE

\* Variants: the check against double frees, or the check against reserved
\* memory, is missing.
FreeableTwice(address) ==
  /\ pmm_initialized /\ address # 0 /\ address % PMM_PAGE_SIZE = 0
  /\ FrameOf(address) < PMM_MAX_PAGES
  /\ FrameOf(address) \in pmm_usable_bitmap
FreeableReserved(address) ==
  /\ pmm_initialized /\ address # 0 /\ address % PMM_PAGE_SIZE = 0
  /\ FrameOf(address) < PMM_MAX_PAGES
  /\ FrameOf(address) \in pmm_bitmap

\* No early return of pmm_free_page is taken.
Freeable(address) ==
  /\ pmm_initialized
  /\ address # 0
  /\ address % PMM_PAGE_SIZE = 0
  /\ FrameOf(address) < PMM_MAX_PAGES
  /\ FrameOf(address) \in pmm_usable_bitmap
  /\ FrameOf(address) \in pmm_bitmap

pmm_free_page(address) ==
  /\ pc # "entries"
  /\ \/ /\ Freeable(address)
        /\ pmm_bitmap' = pmm_bitmap \ {FrameOf(address)}
        /\ pmm_available_pages' = Add(pmm_available_pages, 1)
        /\ granted' = [granted EXCEPT ![FrameOf(address)] = IF @ > 0 THEN @ - 1 ELSE 0]
     \/ /\ ~Freeable(address)
        /\ UNCHANGED <<pmm_bitmap, pmm_available_pages, granted>>
  /\ UNCHANGED <<response, pmm_usable_bitmap, pmm_initialized, pc, i, allocs>>

pmm_free_pages == IF pmm_initialized THEN pmm_available_pages ELSE 0

Next ==
  \/ pmm_init
  \/ pmm_init_entry
  \/ pmm_init_done
  \/ pmm_alloc_page
  \/ \E address \in Addresses : pmm_free_page(address)

Spec == Init /\ [][Next]_vars

-----------------------------------------------------------------------------
(***************************************************************************)
(* Properties.                                                             *)
(***************************************************************************)

\* The variables have the values their C types allow, in and after pmm_init.
TypeOK ==
  /\ response \in MemoryMaps \cup {NoResponse}
  /\ pmm_bitmap \subseteq Frames
  /\ pmm_usable_bitmap \subseteq Frames
  /\ pmm_available_pages \in Word
  /\ pmm_initialized \in BOOLEAN
  /\ pc \in {"boot", "entries", "ready", "failed"}
  /\ i \in Nat
  /\ allocs \in Nat
  /\ granted \in [Frames -> Nat]

\* Frame f lies, as a whole, in the usable region e (in unbounded arithmetic).
Inside(f, e) ==
  /\ e.type = USABLE
  /\ e.base <= f * PMM_PAGE_SIZE
  /\ (f + 1) * PMM_PAGE_SIZE <= e.base + e.length

\* After pmm_init the usable bitmap has exactly the complete frames of the
\* usable regions, whatever their alignment and however far they reach
\* ("Only expose complete, aligned 4 KiB frames", pmm.c:74).
UsableBitmapExact ==
  pc = "ready" =>
    pmm_usable_bitmap =
      {f \in Frames : \E n \in 1 .. Len(response) : Inside(f, response[n])}

\* The bit of a frame outside usable memory is never cleared, whatever
\* addresses are freed ("Never free memory that wasn't marked as usable",
\* pmm.c:141).
ReservedStayReserved ==
  pc \in {"entries", "ready"} => Frames \ pmm_usable_bitmap \subseteq pmm_bitmap

\* Until the first allocation the counter, which kmain prints as the number of
\* free pages (main.c:1899-1903), is the number of frames whose bit is clear,
\* whatever has been freed, freed twice or refused.  No more can be said: an
\* allocation takes a frame whose bit is set, one that was not counted, and
\* takes one off the counter all the same (pmm.c:112-118), which then shows too
\* few pages, or wraps to the largest number of all.
FreePagesCounted ==
  pc = "ready" /\ allocs = 0 => pmm_free_pages = Cardinality(Frames \ pmm_bitmap)

\* "Treat every frame as reserved until proven usable" (pmm.c:48): pmm_init
\* ends with the bit of every usable frame but frame zero cleared.
UsableFramesReleased ==
  pc = "ready" /\ allocs = 0 => pmm_usable_bitmap \cap pmm_bitmap \subseteq {0}

\* "Reject double frees" (pmm.c:145): a frame that somebody still holds is
\* not mistaken for one that was freed already.
HolderMayFree ==
  \A f \in Frames : granted[f] > 0 => Freeable(f * PMM_PAGE_SIZE)
=============================================================================
