-------------------------------- MODULE Ppa ---------------------------------
(***************************************************************************)
(* The page bitmap allocator (src/src/main.c): eX_PPA_Init finds the       *)
(* highest address of the memory map, places a bitmap for all pages below  *)
(* it in a usable region, marks the usable pages free and takes the pages  *)
(* of the bitmap out again.                                                *)
(*                                                                         *)
(* The bitmap is the set of the pages whose bit is 1 (used).  Addresses    *)
(* and counters are unsigned words of WORD values.  A step is one entry of *)
(* a loop over the memory map, or a loop over pages.                       *)
(***************************************************************************)
EXTENDS Integers, Sequences, FiniteSets

CONSTANTS
  eX_PAGE_SIZE,
  BITS,           \* pages in a byte of the bitmap: eight
  WORD,           \* number of uint64_t values
  Types,          \* memory map entry types
  USABLE          \* LIMINE_MEMMAP_USABLE

VARIABLES
  response,            \* the entries of eX_MemoryMapRequest.response
  ppaPc,               \* the part of eX_PPA_Init that comes next
  entry,               \* the loops' variable i
  highest_address,
  eX_PageCount,
  eX_PageBitmap,       \* the bitmap's address; 0 is NULL
  usedBits,            \* the bits of the bitmap that are 1
  eX_FreePageCount,
  strayed              \* a bit outside the bitmap was read or written

ppaState == <<ppaPc, entry, highest_address, eX_PageCount, eX_PageBitmap,
              usedBits, eX_FreePageCount, strayed>>
ppaVars == <<response, ppaState>>

Wrap(n) == n % WORD

\* The variables are in the BSS, and the function's own not set yet.
PpaInit ==
  /\ ppaPc = "highest"
  /\ entry = 1
  /\ highest_address = 0
  /\ eX_PageCount = 0
  /\ eX_PageBitmap = 0
  /\ usedBits = {}
  /\ eX_FreePageCount = 0
  /\ strayed = FALSE

RoundUp(a) == Wrap(a + eX_PAGE_SIZE - 1) \div eX_PAGE_SIZE

\* Variant: the bytes of the bitmap are rounded down.
BitmapSizeRoundedDown == eX_PageCount \div BITS

bitmap_size == Wrap(eX_PageCount + BITS - 1) \div BITS

\* The pages that have a bit.
BitmapPages == 0 .. bitmap_size * BITS - 1

\* A loop over the map has come to its end.
LoopDone == entry > Len(response)

-----------------------------------------------------------------------------

\* The first loop: where the memory ends.
Highest ==
  /\ ppaPc = "highest" /\ ~LoopDone
  /\ LET end == Wrap(response[entry].base + response[entry].length)
     IN  highest_address' = IF end > highest_address THEN end ELSE highest_address
  /\ entry' = entry + 1
  /\ UNCHANGED <<response, ppaPc, eX_PageCount, eX_PageBitmap, usedBits,
                 eX_FreePageCount, strayed>>

Count ==
  /\ ppaPc = "highest" /\ LoopDone
  /\ eX_PageCount' = RoundUp(highest_address)
  /\ ppaPc' = "place"
  /\ UNCHANGED <<response, entry, highest_address, eX_PageBitmap, usedBits,
                 eX_FreePageCount, strayed>>

\* The entry can hold the bitmap.
Holds(e) == e.type = USABLE /\ e.length >= bitmap_size

\* The second loop stops at the first entry that can hold the bitmap.  A
\* bitmap at address 0 is taken for none.  All bits are set.
Place ==
  /\ ppaPc = "place"
  /\ \E n \in 1 .. Len(response) :
       /\ Holds(response[n])
       /\ \A m \in 1 .. n - 1 : ~Holds(response[m])
       /\ response[n].base # 0
       /\ eX_PageBitmap' = response[n].base
  /\ usedBits' = BitmapPages
  /\ eX_FreePageCount' = 0
  /\ entry' = 1
  /\ ppaPc' = "release"
  /\ UNCHANGED <<response, highest_address, eX_PageCount, strayed>>

\* "PPA: Cannot place bitmap!" and hcf.
CannotPlace ==
  /\ ppaPc = "place"
  /\ \A n \in 1 .. Len(response) :
       Holds(response[n]) /\ (\A m \in 1 .. n - 1 : ~Holds(response[m]))
         => response[n].base = 0
  /\ ppaPc' = "halted"
  /\ UNCHANGED <<response, entry, highest_address, eX_PageCount, eX_PageBitmap,
                 usedBits, eX_FreePageCount, strayed>>

\* Variant: a last page that is usable in part is released.
LastPageRoundedUp(e) == RoundUp(Wrap(e.base + e.length))

first_page(e) == RoundUp(e.base)
last_page(e)  == Wrap(e.base + e.length) \div eX_PAGE_SIZE

PagesOf(e) == IF e.type = USABLE THEN first_page(e) .. last_page(e) - 1 ELSE {}

\* The third loop: every complete page of a usable entry is released.
Release ==
  /\ ppaPc = "release" /\ ~LoopDone
  /\ LET pages == PagesOf(response[entry]) IN
       /\ usedBits' = usedBits \ pages
       /\ eX_FreePageCount' = Wrap(eX_FreePageCount + Cardinality(pages))
       /\ strayed' = (strayed \/ ~(pages \subseteq BitmapPages))
  /\ entry' = entry + 1
  /\ UNCHANGED <<response, ppaPc, highest_address, eX_PageCount, eX_PageBitmap>>

\* The pages that the bitmap lies in.
bitmap_first_page == eX_PageBitmap \div eX_PAGE_SIZE
bitmap_last_page  == RoundUp(Wrap(eX_PageBitmap + bitmap_size))
BitmapFrames      == bitmap_first_page .. bitmap_last_page - 1

\* Variant: pages that are used already are counted again.
TakenBackTwice == BitmapFrames

\* The pages that the last loop sets: it looks at the bit first.
TakenBack == BitmapFrames \ usedBits

Reserve ==
  /\ ppaPc = "release" /\ LoopDone
  /\ usedBits' = usedBits \cup TakenBack
  /\ eX_FreePageCount' = Wrap(eX_FreePageCount - Cardinality(TakenBack))
  /\ strayed' = (strayed \/ ~(BitmapFrames \subseteq BitmapPages))
  /\ ppaPc' = "ready"
  /\ UNCHANGED <<response, entry, highest_address, eX_PageCount, eX_PageBitmap>>

eX_PPA_Init == Highest \/ Count \/ Place \/ CannotPlace \/ Release \/ Reserve

-----------------------------------------------------------------------------
(***************************************************************************)
(* Properties.                                                             *)
(***************************************************************************)

Bytes(e) == e.base .. e.base + e.length - 1

\* What the boot loader guarantees of a memory map (external): the addresses
\* of its entries are words, and usable entries overlap no other.
SoundMap ==
  /\ \A n \in 1 .. Len(response) : response[n].base + response[n].length < WORD - eX_PAGE_SIZE
  /\ \A n, m \in 1 .. Len(response) :
       n # m /\ response[n].type = USABLE =>
         Bytes(response[n]) \cap Bytes(response[m]) = {}

\* The bytes of a page, and of the bitmap.
PageBytes(p) == p * eX_PAGE_SIZE .. (p + 1) * eX_PAGE_SIZE - 1
BitmapBytes  == eX_PageBitmap .. eX_PageBitmap + bitmap_size - 1

\* The pages that are free: complete pages of one usable region without a byte
\* of the bitmap.
FreePages ==
  {p \in BitmapPages :
     /\ \E n \in 1 .. Len(response) :
          response[n].type = USABLE /\ PageBytes(p) \subseteq Bytes(response[n])
     /\ PageBytes(p) \cap BitmapBytes = {}}

\* After eX_PPA_Init exactly those pages are free, wherever the bitmap came to
\* lie and however the regions are aligned: no page of the bitmap itself, of
\* reserved memory or beyond its end is (main.c:1693-1797).
FreePagesExact == ppaPc = "ready" /\ SoundMap => BitmapPages \ usedBits = FreePages

\* The counter is the number of free pages: a page that is taken back from the
\* free ones is counted once, and one that was never free not at all
\* (main.c:1775, 1794).
FreeCountExact ==
  ppaPc = "ready" /\ SoundMap => eX_FreePageCount = Cardinality(BitmapPages \ usedBits)

\* No bit outside the bitmap is touched: neither a region's last page nor the
\* bitmap's own is beyond the pages that were counted (main.c:1673-1687).
StaysInBitmap == strayed => ~SoundMap
=============================================================================
