-------------------------------- MODULE Zmm --------------------------------
(***************************************************************************)
(* The ZMM memory manager of the kernel (src/src/main.c): a first-fit      *)
(* allocator over a static heap, whose only bookkeeping is the table       *)
(* `blocks` of extents.                                                    *)
(*                                                                         *)
(* A pointer is its offset from `heap`; NULL is the distinct value None.   *)
(* The callers are Clients; each keeps at most one allocation at a time    *)
(* and frees only what it was given, so a larger set of Clients stands     *)
(* for a caller with several allocations.  A request of zero bytes is      *)
(* granted like any other: nothing in malloc refuses it.                   *)
(***************************************************************************)
EXTENDS Integers

CONSTANTS
  HEAP_SIZE,   \* bytes of `heap`
  NBLOCKS,     \* entries of `blocks`
  Clients,     \* the callers of malloc and free
  Sizes,       \* the sizes they ask for, zero among them
  None         \* NULL, and "holds nothing"

ASSUME HeapAssumption ==
  /\ HEAP_SIZE \in Nat \ {0}
  /\ NBLOCKS \in Nat \ {0}
  /\ Sizes \subseteq Nat

Index   == 0 .. NBLOCKS - 1
Block   == [start : Nat, size : Nat, used : {0, 1}]
Extent  == [ptr : Nat, size : Nat]

ASSUME NoneAssumption == None \notin Extent

VARIABLES
  blocks,       \* the table, blocks[i] is struct block
  overrun,      \* blocks[NBLOCKS] has been written, past the table's end
  initialised,  \* kmain has called heap_init
  held,         \* held[c]: what malloc last gave c and c has not freed
  aliasFreed,   \* a pointer to zero bytes has been freed while another
                \*   caller held bytes at the same address
  emptySplits   \* how many splits were made for requests of zero bytes

\* What the code keeps, and what has happened to it.
history == <<aliasFreed, emptySplits>>
vars == <<blocks, overrun, initialised, held, history>>

\* blocks[] is in the BSS: every entry is zero before heap_init.
ZeroBlock == [start |-> 0, size |-> 0, used |-> 0]

Init ==
  /\ blocks = [i \in Index |-> ZeroBlock]
  /\ overrun = FALSE
  /\ initialised = FALSE
  /\ held = [c \in Clients |-> None]
  /\ aliasFreed = FALSE
  /\ emptySplits = 0

heap_init ==
  /\ ~initialised
  /\ blocks' = [blocks EXCEPT ![0] = [start |-> 0, size |-> HEAP_SIZE, used |-> 0]]
  /\ initialised' = TRUE
  /\ UNCHANGED <<overrun, held, history>>

-----------------------------------------------------------------------------
\* Variant: the scan forgets to look at `used`.
FitsIgnoringUsed(i, size) == blocks[i].size >= size

Fits(i, size) == blocks[i].used = 0 /\ blocks[i].size >= size

\* The entry at which malloc's scan stops.
FirstFit(i, size) ==
  /\ Fits(i, size)
  /\ \A j \in 0 .. i - 1 : ~Fits(j, size)

\* Variant: the remainder keeps the whole size.
SplitTableFullRest(i, size) ==
  [blocks EXCEPT
     ![i]     = [start |-> blocks[i].start, size |-> size, used |-> 1],
     ![i + 1] = [start |-> blocks[i].start + size, size |-> blocks[i].size, used |-> 0]]

\* The table after entry i has been cut to size.  Entry i + 1 is overwritten
\* whatever it described; past the last entry the store leaves the table.
SplitTable(i, size) ==
  LET cut  == [start |-> blocks[i].start, size |-> size, used |-> 1]
      rest == [start |-> blocks[i].start + size,
               size  |-> blocks[i].size - size, used |-> 0]
  IN  [j \in Index |-> IF j = i THEN cut
                       ELSE IF j = i + 1 THEN rest ELSE blocks[j]]

TakeWhole(i, size) ==
  /\ blocks[i].size = size
  /\ blocks' = [blocks EXCEPT ![i].used = 1]
  /\ UNCHANGED <<overrun, emptySplits>>

\* Variant: an exact fit is split too, leaving an empty remainder.
TakeSplitAlways(i, size) ==
  /\ blocks[i].size >= size
  /\ blocks' = SplitTable(i, size)
  /\ overrun' = (overrun \/ i + 1 \notin Index)
  /\ emptySplits' = emptySplits + IF size = 0 THEN 1 ELSE 0

TakeSplit(i, size) ==
  /\ blocks[i].size > size
  /\ blocks' = SplitTable(i, size)
  /\ overrun' = (overrun \/ i + 1 \notin Index)
  /\ emptySplits' = emptySplits + IF size = 0 THEN 1 ELSE 0

malloc(c, size) ==
  /\ initialised
  /\ held[c] = None
  /\ \/ \E i \in Index :
          /\ FirstFit(i, size)
          /\ TakeWhole(i, size) \/ TakeSplit(i, size)
          /\ held' = [held EXCEPT ![c] = [ptr |-> blocks[i].start, size |-> size]]
     \/ /\ \A i \in Index : ~Fits(i, size)
        /\ UNCHANGED <<blocks, overrun, held, emptySplits>>
  /\ UNCHANGED <<initialised, aliasFreed>>

\* Variant: free also releases what follows the pointer.
FreeTableFollowing(p) ==
  [i \in Index |-> IF blocks[i].start >= p THEN [blocks[i] EXCEPT !.used = 0]
                                           ELSE blocks[i]]

\* Every entry with the pointer's offset is marked free, not only the first.
FreeTable(p) ==
  [i \in Index |-> IF blocks[i].start = p THEN [blocks[i] EXCEPT !.used = 0]
                                          ELSE blocks[i]]

\* c's pointer is to zero bytes, and another caller holds bytes there.
Aliased(c) ==
  /\ held[c].size = 0
  /\ \E d \in Clients : /\ held[d] # None
                         /\ held[d].size > 0
                         /\ held[d].ptr = held[c].ptr

free(c) ==
  /\ held[c] # None
  /\ blocks' = FreeTable(held[c].ptr)
  /\ held' = [held EXCEPT ![c] = None]
  /\ aliasFreed' = (aliasFreed \/ Aliased(c))
  /\ UNCHANGED <<overrun, initialised, emptySplits>>

Next ==
  \/ heap_init
  \/ \E c \in Clients, size \in Sizes : malloc(c, size)
  \/ \E c \in Clients : free(c)

Spec == Init /\ [][Next]_vars

-----------------------------------------------------------------------------
(***************************************************************************)
(* Properties.                                                             *)
(***************************************************************************)

\* Two byte ranges [p, p+m) and [q, q+n) share no byte.
Apart(p, m, q, n) == p + m <= q \/ q + n <= p

\* Entries are struct blocks and a client holds an extent or nothing.
TypeOK ==
  /\ blocks \in [Index -> Block]
  /\ overrun \in BOOLEAN
  /\ initialised \in BOOLEAN
  /\ held \in [Clients -> Extent \cup {None}]
  /\ aliasFreed \in BOOLEAN
  /\ emptySplits \in Nat

\* What malloc gave to two callers never overlaps, whatever has been freed,
\* cut and forgotten in between (main.c:1203-1245), as long as nobody has
\* freed a pointer to zero bytes at an address where another caller holds
\* bytes.  That free marks the other caller's entry (main.c:1240-1242) and
\* the next malloc hands its bytes out again: malloc(0), malloc(2), free of
\* the first and malloc(2) give two callers the same two bytes.
AllocationsDisjoint ==
  ~aliasFreed =>
    \A c, d \in Clients :
      c # d /\ held[c] # None /\ held[d] # None
        => Apart(held[c].ptr, held[c].size, held[d].ptr, held[d].size)

\* No allocation leaves the heap array, whatever has been freed.
AllocationsInHeap ==
  \A c \in Clients : held[c] # None => held[c].ptr + held[c].size <= HEAP_SIZE

\* An entry malloc may hand out covers no byte that a caller still holds:
\* free() of one pointer (main.c:1235-1245) releases another caller's memory
\* only if the pointer was to zero bytes at the other caller's address.
FreeBlocksUnheld ==
  ~aliasFreed =>
    \A i \in Index, c \in Clients :
      blocks[i].used = 0 /\ held[c] # None
        => Apart(blocks[i].start, blocks[i].size, held[c].ptr, held[c].size)

\* The unchecked store to blocks[i + 1] (main.c:1223) leaves the table only
\* once splits for zero-byte requests have used up the entries the table has
\* over: with an entry per byte, as in the kernel, one such split is enough
\* and without one the store stays inside.
SplitInTable == overrun => HEAP_SIZE + emptySplits > NBLOCKS

\* Every allocation is described by a used entry of the table, so that
\* free() can find it.
HeldTracked ==
  \A c \in Clients : held[c] # None =>
    \E i \in Index : blocks[i] = [start |-> held[c].ptr, size |-> held[c].size,
                                  used |-> 1]
=============================================================================
