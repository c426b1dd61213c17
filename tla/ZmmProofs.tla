----------------------------- MODULE ZmmProofs -----------------------------
(***************************************************************************)
(* Safety of the ZMM allocator for every heap size, table size, set of     *)
(* callers and set of request sizes, zero among them.                      *)
(***************************************************************************)
EXTENDS Zmm, TLAPS

-----------------------------------------------------------------------------
(* The inductive invariant.                                                *)

\* Nothing has been entered or handed out before heap_init.
Untouched ==
  ~initialised => /\ \A i \in Index : blocks[i] = ZeroBlock
                  /\ \A c \in Clients : held[c] = None

BlocksInHeap == \A i \in Index : blocks[i].start + blocks[i].size <= HEAP_SIZE

\* An entry that covers anything starts at least as far into the heap as it
\* is into the table, but for the entries that cover nothing: each other entry
\* before it has taken a byte.
Staircase ==
  \A i \in Index : blocks[i].size > 0 => blocks[i].start + emptySplits >= i

BlocksDisjoint ==
  \A i, j \in Index : i # j =>
    Apart(blocks[i].start, blocks[i].size, blocks[j].start, blocks[j].size)

\* Seen from a caller, an entry is its own allocation, marked used, or covers
\* nothing of it.  The allocation's own entry may have been overwritten.
EntryOwnOrApart ==
  ~aliasFreed =>
    \A i \in Index, c \in Clients : held[c] # None =>
      \/ Apart(blocks[i].start, blocks[i].size, held[c].ptr, held[c].size)
      \/ blocks[i] = [start |-> held[c].ptr, size |-> held[c].size, used |-> 1]

IInv ==
  /\ TypeOK
  /\ Untouched
  /\ BlocksInHeap
  /\ Staircase
  /\ BlocksDisjoint
  /\ EntryOwnOrApart
  /\ AllocationsDisjoint
  /\ AllocationsInHeap
  /\ SplitInTable

-----------------------------------------------------------------------------
\* Nothing is held and no entry covers anything in the initial state.
LEMMA InitIInv == Init => IInv
<1> SUFFICES ASSUME Init PROVE IInv
  OBVIOUS
<1> USE HeapAssumption, NoneAssumption
<1>1. \A i \in Index : blocks[i] = [start |-> 0, size |-> 0, used |-> 0]
  BY DEF Init, ZeroBlock
<1>2. \A c \in Clients : held[c] = None
  BY DEF Init
<1>3. TypeOK
  BY DEF Init, TypeOK, ZeroBlock, Block
<1>4. BlocksInHeap /\ Staircase /\ BlocksDisjoint
  BY <1>1 DEF BlocksInHeap, Staircase, BlocksDisjoint, Apart, Index
<1> QED
  BY <1>1, <1>2, <1>3, <1>4 DEF IInv, Untouched, EntryOwnOrApart, ZeroBlock,
     AllocationsDisjoint, AllocationsInHeap, SplitInTable, Init

\* heap_init enters one free block that covers the heap; nothing is held yet.
LEMMA HeapInitIInv == IInv /\ heap_init => IInv'
<1> SUFFICES ASSUME IInv, heap_init PROVE IInv'
  OBVIOUS
<1> USE HeapAssumption, NoneAssumption
<1>1. 0 \in Index
  BY DEF Index
<1>2. \A i \in Index :
        blocks'[i] = IF i = 0 THEN [start |-> 0, size |-> HEAP_SIZE, used |-> 0]
                              ELSE [start |-> 0, size |-> 0, used |-> 0]
  BY <1>1 DEF IInv, Untouched, heap_init, ZeroBlock, TypeOK
<1>3. \A c \in Clients : held'[c] = None
  BY DEF IInv, Untouched, heap_init
<1>4. TypeOK'
  BY <1>1 DEF IInv, TypeOK, heap_init, Block, history
<1>5. BlocksInHeap' /\ Staircase' /\ BlocksDisjoint'
  BY <1>2, <1>4 DEF TypeOK, BlocksInHeap, Staircase, BlocksDisjoint, Apart, Index
<1> QED
  BY <1>3, <1>4, <1>5 DEF IInv, Untouched, EntryOwnOrApart, heap_init, history,
     AllocationsDisjoint, AllocationsInHeap, SplitInTable

\* free marks every entry at the pointer unused: the entry of the allocation,
\* which no other caller's allocation touches, or entries that cover nothing.
\* For a pointer to zero bytes it may be the entry of another caller, and then
\* aliasFreed says so.
LEMMA FreeIInv ==
  ASSUME NEW c \in Clients, IInv, free(c)
  PROVE  IInv'
<1> USE HeapAssumption, NoneAssumption
<1> DEFINE p == held[c].ptr
<1>1. held[c] \in Extent
  BY DEF IInv, TypeOK, free
<1>2. \A i \in Index :
        /\ blocks[i] \in Block
        /\ blocks'[i] \in Block
        /\ blocks'[i].start = blocks[i].start
        /\ blocks'[i].size = blocks[i].size
        /\ blocks[i].start # p => blocks'[i] = blocks[i]
  BY DEF IInv, TypeOK, free, FreeTable, Block
<1>3. \A d \in Clients : held'[d] = IF d = c THEN None ELSE held[d]
  BY DEF IInv, TypeOK, free
<1>4. TypeOK'
  BY <1>2, <1>3 DEF IInv, TypeOK, free, FreeTable
<1>5. Untouched'
  BY DEF IInv, Untouched, free
<1>6. BlocksInHeap' /\ Staircase' /\ BlocksDisjoint'
  BY <1>2 DEF IInv, BlocksInHeap, Staircase, BlocksDisjoint, free
<1>7. AllocationsDisjoint' /\ AllocationsInHeap' /\ SplitInTable'
  BY <1>3 DEF IInv, AllocationsDisjoint, AllocationsInHeap,
     SplitInTable, free
<1>8. EntryOwnOrApart'
  <2> SUFFICES ASSUME ~aliasFreed', NEW i \in Index, NEW d \in Clients, held'[d] # None
               PROVE  \/ Apart(blocks'[i].start, blocks'[i].size, held'[d].ptr, held'[d].size)
                      \/ blocks'[i] = [start |-> held'[d].ptr, size |-> held'[d].size, used |-> 1]
    BY DEF EntryOwnOrApart
  <2>1. d # c /\ held'[d] = held[d] /\ held[d] \in Extent
    BY <1>3 DEF IInv, TypeOK
  <2>0. ~aliasFreed /\ ~Aliased(c)
    BY DEF free
  <2>4. \/ Apart(blocks[i].start, blocks[i].size, held[d].ptr, held[d].size)
        \/ blocks[i] = [start |-> held[d].ptr, size |-> held[d].size, used |-> 1]
    BY <2>0, <2>1, Zenon DEF IInv, EntryOwnOrApart
  <2>2. CASE blocks[i].start # p
    BY <1>2, <2>1, <2>2, <2>4
  <2>3. CASE blocks[i].start = p
    <3>1. Apart(held[c].ptr, held[c].size, held[d].ptr, held[d].size)
      BY <2>0, <2>1 DEF IInv, AllocationsDisjoint, free
    <3>2. \/ Apart(blocks[i].start, blocks[i].size, held[c].ptr, held[c].size)
          \/ blocks[i].size = held[c].size
      <4>1. \/ Apart(blocks[i].start, blocks[i].size, held[c].ptr, held[c].size)
            \/ blocks[i] = [start |-> held[c].ptr, size |-> held[c].size, used |-> 1]
        BY <2>0, Zenon DEF IInv, EntryOwnOrApart, free
      <4> QED
        BY <4>1
    <3>3. blocks[i].size \in Nat /\ blocks[i].start \in Nat
          /\ held[c].size \in Nat /\ held[c].ptr \in Nat
          /\ held[d].size \in Nat /\ held[d].ptr \in Nat
      BY <1>1, <1>2, <2>1 DEF Extent, Block
    <3>4. Apart(blocks[i].start, blocks[i].size, held[d].ptr, held[d].size)
      <4>1. CASE held[c].size > 0
        BY <2>3, <3>1, <3>2, <3>3, <4>1 DEF Apart
      <4>2. CASE held[c].size = 0
        <5>1. held[d].ptr # p \/ held[d].size = 0
          BY <2>0, <2>1, <3>3, <4>2 DEF Aliased
        <5>2. \/ Apart(blocks[i].start, blocks[i].size, held[d].ptr, held[d].size)
              \/ blocks[i].start = held[d].ptr /\ blocks[i].size = held[d].size
          BY <2>4
        <5> QED
          BY <2>3, <3>3, <5>1, <5>2 DEF Apart
      <4> QED
        BY <3>3, <4>1, <4>2
    <3> QED
      BY <1>2, <2>1, <3>4
  <2> QED
    BY <2>2, <2>3
<1> QED
  BY <1>4, <1>5, <1>6, <1>7, <1>8 DEF IInv

\* What every successful malloc does to the callers' side: c is given the
\* first size bytes of a free entry, which nobody else holds.
LEMMA GrantIInv ==
  ASSUME NEW c \in Clients, NEW size \in Nat, NEW i \in Index, IInv,
         held[c] = None, blocks[i].used = 0, blocks[i].size >= size,
         aliasFreed' = aliasFreed,
         held' = [held EXCEPT ![c] = [ptr |-> blocks[i].start, size |-> size]]
  PROVE  /\ held' \in [Clients -> Extent \cup {None}]
         /\ AllocationsDisjoint' /\ AllocationsInHeap'
         /\ ~aliasFreed => \A d \in Clients : d # c /\ held[d] # None =>
              Apart(blocks[i].start, blocks[i].size, held[d].ptr, held[d].size)
<1> USE HeapAssumption, NoneAssumption
<1>1. /\ blocks[i].start \in Nat /\ blocks[i].size \in Nat
      /\ blocks[i].start + blocks[i].size <= HEAP_SIZE
  BY DEF IInv, TypeOK, Block, BlocksInHeap
<1>2. \A d \in Clients : held'[d] = IF d = c THEN [ptr |-> blocks[i].start, size |-> size]
                                             ELSE held[d]
  BY DEF IInv, TypeOK
<1>3. [ptr |-> blocks[i].start, size |-> size] \in Extent
  BY <1>1 DEF Extent
<1>4. held' \in [Clients -> Extent \cup {None}]
  BY <1>3 DEF IInv, TypeOK
<1>5. AllocationsInHeap'
  BY <1>1, <1>2 DEF IInv, AllocationsInHeap
<1>6. ASSUME ~aliasFreed, NEW d \in Clients, held[d] # None
      PROVE  Apart(blocks[i].start, blocks[i].size, held[d].ptr, held[d].size)
  <2>1. \/ Apart(blocks[i].start, blocks[i].size, held[d].ptr, held[d].size)
        \/ blocks[i] = [start |-> held[d].ptr, size |-> held[d].size, used |-> 1]
    BY <1>6, Zenon DEF IInv, EntryOwnOrApart
  <2> QED
    BY <2>1
<1>7. ASSUME ~aliasFreed, NEW d \in Clients, held[d] # None
      PROVE  /\ Apart(blocks[i].start, size, held[d].ptr, held[d].size)
             /\ Apart(held[d].ptr, held[d].size, blocks[i].start, size)
  <2>1. held[d].ptr \in Nat /\ held[d].size \in Nat
    BY <1>7 DEF IInv, TypeOK, Extent
  <2> QED
    BY <1>1, <1>6, <1>7, <2>1 DEF Apart
<1>8. AllocationsDisjoint'
  <2> SUFFICES ASSUME ~aliasFreed, NEW d \in Clients, NEW e \in Clients, d # e,
                      held'[d] # None, held'[e] # None
               PROVE  Apart(held'[d].ptr, held'[d].size, held'[e].ptr, held'[e].size)
    BY DEF AllocationsDisjoint
  <2>1. CASE d = c
    BY <1>2, <1>7, <2>1
  <2>2. CASE e = c
    BY <1>2, <1>7, <2>2
  <2>3. CASE d # c /\ e # c
    BY <1>2, <2>3 DEF IInv, AllocationsDisjoint
  <2> QED
    BY <2>1, <2>2, <2>3
<1> QED
  BY <1>4, <1>5, <1>6, <1>8

\* Handing out a whole entry only marks it used.
LEMMA TakeWholeIInv ==
  ASSUME NEW c \in Clients, NEW size \in Nat, NEW i \in Index, IInv,
         initialised, initialised' = initialised, aliasFreed' = aliasFreed,
         held[c] = None, Fits(i, size), TakeWhole(i, size),
         held' = [held EXCEPT ![c] = [ptr |-> blocks[i].start, size |-> size]]
  PROVE  IInv'
<1> USE HeapAssumption, NoneAssumption
<1>1. /\ held' \in [Clients -> Extent \cup {None}]
      /\ AllocationsDisjoint' /\ AllocationsInHeap'
      /\ ~aliasFreed => \A d \in Clients : d # c /\ held[d] # None =>
           Apart(blocks[i].start, blocks[i].size, held[d].ptr, held[d].size)
  BY GrantIInv DEF Fits
<1>2. \A j \in Index :
        /\ blocks[j] \in Block
        /\ blocks'[j] \in Block
        /\ blocks'[j].start = blocks[j].start
        /\ blocks'[j].size = blocks[j].size
        /\ j # i => blocks'[j] = blocks[j]
        /\ j = i => blocks'[j] = [start |-> blocks[i].start, size |-> size, used |-> 1]
  BY DEF IInv, TypeOK, TakeWhole, Block
<1>3. \A d \in Clients : held'[d] = IF d = c THEN [ptr |-> blocks[i].start, size |-> size]
                                             ELSE held[d]
  BY DEF IInv, TypeOK
<1>4. TypeOK'
  BY <1>1, <1>2 DEF IInv, TypeOK, TakeWhole
<1>5. Untouched' /\ SplitInTable'
  BY DEF IInv, Untouched, SplitInTable, TakeWhole
<1>6. BlocksInHeap' /\ Staircase' /\ BlocksDisjoint'
  BY <1>2 DEF IInv, BlocksInHeap, Staircase, BlocksDisjoint, TakeWhole
<1>7. EntryOwnOrApart'
  <2> SUFFICES ASSUME ~aliasFreed, NEW j \in Index, NEW d \in Clients, held'[d] # None
               PROVE  \/ Apart(blocks'[j].start, blocks'[j].size, held'[d].ptr, held'[d].size)
                      \/ blocks'[j] = [start |-> held'[d].ptr, size |-> held'[d].size, used |-> 1]
    BY DEF EntryOwnOrApart
  <2>1. CASE d = c /\ j = i
    BY <1>2, <1>3, <2>1
  <2>2. CASE d = c /\ j # i
    <3>1. Apart(blocks[j].start, blocks[j].size, blocks[i].start, blocks[i].size)
      BY <2>2 DEF IInv, BlocksDisjoint
    <3> QED
      BY <1>2, <1>3, <2>2, <3>1 DEF TakeWhole
  <2>3. CASE d # c /\ j = i
    BY <1>1, <1>2, <1>3, <2>3
  <2>4. CASE d # c /\ j # i
    <3>1. \/ Apart(blocks[j].start, blocks[j].size, held[d].ptr, held[d].size)
          \/ blocks[j] = [start |-> held[d].ptr, size |-> held[d].size, used |-> 1]
      BY <1>3, <2>4, Zenon DEF IInv, EntryOwnOrApart
    <3> QED
      BY <1>2, <1>3, <2>4, <3>1
  <2> QED
    BY <2>1, <2>2, <2>3, <2>4
<1> QED
  BY <1>1, <1>4, <1>5, <1>6, <1>7 DEF IInv

\* Cutting an entry leaves two parts of it in the table, or one when the store
\* to the next entry leaves the table; by Staircase that takes a zero-byte split
\* for every entry the table has more than the heap has bytes.
LEMMA TakeSplitIInv ==
  ASSUME NEW c \in Clients, NEW size \in Nat, NEW i \in Index, IInv,
         initialised, initialised' = initialised, aliasFreed' = aliasFreed,
         held[c] = None, Fits(i, size), TakeSplit(i, size),
         held' = [held EXCEPT ![c] = [ptr |-> blocks[i].start, size |-> size]]
  PROVE  IInv'
<1> USE HeapAssumption, NoneAssumption
<1> DEFINE s == blocks[i].start
           n == blocks[i].size
<1>1. /\ held' \in [Clients -> Extent \cup {None}]
      /\ AllocationsDisjoint' /\ AllocationsInHeap'
      /\ ~aliasFreed => \A d \in Clients : d # c /\ held[d] # None =>
           Apart(blocks[i].start, blocks[i].size, held[d].ptr, held[d].size)
  BY GrantIInv DEF Fits
<1>2. /\ s \in Nat /\ n \in Nat /\ n > size /\ i \in Nat
      /\ s + n <= HEAP_SIZE /\ s + emptySplits >= i
      /\ emptySplits \in Nat /\ emptySplits' \in Nat /\ emptySplits' >= emptySplits
      /\ size = 0 => emptySplits' = emptySplits + 1
  BY DEF IInv, TypeOK, Block, BlocksInHeap, Staircase, TakeSplit, Index
<1>3. i + 1 \notin Index => HEAP_SIZE + emptySplits' > NBLOCKS
  BY <1>2 DEF Index
<1>4. \A j \in Index :
        /\ blocks[j] \in Block
        /\ blocks'[j] \in Block
        /\ j = i => blocks'[j] = [start |-> s, size |-> size, used |-> 1]
        /\ j = i + 1 => blocks'[j] = [start |-> s + size, size |-> n - size, used |-> 0]
        /\ j # i /\ j # i + 1 => blocks'[j] = blocks[j]
  <2>1. blocks' = SplitTable(i, size)
    BY DEF TakeSplit
  <2> QED
    BY <1>2, <2>1 DEF SplitTable, IInv, TypeOK, Block
<1>5. \A d \in Clients : held'[d] = IF d = c THEN [ptr |-> s, size |-> size]
                                             ELSE held[d]
  BY DEF IInv, TypeOK
<1>6. TypeOK' /\ SplitInTable' /\ Untouched'
  <2>1. blocks' \in [Index -> Block]
    BY <1>4 DEF TakeSplit, SplitTable
  <2>2. overrun' \in BOOLEAN /\ (overrun' => overrun \/ i + 1 \notin Index)
    BY DEF TakeSplit
  <2>3. SplitInTable'
    BY <1>2, <1>3, <2>2, HeapAssumption DEF IInv, SplitInTable
  <2> QED
    BY <1>1, <1>2, <2>1, <2>2, <2>3 DEF IInv, TypeOK, Untouched
<1>7. BlocksInHeap'
  <2> SUFFICES ASSUME NEW j \in Index
               PROVE  blocks'[j].start + blocks'[j].size <= HEAP_SIZE
    BY DEF BlocksInHeap
  <2>1. CASE j = i
    BY <1>2, <1>4, <2>1
  <2>2. CASE j = i + 1
    BY <1>2, <1>4, <2>2
  <2>3. CASE j # i /\ j # i + 1
    BY <1>4, <2>3 DEF IInv, BlocksInHeap
  <2> QED
    BY <2>1, <2>2, <2>3
<1>8. Staircase'
  <2> SUFFICES ASSUME NEW j \in Index, blocks'[j].size > 0
               PROVE  blocks'[j].start + emptySplits' >= j
    BY DEF Staircase
  <2>1. CASE j = i
    BY <1>2, <1>4, <2>1
  <2>2. CASE j = i + 1
    BY <1>2, <1>4, <2>2
  <2>3. CASE j # i /\ j # i + 1
    <3>1. blocks[j].start \in Nat /\ j \in Nat
      BY <1>4 DEF Block, Index
    <3>2. blocks[j].start + emptySplits >= j
      BY <1>4, <2>3 DEF IInv, Staircase
    <3> QED
      BY <1>2, <1>4, <2>3, <3>1, <3>2
  <2> QED
    BY <2>1, <2>2, <2>3
<1>9. ASSUME NEW p \in Nat, NEW m \in Nat, Apart(s, n, p, m)
      PROVE  /\ Apart(s, size, p, m) /\ Apart(p, m, s, size)
             /\ Apart(s + size, n - size, p, m) /\ Apart(p, m, s + size, n - size)
  BY <1>2, <1>9 DEF Apart
<1>10. Apart(s, size, s + size, n - size) /\ Apart(s + size, n - size, s, size)
  BY <1>2 DEF Apart
<1>11. \A j \in Index : blocks[j].start \in Nat /\ blocks[j].size \in Nat
  BY <1>4 DEF Block
<1>12. \A j \in Index : j # i => Apart(s, n, blocks[j].start, blocks[j].size)
  BY DEF IInv, BlocksDisjoint
<1>13. BlocksDisjoint'
  <2> SUFFICES ASSUME NEW j \in Index, NEW k \in Index, j # k
               PROVE  Apart(blocks'[j].start, blocks'[j].size, blocks'[k].start, blocks'[k].size)
    BY DEF BlocksDisjoint
  <2>1. CASE j \in {i, i + 1} /\ k \in {i, i + 1}
    BY <1>4, <1>10, <2>1
  <2>2. CASE j \in {i, i + 1} /\ k \notin {i, i + 1}
    BY <1>4, <1>9, <1>11, <1>12, <2>2
  <2>3. CASE j \notin {i, i + 1} /\ k \in {i, i + 1}
    BY <1>4, <1>9, <1>11, <1>12, <2>3
  <2>4. CASE j \notin {i, i + 1} /\ k \notin {i, i + 1}
    <3>1. Apart(blocks[j].start, blocks[j].size, blocks[k].start, blocks[k].size)
      BY DEF IInv, BlocksDisjoint
    <3> QED
      BY <1>4, <2>4, <3>1
  <2> QED
    BY <2>1, <2>2, <2>3, <2>4
<1>14. EntryOwnOrApart'
  <2> SUFFICES ASSUME ~aliasFreed, NEW j \in Index, NEW d \in Clients, held'[d] # None
               PROVE  \/ Apart(blocks'[j].start, blocks'[j].size, held'[d].ptr, held'[d].size)
                      \/ blocks'[j] = [start |-> held'[d].ptr, size |-> held'[d].size, used |-> 1]
    BY DEF EntryOwnOrApart
  <2>1. CASE d = c /\ j = i
    BY <1>4, <1>5, <2>1
  <2>2. CASE d = c /\ j = i + 1
    BY <1>4, <1>5, <1>10, <2>2
  <2>3. CASE d = c /\ j # i /\ j # i + 1
    <3>1. Apart(blocks[j].start, blocks[j].size, s, size)
      BY <1>9, <1>11, <1>12, <2>3
    <3> QED
      BY <1>4, <1>5, <2>3, <3>1
  <2>4. CASE d # c /\ j \in {i, i + 1}
    <3>1. held[d].ptr \in Nat /\ held[d].size \in Nat /\ held[d] # None
      BY <1>5, <2>4 DEF IInv, TypeOK, Extent
    <3>2. Apart(s, n, held[d].ptr, held[d].size)
      BY <1>1, <2>4, <3>1
    <3>3. /\ Apart(s, size, held[d].ptr, held[d].size)
          /\ Apart(s + size, n - size, held[d].ptr, held[d].size)
      BY <1>9, <3>1, <3>2
    <3> QED
      BY <1>4, <1>5, <2>4, <3>3
  <2>5. CASE d # c /\ j # i /\ j # i + 1
    <3>1. \/ Apart(blocks[j].start, blocks[j].size, held[d].ptr, held[d].size)
          \/ blocks[j] = [start |-> held[d].ptr, size |-> held[d].size, used |-> 1]
      BY <1>5, <2>5, Zenon DEF IInv, EntryOwnOrApart
    <3> QED
      BY <1>4, <1>5, <2>5, <3>1
  <2> QED
    BY <2>1, <2>2, <2>3, <2>4, <2>5
<1> QED
  BY <1>1, <1>6, <1>7, <1>8, <1>13, <1>14 DEF IInv

-----------------------------------------------------------------------------
\* IInv is an invariant of the allocator.
THEOREM ZmmInvariant == Spec => []IInv
<1>1. Init => IInv
  BY InitIInv
<1>2. IInv /\ [Next]_vars => IInv'
  <2> SUFFICES ASSUME IInv, [Next]_vars PROVE IInv'
    OBVIOUS
  <2>1. CASE heap_init
    BY <2>1, HeapInitIInv
  <2>2. ASSUME NEW c \in Clients, NEW size \in Sizes, malloc(c, size)
        PROVE  IInv'
    <3>1. size \in Nat
      BY HeapAssumption
    <3>2. CASE \E i \in Index :
                 /\ FirstFit(i, size)
                 /\ TakeWhole(i, size) \/ TakeSplit(i, size)
                 /\ held' = [held EXCEPT ![c] = [ptr |-> blocks[i].start, size |-> size]]
      <4>1. PICK i \in Index :
              /\ FirstFit(i, size)
              /\ TakeWhole(i, size) \/ TakeSplit(i, size)
              /\ held' = [held EXCEPT ![c] = [ptr |-> blocks[i].start, size |-> size]]
        BY <3>2
      <4>2. /\ initialised /\ initialised' = initialised /\ aliasFreed' = aliasFreed
            /\ held[c] = None /\ Fits(i, size)
        BY <2>2, <4>1 DEF malloc, FirstFit
      <4>3. CASE TakeWhole(i, size)
        BY <3>1, <4>1, <4>2, <4>3, TakeWholeIInv
      <4>4. CASE TakeSplit(i, size)
        BY <3>1, <4>1, <4>2, <4>4, TakeSplitIInv
      <4> QED
        BY <4>1, <4>3, <4>4
    <3>3. CASE UNCHANGED vars
      BY <3>3 DEF vars, history, IInv, TypeOK, Untouched, BlocksInHeap, Staircase,
         BlocksDisjoint, EntryOwnOrApart, AllocationsDisjoint, AllocationsInHeap, SplitInTable
    <3> QED
      BY <2>2, <3>2, <3>3 DEF malloc, vars, history
  <2>3. ASSUME NEW c \in Clients, free(c)
        PROVE  IInv'
    BY <2>3, FreeIInv
  <2>4. CASE UNCHANGED vars
    BY <2>4 DEF vars, history, IInv, TypeOK, Untouched, BlocksInHeap, Staircase,
       BlocksDisjoint, EntryOwnOrApart, AllocationsDisjoint, AllocationsInHeap, SplitInTable
  <2> QED
    BY <2>1, <2>2, <2>3, <2>4 DEF Next
<1> QED
  BY <1>1, <1>2, PTL DEF Spec

\* malloc never gives two callers a common byte, although a split may overwrite
\* the entry of a live allocation (main.c:1203-1245), unless a pointer to zero
\* bytes has been freed at an address where another caller held bytes.
THEOREM ZmmDisjoint == Spec => []AllocationsDisjoint
<1>1. IInv => AllocationsDisjoint
  BY DEF IInv
<1> QED
  BY <1>1, ZmmInvariant, PTL

\* malloc never gives a caller a byte outside `heap` (main.c:1203-1233).
THEOREM ZmmInHeap == Spec => []AllocationsInHeap
<1>1. IInv => AllocationsInHeap
  BY DEF IInv
<1> QED
  BY <1>1, ZmmInvariant, PTL

\* The entries malloc may hand out next cover no byte that a caller holds:
\* free() (main.c:1235-1245) releases only what was given to the caller, unless
\* that was zero bytes at an address where another caller held bytes.
THEOREM ZmmFreeBlocksUnheld == Spec => []FreeBlocksUnheld
<1>1. IInv => FreeBlocksUnheld
  <2> SUFFICES ASSUME IInv, ~aliasFreed, NEW i \in Index, NEW c \in Clients,
                      blocks[i].used = 0, held[c] # None
               PROVE  Apart(blocks[i].start, blocks[i].size, held[c].ptr, held[c].size)
    BY DEF FreeBlocksUnheld
  <2>1. \/ Apart(blocks[i].start, blocks[i].size, held[c].ptr, held[c].size)
        \/ blocks[i] = [start |-> held[c].ptr, size |-> held[c].size, used |-> 1]
    BY Zenon DEF IInv, EntryOwnOrApart
  <2> QED
    BY <2>1
<1> QED
  BY <1>1, ZmmInvariant, PTL

\* The unchecked store to blocks[i + 1] (main.c:1223) leaves the table only
\* when there have been more zero-byte splits than the table has entries over.
THEOREM ZmmSplitInTable == Spec => []SplitInTable
<1>1. IInv => SplitInTable
  BY DEF IInv
<1> QED
  BY <1>1, ZmmInvariant, PTL
=============================================================================
