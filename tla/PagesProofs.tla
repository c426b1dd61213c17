----------------------------- MODULE PagesProofs -----------------------------
(***************************************************************************)
(* Proofs about Pmm, then about Ppa and both together in Pages, for every  *)
(* page size, number of frames, word size and set of memory maps.          *)
(***************************************************************************)
EXTENDS Pages, FiniteSetTheorems, TLAPS

-----------------------------------------------------------------------------
(* Frames of a region                                                      *)

\* A word is its own remainder.
LEMMA SmallMod ==
  ASSUME NEW n \in Nat, NEW x \in 0 .. n - 1
  PROVE  x % n = x
  OBVIOUS

\* Remainders are words.
LEMMA ModIsWord ==
  ASSUME NEW n \in Nat \ {0}, NEW x \in Int
  PROVE  x % n \in 0 .. n - 1
  OBVIOUS

\* Rounding up: the first frame at or behind an address.
LEMMA RoundUp ==
  ASSUME NEW p \in Nat \ {0}, NEW x \in Nat, NEW f \in Nat
  PROVE  (x + (p - 1)) \div p <= f <=> x <= f * p
  OBVIOUS

\* Rounding down: the frames that end at or before an address.
LEMMA RoundDown ==
  ASSUME NEW p \in Nat \ {0}, NEW x \in Nat, NEW f \in Nat
  PROVE  f < x \div p <=> (f + 1) * p <= x
  OBVIOUS

\* The products of the frame numbers that occur.
LEMMA FrameEnd ==
  ASSUME NEW f \in Frames
  PROVE  /\ PMM_MAX_PHYS_ADDR \in Nat /\ PMM_PAGE_SIZE \in Nat \ {0}
         /\ f \in Nat /\ f * PMM_PAGE_SIZE \in Nat
         /\ (f + 1) * PMM_PAGE_SIZE = f * PMM_PAGE_SIZE + PMM_PAGE_SIZE
         /\ (f + 1) * PMM_PAGE_SIZE <= PMM_MAX_PHYS_ADDR
<1>1. PMM_PAGE_SIZE \in Nat \ {0} /\ PMM_MAX_PAGES \in Nat /\ f \in Nat /\ f + 1 <= PMM_MAX_PAGES
  BY PmmAssumption DEF Frames
<1>2. PMM_PAGE_SIZE * PMM_MAX_PAGES - (f + 1) * PMM_PAGE_SIZE
        = PMM_PAGE_SIZE * (PMM_MAX_PAGES - (f + 1))
  BY <1>1
<1>3. PMM_PAGE_SIZE * (PMM_MAX_PAGES - (f + 1)) \in Nat
  BY <1>1
<1>4. PMM_PAGE_SIZE * PMM_MAX_PAGES \in Nat /\ f * PMM_PAGE_SIZE \in Nat
  BY <1>1
<1>5. (f + 1) * PMM_PAGE_SIZE = f * PMM_PAGE_SIZE + PMM_PAGE_SIZE
  BY <1>1
<1> QED
  BY <1>1, <1>2, <1>3, <1>4, <1>5 DEF PMM_MAX_PHYS_ADDR

\* The inner loop visits exactly the complete frames of a usable region, and
\* neither the sum of base and length nor the rounding up wraps.
LEMMA EntryFramesExact ==
  ASSUME NEW e \in Entry, NEW f \in Frames
  PROVE  f \in EntryFrames(e) <=> Inside(f, e)
<1> DEFINE P == PMM_PAGE_SIZE
           M == PMM_MAX_PHYS_ADDR
<1>1. /\ M \in Nat /\ P \in Nat \ {0} /\ f \in Nat /\ f * P \in Nat
      /\ (f + 1) * P = f * P + P /\ (f + 1) * P <= M
  BY FrameEnd
<1>2. e.base \in Nat /\ e.length \in Nat /\ WORD \in Nat /\ M + P <= WORD
  BY PmmAssumption DEF Entry, Word
<1>3. CASE e.base >= M
  <2>1. ~Inside(f, e)
    BY <1>1, <1>2, <1>3 DEF Inside
  <2>2. f \notin EntryFrames(e)
    BY <1>1, <1>2, <1>3 DEF EntryFrames
  <2> QED
    BY <2>1, <2>2
<1>4. CASE e.base < M
  <2>1. first_page(e) = (e.base + (P - 1)) \div P
    <3>1. e.base + (P - 1) \in 0 .. WORD - 1
      BY <1>1, <1>2, <1>4
    <3> QED
      BY <1>2, <3>1, SmallMod DEF first_page, Add
  <2>2. first_page(e) <= f <=> e.base <= f * P
    BY <1>1, <1>2, <2>1, RoundUp
  <2>3. EntryEnd(e) = IF e.base + e.length > M THEN M ELSE e.base + e.length
    <3>1. CASE e.length > M - e.base
      BY <1>1, <1>2, <1>4, <3>1 DEF EntryEnd
    <3>2. CASE ~(e.length > M - e.base)
      <4>1. e.base + e.length \in 0 .. WORD - 1
        BY <1>1, <1>2, <1>4, <3>2
      <4> QED
        BY <1>1, <1>2, <3>2, <4>1, SmallMod DEF EntryEnd, Add
    <3> QED
      BY <3>1, <3>2
  <2>4. f < last_page(e) <=> (f + 1) * P <= EntryEnd(e)
    BY <1>1, <1>2, <2>3, RoundDown DEF last_page
  <2>5. (f + 1) * P <= EntryEnd(e) <=> (f + 1) * P <= e.base + e.length
    BY <1>1, <1>2, <2>3
  <2> QED
    BY <1>4, <2>2, <2>4, <2>5, Zenon DEF EntryFrames, Inside
<1> QED
  BY <1>1, <1>2, <1>3, <1>4

-----------------------------------------------------------------------------
(* The counter                                                             *)

\* A number is its quotient times the divisor and its remainder.
LEMMA DivMod ==
  ASSUME NEW n \in Nat \ {0}, NEW x \in Int
  PROVE  x \div n \in Int /\ x % n \in 0 .. n - 1 /\ x % n = x - n * (x \div n)
  OBVIOUS

\* The remainder is the only one.
LEMMA ModUnique ==
  ASSUME NEW n \in Nat \ {0}, NEW q \in Int, NEW r \in 0 .. n - 1
  PROVE  (n * q + r) % n = r
  OBVIOUS

\* A wrapped value may be counted up and down as if it had not wrapped.
LEMMA ModShift ==
  ASSUME NEW n \in Nat \ {0}, NEW x \in Int, NEW d \in Int
  PROVE  ((x % n) + d) % n = (x + d) % n
<1> DEFINE q  == x \div n
           r  == x % n
           q2 == (r + d) \div n
           r2 == (r + d) % n
<1>1. q \in Int /\ r \in 0 .. n - 1 /\ r = x - n * q
  BY DivMod
<1>2. q2 \in Int /\ r2 \in 0 .. n - 1 /\ r2 = (r + d) - n * q2
  BY <1>1, DivMod
<1> HIDE DEF q, r, q2, r2
<1>3. n * (q + q2) = n * q + n * q2 /\ n * q \in Int /\ n * q2 \in Int
  BY <1>1, <1>2
<1>4. x + d = n * (q + q2) + r2
  BY <1>1, <1>2, <1>3
<1>5. q + q2 \in Int
  BY <1>1, <1>2
<1>6. (n * (q + q2) + r2) % n = r2
  BY <1>2, <1>5, ModUnique, Zenon
<1> QED
  BY <1>4, <1>6 DEF r, r2

\* WORD is a modulus.
LEMMA WordPositive == WORD \in Nat \ {0}
  BY PmmAssumption, FrameEnd DEF Frames, PMM_MAX_PHYS_ADDR

\* One allocation more takes one off the counter.
LEMMA SubOne ==
  ASSUME NEW n \in Nat, NEW a \in Nat
  PROVE  Sub(Sub(n, a), 1) = Sub(n, a + 1)
<1>0. n - a \in Int /\ -1 \in Int
  OBVIOUS
<1>1. (((n - a) % WORD) + (-1)) % WORD = ((n - a) + (-1)) % WORD
  BY <1>0, WordPositive, ModShift, Zenon
<1>2. (n - a) % WORD \in Int
  BY WordPositive
<1>3. (n - a) + (-1) = n - (a + 1) /\ ((n - a) % WORD) + (-1) = ((n - a) % WORD) - 1
  BY <1>2
<1> QED
  BY <1>1, <1>3 DEF Sub

\* One frame more adds one to the counter.
LEMMA AddOne ==
  ASSUME NEW n \in Nat, NEW a \in Nat
  PROVE  Add(Sub(n, a), 1) = Sub(n + 1, a)
<1>0. n - a \in Int /\ 1 \in Int
  OBVIOUS
<1>1. (((n - a) % WORD) + 1) % WORD = ((n - a) + 1) % WORD
  BY <1>0, WordPositive, ModShift, Zenon
<1>2. (n - a) + 1 = (n + 1) - a
  OBVIOUS
<1> QED
  BY <1>1, <1>2 DEF Sub, Add

\* Frames are finitely many.
LEMMA FramesFinite ==
  ASSUME NEW S \in SUBSET Frames
  PROVE  IsFiniteSet(S) /\ Cardinality(S) \in Nat
<1>1. IsFiniteSet(Frames)
  BY FS_Interval, PmmAssumption DEF Frames
<1> QED
  BY <1>1, FS_Subset, FS_CardinalityType

-----------------------------------------------------------------------------
(* The inductive invariant                                                 *)

\* Before and during pmm_init nobody has a frame and the counter is zero.
\* pmm_init never clears a bit: the bit it tests is still set.
InitInv ==
  pc # "ready" =>
    /\ ~pmm_initialized
    /\ pmm_available_pages = 0
    /\ allocs = 0
    /\ \A f \in Frames : granted[f] = 0
    /\ pc = "entries" => pmm_bitmap = Frames /\ i <= Len(response)
    /\ pc = "boot" => i = 0

\* The usable bitmap has the frames of the entries done so far.
UsableInv ==
  pc \in {"entries", "ready"} =>
    /\ response \in MemoryMaps
    /\ pmm_usable_bitmap =
         {f \in Frames : \E n \in 1 .. i : Inside(f, response[n])}
    /\ pc = "ready" => i = Len(response) /\ pmm_initialized

\* The counter is one up for each frame whose bit a free has cleared and one
\* down for each allocation, and it wraps.
CounterBalance ==
  pc = "ready" =>
    pmm_free_pages = Sub(Cardinality(Frames \ pmm_bitmap), allocs)

IInv ==
  /\ TypeOK
  /\ InitInv
  /\ UsableInv
  /\ ReservedStayReserved
  /\ CounterBalance

\* pmm_init's loop over the entries: the frames of one more entry.
LEMMA EntryPreserves ==
  ASSUME IInv, pmm_init_entry
  PROVE  IInv'
<1> DEFINE e == response[i + 1]
<1>1. /\ pc = "entries" /\ response \in MemoryMaps /\ i \in Nat /\ i < Len(response)
      /\ Len(response) \in Nat /\ e \in Entry /\ i \in Frames
  BY PmmAssumption DEF pmm_init_entry, IInv, TypeOK, UsableInv, Frames
<1>2. ClearedFrames(e) = {}
  BY <1>1 DEF IInv, InitInv, ClearedFrames
<1>3. /\ pmm_bitmap' = Frames /\ pmm_available_pages' = 0 /\ i' = i + 1
      /\ pmm_usable_bitmap' = pmm_usable_bitmap \cup EntryFrames(e)
  <2>1. Cardinality({}) = 0
    BY FS_EmptySet
  <2>2. Add(0, 0) = 0
    BY WordPositive DEF Add
  <2> QED
    BY <1>1, <1>2, <2>1, <2>2 DEF IInv, InitInv, pmm_init_entry
<1>4. UNCHANGED <<response, pmm_initialized, pc, allocs, granted>>
  BY DEF pmm_init_entry
<1>5. EntryFrames(e) \subseteq Frames
  BY DEF EntryFrames
<1>6. TypeOK'
  <2>1. 0 \in Word
    BY WordPositive DEF Word
  <2>2. i' \in Nat
    BY <1>1, <1>3
  <2>3. pmm_bitmap' \subseteq Frames /\ pmm_usable_bitmap' \subseteq Frames
    BY <1>3, <1>5 DEF IInv, TypeOK
  <2> QED
    BY <1>3, <1>4, <2>1, <2>2, <2>3 DEF IInv, TypeOK
<1>7. InitInv'
  BY <1>1, <1>3, <1>4 DEF IInv, InitInv
<1>8. UsableInv'
  <2>1. \A f \in Frames : f \in EntryFrames(e) <=> Inside(f, e)
    BY <1>1, EntryFramesExact
  <2>2. \A n : n \in 1 .. i + 1 <=> n \in 1 .. i \/ n = i + 1
    BY <1>1
  <2>3. pmm_usable_bitmap = {f \in Frames : \E n \in 1 .. i : Inside(f, response[n])}
    BY <1>1 DEF IInv, UsableInv
  <2>4. pmm_usable_bitmap' = {f \in Frames : \E n \in 1 .. i + 1 : Inside(f, response[n])}
    BY <1>3, <1>5, <2>1, <2>2, <2>3
  <2> QED
    BY <1>1, <1>3, <1>4, <2>4 DEF UsableInv, Inside
<1>9. ReservedStayReserved' /\ CounterBalance'
  BY <1>1, <1>3, <1>4 DEF ReservedStayReserved, CounterBalance
<1> QED
  BY <1>6, <1>7, <1>8, <1>9 DEF IInv

\* The end of pmm_init: no bit is clear and the counter is zero.
LEMMA DonePreserves ==
  ASSUME IInv, pmm_init_done
  PROVE  IInv'
<1>1. /\ pc = "entries" /\ pc' = "ready" /\ pmm_initialized' = TRUE
      /\ UNCHANGED <<response, pmm_bitmap, pmm_usable_bitmap, pmm_available_pages,
                     i, allocs, granted>>
  BY DEF pmm_init_done
<1>2. /\ response \in MemoryMaps /\ i = Len(response)
      /\ pmm_bitmap = Frames /\ pmm_available_pages = 0 /\ allocs = 0
  BY <1>1, PmmAssumption DEF IInv, InitInv, UsableInv, TypeOK, pmm_init_done
<1>3. TypeOK' /\ InitInv'
  BY <1>1 DEF IInv, TypeOK, InitInv
<1>4. UsableInv'
  BY <1>1, <1>2 DEF IInv, UsableInv, Inside
<1>5. ReservedStayReserved'
  BY <1>1, <1>2 DEF IInv, ReservedStayReserved
<1>6. CounterBalance'
  <2>1. Cardinality(Frames \ Frames) = 0
    BY FS_EmptySet
  <2>2. Sub(0, 0) = 0
    BY WordPositive DEF Sub
  <2> QED
    BY <1>1, <1>2, <2>1, <2>2 DEF CounterBalance, pmm_free_pages
<1> QED
  BY <1>3, <1>4, <1>5, <1>6 DEF IInv

\* An allocation changes no bit and takes one off the counter, or fails.
LEMMA AllocPreserves ==
  ASSUME IInv, pmm_alloc_page
  PROVE  IInv'
<1>1. UNCHANGED <<response, pmm_usable_bitmap, pmm_initialized, pc, i>>
  BY DEF pmm_alloc_page
<1>2. CASE UNCHANGED <<pmm_bitmap, pmm_available_pages, allocs, granted>>
  BY <1>1, <1>2 DEF IInv, TypeOK, InitInv, UsableInv, Inside,
                    ReservedStayReserved, CounterBalance, pmm_free_pages
<1>3. ASSUME NEW f \in Frames \ {0},
             pmm_initialized, StopsAt(f),
             pmm_bitmap' = pmm_bitmap \cup {f},
             pmm_available_pages' = Sub(pmm_available_pages, 1),
             allocs' = allocs + 1,
             granted' = [granted EXCEPT ![f] = @ + 1]
      PROVE  IInv'
  <2>1. pc = "ready" /\ f \in pmm_bitmap /\ f \in pmm_usable_bitmap /\ pmm_bitmap' = pmm_bitmap
    BY <1>3 DEF IInv, InitInv, StopsAt
  <2>2. TypeOK'
    <3>1. Sub(pmm_available_pages, 1) \in Word
      BY WordPositive, ModIsWord DEF Sub, Word, IInv, TypeOK
    <3>2. allocs' \in Nat /\ granted' \in [Frames -> Nat]
      BY <1>3 DEF IInv, TypeOK
    <3> QED
      BY <1>1, <1>3, <2>1, <3>1, <3>2 DEF IInv, TypeOK
  <2>3. InitInv' /\ UsableInv'
    BY <1>1, <2>1 DEF IInv, InitInv, UsableInv, Inside
  <2>4. ReservedStayReserved'
    BY <1>1, <2>1 DEF IInv, ReservedStayReserved
  <2>5. CounterBalance'
    <3>1. Cardinality(Frames \ pmm_bitmap) \in Nat /\ allocs \in Nat
      BY FramesFinite DEF IInv, TypeOK
    <3>2. pmm_available_pages = Sub(Cardinality(Frames \ pmm_bitmap), allocs)
      BY <1>3, <2>1 DEF IInv, CounterBalance, pmm_free_pages
    <3>3. pmm_available_pages' = Sub(Cardinality(Frames \ pmm_bitmap), allocs + 1)
      BY <1>3, <3>1, <3>2, SubOne
    <3> QED
      BY <1>1, <1>3, <2>1, <3>3 DEF CounterBalance, pmm_free_pages
  <2> QED
    BY <2>2, <2>3, <2>4, <2>5 DEF IInv
<1> QED
  BY <1>2, <1>3 DEF pmm_alloc_page

\* A free clears the bit of one usable frame and adds one to the counter, or
\* is refused.
LEMMA FreePreserves ==
  ASSUME IInv, NEW address \in Addresses, pmm_free_page(address)
  PROVE  IInv'
<1> DEFINE f == FrameOf(address)
<1>1. UNCHANGED <<response, pmm_usable_bitmap, pmm_initialized, pc, i, allocs>>
  BY DEF pmm_free_page
<1>2. CASE UNCHANGED <<pmm_bitmap, pmm_available_pages, granted>>
  BY <1>1, <1>2 DEF IInv, TypeOK, InitInv, UsableInv, Inside,
                    ReservedStayReserved, CounterBalance, pmm_free_pages
<1>3. CASE /\ Freeable(address)
           /\ pmm_bitmap' = pmm_bitmap \ {f}
           /\ pmm_available_pages' = Add(pmm_available_pages, 1)
           /\ granted' = [granted EXCEPT ![f] = IF @ > 0 THEN @ - 1 ELSE 0]
  <2>1. /\ pc = "ready" /\ pmm_initialized /\ f \in Frames
        /\ f \in pmm_usable_bitmap /\ f \in pmm_bitmap
    BY <1>3 DEF IInv, TypeOK, InitInv, Freeable
  <2> HIDE DEF f
  <2>2. TypeOK'
    <3>1. Add(pmm_available_pages, 1) \in Word
      BY WordPositive, ModIsWord DEF Add, Word, IInv, TypeOK
    <3>2. granted' \in [Frames -> Nat]
      BY <1>3, <2>1 DEF IInv, TypeOK
    <3>3. pmm_bitmap' \subseteq Frames
      BY <1>3 DEF IInv, TypeOK
    <3> QED
      BY <1>1, <1>3, <3>1, <3>2, <3>3 DEF IInv, TypeOK
  <2>3. InitInv' /\ UsableInv'
    BY <1>1, <2>1 DEF IInv, InitInv, UsableInv, Inside
  <2>4. ReservedStayReserved'
    BY <1>1, <1>3, <2>1 DEF IInv, ReservedStayReserved
  <2>5. CounterBalance'
    <3> DEFINE S == Frames \ pmm_bitmap
    <3>1. IsFiniteSet(S) /\ Cardinality(S) \in Nat /\ allocs \in Nat
      BY FramesFinite DEF IInv, TypeOK
    <3>2. Frames \ pmm_bitmap' = S \cup {f} /\ f \notin S
      BY <1>3, <2>1
    <3>3. Cardinality(S \cup {f}) = Cardinality(S) + 1
      BY <3>1, <3>2, FS_AddElement
    <3>4. pmm_available_pages = Sub(Cardinality(S), allocs)
      BY <2>1 DEF IInv, CounterBalance, pmm_free_pages
    <3> HIDE DEF S
    <3>5. pmm_available_pages' = Sub(Cardinality(S) + 1, allocs)
      BY <1>3, <3>1, <3>4, AddOne
    <3> QED
      BY <1>1, <2>1, <3>2, <3>3, <3>5 DEF CounterBalance, pmm_free_pages
  <2> QED
    BY <2>2, <2>3, <2>4, <2>5 DEF IInv
<1> QED
  BY <1>2, <1>3 DEF pmm_free_page

\* pmm_init sets every bit, or fails and changes nothing.
LEMMA InitPreserves ==
  ASSUME IInv, pmm_init
  PROVE  IInv'
<1>1. pc = "boot" /\ i = 0 /\ UNCHANGED <<response, i, allocs, granted>>
  BY DEF pmm_init, IInv, InitInv
<1>2. CASE /\ response = NoResponse /\ pc' = "failed"
           /\ UNCHANGED <<pmm_bitmap, pmm_usable_bitmap, pmm_available_pages, pmm_initialized>>
  BY <1>1, <1>2 DEF IInv, TypeOK, InitInv, UsableInv,
                    ReservedStayReserved, CounterBalance
<1>3. CASE /\ response # NoResponse /\ pmm_bitmap' = Frames /\ pmm_usable_bitmap' = {}
           /\ pmm_available_pages' = 0 /\ pmm_initialized' = FALSE /\ pc' = "entries"
  <2>1. response \in MemoryMaps /\ Len(response) \in Nat
    BY <1>3, PmmAssumption DEF IInv, TypeOK
  <2>2. 0 \in Word
    BY WordPositive DEF Word
  <2>3. TypeOK'
    BY <1>1, <1>3, <2>2 DEF IInv, TypeOK
  <2>7. InitInv'
    BY <1>1, <1>3, <2>1 DEF IInv, InitInv
  <2>4. UsableInv'
    BY <1>1, <1>3, <2>1 DEF UsableInv
  <2>5. ReservedStayReserved' /\ CounterBalance'
    BY <1>3 DEF ReservedStayReserved, CounterBalance
  <2> QED
    BY <2>3, <2>4, <2>5, <2>7 DEF IInv
<1> QED
  BY <1>2, <1>3 DEF pmm_init

\* The invariant holds in every state.
THEOREM PmmInvariant == Spec => []IInv
<1>1. Init => IInv
  <2>1. 0 \in Word
    BY WordPositive DEF Word
  <2>2. ASSUME Init PROVE TypeOK
    BY <2>1, <2>2 DEF Init, TypeOK
  <2>3. ASSUME Init PROVE InitInv /\ UsableInv
    BY <2>3 DEF Init, InitInv, UsableInv
  <2>4. ASSUME Init PROVE ReservedStayReserved /\ CounterBalance
    BY <2>4 DEF Init, ReservedStayReserved, CounterBalance
  <2> QED
    BY <2>2, <2>3, <2>4 DEF IInv
<1>2. ASSUME IInv, [Next]_vars PROVE IInv'
  <2>1. CASE UNCHANGED vars
    BY <1>2, <2>1 DEF vars, IInv, TypeOK, InitInv, UsableInv, Inside,
                      ReservedStayReserved, CounterBalance, pmm_free_pages
  <2> QED
    BY <1>2, <2>1, InitPreserves, EntryPreserves, DonePreserves, AllocPreserves,
       FreePreserves DEF Next
<1> QED
  BY <1>1, <1>2, PTL DEF Spec

\* After pmm_init the usable bitmap has exactly the complete frames of the
\* usable regions, for every memory map, however its sums would wrap.
THEOREM PmmUsableExact == Spec => []UsableBitmapExact
<1>1. IInv => UsableBitmapExact
  BY DEF IInv, UsableInv, UsableBitmapExact
<1> QED
  BY <1>1, PmmInvariant, PTL

\* No call ever clears the bit of a frame outside usable memory.
THEOREM PmmReserved == Spec => []ReservedStayReserved
<1>1. IInv => ReservedStayReserved
  BY DEF IInv
<1> QED
  BY <1>1, PmmInvariant, PTL

\* Until the first allocation the counter is the number of frames whose bit is
\* clear, for every memory map and every sequence of frees (pmm.c:146-152).
THEOREM PmmCounter == Spec => []FreePagesCounted
<1>1. ASSUME IInv PROVE FreePagesCounted
  <2> SUFFICES ASSUME pc = "ready", allocs = 0
               PROVE  pmm_free_pages = Cardinality(Frames \ pmm_bitmap)
    BY DEF FreePagesCounted
  <2>1. Cardinality(Frames \ pmm_bitmap) \in Nat /\ Cardinality(Frames \ pmm_bitmap) < WORD
    <3>1. IsFiniteSet(Frames) /\ Cardinality(Frames) = PMM_MAX_PAGES
      BY FS_Interval, PmmAssumption DEF Frames
    <3>2. /\ Cardinality(Frames \ pmm_bitmap) \in Nat
          /\ Cardinality(Frames \ pmm_bitmap) <= PMM_MAX_PAGES
      BY <3>1, FS_Subset, FramesFinite
    <3>3. PMM_MAX_PAGES < WORD
      <4>1. /\ PMM_PAGE_SIZE \in Nat \ {0} /\ PMM_MAX_PAGES \in Nat \ {0} /\ WORD \in Nat
            /\ PMM_PAGE_SIZE * PMM_MAX_PAGES + PMM_PAGE_SIZE <= WORD
        BY PmmAssumption DEF PMM_MAX_PHYS_ADDR
      <4>2. PMM_MAX_PAGES <= PMM_PAGE_SIZE * PMM_MAX_PAGES
        BY <4>1
      <4> QED
        BY <4>1, <4>2
    <3> QED
      BY <3>2, <3>3, PmmAssumption
  <2>2. pmm_free_pages = Sub(Cardinality(Frames \ pmm_bitmap), 0)
    BY <1>1 DEF IInv, CounterBalance
  <2> QED
    BY <2>1, <2>2, WordPositive, SmallMod DEF Sub
<1> QED
  BY <1>1, PmmInvariant, PTL

-----------------------------------------------------------------------------
(* The arithmetic of the PPA on a sound memory map                         *)

\* An entry that ends far enough below the largest word.
SoundEntry(e) == e \in Entry /\ e.base + e.length < WORD - PMM_PAGE_SIZE

\* The constants, as numbers.
LEMMA PageFacts ==
  /\ PMM_PAGE_SIZE \in Nat \ {0} /\ WORD \in Nat \ {0}
  /\ BITS \in Nat \ {0} /\ BITS <= PMM_PAGE_SIZE
  BY PmmAssumption, WordPositive, BitsAssumption

\* Rounding an address up does not wrap.
LEMMA RoundUpExact ==
  ASSUME NEW a \in Nat, a < WORD - PMM_PAGE_SIZE
  PROVE  /\ Ppa!RoundUp(a) = (a + (PMM_PAGE_SIZE - 1)) \div PMM_PAGE_SIZE
         /\ Ppa!RoundUp(a) \in Nat
<1>1. a + PMM_PAGE_SIZE - 1 \in 0 .. WORD - 1 /\ a + PMM_PAGE_SIZE - 1 = a + (PMM_PAGE_SIZE - 1)
  BY PageFacts
<1>2. (a + (PMM_PAGE_SIZE - 1)) % WORD = a + (PMM_PAGE_SIZE - 1)
  BY <1>1, PageFacts, SmallMod
<1>3. Ppa!RoundUp(a) = (a + (PMM_PAGE_SIZE - 1)) \div PMM_PAGE_SIZE
  BY <1>1, <1>2 DEF Ppa!RoundUp, Ppa!Wrap
<1>4. (a + (PMM_PAGE_SIZE - 1)) \div PMM_PAGE_SIZE \in Nat
  BY <1>1, PageFacts
<1> QED
  BY <1>3, <1>4

\* The third loop visits exactly the complete pages of a usable entry.
LEMMA PagesOfExact ==
  ASSUME NEW e, SoundEntry(e), NEW p
  PROVE  p \in Ppa!PagesOf(e) <=> p \in Nat /\ Inside(p, e)
<1> DEFINE P == PMM_PAGE_SIZE
           end == e.base + e.length
<1>1. /\ e.base \in Nat /\ e.length \in Nat /\ end \in Nat
      /\ end < WORD - P /\ e.base < WORD - P /\ P \in Nat \ {0}
  BY PageFacts DEF SoundEntry, Entry, Word
<1>2. /\ Ppa!first_page(e) = (e.base + (P - 1)) \div P
      /\ Ppa!first_page(e) \in Nat
  BY <1>1, RoundUpExact DEF Ppa!first_page
<1>3. Ppa!last_page(e) = end \div P /\ end \div P \in Nat
  <2>1. end \in 0 .. WORD - 1
    BY <1>1, PageFacts
  <2>2. end % WORD = end
    BY <2>1, PageFacts, SmallMod
  <2> QED
    BY <1>1, <2>2 DEF Ppa!last_page, Ppa!Wrap
<1>4. ASSUME NEW f \in Nat
      PROVE  f \in Ppa!first_page(e) .. Ppa!last_page(e) - 1
               <=> e.base <= f * P /\ (f + 1) * P <= end
  <2>1. Ppa!first_page(e) <= f <=> e.base <= f * P
    BY <1>1, <1>2, RoundUp
  <2>2. f < end \div P <=> (f + 1) * P <= end
    BY <1>1, RoundDown
  <2> QED
    BY <1>2, <1>3, <2>1, <2>2
<1>5. p \in Ppa!first_page(e) .. Ppa!last_page(e) - 1 => p \in Nat
  BY <1>2, <1>3
<1>6. p \in Ppa!PagesOf(e)
        <=> e.type = USABLE /\ p \in Ppa!first_page(e) .. Ppa!last_page(e) - 1
  BY DEF Ppa!PagesOf
<1> QED
  BY <1>4, <1>5, <1>6 DEF Inside

\* The pages that are counted cover the memory.
LEMMA PageCountCovers ==
  ASSUME NEW h \in Nat, NEW count, count = (h + (PMM_PAGE_SIZE - 1)) \div PMM_PAGE_SIZE
  PROVE  /\ count \in Nat /\ count <= h
         /\ h > 0 => count > 0
         /\ \A p \in Nat : p < count <=> p * PMM_PAGE_SIZE < h
<1> DEFINE P == PMM_PAGE_SIZE
<1>1. P \in Nat \ {0}
  BY PageFacts
<1>2. count \in Nat
  BY <1>1
<1>3. ASSUME NEW p \in Nat PROVE p < count <=> p * P < h
  <2>1. count <= p <=> h <= p * P
    BY <1>1, RoundUp
  <2>2. p * P \in Nat
    BY <1>1
  <2> QED
    BY <1>2, <2>1, <2>2
<1>4. h > 0 => count > 0
  <2>1. 0 * P = 0
    BY <1>1
  <2> QED
    BY <1>2, <1>3, <2>1
<1>5. count <= h
  <2>1. h <= h * P
    BY <1>1
  <2>2. h * P \in Nat
    BY <1>1
  <2> QED
    BY <1>2, <1>3, <2>1, <2>2
<1> QED
  BY <1>2, <1>3, <1>4, <1>5

\* Every page that is counted has a bit.
LEMMA BitsCover ==
  ASSUME NEW count \in Nat, count < WORD - PMM_PAGE_SIZE, NEW size,
         size = Ppa!Wrap(count + BITS - 1) \div BITS
  PROVE  size \in Nat /\ count <= size * BITS /\ (count > 0 => size > 0)
<1>1. count + BITS - 1 \in 0 .. WORD - 1
  BY PageFacts
<1>2. Ppa!Wrap(count + BITS - 1) = count + (BITS - 1)
  BY <1>1, PageFacts, SmallMod DEF Ppa!Wrap
<1>3. size = (count + (BITS - 1)) \div BITS
  BY <1>2
<1>4. size \in Nat
  BY <1>3, PageFacts
<1>5. size <= size <=> count <= size * BITS
  BY <1>3, <1>4, PageFacts, RoundUp
<1>6. size <= 0 <=> count <= 0 * BITS
  BY <1>3, PageFacts, RoundUp
<1>7. 0 * BITS = 0
  BY PageFacts
<1> QED
  BY <1>4, <1>5, <1>6, <1>7

\* A page lies in a region exactly when its first and last byte do.
LEMMA PageInRegion ==
  ASSUME NEW e \in Entry, NEW p \in Nat
  PROVE  Ppa!PageBytes(p) \subseteq Ppa!Bytes(e)
           <=> e.base <= p * PMM_PAGE_SIZE /\ (p + 1) * PMM_PAGE_SIZE <= e.base + e.length
<1> DEFINE a == p * PMM_PAGE_SIZE
           b == (p + 1) * PMM_PAGE_SIZE
<1>1. a \in Nat /\ b \in Nat /\ a < b
  <2>1. b = a + PMM_PAGE_SIZE /\ a \in Nat
    BY PageFacts
  <2> QED
    BY <2>1, PageFacts
<1>2. e.base \in Nat /\ e.length \in Nat
  BY PmmAssumption DEF Entry, Word
<1>3. Ppa!PageBytes(p) = a .. b - 1 /\ Ppa!Bytes(e) = e.base .. e.base + e.length - 1
  BY DEF Ppa!PageBytes, Ppa!Bytes
<1> HIDE DEF a, b
<1>4. a .. b - 1 \subseteq e.base .. e.base + e.length - 1 <=> e.base <= a /\ b <= e.base + e.length
  <2>1. a \in a .. b - 1 /\ b - 1 \in a .. b - 1
    BY <1>1
  <2> QED
    BY <1>1, <1>2, <2>1
<1> QED
  BY <1>3, <1>4 DEF a, b

\* The pages that begin below an address.
LEMMA PagesBelow ==
  ASSUME NEW a \in Nat, a < WORD - PMM_PAGE_SIZE, NEW p \in Nat
  PROVE  p < Ppa!RoundUp(Ppa!Wrap(a)) <=> p * PMM_PAGE_SIZE < a
<1> DEFINE P == PMM_PAGE_SIZE
           x == p * P
<1>1. P \in Nat \ {0} /\ x \in Nat /\ a \in 0 .. WORD - 1
  BY PageFacts
<1>2. Ppa!Wrap(a) = a
  BY <1>1, PageFacts, SmallMod DEF Ppa!Wrap
<1>3. Ppa!RoundUp(a) = (a + (P - 1)) \div P /\ Ppa!RoundUp(a) \in Nat
  BY RoundUpExact
<1>4. Ppa!RoundUp(a) <= p <=> a <= x
  BY <1>1, <1>3, RoundUp
<1> QED
  BY <1>1, <1>2, <1>3, <1>4

\* A page overlaps some bytes exactly when it is between the page of the first
\* of them and the page behind the last.
LEMMA PageOverlap ==
  ASSUME NEW b \in Nat, NEW s \in Nat \ {0}, b + s < WORD - PMM_PAGE_SIZE, NEW p \in Nat
  PROVE  Ppa!PageBytes(p) \cap (b .. b + s - 1) # {}
           <=> b \div PMM_PAGE_SIZE <= p /\ p < Ppa!RoundUp(Ppa!Wrap(b + s))
<1> DEFINE P == PMM_PAGE_SIZE
           x == p * P
           y == (p + 1) * P
<1>1. P \in Nat \ {0} /\ x \in Nat /\ y \in Nat /\ x < y
  <2>1. y = x + P /\ x \in Nat
    BY PageFacts
  <2> QED
    BY <2>1, PageFacts
<1>4. p < Ppa!RoundUp(Ppa!Wrap(b + s)) <=> x < b + s
  BY PagesBelow
<1>5. b \div P <= p <=> b < y
  <2>1. p < b \div P <=> y <= b
    BY <1>1, RoundDown
  <2>2. b \div P \in Nat
    BY <1>1
  <2> QED
    BY <1>1, <2>1, <2>2
<1>6. Ppa!PageBytes(p) = x .. y - 1
  BY DEF Ppa!PageBytes
<1> HIDE DEF x, y, P
<1>7. (x .. y - 1) \cap (b .. b + s - 1) # {} <=> x < b + s /\ b < y
  <2>1. ASSUME x < b + s, b < y PROVE (x .. y - 1) \cap (b .. b + s - 1) # {}
    <3>1. CASE x <= b
      <4>1. b \in x .. y - 1 /\ b \in b .. b + s - 1
        BY <1>1, <2>1, <3>1
      <4> QED
        BY <4>1
    <3>2. CASE b < x
      <4>1. x \in x .. y - 1 /\ x \in b .. b + s - 1
        BY <1>1, <2>1, <3>2
      <4> QED
        BY <4>1
    <3> QED
      BY <1>1, <3>1, <3>2
  <2>2. ASSUME NEW z, z \in x .. y - 1, z \in b .. b + s - 1 PROVE x < b + s /\ b < y
    BY <1>1, <2>2
  <2> QED
    BY <2>1, <2>2
<1> QED
  BY <1>4, <1>5, <1>6, <1>7 DEF P

-----------------------------------------------------------------------------
(* The inductive invariant of the PPA                                      *)

PpaTypeOK ==
  /\ ppaPc \in {"highest", "place", "release", "ready", "halted"}
  /\ entry \in Nat \ {0}
  /\ highest_address \in Nat
  /\ eX_PageCount \in Nat
  /\ eX_PageBitmap \in Nat
  /\ eX_FreePageCount \in Nat
  /\ strayed \in BOOLEAN
  /\ response \in MemoryMaps \cup {NoResponse}
  /\ ppaPc # "highest" => response \in MemoryMaps

\* The first loop finds where the memory ends, and the pages below are counted.
HighestInv ==
  /\ highest_address < WORD - PMM_PAGE_SIZE
  /\ ppaPc = "highest" =>
       \A n \in 1 .. entry - 1 :
         n \in 1 .. Len(response) /\ response[n].base + response[n].length <= highest_address
  /\ ppaPc # "highest" =>
       /\ \A n \in 1 .. Len(response) :
            response[n].base + response[n].length <= highest_address
       /\ eX_PageCount = (highest_address + (PMM_PAGE_SIZE - 1)) \div PMM_PAGE_SIZE

\* The bitmap lies at the start of an entry that can hold it.
PlacedInv ==
  ppaPc \in {"release", "ready"} =>
    /\ eX_PageBitmap # 0
    /\ \E n \in 1 .. Len(response) :
         Ppa!Holds(response[n]) /\ eX_PageBitmap = response[n].base

\* The free pages, and their number.
Free == Ppa!BitmapPages \ usedBits

\* The pages of the entries done so far are free; in the end the bitmap's own
\* are not.
FreeInv ==
  ppaPc \in {"release", "ready"} =>
    /\ eX_FreePageCount = Cardinality(Free)
    /\ entry - 1 <= Len(response)
    /\ ppaPc = "ready" => entry - 1 = Len(response)
    /\ \A p :
         p \in Free <=>
           /\ \E n \in 1 .. entry - 1 : p \in Ppa!PagesOf(response[n])
           /\ ppaPc = "ready" => p \notin Ppa!BitmapFrames

PpaInv ==
  /\ PpaTypeOK
  /\ Ppa!SoundMap => ~strayed /\ HighestInv /\ PlacedInv /\ FreeInv

\* The entries of a sound map are sound.
LEMMA SoundEntries ==
  ASSUME Ppa!SoundMap, response \in MemoryMaps, NEW n \in 1 .. Len(response)
  PROVE  /\ SoundEntry(response[n]) /\ Len(response) \in Nat
         /\ response[n] \in Entry
         /\ response[n].base \in Nat /\ response[n].length \in Nat
<1>1. response \in Seq(Entry)
  BY PmmAssumption
<1>2. response[n] \in Entry /\ Len(response) \in Nat
  BY <1>1
<1> QED
  BY <1>2, PmmAssumption DEF SoundEntry, Ppa!SoundMap, Entry, Word

\* The pages of the entries are among those that are counted, and have bits.
LEMMA PagesHaveBits ==
  ASSUME PpaInv, Ppa!SoundMap, ppaPc # "highest", NEW n \in 1 .. Len(response), NEW p,
         p \in Ppa!PagesOf(response[n])
  PROVE  p \in 0 .. eX_PageCount - 1 /\ p \in Ppa!BitmapPages
<1> DEFINE P == PMM_PAGE_SIZE
           e == response[n]
           h == highest_address
<1>1. response \in MemoryMaps
  BY DEF PpaInv, PpaTypeOK
<1>2. SoundEntry(e) /\ e.base \in Nat /\ e.length \in Nat
  BY <1>1, SoundEntries
<1>3. p \in Nat /\ (p + 1) * P <= e.base + e.length
  BY <1>2, PagesOfExact DEF Inside
<1>4. /\ h \in Nat /\ e.base + e.length <= h /\ h < WORD - P
      /\ eX_PageCount = (h + (P - 1)) \div P
  BY DEF PpaInv, PpaTypeOK, HighestInv
<1>5. p * P < h
  <2>1. (p + 1) * P = p * P + P /\ p * P \in Nat /\ P \in Nat \ {0}
    BY <1>3, PageFacts
  <2> QED
    BY <1>2, <1>3, <1>4, <2>1
<1>6. eX_PageCount \in Nat /\ eX_PageCount <= h /\ p < eX_PageCount
  BY <1>3, <1>4, <1>5, PageCountCovers
<1>7. Ppa!bitmap_size \in Nat /\ eX_PageCount <= Ppa!bitmap_size * BITS
  <2>1. eX_PageCount < WORD - P
    BY <1>4, <1>6, PageFacts
  <2> QED
    BY <1>6, <2>1, BitsCover DEF Ppa!bitmap_size
<1>8. Ppa!bitmap_size * BITS \in Nat
  BY <1>7, PageFacts
<1> QED
  BY <1>3, <1>6, <1>7, <1>8 DEF Ppa!BitmapPages

\* The bitmap is not empty and lies in the memory; the pages it lies in are
\* among those that are counted, and have bits.
LEMMA BitmapHasBits ==
  ASSUME PpaInv, Ppa!SoundMap, ppaPc \in {"release", "ready"}
  PROVE  /\ Ppa!bitmap_size \in Nat \ {0}
         /\ eX_PageBitmap + Ppa!bitmap_size < WORD - PMM_PAGE_SIZE
         /\ Ppa!BitmapFrames \subseteq 0 .. eX_PageCount - 1
         /\ 0 .. eX_PageCount - 1 \subseteq Ppa!BitmapPages
         /\ eX_PageCount < WORD
<1> DEFINE P == PMM_PAGE_SIZE
           h == highest_address
           b == eX_PageBitmap
           size == Ppa!bitmap_size
<1>1. /\ response \in MemoryMaps /\ h \in Nat /\ b \in Nat /\ b # 0 /\ h < WORD - P
      /\ eX_PageCount = (h + (P - 1)) \div P
  BY DEF PpaInv, PpaTypeOK, HighestInv, PlacedInv
<1>2. PICK n \in 1 .. Len(response) : Ppa!Holds(response[n]) /\ b = response[n].base
  BY DEF PpaInv, PlacedInv
<1>3. /\ response[n].length \in Nat /\ response[n].length >= size
      /\ b + response[n].length <= h
  BY <1>1, <1>2, SoundEntries DEF PpaInv, HighestInv, Ppa!Holds
<1>4. h > 0
  BY <1>1, <1>3
<1>5. /\ eX_PageCount \in Nat /\ eX_PageCount <= h /\ eX_PageCount > 0
      /\ \A p \in Nat : p < eX_PageCount <=> p * P < h
  BY <1>1, <1>4, PageCountCovers
<1>6. /\ size \in Nat /\ size > 0 /\ eX_PageCount <= size * BITS
      /\ eX_PageCount < WORD - P
  <2>1. eX_PageCount < WORD - P
    BY <1>1, <1>5, PageFacts
  <2> QED
    BY <1>5, <2>1, BitsCover DEF Ppa!bitmap_size
<1> HIDE DEF size, b
<1>7. b + size <= h /\ b + size \in Nat /\ b + size < WORD - P
  BY <1>1, <1>3, <1>6, PageFacts
<1>8. ASSUME NEW p \in Ppa!BitmapFrames PROVE p \in 0 .. eX_PageCount - 1
  <2>1. b \div P \in Nat
    BY <1>1, PageFacts
  <2>2. Ppa!RoundUp(Ppa!Wrap(b + size)) \in Nat
    <3>1. b + size \in 0 .. WORD - 1
      BY <1>7, PageFacts
    <3>2. Ppa!Wrap(b + size) = b + size
      BY <3>1, PageFacts, SmallMod DEF Ppa!Wrap
    <3> QED
      BY <1>7, <3>2, RoundUpExact
  <2>3. p \in Nat /\ p < Ppa!RoundUp(Ppa!Wrap(b + size))
    BY <2>1, <2>2, <1>8 DEF Ppa!BitmapFrames, Ppa!bitmap_first_page, Ppa!bitmap_last_page, b, size
  <2>4. p * P < b + size
    BY <1>7, <2>3, PagesBelow
  <2>5. p * P < h
    <3>1. p * P \in Nat
      BY <2>3, PageFacts
    <3> QED
      BY <1>1, <1>7, <2>4, <3>1
  <2> QED
    BY <1>5, <2>3, <2>5
<1>9. 0 .. eX_PageCount - 1 \subseteq Ppa!BitmapPages
  <2>1. size * BITS \in Nat
    BY <1>6, PageFacts
  <2> QED
    BY <1>5, <1>6, <2>1 DEF Ppa!BitmapPages, size
<1> QED
  BY <1>5, <1>6, <1>7, <1>8, <1>9, PageFacts DEF size, b

\* The free pages are finitely many, and fewer than there are words.
LEMMA FewPages ==
  ASSUME NEW S, NEW count \in Nat, count < WORD, S \subseteq 0 .. count - 1
  PROVE  IsFiniteSet(S) /\ Cardinality(S) \in Nat /\ Cardinality(S) < WORD
<1>1. /\ IsFiniteSet(0 .. count - 1)
      /\ Cardinality(0 .. count - 1) = IF 0 > count - 1 THEN 0 ELSE (count - 1) - 0 + 1
  BY FS_Interval
<1>2. IsFiniteSet(S) /\ Cardinality(S) <= Cardinality(0 .. count - 1)
  BY <1>1, FS_Subset
<1>3. Cardinality(S) \in Nat
  BY <1>2, FS_CardinalityType
<1> QED
  BY <1>1, <1>2, <1>3, PageFacts

-----------------------------------------------------------------------------
(* The steps of eX_PPA_Init                                                *)

\* Where the memory ends: one more entry.
LEMMA HighestPreserves ==
  ASSUME PpaInv, Ppa!Highest, response # NoResponse
  PROVE  PpaInv'
<1> DEFINE e == response[entry]
           end == Ppa!Wrap(e.base + e.length)
<1>1. /\ ppaPc = "highest" /\ entry \in 1 .. Len(response) /\ response \in MemoryMaps
      /\ Len(response) \in Nat /\ e \in Entry
  BY PmmAssumption DEF PpaInv, PpaTypeOK, Ppa!Highest, Ppa!LoopDone
<1>2. /\ highest_address' = IF end > highest_address THEN end ELSE highest_address
      /\ entry' = entry + 1
      /\ UNCHANGED <<response, ppaPc, eX_PageCount, eX_PageBitmap, usedBits,
                     eX_FreePageCount, strayed>>
  BY DEF Ppa!Highest
<1>3. end \in Nat
  BY <1>1, PmmAssumption, WordPositive DEF Entry, Word, Ppa!Wrap
<1>4. PpaTypeOK'
  BY <1>1, <1>2, <1>3 DEF PpaInv, PpaTypeOK
<1>5. ASSUME Ppa!SoundMap PROVE HighestInv' /\ ~strayed
  <2>1. e.base \in Nat /\ e.length \in Nat /\ e.base + e.length < WORD - PMM_PAGE_SIZE
    BY <1>1, <1>5, SoundEntries DEF SoundEntry
  <2>2. end = e.base + e.length
    <3>1. e.base + e.length \in 0 .. WORD - 1
      BY <2>1, PageFacts
    <3> QED
      BY <3>1, PageFacts, SmallMod DEF Ppa!Wrap
  <2>3. /\ highest_address < WORD - PMM_PAGE_SIZE /\ highest_address \in Nat
        /\ \A n \in 1 .. entry - 1 :
             n \in 1 .. Len(response) /\ response[n].base + response[n].length <= highest_address
    BY <1>1, <1>5 DEF PpaInv, PpaTypeOK, HighestInv
  <2> HIDE DEF end
  <2>4. highest_address' < WORD - PMM_PAGE_SIZE /\ end <= highest_address'
        /\ highest_address <= highest_address' /\ highest_address' \in Nat
    BY <1>2, <2>1, <2>2, <2>3
  <2>5. ASSUME NEW n \in 1 .. entry
        PROVE  n \in 1 .. Len(response) /\ response[n].base + response[n].length <= highest_address'
    <3>1. CASE n = entry
      BY <1>1, <2>2, <2>4, <3>1
    <3>2. CASE n # entry
      <4>1. n \in 1 .. entry - 1
        BY <1>1, <3>2
      <4>2. n \in 1 .. Len(response) /\ response[n].base + response[n].length <= highest_address
        BY <2>3, <4>1
      <4>3. response[n].base \in Nat /\ response[n].length \in Nat
        BY <1>1, <1>5, <4>2, SoundEntries
      <4> QED
        BY <2>3, <2>4, <4>2, <4>3
    <3> QED
      BY <3>1, <3>2
  <2>6. entry' - 1 = entry /\ ppaPc' = "highest"
    BY <1>1, <1>2
  <2> QED
    BY <1>2, <1>5, <2>4, <2>5, <2>6 DEF HighestInv, PpaInv
<1>6. Ppa!SoundMap' => Ppa!SoundMap
  BY <1>2 DEF Ppa!SoundMap, Ppa!Bytes
<1> QED
  BY <1>1, <1>2, <1>4, <1>5, <1>6 DEF PpaInv, PlacedInv, FreeInv

\* The pages are counted.
LEMMA CountPreserves ==
  ASSUME PpaInv, Ppa!Count, response # NoResponse
  PROVE  PpaInv'
<1>1. /\ ppaPc = "highest" /\ entry > Len(response) /\ response \in MemoryMaps
      /\ Len(response) \in Nat /\ entry \in Nat /\ highest_address \in Nat
  BY PmmAssumption DEF PpaInv, PpaTypeOK, Ppa!Count, Ppa!LoopDone
<1>2. /\ eX_PageCount' = Ppa!RoundUp(highest_address) /\ ppaPc' = "place"
      /\ UNCHANGED <<response, entry, highest_address, eX_PageBitmap, usedBits,
                     eX_FreePageCount, strayed>>
  BY DEF Ppa!Count
<1>3. Ppa!RoundUp(highest_address) \in Nat
  <2>1. (highest_address + PMM_PAGE_SIZE - 1) % WORD \in Nat
    BY <1>1, PageFacts
  <2> QED
    BY <2>1, PageFacts DEF Ppa!RoundUp, Ppa!Wrap
<1>4. PpaTypeOK'
  BY <1>1, <1>2, <1>3 DEF PpaInv, PpaTypeOK
<1>5. ASSUME Ppa!SoundMap PROVE HighestInv' /\ ~strayed
  <2>1. /\ highest_address < WORD - PMM_PAGE_SIZE
        /\ \A n \in 1 .. entry - 1 : response[n].base + response[n].length <= highest_address
    BY <1>1, <1>5 DEF PpaInv, HighestInv
  <2>2. Ppa!RoundUp(highest_address)
          = (highest_address + (PMM_PAGE_SIZE - 1)) \div PMM_PAGE_SIZE
    BY <1>1, <2>1, RoundUpExact
  <2>3. \A n \in 1 .. Len(response) : n \in 1 .. entry - 1
    BY <1>1
  <2> QED
    BY <1>2, <1>5, <2>1, <2>2, <2>3 DEF HighestInv, PpaInv
<1>6. Ppa!SoundMap' => Ppa!SoundMap
  BY <1>2 DEF Ppa!SoundMap, Ppa!Bytes
<1> QED
  BY <1>2, <1>4, <1>5, <1>6 DEF PpaInv, PlacedInv, FreeInv

\* The bitmap is placed and all its bits are set.
LEMMA PlacePreserves ==
  ASSUME PpaInv, Ppa!Place, response # NoResponse
  PROVE  PpaInv'
<1>1. /\ ppaPc = "place" /\ response \in MemoryMaps /\ Len(response) \in Nat
  BY PmmAssumption DEF PpaInv, PpaTypeOK, Ppa!Place
<1>2. PICK n \in 1 .. Len(response) :
        Ppa!Holds(response[n]) /\ response[n].base # 0 /\ eX_PageBitmap' = response[n].base
  BY DEF Ppa!Place
<1>3. /\ usedBits' = Ppa!BitmapPages /\ eX_FreePageCount' = 0 /\ entry' = 1 /\ ppaPc' = "release"
      /\ UNCHANGED <<response, highest_address, eX_PageCount, strayed>>
  BY DEF Ppa!Place
<1>4. response[n].base \in Nat
  <2>1. response[n] \in Entry
    BY <1>1, <1>2, PmmAssumption
  <2> QED
    BY <2>1, PmmAssumption DEF Entry, Word
<1>5. PpaTypeOK'
  BY <1>1, <1>2, <1>3, <1>4 DEF PpaInv, PpaTypeOK
<1>6. Ppa!BitmapPages' = Ppa!BitmapPages /\ Ppa!bitmap_size' = Ppa!bitmap_size
  BY <1>3 DEF Ppa!BitmapPages, Ppa!bitmap_size
<1>7. PlacedInv'
  BY <1>2, <1>3, <1>6 DEF PlacedInv, Ppa!Holds
<1>8. FreeInv'
  <2>1. Free' = {} /\ entry' - 1 = 0
    BY <1>3, <1>6 DEF Free
  <2>2. Cardinality({}) = 0
    BY FS_EmptySet
  <2> QED
    BY <1>1, <1>3, <2>1, <2>2 DEF FreeInv
<1>9. Ppa!SoundMap => HighestInv' /\ ~strayed'
  BY <1>1, <1>3 DEF PpaInv, HighestInv
<1>10. Ppa!SoundMap' => Ppa!SoundMap
  BY <1>3 DEF Ppa!SoundMap, Ppa!Bytes
<1> QED
  BY <1>5, <1>7, <1>8, <1>9, <1>10 DEF PpaInv

\* No entry can hold the bitmap: the kernel halts.
LEMMA CannotPlacePreserves ==
  ASSUME PpaInv, Ppa!CannotPlace
  PROVE  PpaInv'
<1>1. /\ ppaPc = "place" /\ ppaPc' = "halted"
      /\ UNCHANGED <<response, entry, highest_address, eX_PageCount, eX_PageBitmap,
                     usedBits, eX_FreePageCount, strayed>>
  BY DEF Ppa!CannotPlace
<1>2. PpaTypeOK'
  BY <1>1 DEF PpaInv, PpaTypeOK
<1>3. Ppa!SoundMap' => Ppa!SoundMap
  BY <1>1 DEF Ppa!SoundMap, Ppa!Bytes
<1>4. Ppa!SoundMap => HighestInv' /\ ~strayed'
  BY <1>1 DEF PpaInv, HighestInv
<1> QED
  BY <1>1, <1>2, <1>3, <1>4 DEF PpaInv, PlacedInv, FreeInv

\* Two usable entries have no page in common.
LEMMA NoSharedPage ==
  ASSUME Ppa!SoundMap, response \in MemoryMaps,
         NEW n \in 1 .. Len(response), NEW m \in 1 .. Len(response), n # m,
         NEW p, p \in Ppa!PagesOf(response[n])
  PROVE  p \notin Ppa!PagesOf(response[m])
<1> SUFFICES ASSUME p \in Ppa!PagesOf(response[m]) PROVE FALSE
  OBVIOUS
<1>1. /\ SoundEntry(response[n]) /\ response[n] \in Entry
      /\ SoundEntry(response[m]) /\ response[m] \in Entry
  BY SoundEntries
<1>2. p \in Nat /\ Inside(p, response[n]) /\ Inside(p, response[m])
  BY <1>1, PagesOfExact
<1>3. /\ Ppa!PageBytes(p) \subseteq Ppa!Bytes(response[n])
      /\ Ppa!PageBytes(p) \subseteq Ppa!Bytes(response[m])
  BY <1>1, <1>2, PageInRegion DEF Inside
<1>4. p * PMM_PAGE_SIZE \in Ppa!PageBytes(p)
  <2>1. /\ p * PMM_PAGE_SIZE \in Nat /\ PMM_PAGE_SIZE \in Nat \ {0}
        /\ (p + 1) * PMM_PAGE_SIZE = p * PMM_PAGE_SIZE + PMM_PAGE_SIZE
    BY <1>2, PageFacts
  <2> QED
    BY <2>1 DEF Ppa!PageBytes
<1>5. Ppa!Bytes(response[n]) \cap Ppa!Bytes(response[m]) = {}
  BY <1>2 DEF Ppa!SoundMap, Inside
<1> QED
  BY <1>3, <1>4, <1>5

\* The instance counts as this module does.
LEMMA SameCardinality ==
  ASSUME NEW S
  PROVE  Ppa!Cardinality(S) = Cardinality(S)
  BY DEF Ppa!Cardinality, Cardinality

\* The pages of one more entry are released.
LEMMA ReleasePreserves ==
  ASSUME PpaInv, Ppa!Release, response # NoResponse
  PROVE  PpaInv'
<1> DEFINE pages == Ppa!PagesOf(response[entry])
           count == eX_FreePageCount
<1>1. /\ ppaPc = "release" /\ response \in MemoryMaps /\ Len(response) \in Nat
      /\ entry \in 1 .. Len(response) /\ count \in Nat
  BY PmmAssumption DEF PpaInv, PpaTypeOK, Ppa!Release, Ppa!LoopDone
<1>2. /\ usedBits' = usedBits \ pages
      /\ eX_FreePageCount' = Ppa!Wrap(count + Cardinality(pages))
      /\ strayed' = (strayed \/ ~(pages \subseteq Ppa!BitmapPages))
      /\ entry' = entry + 1
      /\ UNCHANGED <<response, ppaPc, highest_address, eX_PageCount, eX_PageBitmap>>
  <2>1. usedBits' = usedBits \ pages
    BY DEF Ppa!Release
  <2>2. eX_FreePageCount' = Ppa!Wrap(count + Cardinality(pages))
    BY SameCardinality DEF Ppa!Release
  <2>3. strayed' = (strayed \/ ~(pages \subseteq Ppa!BitmapPages))
    BY Zenon DEF Ppa!Release
  <2> QED
    BY <2>1, <2>2, <2>3 DEF Ppa!Release
<1>3. pages \subseteq Int /\ IsFiniteSet(pages) /\ Cardinality(pages) \in Nat
  <2>1. response[entry] \in Entry
    BY <1>1, PmmAssumption
  <2>2. Ppa!first_page(response[entry]) \in Int /\ Ppa!last_page(response[entry]) - 1 \in Int
    <3>1. response[entry].base \in Nat /\ response[entry].length \in Nat
      BY <2>1, PmmAssumption DEF Entry, Word
    <3>2. /\ (response[entry].base + PMM_PAGE_SIZE - 1) % WORD \in Nat
          /\ (response[entry].base + response[entry].length) % WORD \in Nat
      BY <3>1, PageFacts
    <3> QED
      BY <3>2, PageFacts DEF Ppa!first_page, Ppa!last_page, Ppa!RoundUp, Ppa!Wrap
  <2>3. pages = {} \/ pages = Ppa!first_page(response[entry]) .. Ppa!last_page(response[entry]) - 1
    BY DEF Ppa!PagesOf
  <2>4. IsFiniteSet(pages)
    BY <2>2, <2>3, FS_EmptySet, FS_Interval
  <2> QED
    BY <2>2, <2>3, <2>4, FS_CardinalityType
<1>4. PpaTypeOK'
  <2>1. Ppa!Wrap(count + Cardinality(pages)) \in Nat
    BY <1>1, <1>3, PageFacts DEF Ppa!Wrap
  <2> QED
    BY <1>1, <1>2, <2>1 DEF PpaInv, PpaTypeOK
<1>5. /\ Ppa!BitmapPages' = Ppa!BitmapPages /\ Ppa!bitmap_size' = Ppa!bitmap_size
      /\ Ppa!BitmapFrames' = Ppa!BitmapFrames
  BY <1>2 DEF Ppa!BitmapPages, Ppa!bitmap_size, Ppa!BitmapFrames, Ppa!bitmap_first_page,
              Ppa!bitmap_last_page
<1>6. ASSUME Ppa!SoundMap PROVE ~strayed' /\ HighestInv' /\ PlacedInv' /\ FreeInv'
  <2>1. pages \subseteq 0 .. eX_PageCount - 1 /\ pages \subseteq Ppa!BitmapPages
    BY <1>1, <1>6, PagesHaveBits
  <2>2. ~strayed /\ HighestInv /\ PlacedInv /\ FreeInv
    BY <1>6 DEF PpaInv
  <2>3. HighestInv' /\ ~strayed'
    BY <1>1, <1>2, <2>1, <2>2 DEF HighestInv
  <2>4. PlacedInv'
    BY <1>2, <1>5, <2>2 DEF PlacedInv, Ppa!Holds
  <2>5. /\ count = Cardinality(Free)
        /\ \A p : p \in Free <=> \E n \in 1 .. entry - 1 : p \in Ppa!PagesOf(response[n])
    BY <1>1, <2>2 DEF FreeInv
  <2>6. Free' = Free \cup pages
    BY <1>2, <1>5, <2>1 DEF Free
  <2>7. Free \cap pages = {}
    <3> SUFFICES ASSUME NEW p \in Free, p \in pages PROVE FALSE
      OBVIOUS
    <3>1. PICK n \in 1 .. entry - 1 : p \in Ppa!PagesOf(response[n])
      BY <2>5
    <3>2. n \in 1 .. Len(response) /\ n # entry
      BY <1>1
    <3> QED
      BY <1>1, <1>6, <3>1, <3>2, NoSharedPage
  <2>8. Free \subseteq 0 .. eX_PageCount - 1
    <3> SUFFICES ASSUME NEW p \in Free PROVE p \in 0 .. eX_PageCount - 1
      OBVIOUS
    <3>1. PICK n \in 1 .. entry - 1 : p \in Ppa!PagesOf(response[n])
      BY <2>5
    <3>2. n \in 1 .. Len(response)
      BY <1>1
    <3> QED
      BY <1>1, <1>6, <3>1, <3>2, PagesHaveBits
  <2>9. eX_PageCount \in Nat /\ eX_PageCount < WORD
    BY <1>1, <1>6, BitmapHasBits DEF PpaInv, PpaTypeOK
  <2> HIDE DEF pages
  <2>10. eX_FreePageCount' = Cardinality(Free')
    <3>1. /\ IsFiniteSet(Free) /\ Cardinality(Free) \in Nat
          /\ Cardinality(Free \cup pages) \in Nat /\ Cardinality(Free \cup pages) < WORD
      <4>1. Free \cup pages \subseteq 0 .. eX_PageCount - 1
        BY <2>1, <2>8
      <4> QED
        BY <2>8, <2>9, <4>1, FewPages
    <3>2. Cardinality(Free \cup pages) = Cardinality(Free) + Cardinality(pages) - Cardinality(Free \cap pages)
      BY <1>3, <3>1, FS_Union
    <3>3. Cardinality({}) = 0
      BY FS_EmptySet
    <3>4. Cardinality(Free \cup pages) = count + Cardinality(pages)
      BY <1>3, <2>5, <2>7, <3>1, <3>2, <3>3
    <3>5. count + Cardinality(pages) \in 0 .. WORD - 1
      BY <3>1, <3>4, PageFacts
    <3>6. Ppa!Wrap(count + Cardinality(pages)) = count + Cardinality(pages)
      BY <3>5, PageFacts, SmallMod DEF Ppa!Wrap
    <3> QED
      BY <1>2, <2>6, <3>4, <3>6
  <2>11. \A p : p \in Free' <=> \E n \in 1 .. entry : p \in Ppa!PagesOf(response[n])
    <3>1. \A n : n \in 1 .. entry <=> n \in 1 .. entry - 1 \/ n = entry
      BY <1>1
    <3> QED
      BY <2>5, <2>6, <3>1 DEF pages
  <2>12. FreeInv'
    <3>1. entry' - 1 = entry /\ ppaPc' = "release"
      BY <1>1, <1>2
    <3> QED
      BY <1>1, <1>2, <2>10, <2>11, <3>1 DEF FreeInv
  <2> QED
    BY <2>3, <2>4, <2>12
<1>7. Ppa!SoundMap' => Ppa!SoundMap
  BY <1>2 DEF Ppa!SoundMap, Ppa!Bytes
<1> QED
  BY <1>4, <1>6, <1>7 DEF PpaInv

\* The pages of the bitmap are taken back.
LEMMA ReservePreserves ==
  ASSUME PpaInv, Ppa!Reserve, response # NoResponse
  PROVE  PpaInv'
<1> DEFINE taken == Ppa!TakenBack
           own   == Ppa!BitmapFrames
           count == eX_FreePageCount
<1>1. /\ ppaPc = "release" /\ response \in MemoryMaps /\ Len(response) \in Nat
      /\ entry \in Nat \ {0} /\ entry > Len(response) /\ count \in Nat
  BY PmmAssumption DEF PpaInv, PpaTypeOK, Ppa!Reserve, Ppa!LoopDone
<1>2. /\ usedBits' = usedBits \cup taken
      /\ eX_FreePageCount' = Ppa!Wrap(count - Cardinality(taken))
      /\ strayed' = (strayed \/ ~(own \subseteq Ppa!BitmapPages))
      /\ ppaPc' = "ready"
      /\ UNCHANGED <<response, entry, highest_address, eX_PageCount, eX_PageBitmap>>
  <2>1. strayed' = (strayed \/ ~(own \subseteq Ppa!BitmapPages))
    BY Zenon DEF Ppa!Reserve
  <2>2. eX_FreePageCount' = Ppa!Wrap(count - Cardinality(taken))
    BY SameCardinality DEF Ppa!Reserve
  <2> QED
    BY <2>1, <2>2 DEF Ppa!Reserve
<1>3. IsFiniteSet(taken) /\ Cardinality(taken) \in Nat
  <2>1. Ppa!bitmap_size \in Int
    BY PageFacts DEF Ppa!bitmap_size, Ppa!Wrap, PpaInv, PpaTypeOK
  <2>2. Ppa!bitmap_first_page \in Int
    BY PageFacts DEF Ppa!bitmap_first_page, PpaInv, PpaTypeOK
  <2>3. Ppa!bitmap_last_page - 1 \in Int
    BY <2>1, PageFacts DEF Ppa!bitmap_last_page, Ppa!RoundUp, Ppa!Wrap, PpaInv, PpaTypeOK
  <2>4. IsFiniteSet(own)
    BY <2>2, <2>3, FS_Interval DEF Ppa!BitmapFrames
  <2>5. taken \subseteq own
    BY DEF Ppa!TakenBack
  <2> QED
    BY <2>4, <2>5, FS_Subset, FS_CardinalityType
<1>4. PpaTypeOK'
  <2>1. Ppa!Wrap(count - Cardinality(taken)) \in Nat
    BY <1>1, <1>3, PageFacts DEF Ppa!Wrap
  <2> QED
    BY <1>1, <1>2, <2>1 DEF PpaInv, PpaTypeOK
<1>5. /\ Ppa!BitmapPages' = Ppa!BitmapPages /\ Ppa!bitmap_size' = Ppa!bitmap_size
      /\ Ppa!BitmapFrames' = Ppa!BitmapFrames
  BY <1>2 DEF Ppa!BitmapPages, Ppa!bitmap_size, Ppa!BitmapFrames, Ppa!bitmap_first_page,
              Ppa!bitmap_last_page
<1>6. ASSUME Ppa!SoundMap PROVE ~strayed' /\ HighestInv' /\ PlacedInv' /\ FreeInv'
  <2>1. /\ own \subseteq Ppa!BitmapPages
        /\ eX_PageCount \in Nat /\ eX_PageCount < WORD
    BY <1>1, <1>6, BitmapHasBits DEF PpaInv, PpaTypeOK
  <2>2. ~strayed /\ HighestInv /\ PlacedInv /\ FreeInv
    BY <1>6 DEF PpaInv
  <2>3. HighestInv' /\ ~strayed'
    BY <1>1, <1>2, <2>1, <2>2 DEF HighestInv
  <2>4. PlacedInv'
    BY <1>1, <1>2, <1>5, <2>2 DEF PlacedInv, Ppa!Holds
  <2>5. /\ count = Cardinality(Free) /\ entry - 1 = Len(response)
        /\ \A p : p \in Free <=> \E n \in 1 .. entry - 1 : p \in Ppa!PagesOf(response[n])
    BY <1>1, <2>2 DEF FreeInv
  <2>6. taken = Free \cap own
    BY <2>1 DEF Free, Ppa!TakenBack
  <2>7. Free' = Free \ own
    BY <1>2, <1>5, <2>6 DEF Free
  <2>8. Free \subseteq 0 .. eX_PageCount - 1
    <3> SUFFICES ASSUME NEW p \in Free PROVE p \in 0 .. eX_PageCount - 1
      OBVIOUS
    <3>1. PICK n \in 1 .. Len(response) : p \in Ppa!PagesOf(response[n])
      BY <2>5
    <3> QED
      BY <1>1, <1>6, <3>1, PagesHaveBits
  <2>9. IsFiniteSet(Free) /\ Cardinality(Free) \in Nat /\ Cardinality(Free) < WORD
    BY <2>1, <2>8, FewPages
  <2> HIDE DEF taken, own
  <2>10. eX_FreePageCount' = Cardinality(Free')
    <3>1. Cardinality(Free \ taken) = Cardinality(Free) - Cardinality(Free \cap taken)
      BY <2>9, FS_Difference
    <3>2. Free \cap taken = taken /\ Free \ taken = Free'
      BY <2>6, <2>7
    <3>3. Cardinality(Free') \in Nat
      <4>1. IsFiniteSet(Free \ taken)
        BY <2>9, FS_Subset
      <4> QED
        BY <3>2, <4>1, FS_CardinalityType
    <3>4. count - Cardinality(taken) = Cardinality(Free')
      BY <2>5, <3>1, <3>2
    <3> HIDE DEF count
    <3>6. Cardinality(Free') \in 0 .. WORD - 1
      BY <1>3, <2>5, <2>9, <3>3, <3>4, PageFacts
    <3>5. Ppa!Wrap(count - Cardinality(taken)) = Cardinality(Free')
      BY <3>4, <3>6, PageFacts, SmallMod DEF Ppa!Wrap
    <3> QED
      BY <1>2, <3>5
  <2>11. FreeInv'
    <3>1. /\ entry' - 1 = entry - 1 /\ Len(response)' = Len(response)
          /\ Ppa!BitmapFrames' = own
      BY <1>2, <1>5 DEF own
    <3>2. \A p : (p \in Free)' <=>
                   /\ \E n \in 1 .. entry' - 1 : p \in Ppa!PagesOf(response'[n])
                   /\ p \notin Ppa!BitmapFrames'
      BY <1>2, <2>5, <2>7, <3>1
    <3> QED
      BY <1>1, <1>2, <2>5, <2>10, <3>1, <3>2 DEF FreeInv, Ppa!PagesOf, Ppa!first_page, Ppa!last_page
  <2> QED
    BY <2>3, <2>4, <2>11
<1>7. Ppa!SoundMap' => Ppa!SoundMap
  BY <1>2 DEF Ppa!SoundMap, Ppa!Bytes
<1> QED
  BY <1>4, <1>6, <1>7 DEF PpaInv

-----------------------------------------------------------------------------
(* The theorems                                                            *)

\* The PPA's invariant holds in every state, whatever the PMM does.
THEOREM PagesInvariant == PagesSpec => []PpaInv
<1>1. PagesInit => PpaInv
  <2> SUFFICES ASSUME PagesInit PROVE PpaInv
    OBVIOUS
  <2>1. PpaTypeOK
    <3>1. response \in MemoryMaps \cup {NoResponse} /\ strayed \in BOOLEAN
      BY Zenon DEF PagesInit, Init, Ppa!PpaInit
    <3> QED
      BY <3>1 DEF PagesInit, Ppa!PpaInit, PpaTypeOK
  <2>2. Ppa!SoundMap => HighestInv
    <3>1. PMM_PAGE_SIZE < WORD
      <4>1. PMM_PAGE_SIZE * PMM_MAX_PAGES \in Nat \ {0}
        BY PmmAssumption
      <4> QED
        BY <4>1, PmmAssumption DEF PMM_MAX_PHYS_ADDR
    <3> QED
      BY <3>1, PageFacts DEF PagesInit, Ppa!PpaInit, HighestInv
  <2> QED
    BY <2>1, <2>2 DEF PpaInv, PlacedInv, FreeInv, PagesInit, Ppa!PpaInit
<1>2. ASSUME PpaInv, [PagesNext]_pagesVars PROVE PpaInv'
  <2>1. CASE UNCHANGED <<response, ppaState>>
    BY <1>2, <2>1 DEF ppaState, PpaInv, PpaTypeOK, HighestInv, PlacedInv, FreeInv, Free,
         Ppa!SoundMap, Ppa!Bytes, Ppa!Holds, Ppa!PagesOf, Ppa!first_page, Ppa!last_page,
         Ppa!RoundUp, Ppa!Wrap, Ppa!BitmapPages, Ppa!bitmap_size, Ppa!BitmapFrames,
         Ppa!bitmap_first_page, Ppa!bitmap_last_page
  <2>2. CASE response # NoResponse /\ Ppa!eX_PPA_Init
    BY <1>2, <2>2, HighestPreserves, CountPreserves, PlacePreserves, CannotPlacePreserves,
       ReleasePreserves, ReservePreserves DEF Ppa!eX_PPA_Init
  <2>3. Next => UNCHANGED response
    BY DEF Next, pmm_init, pmm_init_entry, pmm_init_done, pmm_alloc_page, pmm_free_page
  <2>4. UNCHANGED pagesVars => UNCHANGED <<response, ppaState>>
    BY DEF pagesVars, vars
  <2> QED
    BY <1>2, <2>1, <2>2, <2>3, <2>4 DEF PagesNext
<1> QED
  BY <1>1, <1>2, PTL DEF PagesSpec

\* After eX_PPA_Init the free pages are exactly the complete pages of usable
\* regions that hold no byte of the bitmap, for every sound memory map.
THEOREM PagesFreeExact == PagesSpec => []PpaFreePagesExact
<1>1. ASSUME PpaInv, ppaPc = "ready", Ppa!SoundMap PROVE Free = Ppa!FreePages
  <2>1. response \in MemoryMaps /\ eX_PageBitmap \in Nat
    BY <1>1 DEF PpaInv, PpaTypeOK
  <2>2. /\ Ppa!bitmap_size \in Nat \ {0}
        /\ eX_PageBitmap + Ppa!bitmap_size < WORD - PMM_PAGE_SIZE
    BY <1>1, BitmapHasBits
  <2>3. \A p : p \in Free <=> /\ \E n \in 1 .. Len(response) : p \in Ppa!PagesOf(response[n])
                             /\ p \notin Ppa!BitmapFrames
    BY <1>1 DEF PpaInv, FreeInv
  <2>4. ASSUME NEW n \in 1 .. Len(response), NEW p \in Nat
        PROVE  p \in Ppa!PagesOf(response[n]) <=>
                 response[n].type = USABLE /\ Ppa!PageBytes(p) \subseteq Ppa!Bytes(response[n])
    <3>1. SoundEntry(response[n]) /\ response[n] \in Entry
      BY <1>1, <2>1, SoundEntries
    <3> QED
      BY <3>1, PagesOfExact, PageInRegion DEF Inside
  <2>5. ASSUME NEW p \in Nat
        PROVE  p \in Ppa!BitmapFrames <=> Ppa!PageBytes(p) \cap Ppa!BitmapBytes # {}
    <3>1. Ppa!PageBytes(p) \cap Ppa!BitmapBytes # {} <=>
            /\ Ppa!bitmap_first_page <= p
            /\ p < Ppa!bitmap_last_page
      BY <2>1, <2>2, PageOverlap
         DEF Ppa!BitmapBytes, Ppa!bitmap_first_page, Ppa!bitmap_last_page
    <3>2. Ppa!bitmap_first_page \in Int
      BY <2>1, PageFacts DEF Ppa!bitmap_first_page
    <3>3. Ppa!bitmap_last_page \in Int
      BY <2>1, <2>2, PageFacts DEF Ppa!bitmap_last_page, Ppa!RoundUp, Ppa!Wrap
    <3> QED
      BY <3>1, <3>2, <3>3 DEF Ppa!BitmapFrames
  <2>6. ASSUME NEW p, p \in Free PROVE p \in Ppa!FreePages
    <3>1. PICK n \in 1 .. Len(response) : p \in Ppa!PagesOf(response[n])
      BY <2>3, <2>6
    <3>2. p \in Ppa!BitmapPages
      BY <2>6 DEF Free
    <3>3. p \in Nat
      BY <1>1, <3>1, PagesHaveBits
    <3> QED
      BY <2>3, <2>4, <2>5, <2>6, <3>1, <3>2, <3>3 DEF Ppa!FreePages
  <2>7. ASSUME NEW p, p \in Ppa!FreePages PROVE p \in Free
    <3>1. p \in Nat
      <4>1. Ppa!bitmap_size * BITS \in Nat
        BY <2>2, PageFacts
      <4> QED
        BY <2>7, <4>1 DEF Ppa!FreePages, Ppa!BitmapPages
    <3> QED
      BY <2>3, <2>4, <2>5, <2>7, <3>1 DEF Ppa!FreePages
  <2> QED
    BY <2>6, <2>7
<1>2. PpaInv => PpaFreePagesExact
  BY <1>1 DEF PpaFreePagesExact, Ppa!FreePagesExact, Free
<1> QED
  BY <1>2, PagesInvariant, PTL

\* The counter is the number of free pages: no page is counted twice, and
\* neither sum wraps.
THEOREM PagesCountExact == PagesSpec => []PpaFreeCountExact
<1>1. PpaInv => PpaFreeCountExact
  BY SameCardinality DEF PpaInv, FreeInv, Free, PpaFreeCountExact, Ppa!FreeCountExact
<1> QED
  BY <1>1, PagesInvariant, PTL

\* On a sound memory map no bit outside the bitmap is read or written.
THEOREM PagesInBitmap == PagesSpec => []PpaStaysInBitmap
<1>1. PpaInv => PpaStaysInBitmap
  BY DEF PpaInv, PpaStaysInBitmap, Ppa!StaysInBitmap
<1> QED
  BY <1>1, PagesInvariant, PTL
=============================================================================
