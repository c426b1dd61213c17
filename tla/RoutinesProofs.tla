--------------------------- MODULE RoutinesProofs ---------------------------
(***************************************************************************)
(* Proofs about the routines of Routines, for every value of the constants.*)
(*                                                                         *)
(* The memory functions do what C mandates, however the ranges of memmove  *)
(* overlap.  The pixels of the framebuffer show the glyphs of the cells,   *)
(* and are written behind the memory exactly when Console says so.  What   *)
(* eX_Print prints is what its format means: the loop of the code and a    *)
(* reader of the format agree after every directive, and the digits that   *)
(* come from repeated division are the positional notation of the number.  *)
(***************************************************************************)
EXTENDS Routines, Induction, SequenceTheorems, TLAPS

-----------------------------------------------------------------------------
(* The memory functions                                                    *)


\* The addresses that the loop has stored to so far.
StoredTo ==
  IF call.fn = "memcmp" THEN {}
  ELSE IF Downwards(call) THEN call.dest + i .. call.dest + call.n - 1
  ELSE call.dest .. call.dest + i - 1

\* What a call stores at address a.
Stored(a) ==
  IF call.fn = "memset" THEN call.c % BYTE ELSE old[call.src + (a - call.dest)]

LibcTypes ==
  /\ call \in Call
  /\ mem \in [Address -> Byte]
  /\ old \in [Address -> Byte]
  /\ i \in 0 .. call.n
  /\ running \in BOOLEAN

\* The loop has written exactly what it has passed.
LibcProgress ==
  \A a \in Address : mem[a] = IF a \in StoredTo THEN Stored(a) ELSE old[a]

\* memcmp has found no difference so far.
EqualSoFar ==
  call.fn = "memcmp" => \A q \in 0 .. i - 1 : old[call.dest + q] = old[call.src + q]

LibcInv == LibcTypes /\ LibcProgress /\ EqualSoFar /\ CallExact

-----------------------------------------------------------------------------

\* What the arguments of a call are: numbers, and ranges inside the memory
\* (the precondition of main.c:96-145).
LEMMA LibcCallFacts ==
  ASSUME NEW k \in Call
  PROVE  /\ k.fn \in {"memcpy", "memset", "memmove", "memcmp"}
         /\ k.dest \in Nat /\ k.src \in Nat /\ k.n \in Nat /\ k.c \in Int
         /\ k.dest + k.n <= MEMORY /\ k.src + k.n <= MEMORY
         /\ k.fn = "memcpy" => k.dest + k.n <= k.src \/ k.src + k.n <= k.dest
<1>1. /\ k \in [fn : {"memcpy", "memset", "memmove", "memcmp"},
               dest : Address, src : Address, n : 0 .. MEMORY, c : Fills]
      /\ k.dest + k.n <= MEMORY /\ k.src + k.n <= MEMORY
      /\ k.fn = "memcpy" => Disjoint(k.dest, k.src, k.n)
  BY DEF Call
<1>2. /\ k.fn \in {"memcpy", "memset", "memmove", "memcmp"}
      /\ k.dest \in Address /\ k.src \in Address /\ k.n \in 0 .. MEMORY /\ k.c \in Fills
  BY <1>1
<1>. QED
  <2>1. k.dest \in Nat /\ k.src \in Nat /\ k.n \in Nat
    BY <1>2, LibcAssumption DEF Address
  <2>2. k.c \in Int
    BY <1>2, LibcAssumption
  <2>3. k.fn = "memcpy" => k.dest + k.n <= k.src \/ k.src + k.n <= k.dest
    BY <1>1 DEF Disjoint
  <2>. QED
    BY <1>1, <1>2, <2>1, <2>2, <2>3

\* The byte that is copied next is still the source's: the loops of memcpy and
\* memmove have not stored to it (main.c:100, 121-128).
LEMMA PendingUnwritten ==
  ASSUME LibcInv
  PROVE  /\ Copies(call) /\ Upwards(call) =>
              \A p \in i .. call.n - 1 : mem[call.src + p] = old[call.src + p]
         /\ Downwards(call) =>
              \A p \in 0 .. i - 1 : mem[call.src + p] = old[call.src + p]
<1>. USE LibcAssumption
<1>1. call \in Call /\ i \in 0 .. call.n
  BY DEF LibcInv, LibcTypes
<1>2. CASE Copies(call) /\ Upwards(call)
  <2>1. ~Downwards(call)
    BY <1>2 DEF Downwards
  <2>2. StoredTo = call.dest .. call.dest + i - 1
    BY <1>2, <2>1 DEF StoredTo, Copies
  <2>. SUFFICES ASSUME NEW p \in i .. call.n - 1
                PROVE  mem[call.src + p] = old[call.src + p]
    BY <2>1
  <2>3. /\ call.dest \in Nat /\ call.src \in Nat /\ call.n \in Nat /\ i \in Nat
        /\ call.src + call.n <= MEMORY /\ i <= call.n
        /\ call.dest + call.n <= call.src \/ call.src + call.n <= call.dest \/ call.src > call.dest
    BY <1>1, <1>2, LibcCallFacts DEF Upwards
  <2>4. call.src + p \in Address
    BY <2>3 DEF Address
  <2>5. call.src + p \notin call.dest .. call.dest + i - 1
    BY <2>3
  <2>. QED
    BY <2>2, <2>4, <2>5 DEF LibcInv, LibcProgress
<1>3. CASE Downwards(call)
  <2>1. ~Upwards(call) /\ StoredTo = call.dest + i .. call.dest + call.n - 1
    BY <1>3 DEF StoredTo, Downwards
  <2>. SUFFICES ASSUME NEW p \in 0 .. i - 1
                PROVE  mem[call.src + p] = old[call.src + p]
    BY <2>1
  <2>2. call.src + p \in Address /\ call.src + p \notin StoredTo
    BY <1>1, <1>3, <2>1, LibcCallFacts DEF Address, Upwards, Downwards
  <2>. QED
    BY <2>2 DEF LibcInv, LibcProgress
<1>. QED
  BY <1>2, <1>3

\* The invariant holds when a function is called.
LEMMA LibcInitInv == LibcInit => LibcInv
<1>. SUFFICES ASSUME LibcInit PROVE LibcInv
  OBVIOUS
<1>. USE LibcAssumption
<1>1. call \in Call /\ mem \in [Address -> Byte] /\ old = mem /\ running = TRUE
  BY DEF LibcInit
<1>2. i \in 0 .. call.n /\ StoredTo = {}
  BY <1>1, LibcCallFacts DEF LibcInit, StoredTo
<1>3. EqualSoFar
  BY <1>1, LibcCallFacts DEF LibcInit, EqualSoFar, Downwards
<1>. QED
  BY <1>1, <1>2, <1>3 DEF LibcInv, LibcTypes, LibcProgress, CallExact

\* A loop that stores the right byte at `at` and passes it keeps the invariant.
LEMMA StoreStep ==
  ASSUME LibcInv,
         NEW at \in Address,
         running' = TRUE, call' = call, old' = old,
         call.fn # "memcmp",
         i' \in 0 .. call.n,
         StoredTo' = StoredTo \cup {at},
         Stored(at) \in Byte,
         mem' = [mem EXCEPT ![at] = Stored(at)]
  PROVE  LibcInv'
<1>1. LibcTypes'
  BY DEF LibcInv, LibcTypes
<1>2. LibcProgress'
  <2>. SUFFICES ASSUME NEW a \in Address
                PROVE  mem'[a] = IF a \in StoredTo \cup {at} THEN Stored(a) ELSE old[a]
    BY DEF LibcProgress, Stored
  <2>1. mem \in [Address -> Byte] /\ mem[a] = IF a \in StoredTo THEN Stored(a) ELSE old[a]
    BY DEF LibcInv, LibcTypes, LibcProgress
  <2>. QED
    BY <2>1
<1>3. EqualSoFar' /\ CallExact'
  BY DEF EqualSoFar, CallExact
<1>. QED
  BY <1>1, <1>2, <1>3 DEF LibcInv

\* A turn of the loop of memcpy, or of memmove to a lower address.
LEMMA CopyUpStep == ASSUME LibcInv, CopyUp PROVE LibcInv'
<1>. DEFINE at == call.dest + i
<1>1. call \in Call /\ i \in 0 .. call.n /\ old \in [Address -> Byte]
  BY DEF LibcInv, LibcTypes
<1>2. Copies(call) /\ Upwards(call) /\ ~Downwards(call) /\ i < call.n
  BY DEF CopyUp, Downwards
<1>3. call.fn # "memcmp" /\ call.fn # "memset"
  BY <1>2 DEF Copies
<1>4. at \in Address /\ call.src + i \in Address /\ i + 1 \in 0 .. call.n /\ i \in Int
  BY <1>1, <1>2, LibcCallFacts, LibcAssumption DEF Address
<1>5. Stored(at) = old[call.src + i] /\ Stored(at) \in Byte
  <2>1. call.src + (at - call.dest) = call.src + i
    BY <1>1, <1>4, LibcCallFacts
  <2>. QED
    BY <1>1, <1>3, <1>4, <2>1 DEF Stored
<1>6. mem[call.src + i] = old[call.src + i]
  BY <1>1, <1>2, <1>4, PendingUnwritten, LibcCallFacts
<1>7. StoredTo' = StoredTo \cup {at}
  <2>1. StoredTo = call.dest .. call.dest + i - 1 /\ StoredTo' = call.dest .. call.dest + (i + 1) - 1
    BY <1>2, <1>3 DEF StoredTo, CopyUp, Downwards, Upwards
  <2>2. call.dest \in Nat /\ i \in Nat
    BY <1>1, LibcCallFacts
  <2>. QED
    BY <2>1, <2>2
<1>8. /\ running' = TRUE /\ call' = call /\ old' = old /\ i' \in 0 .. call.n
      /\ mem' = [mem EXCEPT ![at] = Stored(at)]
  BY <1>4, <1>5, <1>6 DEF CopyUp, LibcInv, LibcTypes
<1>. QED
  BY <1>3, <1>4, <1>5, <1>7, <1>8, StoreStep

\* A turn of the loop of memmove to a higher address.
LEMMA CopyDownStep == ASSUME LibcInv, CopyDown PROVE LibcInv'
<1>. DEFINE at == call.dest + i - 1
<1>1. call \in Call /\ i \in 0 .. call.n /\ old \in [Address -> Byte]
  BY DEF LibcInv, LibcTypes
<1>2. Downwards(call) /\ i > 0
  BY DEF CopyDown
<1>3. call.fn # "memcmp" /\ call.fn # "memset"
  BY <1>2 DEF Downwards
<1>4. at \in Address /\ call.src + i - 1 \in Address /\ i - 1 \in 0 .. call.n /\ i \in Int
  BY <1>1, <1>2, LibcCallFacts, LibcAssumption DEF Address
<1>5. Stored(at) = old[call.src + i - 1] /\ Stored(at) \in Byte
  <2>1. call.src + (at - call.dest) = call.src + i - 1
    BY <1>1, <1>4, LibcCallFacts
  <2>. QED
    BY <1>1, <1>3, <1>4, <2>1 DEF Stored
<1>6. mem[call.src + i - 1] = old[call.src + i - 1]
  <2>1. i - 1 \in 0 .. i - 1 /\ call.src + (i - 1) = call.src + i - 1
    BY <1>1, <1>2, <1>4, LibcCallFacts
  <2>. QED
    BY <1>2, <2>1, PendingUnwritten
<1>7. StoredTo' = StoredTo \cup {at}
  <2>1. /\ StoredTo = call.dest + i .. call.dest + call.n - 1
        /\ StoredTo' = call.dest + (i - 1) .. call.dest + call.n - 1
    BY <1>2, <1>3 DEF StoredTo, CopyDown, Downwards, Upwards
  <2>2. call.dest \in Nat /\ i \in Nat /\ call.n \in Nat /\ i <= call.n
    BY <1>1, LibcCallFacts
  <2>. QED
    BY <1>2, <2>1, <2>2
<1>8. /\ running' = TRUE /\ call' = call /\ old' = old /\ i' \in 0 .. call.n
      /\ mem' = [mem EXCEPT ![at] = Stored(at)]
  BY <1>4, <1>5, <1>6 DEF CopyDown, LibcInv, LibcTypes
<1>. QED
  BY <1>3, <1>4, <1>5, <1>7, <1>8, StoreStep

\* A turn of the loop of memset: the int is cut to a byte.
LEMMA MemsetStep == ASSUME LibcInv, memset PROVE LibcInv'
<1>. DEFINE at == call.dest + i
<1>1. call \in Call /\ i \in 0 .. call.n
  BY DEF LibcInv, LibcTypes
<1>2. call.fn = "memset" /\ i < call.n /\ ~Downwards(call)
  BY DEF memset, Downwards
<1>3. at \in Address /\ i + 1 \in 0 .. call.n /\ i \in Int
  BY <1>1, <1>2, LibcCallFacts, LibcAssumption DEF Address
<1>4. Stored(at) = call.c % BYTE /\ Stored(at) \in Byte
  <2>1. call.c % BYTE \in Byte
    BY <1>1, LibcCallFacts, LibcAssumption DEF Byte
  <2>. QED
    BY <1>2, <2>1 DEF Stored
<1>5. StoredTo' = StoredTo \cup {at}
  <2>1. StoredTo = call.dest .. call.dest + i - 1 /\ StoredTo' = call.dest .. call.dest + (i + 1) - 1
    BY <1>2 DEF StoredTo, memset, Downwards
  <2>2. call.dest \in Nat /\ i \in Nat
    BY <1>1, LibcCallFacts
  <2>. QED
    BY <2>1, <2>2
<1>6. /\ running' = TRUE /\ call' = call /\ old' = old /\ i' \in 0 .. call.n
      /\ mem' = [mem EXCEPT ![at] = Stored(at)]
  BY <1>3, <1>4 DEF memset, LibcInv, LibcTypes
<1>. QED
  BY <1>2, <1>3, <1>4, <1>5, <1>6, StoreStep

\* When nothing has been or will be stored, the memory is as it was.
LEMMA NothingWritten ==
  ASSUME LibcInv, call.fn = "memcmp"
  PROVE  mem = old
  BY DEF LibcInv, LibcTypes, LibcProgress, StoredTo

\* A turn of the loop of memcmp: on to the next position, or the result.
LEMMA MemcmpStep == ASSUME LibcInv, memcmp PROVE LibcInv'
<1>1. /\ call \in Call /\ i \in 0 .. call.n
      /\ mem \in [Address -> Byte] /\ old \in [Address -> Byte]
  BY DEF LibcInv, LibcTypes
<1>2. call.fn = "memcmp" /\ i < call.n /\ call' = call /\ mem' = mem /\ old' = old
  BY DEF memcmp
<1>3. mem = old
  BY <1>2, NothingWritten
<1>4. /\ call.dest \in Nat /\ call.src \in Nat /\ call.n \in Nat /\ i \in Nat
      /\ call.dest + i \in Address /\ call.src + i \in Address
  BY <1>1, <1>2, LibcCallFacts, LibcAssumption DEF Address
<1>5. LibcProgress'
  BY <1>2, <1>3 DEF LibcProgress, StoredTo
<1>6. CASE mem[call.dest + i] # mem[call.src + i]
  <2>1. running' = FALSE /\ i' = i /\ result' = Sign(mem[call.dest + i], mem[call.src + i])
    BY <1>6 DEF memcmp
  <2>2. LibcTypes' /\ EqualSoFar'
    BY <1>1, <1>2, <2>1 DEF LibcInv, LibcTypes, EqualSoFar
  <2>3. mem' = Mandated(call, old)'
    BY <1>1, <1>2, <1>3 DEF Mandated
  <2>4. DifferAt(call, old, i)
    BY <1>2, <1>3, <1>6 DEF DifferAt, LibcInv, EqualSoFar
  <2>5. /\ old[call.dest + i] < old[call.src + i] => result' < 0
        /\ old[call.dest + i] > old[call.src + i] => result' > 0
    <3>1. old[call.dest + i] \in Int /\ old[call.src + i] \in Int
      BY <1>1, <1>4, LibcAssumption DEF Byte
    <3>. QED
      BY <1>3, <2>1, <3>1 DEF Sign
  <2>6. i \in 0 .. call.n - 1
    BY <1>2, <1>4
  <2>7. CallExact'
    BY <1>2, <2>1, <2>3, <2>4, <2>5, <2>6 DEF CallExact, DifferAt
  <2>. QED
    BY <1>5, <2>2, <2>7 DEF LibcInv
<1>7. CASE mem[call.dest + i] = mem[call.src + i]
  <2>1. running' = running /\ running /\ i' = i + 1
    BY <1>7 DEF memcmp
  <2>2. LibcTypes'
    BY <1>1, <1>2, <1>4, <2>1 DEF LibcInv, LibcTypes
  <2>3. EqualSoFar'
    <3>. SUFFICES ASSUME NEW q \in 0 .. (i + 1) - 1
                  PROVE  old[call.dest + q] = old[call.src + q]
      BY <1>2, <2>1 DEF EqualSoFar
    <3>1. q \in 0 .. i - 1 \/ q = i
      BY <1>4
    <3>. QED
      BY <1>2, <1>3, <1>7, <3>1 DEF LibcInv, EqualSoFar
  <2>. QED
    BY <1>5, <2>1, <2>2, <2>3 DEF LibcInv, CallExact
<1>. QED
  BY <1>6, <1>7

\* When the loop is over the memory is the mandated one.
LEMMA ReturnStep == ASSUME LibcInv, Return PROVE LibcInv'
<1>1. /\ call \in Call /\ i \in 0 .. call.n
      /\ mem \in [Address -> Byte] /\ old \in [Address -> Byte]
  BY DEF LibcInv, LibcTypes
<1>2. call' = call /\ mem' = mem /\ old' = old /\ i' = i /\ running' = FALSE
  BY DEF Return
<1>3. /\ call.dest \in Nat /\ call.src \in Nat /\ call.n \in Nat /\ i \in Nat
      /\ i <= call.n
  BY <1>1, LibcCallFacts
<1>4. LibcTypes' /\ LibcProgress' /\ EqualSoFar'
  BY <1>2 DEF LibcInv, LibcTypes, LibcProgress, EqualSoFar, StoredTo, Stored, Downwards, Upwards
<1>5. mem = Mandated(call, old)
  <2>. SUFFICES ASSUME NEW a \in Address
                PROVE  mem[a] = Mandated(call, old)[a]
    BY <1>1 DEF Mandated
  <2>1. mem[a] = IF a \in StoredTo THEN Stored(a) ELSE old[a]
    BY DEF LibcInv, LibcProgress
  <2>2. CASE call.fn = "memcmp"
    BY <2>1, <2>2 DEF StoredTo, Mandated
  <2>3. CASE call.fn = "memmove" /\ call.src = call.dest
    <3>1. call.src + (a - call.dest) = a
      BY <1>3, <2>3 DEF Address
    <3>. QED
      BY <2>1, <2>3, <3>1 DEF Stored, Mandated
  <2>4. CASE call.fn # "memcmp" /\ ~(call.fn = "memmove" /\ call.src = call.dest)
    <3>1. IF Downwards(call) THEN i = 0 ELSE i = call.n
      BY <1>3, <2>4 DEF Return, LoopOver
    <3>2. StoredTo = call.dest .. call.dest + call.n - 1
      BY <1>3, <2>4, <3>1 DEF StoredTo
    <3>. QED
      BY <2>1, <2>4, <3>2 DEF Stored, Mandated
  <2>. QED
    BY <2>2, <2>3, <2>4
<1>6. CallExact'
  <2>1. CASE call.fn = "memcmp"
    <3>1. result' = 0 /\ i = call.n
      BY <1>3, <2>1 DEF Return, LoopOver, Downwards
    <3>2. \A p \in 0 .. call.n - 1 : old[call.dest + p] = old[call.src + p]
      BY <2>1, <3>1 DEF LibcInv, EqualSoFar
    <3>. QED
      BY <1>2, <1>5, <2>1, <3>1, <3>2 DEF CallExact, Mandated
  <2>2. CASE call.fn # "memcmp"
    BY <1>2, <1>5, <2>2 DEF CallExact, Mandated, Return
  <2>. QED
    BY <2>1, <2>2
<1>. QED
  BY <1>4, <1>6 DEF LibcInv

\* The invariant is inductive.
LEMMA LibcStep == LibcInv /\ [LibcNext]_libcVars => LibcInv'
<1>. SUFFICES ASSUME LibcInv, [LibcNext]_libcVars
              PROVE  LibcInv'
  OBVIOUS
<1>1. CASE CopyUp    BY <1>1, CopyUpStep
<1>2. CASE CopyDown  BY <1>2, CopyDownStep
<1>3. CASE memset    BY <1>3, MemsetStep
<1>4. CASE memcmp    BY <1>4, MemcmpStep
<1>5. CASE Return    BY <1>5, ReturnStep
<1>6. CASE UNCHANGED libcVars
  BY <1>6 DEF LibcInv, libcVars, LibcTypes, LibcProgress, EqualSoFar, StoredTo, Stored, Downwards,
              Upwards, CallExact, Mandated, DifferAt
<1>. QED
  BY <1>1, <1>2, <1>3, <1>4, <1>5, <1>6 DEF LibcNext

\* A source byte that is still to be copied is as it was at the call.
LEMMA LibcInvSourceIntact == LibcInv => SourceIntact
<1>. SUFFICES ASSUME LibcInv, NEW p \in Pending
              PROVE  mem[call.src + p] = old[call.src + p]
  BY DEF SourceIntact
<1>1. CASE Copies(call) /\ Upwards(call)
  BY <1>1, PendingUnwritten DEF Pending
<1>2. CASE ~(Copies(call) /\ Upwards(call)) /\ Downwards(call)
  BY <1>2, PendingUnwritten DEF Pending
<1>3. CASE ~(Copies(call) /\ Upwards(call)) /\ ~Downwards(call)
  BY <1>3 DEF Pending
<1>. QED
  BY <1>1, <1>2, <1>3

\* memcpy, memset, memmove and memcmp do what the C standard mandates (the
\* promise of main.c:92), for every memory, ranges and contents: memmove also
\* when its ranges overlap in either direction.
THEOREM LibcCallExact == LibcSpec => []CallExact
<1>1. LibcInv => CallExact
  BY DEF LibcInv
<1>. QED
  BY <1>1, LibcInitInv, LibcStep, PTL DEF LibcSpec

\* Neither memcpy nor memmove ever overwrites a byte of the source before it
\* has copied it (main.c:121-128).
THEOREM LibcSourceIntact == LibcSpec => []SourceIntact
<1>. QED
  BY LibcInitInv, LibcStep, LibcInvSourceIntact, PTL DEF LibcSpec

-----------------------------------------------------------------------------
(* Where pixels are                                                        *)

\* A row lies behind the rows before it.
LEMMA RowsApart ==
  ASSUME NEW p \in Nat, NEW a \in Nat, NEW b \in Nat, a < b
  PROVE  a * p + p <= b * p
<1>1. b - a - 1 \in Nat
  OBVIOUS
<1>2. (b - a - 1) * p \in Nat /\ a * p \in Nat
  BY <1>1
<1>3. b * p = a * p + p + (b - a - 1) * p
  OBVIOUS
<1> QED
  BY <1>2, <1>3

\* A place in memory has one row and one column.
LEMMA PlaceUnique ==
  ASSUME NEW p \in Nat \ {0}, NEW r \in Nat, NEW s \in Nat,
         NEW x \in 0 .. p - 1, NEW z \in 0 .. p - 1,
         r * p + x = s * p + z
  PROVE  r = s /\ x = z
<1>2. r * p \in Nat /\ s * p \in Nat
  OBVIOUS
<1>3. ~(r < s)
  BY <1>2, RowsApart
<1>4. ~(s < r)
  BY <1>2, RowsApart
<1>5. r = s
  BY <1>3, <1>4
<1> QED
  BY <1>2, <1>5

\* A place is before the end of r rows exactly when its row is.
LEMMA PlaceBelow ==
  ASSUME NEW p \in Nat \ {0}, NEW r \in Nat, NEW s \in Nat, NEW x \in 0 .. p - 1
  PROVE  s * p + x \in Nat /\ (s * p + x < r * p <=> s < r)
<1>2. r * p \in Nat /\ s * p \in Nat
  OBVIOUS
<1>3. s < r => s * p + p <= r * p
  BY RowsApart
<1>4. r < s => r * p + p <= s * p
  BY RowsApart
<1> QED
  BY <1>2, <1>3, <1>4

\* A glyph drawn beyond the right margin is stored some rows lower.
LEMMA GlyphPlace ==
  ASSUME NEW x \in Nat, NEW y \in Nat, NEW row \in 0 .. 7
  PROVE  /\ PixelRow(x, y) \in Nat /\ x % Pitch \in 0 .. Pitch - 1
         /\ PixelIndex(x, y, row) = (PixelRow(x, y) + row) * Pitch + (x % Pitch)
<1> DEFINE q == x \div Pitch
           m == x % Pitch
<1>1. Pitch \in Nat \ {0}
  BY ConsoleAssumption
<1>2. q \in Nat /\ m \in 0 .. Pitch - 1 /\ x = q * Pitch + m
  BY <1>1
<1> HIDE DEF q, m
<1>3. (8 * y + row) * Pitch + (q * Pitch + m) = (8 * y + q + row) * Pitch + m
  BY <1>1, <1>2
<1>4. PixelIndex(x, y, row) = (8 * y + row) * Pitch + (q * Pitch + m)
  BY <1>2 DEF PixelIndex
<1>5. PixelRow(x, y) = 8 * y + q
  BY DEF PixelRow, q
<1> QED
  BY <1>2, <1>3, <1>4, <1>5 DEF m

\* The memory, as rows.
LEMMA MemoryRows ==
  ASSUME NEW s \in Nat, NEW x \in 0 .. Pitch - 1
  PROVE  s * Pitch + x \in Memory <=> s < 8 * Rows
<1>1. Pitch \in Nat \ {0} /\ Rows \in Nat /\ 8 * Rows \in Nat /\ 8 * Rows * Pitch \in Nat
  BY ConsoleAssumption
<1>2. s * Pitch + x \in Nat /\ (s * Pitch + x < (8 * Rows) * Pitch <=> s < 8 * Rows)
  BY <1>1, PlaceBelow
<1> QED
  BY <1>1, <1>2 DEF Memory

\* Where a cell's pixel row is stored.
CellPlace(cell, row) == (8 * cell[2] + row) * Pitch + cell[1]

\* It is in the memory, outside the padding, and one cell's only.
LEMMA CellFacts ==
  ASSUME NEW cell \in Cells, NEW row \in 0 .. 7
  PROVE  /\ cell[1] \in 0 .. Pitch - 1 /\ cell[1] < Columns
         /\ cell[2] \in Nat /\ cell = <<cell[1], cell[2]>>
         /\ CellPlace(cell, row) \in Memory
         /\ CellPlace(cell, row) % Pitch = cell[1]
<1>1. /\ cell[1] \in 0 .. Pitch - 1 /\ cell[1] < Columns
      /\ cell[2] \in 0 .. Rows - 1 /\ cell = <<cell[1], cell[2]>>
  BY ConsoleAssumption DEF Cells
<1>2. 8 * cell[2] + row \in Nat /\ 8 * cell[2] + row < 8 * Rows
  BY <1>1, ConsoleAssumption
<1>3. CellPlace(cell, row) \in Memory
  BY <1>1, <1>2, MemoryRows DEF CellPlace
<1>4. CellPlace(cell, row) % Pitch = cell[1]
  <2> DEFINE s == 8 * cell[2] + row
             n == s * Pitch + cell[1]
  <2>1. Pitch \in Nat \ {0} /\ n \in Nat
    BY <1>1, <1>2, ConsoleAssumption, PlaceBelow
  <2>2. n \div Pitch \in Nat /\ n % Pitch \in 0 .. Pitch - 1 /\ n = (n \div Pitch) * Pitch + (n % Pitch)
    <3> HIDE DEF n
    <3> QED
      BY <2>1
  <2>3. n % Pitch = cell[1]
    <3>1. s * Pitch + cell[1] = (n \div Pitch) * Pitch + (n % Pitch) /\ s \in Nat
      BY <1>2, <2>2
    <3> HIDE DEF s, n
    <3> QED
      BY <1>1, <2>1, <2>2, <3>1, PlaceUnique
  <2> QED
    BY <2>3 DEF CellPlace
<1> QED
  BY <1>1, <1>3, <1>4, ConsoleAssumption

\* A row of a glyph is stored where a row of a cell is exactly if they are in
\* the same column and the same row of pixels.
LEMMA GlyphInCell ==
  ASSUME NEW x \in Nat, NEW y \in Nat, NEW row \in 0 .. 7, NEW cell \in Cells, NEW s \in 0 .. 7
  PROVE  CellPlace(cell, s) = PixelIndex(x, y, row) <=>
           cell[1] = x % Pitch /\ 8 * cell[2] + s = PixelRow(x, y) + row
<1>0. /\ PixelRow(x, y) \in Nat /\ x % Pitch \in 0 .. Pitch - 1
      /\ PixelIndex(x, y, row) = (PixelRow(x, y) + row) * Pitch + (x % Pitch)
  BY GlyphPlace
<1>1. PixelRow(x, y) + row \in Nat
  BY <1>0
<1>2. cell[1] \in 0 .. Pitch - 1 /\ 8 * cell[2] + s \in Nat
  BY CellFacts
<1>3. Pitch \in Nat \ {0}
  BY ConsoleAssumption
<1> DEFINE a == 8 * cell[2] + s
           b == PixelRow(x, y) + row
<1>4. CellPlace(cell, s) = a * Pitch + cell[1] /\ PixelIndex(x, y, row) = b * Pitch + (x % Pitch)
  BY <1>0 DEF CellPlace
<1>6. a \in Nat /\ b \in Nat
  BY <1>1, <1>2
<1> HIDE DEF a, b
<1>5. a * Pitch + cell[1] = b * Pitch + (x % Pitch) => a = b /\ cell[1] = x % Pitch
  BY <1>0, <1>2, <1>3, <1>6, PlaceUnique
<1> QED
  BY <1>4, <1>5 DEF a, b

-----------------------------------------------------------------------------
(* Drawing a glyph                                                         *)

\* A cell shows nothing but the glyph of what is drawn in it.
LEMMA LookGlyph ==
  ASSUME NEW c, NEW row
  PROVE  GlyphRow(Look(c), row) = GlyphRow(c, row)
<1>1. Space \notin DOMAIN Glyph
  BY FramebufferAssumption DEF Space, eX_Font
<1> QED
  BY <1>1, FramebufferAssumption DEF GlyphRow, Look

\* The pixels of a cell after a glyph was drawn.
LEMMA DrawnCell ==
  ASSUME NEW c \in 0 .. 127, NEW x \in Nat, NEW y \in Nat, NEW cell \in Cells, NEW s \in 0 .. 7
  PROVE  /\ cell \notin Covered(x, y) =>
              DrawPixels(c, x, y)[CellPlace(cell, s)] = pixels[CellPlace(cell, s)]
         /\ cell \in Covered(x, y) /\ PixelRow(x, y) % 8 = 0 =>
              DrawPixels(c, x, y)[CellPlace(cell, s)] = GlyphRow(c, s)
<1> DEFINE n == CellPlace(cell, s)
           R == PixelRow(x, y)
           cy == cell[2]
<1>1. n \in Memory /\ cy \in Nat /\ R \in Nat /\ cell = <<cell[1], cy>>
  BY CellFacts, GlyphPlace
<1>2. \A row \in 0 .. 7 : n = PixelIndex(x, y, row) <=> cell[1] = x % Pitch /\ 8 * cy + s = R + row
  BY GlyphInCell, ZenonT(40)
<1>3. cell \in Covered(x, y) <=> cell[1] = x % Pitch /\ (cy = R \div 8 \/ cy = (R + 7) \div 8)
  BY <1>1 DEF Covered
<1>4. c < 128
  OBVIOUS
<1>5. DrawPixels(c, x, y)[n] =
        IF \E row \in 0 .. 7 : n = PixelIndex(x, y, row)
          THEN GlyphRow(c, CHOOSE row \in 0 .. 7 : n = PixelIndex(x, y, row))
          ELSE pixels[n]
  BY <1>1, <1>4 DEF DrawPixels
<1> HIDE DEF n, R, cy
<1>6. ASSUME cell \notin Covered(x, y), NEW row \in 0 .. 7, n = PixelIndex(x, y, row) PROVE FALSE
  <2>1. cell[1] = x % Pitch /\ 8 * cy + s = R + row
    BY <1>2, <1>6
  <2>2. cy = R \div 8 \/ cy = (R + 7) \div 8
    BY <1>1, <2>1
  <2> QED
    BY <1>3, <1>6, <2>1, <2>2
<1>7. ASSUME cell \in Covered(x, y), R % 8 = 0
      PROVE  \A row \in 0 .. 7 : n = PixelIndex(x, y, row) <=> row = s
  <2>1. R = 8 * cy
    BY <1>1, <1>3, <1>7
  <2>2. cell[1] = x % Pitch
    BY <1>3, <1>7
  <2> QED
    BY <1>1, <1>2, <2>1, <2>2
<1>8. ASSUME cell \in Covered(x, y), R % 8 = 0
      PROVE  DrawPixels(c, x, y)[n] = GlyphRow(c, s)
  <2>1. (CHOOSE row \in 0 .. 7 : n = PixelIndex(x, y, row)) = s
    BY <1>7, <1>8
  <2>2. \E row \in 0 .. 7 : n = PixelIndex(x, y, row)
    BY <1>7, <1>8
  <2> QED
    BY <1>5, <2>1, <2>2
<1> QED
  BY <1>5, <1>6, <1>8 DEF n, R

\* What a cell shows after a glyph was drawn.
Depicts(cells, c, x, y, cell) ==
  IF cell \notin Covered(x, y)   THEN cells[cell]
  ELSE IF PixelRow(x, y) % 8 = 0 THEN Look(c)
                                 ELSE Garbled

\* What eX_DrawChar makes of a console.
LEMMA DrawConsole ==
  ASSUME NEW con \in Consoles, NEW c \in 0 .. 127, NEW x \in Nat, NEW y \in Nat
  PROVE  /\ eX_DrawChar(con, c, x, y) \in Consoles
         /\ eX_DrawChar(con, c, x, y).x = con.x
         /\ eX_DrawChar(con, c, x, y).y = con.y
         /\ eX_DrawChar(con, c, x, y).outside <=> con.outside \/ PastEnd(x, y)
         /\ \A cell \in Cells :
              eX_DrawChar(con, c, x, y).cells[cell] = Depicts(con.cells, c, x, y, cell)
<1> DEFINE cells == [cell \in Cells |->
                      IF cell \notin Covered(x, y)     THEN con.cells[cell]
                      ELSE IF PixelRow(x, y) % 8 = 0   THEN Look(c)
                                                       ELSE Garbled]
           out == con.outside \/ PastEnd(x, y)
           new == [con EXCEPT !.cells = cells, !.outside = out]
<1>1. eX_DrawChar(con, c, x, y) = new
  BY DEF eX_DrawChar, Consoles
<1>2. cells \in [Cells -> eX_Font \cup {Space, Garbled}]
  BY DEF Consoles, Look
<1>3. out \in BOOLEAN
  BY DEF PastEnd, Consoles
<1>4. \A cell \in Cells : cells[cell] = Depicts(con.cells, c, x, y, cell)
  BY DEF Depicts
<1> HIDE DEF cells
<1>5. (con.outside \/ PastEnd(x, y)) <=> out
  OBVIOUS
<1> HIDE DEF out
<1>6. new \in Consoles /\ new.x = con.x /\ new.y = con.y /\ new.cells = cells /\ new.outside = out
  BY <1>2, <1>3 DEF Consoles
<1> QED
  BY <1>1, <1>4, <1>5, <1>6

\* Some pixel of a glyph is stored behind the memory exactly if a row of it is
\* below the framebuffer.
LEMMA PastExact ==
  ASSUME NEW c \in 0 .. 127, NEW x \in Nat, NEW y \in Nat
  PROVE  DrawnPast(c, x, y) <=> PastEnd(x, y)
<1>1. Pitch \in Nat \ {0} /\ Rows \in Nat /\ PixelRow(x, y) \in Nat
  BY ConsoleAssumption, GlyphPlace
<1>2. ASSUME NEW row \in 0 .. 7
      PROVE  PixelIndex(x, y, row) \in Memory <=> PixelRow(x, y) + row < 8 * Rows
  <2>1. /\ x % Pitch \in 0 .. Pitch - 1
        /\ PixelIndex(x, y, row) = (PixelRow(x, y) + row) * Pitch + (x % Pitch)
    BY GlyphPlace
  <2>2. PixelRow(x, y) + row \in Nat
    BY <1>1
  <2> QED
    BY <2>1, <2>2, MemoryRows
<1>3. (\E row \in 0 .. 7 : ~(PixelRow(x, y) + row < 8 * Rows)) <=> PixelRow(x, y) + 7 >= 8 * Rows
  <2>1. 7 \in 0 .. 7
    OBVIOUS
  <2> QED
    BY <1>1, <2>1
<1> QED
  BY <1>2, <1>3 DEF DrawnPast, PastEnd

-----------------------------------------------------------------------------
(* The invariant                                                           *)

\* Console notes the pixels that are stored behind the memory.
PastNoted == past = console.outside

FramebufferInv ==
  /\ console \in Consoles
  /\ past \in BOOLEAN
  /\ CellsShowGlyphs
  /\ PastNoted

\* A console operation that draws one glyph.
LEMMA DrawPreserves ==
  ASSUME FramebufferInv, NEW con \in Consoles, NEW c \in 0 .. 255, NEW x \in Nat, NEW y \in Nat,
         con.cells = console.cells, con.outside = console.outside,
         Draw(c, x, y), console' \in Consoles,
         console'.cells = eX_DrawChar(con, c, x, y).cells,
         console'.outside = eX_DrawChar(con, c, x, y).outside
  PROVE  FramebufferInv'
<1>1. CASE c >= 128
  <2>1. eX_DrawChar(con, c, x, y) = con
    BY <1>1 DEF eX_DrawChar
  <2>2. ~(c < 128)
    BY <1>1
  <2>3. past' = past
    BY <2>2, Zenon DEF Draw, DrawnPast, FramebufferInv
  <2>4. \A n \in Memory : pixels'[n] = pixels[n]
    BY <2>2 DEF Draw, DrawPixels
  <2>5. CellsShowGlyphs'
    <3> SUFFICES ASSUME NEW cell \in Cells, console'.cells[cell] # Garbled, NEW row \in 0 .. 7
                 PROVE  pixels'[CellPlace(cell, row)] = GlyphRow(console'.cells[cell], row)
      BY DEF CellsShowGlyphs, CellPlace, GlyphRow
    <3>1. CellPlace(cell, row) \in Memory
      BY CellFacts
    <3> QED
      BY <2>1, <2>4, <3>1 DEF FramebufferInv, CellsShowGlyphs, CellPlace
  <2> QED
    BY <2>1, <2>3, <2>5 DEF FramebufferInv, PastNoted
<1>2. CASE c < 128
  <2>1. c \in 0 .. 127
    BY <1>2
  <2>2. CellsShowGlyphs'
    <3> SUFFICES ASSUME NEW cell \in Cells, console'.cells[cell] # Garbled, NEW row \in 0 .. 7
                 PROVE  pixels'[CellPlace(cell, row)] = GlyphRow(console'.cells[cell], row)
      BY DEF CellsShowGlyphs, CellPlace, GlyphRow
    <3>1. console'.cells[cell] = IF cell \notin Covered(x, y)   THEN console.cells[cell]
                                 ELSE IF PixelRow(x, y) % 8 = 0 THEN Look(c)
                                                                ELSE Garbled
      <4>1. eX_DrawChar(con, c, x, y).cells[cell] = Depicts(con.cells, c, x, y, cell)
        BY <2>1, DrawConsole, ZenonT(40)
      <4> QED
        BY <4>1 DEF Depicts
    <3>2. CASE cell \notin Covered(x, y)
      <4>1. pixels'[CellPlace(cell, row)] = pixels[CellPlace(cell, row)]
        BY <2>1, <3>2, DrawnCell, ZenonT(40) DEF Draw
      <4> QED
        BY <3>1, <3>2, <4>1 DEF FramebufferInv, CellsShowGlyphs, CellPlace
    <3>3. CASE cell \in Covered(x, y)
      <4>1. PixelRow(x, y) % 8 = 0 /\ console'.cells[cell] = Look(c)
        BY <3>1, <3>3
      <4>2. pixels'[CellPlace(cell, row)] = GlyphRow(c, row)
        BY <2>1, <3>3, <4>1, DrawnCell, ZenonT(40) DEF Draw
      <4> QED
        BY <4>1, <4>2, LookGlyph
    <3> QED
      BY <3>2, <3>3
  <2>3. past' <=> past \/ PastEnd(x, y)
    BY <2>1, PastExact DEF Draw
  <2>4. console'.outside <=> console.outside \/ PastEnd(x, y)
    BY <2>1, DrawConsole, ZenonT(40)
  <2>5. past' \in BOOLEAN /\ console'.outside \in BOOLEAN
    BY DEF Draw, DrawnPast, Consoles
  <2>6. PastNoted'
    BY <2>3, <2>4, <2>5 DEF FramebufferInv, PastNoted
  <2> QED
    BY <2>2, <2>5, <2>6 DEF FramebufferInv
<1> QED
  BY <1>1, <1>2

\* A cleared cell is blank.
LEMMA ClearedPlace ==
  ASSUME NEW px, NEW cell \in Cells, NEW row \in 0 .. 7
  PROVE  ClearPixels(px)[CellPlace(cell, row)] = GlyphRow(Space, row)
<1>1. Space \notin DOMAIN Glyph
  BY FramebufferAssumption DEF Space, eX_Font
<1>2. /\ CellPlace(cell, row) \in Memory
      /\ CellPlace(cell, row) % Pitch = cell[1] /\ cell[1] < Columns
  BY CellFacts
<1> QED
  BY <1>1, <1>2 DEF ClearPixels, GlyphRow

LEMMA ClearedCells ==
  ASSUME console'.cells = [cell \in Cells |-> Space], pixels' = ClearPixels(pixels)
  PROVE  CellsShowGlyphs'
<1> SUFFICES ASSUME NEW cell \in Cells, NEW row \in 0 .. 7
             PROVE  pixels'[CellPlace(cell, row)] = GlyphRow(console'.cells[cell], row)
  BY DEF CellsShowGlyphs, CellPlace, GlyphRow
<1>1. console'.cells[cell] = Space
  OBVIOUS
<1> QED
  BY <1>1, ClearedPlace

\* The invariant is inductive.
LEMMA FramebufferInductive == FramebufferInv /\ [FramebufferNext]_framebufferVars => FramebufferInv'
<1> SUFFICES ASSUME FramebufferInv, [FramebufferNext]_framebufferVars PROVE FramebufferInv'
  OBVIOUS
<1>1. ASSUME NEW c \in Printed, PrintChar(c) PROVE FramebufferInv'
  <2>1. c \in 0 .. 255 /\ console.x \in Nat /\ console.y \in Nat
    BY FramebufferAssumption DEF FramebufferInv, Consoles
  <2>2. CASE c = NewLine
    <3> DEFINE next == console.y + 1
    <3>1. console' = [console EXCEPT !.x = 0, !.y = next] /\ UNCHANGED <<pixels, past>>
      BY <1>1, <2>2 DEF PrintChar, eX_PrintChar
    <3>3. next \in Nat
      BY <2>1
    <3> HIDE DEF next
    <3>2. console' \in Consoles /\ console'.cells = console.cells /\ console'.outside = console.outside
      BY <3>1, <3>3 DEF FramebufferInv, Consoles
    <3> QED
      BY <3>1, <3>2 DEF FramebufferInv, CellsShowGlyphs, PastNoted, GlyphRow
  <2>3. CASE c # NewLine
    <3> DEFINE new == eX_DrawChar(console, c, console.x, console.y)
    <3>1. new \in Consoles
      <4>1. CASE c < 128
        <5>1. c \in 0 .. 127
          BY <2>1, <4>1
        <5> QED
          BY <2>1, <5>1, DrawConsole, ZenonT(40) DEF FramebufferInv
      <4>2. CASE ~(c < 128)
        <5>1. c >= 128
          BY <2>1, <4>2
        <5> QED
          BY <5>1 DEF eX_DrawChar, FramebufferInv
      <4> QED
        BY <4>1, <4>2
    <3>2. console' = [new EXCEPT !.x = new.x + 1] /\ Draw(c, console.x, console.y)
      BY <1>1, <2>3 DEF PrintChar, eX_PrintChar
    <3> HIDE DEF new
    <3>3. console' \in Consoles /\ console'.cells = new.cells /\ console'.outside = new.outside
      BY <3>1, <3>2 DEF Consoles
    <3> QED
      BY <2>1, <3>2, <3>3, DrawPreserves, ZenonT(40) DEF new, FramebufferInv
  <2> QED
    BY <2>2, <2>3
<1>2. CASE Backspace
  <2>1. console \in Consoles /\ console.x \in Nat /\ console.y \in Nat
    BY DEF FramebufferInv, Consoles
  <2>2. CASE console.x = 0
    <3>1. UNCHANGED <<console, pixels, past>>
      BY <1>2, <2>2 DEF Backspace, eX_Backspace
    <3> QED
      BY <3>1 DEF FramebufferInv, CellsShowGlyphs, PastNoted, GlyphRow
  <2>3. CASE console.x # 0
    <3> DEFINE con == [console EXCEPT !.x = console.x - 1]
    <3>1. console.x - 1 \in Nat
      BY <2>1, <2>3
    <3>2. con \in Consoles /\ con.cells = console.cells /\ con.outside = console.outside
      BY <2>1, <3>1 DEF Consoles
    <3>3. /\ console' = eX_DrawChar(con, Space, console.x - 1, console.y)
          /\ Draw(Space, console.x - 1, console.y)
      BY <1>2, <2>3 DEF Backspace, eX_Backspace
    <3>4. Space \in 0 .. 127 /\ Space \in 0 .. 255
      BY DEF Space
    <3> HIDE DEF con
    <3>5. console' \in Consoles
      BY <2>1, <3>1, <3>2, <3>3, <3>4, DrawConsole, ZenonT(40)
    <3> QED
      BY <2>1, <3>1, <3>2, <3>3, <3>4, <3>5, DrawPreserves, ZenonT(40)
  <2> QED
    BY <2>2, <2>3
<1>3. CASE Clear
  <2>1. /\ console' = [console EXCEPT !.x = 0, !.y = 0, !.cells = [cell \in Cells |-> Space]]
        /\ pixels' = ClearPixels(pixels) /\ past' = past
    BY <1>3 DEF Clear, eX_Clear
  <2>2. console \in Consoles
    BY DEF FramebufferInv
  <2>3. /\ console' \in Consoles /\ console'.outside = console.outside
        /\ console'.cells = [cell \in Cells |-> Space]
    BY <2>1, <2>2 DEF Consoles
  <2>4. CellsShowGlyphs'
    BY <2>1, <2>3, ClearedCells
  <2> QED
    BY <2>1, <2>3, <2>4 DEF FramebufferInv, PastNoted
<1>4. CASE UNCHANGED framebufferVars
  BY <1>4 DEF framebufferVars, FramebufferInv, CellsShowGlyphs, PastNoted, GlyphRow
<1> QED
  BY <1>1, <1>2, <1>3, <1>4 DEF FramebufferNext

LEMMA FramebufferStart == FramebufferInit => FramebufferInv
<1> SUFFICES ASSUME FramebufferInit PROVE FramebufferInv
  OBVIOUS
<1>1. /\ console \in Consoles /\ console.outside = FALSE /\ past = FALSE
      /\ console.cells = [cell \in Cells |-> Space]
  BY DEF FramebufferInit, ClearedConsole, Consoles
<1>2. CellsShowGlyphs
  <2> SUFFICES ASSUME NEW cell \in Cells, NEW row \in 0 .. 7
               PROVE  pixels[CellPlace(cell, row)] = GlyphRow(console.cells[cell], row)
    BY DEF CellsShowGlyphs, CellPlace
  <2>1. console.cells[cell] = Space
    BY <1>1
  <2> QED
    BY <2>1, ClearedPlace DEF FramebufferInit
<1> QED
  BY <1>1, <1>2 DEF FramebufferInv, PastNoted

\* Every cell that is said to show a character has the pixels of its glyph, for
\* every size and pitch of the framebuffer and every font.
THEOREM FramebufferShowsGlyphs == FramebufferSpec => []CellsShowGlyphs
<1>1. FramebufferInv => CellsShowGlyphs
  BY DEF FramebufferInv
<1> QED
  BY <1>1, FramebufferStart, FramebufferInductive, PTL DEF FramebufferSpec

\* A glyph whose pixels leave the memory starts below the last row of cells,
\* or further to the right than the pitch reaches.
LEMMA PastEndPlace ==
  ASSUME NEW x \in Nat, NEW y \in Nat, PastEnd(x, y)
  PROVE  y >= Rows \/ x >= Pitch
<1>1. Pitch \in Nat \ {0} /\ Rows \in Nat
  BY ConsoleAssumption
<1>2. x < Pitch => x \div Pitch = 0
  BY <1>1
<1>3. x < Pitch => 8 * y + 7 >= 8 * Rows
  BY <1>1, <1>2 DEF PastEnd, PixelRow
<1> QED
  BY <1>1, <1>3

\* A glyph drawn at x, y is the only thing that writes behind the memory.
LEMMA DrawPast ==
  ASSUME past \in BOOLEAN, NEW c \in 0 .. 255, NEW x \in Nat, NEW y \in Nat,
         Draw(c, x, y), past' # past
  PROVE  y >= Rows \/ x >= Pitch
<1>1. DrawnPast(c, x, y)
  BY DEF Draw, DrawnPast
<1>2. c \in 0 .. 127
  BY <1>1 DEF DrawnPast
<1> QED
  BY <1>1, <1>2, PastExact, PastEndPlace

\* For every size and pitch of the framebuffer, no pixel is written behind its
\* memory while the cursor is above the bottom of the screen and within the
\* pitch (main.c:166-171).
THEOREM FramebufferWritesInMemory == FramebufferSpec => WritesStayInMemory
<1>1. ASSUME FramebufferInv, [FramebufferNext]_framebufferVars
      PROVE  [past' # past => console.y >= Rows \/ console.x >= Pitch]_framebufferVars
  <2> SUFFICES ASSUME FramebufferNext, past' # past
               PROVE  console.y >= Rows \/ console.x >= Pitch
    BY <1>1
  <2>1. console.x \in Nat /\ console.y \in Nat /\ past \in BOOLEAN
    BY <1>1 DEF FramebufferInv, Consoles
  <2>2. ASSUME NEW c \in Printed, PrintChar(c)
        PROVE  console.y >= Rows \/ console.x >= Pitch
    <3>1. Draw(c, console.x, console.y) /\ c \in 0 .. 255
      BY <2>2, FramebufferAssumption DEF PrintChar
    <3> QED
      BY <2>1, <3>1, DrawPast
  <2>3. CASE Backspace
    <3>1. Draw(Space, console.x - 1, console.y) /\ console.x > 0
      BY <2>3 DEF Backspace
    <3>2. Space \in 0 .. 255 /\ console.x - 1 \in Nat
      BY <2>1, <3>1 DEF Space
    <3>3. console.y >= Rows \/ console.x - 1 >= Pitch
      BY <2>1, <3>1, <3>2, DrawPast
    <3> QED
      BY <2>1, <3>3, ConsoleAssumption
  <2>4. ~Clear
    BY DEF Clear
  <2> QED
    BY <2>2, <2>3, <2>4 DEF FramebufferNext
<1> QED
  BY <1>1, FramebufferStart, FramebufferInductive, PTL DEF FramebufferSpec, WritesStayInMemory

-----------------------------------------------------------------------------
(* Powers and quotients                                                    *)

\* The recursion of Power has a solution.
LEMMA PowerExists ==
  ASSUME NEW b
  PROVE  \A m \in Nat : \E f : f = [n \in 0 .. m |-> IF n = 0 THEN 1 ELSE b * f[n - 1]]
<1> DEFINE Solves(f, m) == f = [n \in 0 .. m |-> IF n = 0 THEN 1 ELSE b * f[n - 1]]
           S == {m \in Nat : \E f : Solves(f, m)}
<1>1. 0 \in S
  <2> DEFINE f == [n \in 0 .. 0 |-> 1]
  <2>1. Solves(f, 0)
    OBVIOUS
  <2> QED
    BY <2>1
<1>2. ASSUME NEW m \in Nat, m \in S PROVE m + 1 \in S
  <2>1. PICK f : Solves(f, m)
    BY <1>2
  <2> DEFINE last == b * f[m]
             g == [n \in 0 .. m + 1 |-> IF n <= m THEN f[n] ELSE last]
             h == [n \in 0 .. m + 1 |-> IF n = 0 THEN 1 ELSE b * g[n - 1]]
  <2>2. ASSUME NEW n \in 0 .. m + 1 PROVE g[n] = IF n = 0 THEN 1 ELSE b * g[n - 1]
    <3>1. CASE n = 0
      BY <2>1, <3>1
    <3>2. CASE n # 0 /\ n <= m
      <4>1. f[n] = b * f[n - 1]
        BY <2>1, <3>2
      <4>2. g[n] = f[n] /\ g[n - 1] = f[n - 1]
        BY <3>2
      <4> QED
        BY <3>2, <4>1, <4>2
    <3>3. CASE n = m + 1
      <4>1. g[n - 1] = f[m] /\ n # 0 /\ g[n] = last
        BY <3>3
      <4> QED
        BY <3>3, <4>1
    <3> QED
      BY <3>1, <3>2, <3>3
  <2>3. Solves(g, m + 1)
    <3>1. \A n \in 0 .. m + 1 : g[n] = h[n]
      BY <2>2
    <3>2. g = [n \in 0 .. m + 1 |-> g[n]] /\ h = [n \in 0 .. m + 1 |-> h[n]]
      OBVIOUS
    <3> HIDE DEF g, h
    <3>3. g = h
      BY <3>1, <3>2
    <3> QED
      BY <3>3 DEF h
  <2> HIDE DEF g, Solves
  <2>4. \E k : Solves(k, m + 1)
    BY <2>3, Zenon
  <2> QED
    BY <2>4
<1> HIDE DEF S
<1>3. \A m \in Nat : m \in S
  BY <1>1, <1>2, SetInduction
<1> QED
  BY <1>3 DEF S

\* What Power is.
LEMMA PowerDef ==
  ASSUME NEW b
  PROVE  /\ Power(b)[0] = 1
         /\ \A n \in 1 .. BUFFER : Power(b)[n] = b * Power(b)[n - 1]
<1> DEFINE power == CHOOSE f : f = [n \in 0 .. BUFFER |-> IF n = 0 THEN 1 ELSE b * f[n - 1]]
<1>1. power = [n \in 0 .. BUFFER |-> IF n = 0 THEN 1 ELSE b * power[n - 1]]
  <2>1. BUFFER \in Nat
    BY WidthAssumption
  <2>2. \E f : f = [n \in 0 .. BUFFER |-> IF n = 0 THEN 1 ELSE b * f[n - 1]]
    BY <2>1, PowerExists
  <2> QED
    BY <2>2
<1>2. Power(b) = power
  BY DEF Power
<1> HIDE DEF power
<1> QED
  BY <1>1, <1>2, WidthAssumption

\* A product of numbers that are not zero is not less than a smaller one.
LEMMA ProductGrows ==
  ASSUME NEW a \in Nat, NEW b \in Nat, NEW p \in Nat, NEW q \in Nat, a <= b, p <= q
  PROVE  a * p <= b * q
<1>1. (b - a) * p \in Nat /\ b * (q - p) \in Nat
  OBVIOUS
<1>2. a * p \in Nat /\ b * q \in Nat
  OBVIOUS
<1>3. b * q = a * p + (b - a) * p + b * (q - p)
  OBVIOUS
<1> QED
  BY <1>1, <1>2, <1>3

\* The powers of a base of at least four.
LEMMA PowerFacts ==
  ASSUME NEW b \in Nat, b >= 4
  PROVE  \A n \in 0 .. BUFFER : /\ Power(b)[n] \in Nat \ {0}
                                /\ Power(4)[n] \in Nat \ {0}
                                /\ Power(4)[n] <= Power(b)[n]
<1> DEFINE P(n) == /\ Power(b)[n] \in Nat \ {0}
                   /\ Power(4)[n] \in Nat \ {0}
                   /\ Power(4)[n] <= Power(b)[n]
           S == {n \in Nat : n <= BUFFER => P(n)}
<1>1. 0 \in S
  BY PowerDef
<1>2. ASSUME NEW n \in Nat, n \in S PROVE n + 1 \in S
  <2> SUFFICES ASSUME n + 1 <= BUFFER PROVE P(n + 1)
    OBVIOUS
  <2>1. P(n)
    BY <1>2, WidthAssumption
  <2>2. n + 1 \in 1 .. BUFFER /\ (n + 1) - 1 = n
    BY WidthAssumption
  <2>3. Power(b)[n + 1] = b * Power(b)[n] /\ Power(4)[n + 1] = 4 * Power(4)[n]
    BY <2>2, PowerDef
  <2>4. 4 * Power(4)[n] <= b * Power(b)[n]
    BY <2>1, ProductGrows
  <2>5. b * Power(b)[n] \in Nat \ {0} /\ 4 * Power(4)[n] \in Nat \ {0}
    BY <2>1
  <2> QED
    BY <2>3, <2>4, <2>5
<1> HIDE DEF S
<1>3. \A n \in Nat : n \in S
  BY <1>1, <1>2, SetInduction
<1> QED
  BY <1>3, WidthAssumption DEF S

\* A number has one quotient.
LEMMA DivUnique ==
  ASSUME NEW p \in Nat \ {0}, NEW q \in Nat, NEW r \in 0 .. p - 1
  PROVE  (q * p + r) \div p = q
<1> DEFINE v == q * p + r
           d == v \div p
           e == v % p
<1>1. v \in Nat
  OBVIOUS
<1> HIDE DEF v
<1>2. d \in Nat /\ e \in 0 .. p - 1 /\ v = d * p + e
  BY <1>1
<1> HIDE DEF d, e
<1>3. (q - d) * p = e - r
  BY <1>2 DEF v
<1>4. ~(q - d >= 1)
  <2> SUFFICES ASSUME q - d >= 1 PROVE FALSE
    OBVIOUS
  <2>1. (q - d - 1) * p \in Nat
    BY <1>2
  <2>2. (q - d) * p = (q - d - 1) * p + p
    BY <1>2
  <2> QED
    BY <1>2, <1>3, <2>1, <2>2
<1>5. ~(d - q >= 1)
  <2> SUFFICES ASSUME d - q >= 1 PROVE FALSE
    OBVIOUS
  <2>1. (d - q - 1) * p \in Nat
    BY <1>2
  <2>2. (q - d) * p = -((d - q - 1) * p + p)
    BY <1>2
  <2> QED
    BY <1>2, <1>3, <2>1, <2>2
<1>6. q = d
  BY <1>2, <1>4, <1>5
<1> QED
  BY <1>6 DEF d, v

\* Dividing twice is dividing by the product.
LEMMA DivTwice ==
  ASSUME NEW v \in Nat, NEW p \in Nat \ {0}, NEW b \in Nat \ {0}
  PROVE  (v \div p) \div b = v \div (b * p)
<1> DEFINE q == v \div p
           r == v % p
           s == q \div b
           t == q % b
<1>1. q \in Nat /\ r \in 0 .. p - 1 /\ v = q * p + r
  OBVIOUS
<1> HIDE DEF q, r
<1>2. s \in Nat /\ t \in 0 .. b - 1 /\ q = s * b + t
  BY <1>1
<1> HIDE DEF s, t
<1>3. b * p \in Nat \ {0} /\ t * p \in Nat
  BY <1>2
<1>4. t * p + r \in 0 .. b * p - 1
  <2>1. (b - 1 - t) * p \in Nat
    BY <1>2
  <2>2. b * p = t * p + p + (b - 1 - t) * p
    BY <1>2
  <2> QED
    BY <1>1, <1>3, <2>1, <2>2
<1>5. v = s * (b * p) + (t * p + r)
  <2>1. v = (s * b + t) * p + r
    BY <1>1, <1>2
  <2>2. (s * b + t) * p = s * (b * p) + t * p
    BY <1>2
  <2> QED
    BY <1>1, <1>2, <1>3, <2>1, <2>2
<1>6. v \div (b * p) = s
  BY <1>2, <1>3, <1>4, <1>5, DivUnique
<1> QED
  BY <1>6 DEF q, s

\* A quotient is zero exactly if the number is less than the divisor.
LEMMA DivZero ==
  ASSUME NEW v \in Nat, NEW p \in Nat \ {0}
  PROVE  v \div p \in Nat /\ (v \div p = 0 <=> v < p)
<1> DEFINE q == v \div p
           r == v % p
<1>1. q \in Nat /\ r \in 0 .. p - 1 /\ v = q * p + r
  OBVIOUS
<1> HIDE DEF q, r
<1>2. CASE q = 0
  BY <1>1, <1>2 DEF q
<1>3. CASE q # 0
  <2>1. (q - 1) * p \in Nat /\ q * p = (q - 1) * p + p
    BY <1>1, <1>3
  <2> QED
    BY <1>1, <1>3, <2>1 DEF q
<1> QED
  BY <1>2, <1>3

\* A quotient of a number below a product.
LEMMA DivBelow ==
  ASSUME NEW v \in Nat, NEW p \in Nat \ {0}, NEW b \in Nat, b >= 4, v < 4 * p
  PROVE  v \div b \in Nat /\ v \div b < p
<1> DEFINE q == v \div b
           r == v % b
<1>1. q \in Nat /\ r \in 0 .. b - 1 /\ v = q * b + r
  OBVIOUS
<1> HIDE DEF q, r
<1>2. q * 4 <= q * b /\ q * b \in Nat
  BY <1>1, ProductGrows
<1> QED
  BY <1>1, <1>2 DEF q

-----------------------------------------------------------------------------
(* Numerals                                                                *)

\* The table of digits.
LEMMA DigitsType ==
  ASSUME NEW upper \in BOOLEAN
  PROVE  /\ \A k \in 1 .. 16 : Digits(upper)[k] \in Characters
         /\ Digits(upper)[1] = "0"
<1> DEFINE low  == <<"0", "1", "2", "3", "4", "5", "6", "7", "8", "9">>
           high == IF upper THEN <<"A", "B", "C", "D", "E", "F">> ELSE <<"a", "b", "c", "d", "e", "f">>
           S == {"0", "1", "2", "3", "4", "5", "6", "7", "8", "9",
                 "a", "b", "c", "d", "e", "f", "A", "B", "C", "D", "E", "F"}
<1>1. low \in Seq(S) /\ Len(low) = 10 /\ low[1] = "0"
  OBVIOUS
<1>2. high \in Seq(S) /\ Len(high) = 6
  <2>1. CASE upper = TRUE
    BY <2>1
  <2>2. CASE upper = FALSE
    BY <2>2
  <2> QED
    BY <2>1, <2>2
<1>3. Digits(upper) = low \o high /\ Digits(upper) \in Seq(Characters)
  BY CallAssumption DEF Digits
<1> HIDE DEF low, high, S
<1>4. /\ Len(low \o high) = Len(low) + Len(high)
      /\ \A k \in 1 .. Len(low) + Len(high) :
           (low \o high)[k] = IF k <= Len(low) THEN low[k] ELSE high[k - Len(low)]
  BY <1>1, <1>2, ConcatProperties
<1>5. Len(low \o high) = 16 /\ (low \o high)[1] = "0"
  BY <1>1, <1>2, <1>4
<1>6. Len(Digits(upper)) = 16 /\ Digits(upper)[1] = "0"
  BY <1>3, <1>5
<1> QED
  BY <1>3, <1>6, ElementOfSeq

\* The digit of v at position k, the last one being the first.
Digit(v, b, upper, k) == Digits(upper)[((v \div Power(b)[k - 1]) % b) + 1]

LEMMA DigitType ==
  ASSUME NEW v \in Nat, NEW b \in {10, 16}, NEW upper \in BOOLEAN, NEW k \in 1 .. BUFFER
  PROVE  Digit(v, b, upper, k) \in Characters
<1>1. k - 1 \in 0 .. BUFFER /\ b \in Nat /\ b >= 4
  BY WidthAssumption
<1> DEFINE p == Power(b)[k - 1]
<1>2. p \in Nat \ {0}
  BY <1>1, PowerFacts
<1> HIDE DEF p
<1>3. v \div p \in Nat
  BY <1>2, DivZero
<1>4. ((v \div p) % b) + 1 \in 1 .. 16
  BY <1>1, <1>3
<1> QED
  BY <1>4, DigitsType DEF Digit, p

\* The last `length` digits of v, in the order of writing.
Written(v, b, upper, length) == [k \in 1 .. length |-> Digit(v, b, upper, length - k + 1)]

\* A number of `length` digits, counted by its powers, has that numeral.
LEMMA NumeralIs ==
  ASSUME NEW v \in Nat, NEW b \in {10, 16}, NEW upper \in BOOLEAN, NEW length \in 1 .. BUFFER,
         v < Power(b)[length],
         \A n \in 1 .. length - 1 : ~(v < Power(b)[n])
  PROVE  Numeral(v, b, upper) = Written(v, b, upper, length)
<1> DEFINE S == {n \in 1 .. BUFFER : v < Power(b)[n]}
<1>1. BUFFER \in Nat /\ length \in S /\ S \subseteq Nat
  BY WidthAssumption
<1>2. \A n \in S : length <= n
  BY <1>1
<1> HIDE DEF S
<1>3. Min(S) = length
  <2>1. \A x \in S : (\A y \in S : x <= y) => x = length
    BY <1>1, <1>2
  <2> QED
    BY <1>1, <1>2, <2>1 DEF Min
<1>4. \A k \in 1 .. length : (length - k + 1) - 1 = length - k
  BY <1>1
<1> QED
  BY <1>3, <1>4 DEF Numeral, Written, Digit, S

\* The last digits of v, the last one first.
LastDigits(s, v, b, upper) ==
  \A k \in 1 .. Len(s) : s[k] = Digit(v, b, upper, k) /\ ~(v < Power(b)[k - 1])

\* All digits of a number, read from the last one, are its numeral.
LEMMA ReverseNumeral ==
  ASSUME NEW v \in Nat, NEW b \in {10, 16}, NEW upper \in BOOLEAN,
         NEW s \in Seq(Characters), Len(s) \in 1 .. BUFFER,
         v < Power(b)[Len(s)], LastDigits(s, v, b, upper)
  PROVE  Numeral(v, b, upper) = Reverse(s)
<1> DEFINE n == Len(s)
<1>1. n \in Nat /\ n \in 1 .. BUFFER /\ v < Power(b)[n]
  BY WidthAssumption
<1>2. \A m \in 1 .. n - 1 : ~(v < Power(b)[m])
  <2> TAKE m \in 1 .. n - 1
  <2>1. m + 1 \in 1 .. n /\ (m + 1) - 1 = m
    BY <1>1
  <2>2. ~(v < Power(b)[(m + 1) - 1])
    BY <2>1 DEF LastDigits
  <2> QED
    BY <2>1, <2>2
<1>3. Numeral(v, b, upper) = Written(v, b, upper, n)
  <2> HIDE DEF n
  <2> QED
    BY <1>1, <1>2, NumeralIs
<1>4. \A k \in 1 .. n : Digit(v, b, upper, n - k + 1) = s[(n - k) + 1]
  <2> TAKE k \in 1 .. n
  <2>1. (n - k) + 1 \in 1 .. n
    BY <1>1
  <2> QED
    BY <2>1 DEF LastDigits
<1> QED
  BY <1>3, <1>4 DEF Reverse, Written

\* The numeral of every number that fits: it exists.
LEMMA NumeralType ==
  ASSUME NEW v \in Nat, v < WORD, NEW b \in {10, 16}, NEW upper \in BOOLEAN
  PROVE  Numeral(v, b, upper) \in Seq(Characters)
<1> DEFINE S == {n \in 1 .. BUFFER : v < Power(b)[n]}
<1>1. BUFFER \in Nat /\ WORD \in Nat /\ WORD > 1 /\ WORD <= Power(4)[BUFFER] /\ b \in Nat /\ b >= 4
  <2>1. INT > 1
    BY WidthAssumption
  <2> QED
    BY <2>1, WidthAssumption
<1>2. BUFFER # 0
  BY <1>1, PowerDef
<1>3. BUFFER \in S
  <2>1. BUFFER \in 0 .. BUFFER
    BY <1>1
  <2>2. Power(4)[BUFFER] <= Power(b)[BUFFER] /\ Power(4)[BUFFER] \in Nat /\ Power(b)[BUFFER] \in Nat
    BY <1>1, <2>1, PowerFacts
  <2> QED
    BY <1>1, <1>2, <2>2
<1>4. PICK n \in S : \A m \in S : n <= m
  <2>1. S \subseteq Nat /\ S # {}
    BY <1>1, <1>3
  <2> HIDE DEF S
  <2> QED
    BY <2>1, LeastElement
<1>5. n \in 1 .. BUFFER /\ v < Power(b)[n] /\ \A m \in 1 .. n - 1 : ~(v < Power(b)[m])
  <2>1. ASSUME NEW m \in 1 .. n - 1 PROVE m \notin S
    BY <1>1, <1>4
  <2> QED
    BY <1>1, <1>4, <2>1
<1>6. Numeral(v, b, upper) = Written(v, b, upper, n)
  BY <1>5, NumeralIs
<1>7. \A k \in 1 .. n : Digit(v, b, upper, n - k + 1) \in Characters
  <2> TAKE k \in 1 .. n
  <2>1. n - k + 1 \in 1 .. BUFFER
    BY <1>1, <1>5
  <2> QED
    BY <2>1, DigitType
<1>8. n \in Nat
  BY <1>1, <1>5
<1> QED
  BY <1>6, <1>7, <1>8 DEF Written

\* The numeral of zero.
LEMMA NumeralZero ==
  ASSUME NEW b \in {10, 16}, NEW upper \in BOOLEAN
  PROVE  Numeral(0, b, upper) = <<"0">>
<1>1. BUFFER \in Nat /\ WORD \in Nat /\ WORD > 1 /\ WORD <= Power(4)[BUFFER] /\ b \in Nat /\ b >= 4
  <2>1. INT > 1
    BY WidthAssumption
  <2> QED
    BY <2>1, WidthAssumption
<1>2. 1 \in 1 .. BUFFER
  BY <1>1, PowerDef
<1>3. 0 < Power(b)[1]
  BY <1>1, <1>2, PowerFacts
<1>4. Numeral(0, b, upper) = Written(0, b, upper, 1)
  <2> DEFINE length == 1
  <2>1. \A n \in 1 .. length - 1 : ~(0 < Power(b)[n])
    OBVIOUS
  <2>2. length \in 1 .. BUFFER /\ 0 < Power(b)[length] /\ 0 \in Nat
    BY <1>2, <1>3
  <2> HIDE DEF length
  <2>3. Numeral(0, b, upper) = Written(0, b, upper, length)
    BY <2>1, <2>2, NumeralIs
  <2> QED
    BY <2>3 DEF length
<1>5. Digit(0, b, upper, 1) = "0"
  <2>1. (0 \div 1) % b = 0
    BY <1>1
  <2>2. Power(b)[0] = 1
    BY PowerDef
  <2> QED
    BY <2>1, <2>2, DigitsType DEF Digit
<1>6. \A k \in 1 .. 1 : Digit(0, b, upper, 1 - k + 1) = "0"
  BY <1>5
<1> QED
  BY <1>4, <1>6 DEF Written

-----------------------------------------------------------------------------
(* The reader of a format                                                  *)

Start == [percent |-> FALSE, used |-> 0, text |-> <<>>]

\* f passes a reader on from character to character, m times.
Reads(f, text, arguments, m) ==
  f = [n \in 0 .. m |-> IF n = 0 THEN Start ELSE Understand(f[n - 1], text[n], arguments)]

\* The recursion of Reading has a solution.
LEMMA ReadingExists ==
  ASSUME NEW text, NEW arguments
  PROVE  \A m \in Nat : \E f : Reads(f, text, arguments, m)
<1> DEFINE Solves(f, m) ==
             f = [n \in 0 .. m |-> IF n = 0 THEN Start ELSE Understand(f[n - 1], text[n], arguments)]
           S == {m \in Nat : \E f : Solves(f, m)}
<1>1. 0 \in S
  <2> DEFINE f == [n \in 0 .. 0 |-> Start]
  <2>1. Solves(f, 0)
    OBVIOUS
  <2> QED
    BY <2>1
<1>2. ASSUME NEW m \in Nat, m \in S PROVE m + 1 \in S
  <2>1. PICK f : Solves(f, m)
    BY <1>2
  <2> DEFINE last == Understand(f[m], text[m + 1], arguments)
             g == [n \in 0 .. m + 1 |-> IF n <= m THEN f[n] ELSE last]
             h == [n \in 0 .. m + 1 |->
                    IF n = 0 THEN Start ELSE Understand(g[n - 1], text[n], arguments)]
  <2>2. ASSUME NEW n \in 0 .. m + 1
        PROVE  g[n] = IF n = 0 THEN Start ELSE Understand(g[n - 1], text[n], arguments)
    <3>1. CASE n = 0
      BY <2>1, <3>1
    <3>2. CASE n # 0 /\ n <= m
      <4>1. f[n] = Understand(f[n - 1], text[n], arguments)
        BY <2>1, <3>2
      <4>2. g[n] = f[n] /\ g[n - 1] = f[n - 1]
        BY <3>2
      <4> QED
        BY <3>2, <4>1, <4>2
    <3>3. CASE n = m + 1
      <4>1. g[n - 1] = f[m] /\ n # 0 /\ g[n] = last
        BY <3>3
      <4> QED
        BY <3>3, <4>1
    <3> QED
      BY <3>1, <3>2, <3>3
  <2>3. Solves(g, m + 1)
    <3>1. \A n \in 0 .. m + 1 : g[n] = h[n]
      BY <2>2
    <3>2. g = [n \in 0 .. m + 1 |-> g[n]] /\ h = [n \in 0 .. m + 1 |-> h[n]]
      OBVIOUS
    <3> HIDE DEF g, h
    <3>3. g = h
      BY <3>1, <3>2
    <3> QED
      BY <3>3 DEF h
  <2> HIDE DEF g, Solves
  <2>4. \E k : Solves(k, m + 1)
    BY <2>3, Zenon
  <2> QED
    BY <2>4
<1> HIDE DEF S
<1>3. \A m \in Nat : m \in S
  BY <1>1, <1>2, SetInduction
<1> QED
  BY <1>3 DEF S, Reads

\* What Reading is: the reader is passed from character to character.
LEMMA ReadingDef ==
  ASSUME NEW text, NEW arguments, Len(text) \in Nat
  PROVE  /\ Reading(text, arguments)[0] = Start
         /\ \A n \in 1 .. Len(text) :
              Reading(text, arguments)[n] =
                Understand(Reading(text, arguments)[n - 1], text[n], arguments)
<1> DEFINE L == Len(text)
           after == CHOOSE f : Reads(f, text, arguments, L)
<1>1. Reads(after, text, arguments, L)
  BY ReadingExists
<1>2. Reading(text, arguments) = after
  BY DEF Reading, Reads, Start
<1> HIDE DEF after
<1> QED
  BY <1>1, <1>2 DEF Reads

Slots   == [value : 0 .. WORD - 1, string : Seq(Characters) \cup {NULL}]
Readers == [percent : BOOLEAN, used : Nat, text : Seq(Characters)]
Conversions == {"c", "s", "d", "u", "x", "X"}

\* The number that a directive shows, and its magnitude.
LEMMA SlotNumbers ==
  ASSUME NEW slot \in Slots
  PROVE  /\ Unsigned(slot) \in Nat /\ Unsigned(slot) < WORD
         /\ Signed(slot) \in Int
         /\ Signed(slot) >= 0 => Signed(slot) \in Nat /\ Signed(slot) < WORD
         /\ Signed(slot) < 0 => /\ -Signed(slot) \in Nat \ {0}
                                /\ -Signed(slot) < WORD
                                /\ Magnitude(Signed(slot)) = -Signed(slot)
<1> DEFINE u == Unsigned(slot)
           s == Signed(slot)
<1>1. INT \in Nat /\ INT > 1 /\ WORD \in Nat /\ INT <= WORD /\ INT = 2 * (INT \div 2)
  BY WidthAssumption
<1>2. u \in 0 .. INT - 1
  <2>1. slot.value \in Nat
    BY <1>1 DEF Slots
  <2> QED
    BY <1>1, <2>1 DEF Unsigned
<1>3. s = IF u >= INT \div 2 THEN u - INT ELSE u
  BY DEF Signed
<1> HIDE DEF u, s
<1>4. s < 0 => -s \in 1 .. INT \div 2
  BY <1>1, <1>2, <1>3
<1>5. ASSUME s < 0 PROVE Magnitude(s) = -s
  <2>1. -s \in Nat \ {0} /\ -s < WORD /\ s \in Int
    BY <1>1, <1>2, <1>3, <1>4, <1>5
  <2>2. -(s + 1) \in 0 .. WORD - 1
    BY <1>1, <2>1
  <2>3. (-(s + 1)) % WORD = -(s + 1)
    BY <1>1, <2>2
  <2>4. (-(s + 1)) + 1 = -s /\ (-s) % WORD = -s
    BY <1>1, <2>1
  <2> QED
    BY <2>3, <2>4 DEF Magnitude
<1> QED
  BY <1>1, <1>2, <1>3, <1>4, <1>5 DEF u, s

\* What a directive shows is a string.
LEMMA ShownType ==
  ASSUME NEW c \in Conversions, NEW slot \in Slots
  PROVE  Shown(c, slot) \in Seq(Characters)
<1>1. CASE c = "c"
  <2>0. slot.value \in Nat
    BY WidthAssumption DEF Slots
  <2>1. slot.value % 256 \in 0 .. 255
    BY <2>0
  <2>2. Char[slot.value % 256] \in Characters
    BY <2>1, CallAssumption, Zenon
  <2>3. Shown(c, slot) = <<Char[slot.value % 256]>>
    BY <1>1 DEF Shown
  <2> QED
    BY <2>2, <2>3
<1>2. CASE c = "s"
  <2>1. Shown(c, slot) = IF slot.string = NULL THEN <<"(", "n", "u", "l", "l", ")">> ELSE slot.string
    BY <1>2 DEF Shown
  <2>2. <<"(", "n", "u", "l", "l", ")">> \in Seq(Characters)
    BY CallAssumption
  <2> QED
    BY <2>1, <2>2 DEF Slots
<1>3. CASE c = "d"
  <2>1. CASE Signed(slot) < 0
    <3>1. Numeral(-Signed(slot), 10, FALSE) \in Seq(Characters)
      BY <2>1, SlotNumbers, NumeralType
    <3>2. <<"-">> \in Seq(Characters)
      BY CallAssumption
    <3>3. Shown(c, slot) = <<"-">> \o Numeral(-Signed(slot), 10, FALSE)
      BY <1>3, <2>1 DEF Shown
    <3> QED
      BY <3>1, <3>2, <3>3, ConcatProperties
  <2>2. CASE ~(Signed(slot) < 0)
    <3>1. Signed(slot) \in Nat /\ Signed(slot) < WORD
      BY <2>2, SlotNumbers
    <3>2. Shown(c, slot) = Numeral(Signed(slot), 10, FALSE)
      BY <1>3, <2>2 DEF Shown
    <3> QED
      BY <3>1, <3>2, NumeralType
  <2> QED
    BY <2>1, <2>2
<1>4. CASE c \in {"u", "x", "X"}
  <2>1. Unsigned(slot) \in Nat /\ Unsigned(slot) < WORD
    BY SlotNumbers
  <2>2. \A b \in {10, 16}, upper \in BOOLEAN : Numeral(Unsigned(slot), b, upper) \in Seq(Characters)
    BY <2>1, NumeralType
  <2>3. \E b \in {10, 16}, upper \in BOOLEAN : Shown(c, slot) = Numeral(Unsigned(slot), b, upper)
    <3>1. CASE c = "u"
      BY <3>1 DEF Shown
    <3>2. CASE c = "x"
      BY <3>2 DEF Shown
    <3>3. CASE c = "X"
      BY <3>3 DEF Shown
    <3> QED
      BY <1>4, <3>1, <3>2, <3>3
  <2> QED
    BY <2>2, <2>3
<1> QED
  BY <1>1, <1>2, <1>3, <1>4 DEF Conversions

\* The reader, case by case.
LEMMA UnderstandIs ==
  ASSUME NEW r \in Readers, NEW c, NEW arguments
  PROVE  /\ ~r.percent /\ c = "%" =>
              Understand(r, c, arguments) = [percent |-> TRUE, used |-> r.used, text |-> r.text]
         /\ ~r.percent /\ c # "%" =>
              Understand(r, c, arguments) =
                [percent |-> FALSE, used |-> r.used, text |-> Append(r.text, c)]
         /\ r.percent /\ c \in Conversions =>
              Understand(r, c, arguments) =
                [percent |-> FALSE, used |-> r.used + 1,
                 text |-> r.text \o Shown(c, arguments[r.used + 1])]
         /\ r.percent /\ c = "%" =>
              Understand(r, c, arguments) =
                [percent |-> FALSE, used |-> r.used, text |-> Append(r.text, "%")]
         /\ r.percent /\ c \notin Conversions \cup {"%"} =>
              Understand(r, c, arguments) =
                [percent |-> FALSE, used |-> r.used, text |-> r.text \o <<"%", c>>]
<1>1. r = [percent |-> r.percent, used |-> r.used, text |-> r.text] /\ r.percent \in BOOLEAN
  BY DEF Readers
<1>2. ASSUME ~r.percent, c = "%"
      PROVE  Understand(r, c, arguments) = [percent |-> TRUE, used |-> r.used, text |-> r.text]
  <2>1. Understand(r, c, arguments) = [r EXCEPT !.percent = TRUE]
    BY <1>2 DEF Understand
  <2> QED
    BY <1>1, <2>1
<1>3. ASSUME ~r.percent, c # "%"
      PROVE  Understand(r, c, arguments) =
               [percent |-> FALSE, used |-> r.used, text |-> Append(r.text, c)]
  <2>1. Understand(r, c, arguments) = [r EXCEPT !.text = Append(@, c)]
    BY <1>3 DEF Understand
  <2>2. r.percent = FALSE
    BY <1>1, <1>3
  <2> QED
    BY <1>1, <2>1, <2>2
<1>4. ASSUME r.percent, c \in Conversions
      PROVE  Understand(r, c, arguments) =
               [percent |-> FALSE, used |-> r.used + 1,
                text |-> r.text \o Shown(c, arguments[r.used + 1])]
  BY <1>4 DEF Understand, Conversions
<1>5. ASSUME r.percent, c = "%"
      PROVE  Understand(r, c, arguments) =
               [percent |-> FALSE, used |-> r.used, text |-> Append(r.text, "%")]
  <2>1. Understand(r, c, arguments) = [r EXCEPT !.percent = FALSE, !.text = Append(@, "%")]
    BY <1>5 DEF Understand
  <2> QED
    BY <1>1, <2>1
<1>6. ASSUME r.percent, c \notin Conversions \cup {"%"}
      PROVE  Understand(r, c, arguments) =
               [percent |-> FALSE, used |-> r.used, text |-> r.text \o <<"%", c>>]
  <2>1. Understand(r, c, arguments) = [r EXCEPT !.percent = FALSE, !.text = @ \o <<"%", c>>]
    BY <1>6 DEF Understand, Conversions
  <2> QED
    BY <1>1, <2>1
<1> QED
  BY <1>2, <1>3, <1>4, <1>5, <1>6

\* The reader at a percent sign.
LEMMA UnderstandSign ==
  ASSUME NEW r \in Readers, NEW c, NEW arguments, ~r.percent, c = "%"
  PROVE  /\ Understand(r, c, arguments).percent
         /\ Understand(r, c, arguments).used = r.used
         /\ Understand(r, c, arguments).text = r.text
<1> DEFINE u == Understand(r, c, arguments)
<1>1. u = [percent |-> TRUE, used |-> r.used, text |-> r.text]
  BY UnderstandIs
<1> HIDE DEF u
<1>2. u.percent /\ u.used = r.used /\ u.text = r.text
  BY <1>1
<1> QED
  BY <1>2 DEF u

\* The reader at a directive that takes an argument.
LEMMA UnderstandConversion ==
  ASSUME NEW r \in Readers, NEW c, NEW arguments, r.percent, c \in Conversions
  PROVE  /\ ~Understand(r, c, arguments).percent
         /\ Understand(r, c, arguments).used = r.used + 1
         /\ Understand(r, c, arguments).text = r.text \o Shown(c, arguments[r.used + 1])
<1> DEFINE u == Understand(r, c, arguments)
<1>1. u = [percent |-> FALSE, used |-> r.used + 1, text |-> r.text \o Shown(c, arguments[r.used + 1])]
  BY UnderstandIs
<1> HIDE DEF u
<1>2. ~u.percent /\ u.used = r.used + 1 /\ u.text = r.text \o Shown(c, arguments[r.used + 1])
  BY <1>1
<1> QED
  BY <1>2 DEF u

\* The reader at the second of two percent signs.
LEMMA UnderstandTwo ==
  ASSUME NEW r \in Readers, NEW c, NEW arguments, r.percent, c = "%"
  PROVE  /\ ~Understand(r, c, arguments).percent
         /\ Understand(r, c, arguments).used = r.used
         /\ Understand(r, c, arguments).text = Append(r.text, "%")
<1> DEFINE u == Understand(r, c, arguments)
<1>1. u = [percent |-> FALSE, used |-> r.used, text |-> Append(r.text, "%")]
  BY UnderstandIs, ZenonT(40)
<1> HIDE DEF u
<1>2. ~u.percent /\ u.used = r.used /\ u.text = Append(r.text, "%")
  BY <1>1
<1> QED
  BY <1>2 DEF u

\* The reader at an unknown directive.
LEMMA UnderstandUnknown ==
  ASSUME NEW r \in Readers, NEW c, NEW arguments, r.percent, c \notin Conversions \cup {"%"}
  PROVE  /\ ~Understand(r, c, arguments).percent
         /\ Understand(r, c, arguments).used = r.used
         /\ Understand(r, c, arguments).text = r.text \o <<"%", c>>
<1> DEFINE u == Understand(r, c, arguments)
<1>1. u = [percent |-> FALSE, used |-> r.used, text |-> r.text \o <<"%", c>>]
  BY UnderstandIs
<1> HIDE DEF u
<1>2. ~u.percent /\ u.used = r.used /\ u.text = r.text \o <<"%", c>>
  BY <1>1
<1> QED
  BY <1>2 DEF u

\* When the reader remembers a percent sign.
LEMMA UnderstandPercent ==
  ASSUME NEW r \in Readers, NEW c, NEW arguments
  PROVE  Understand(r, c, arguments).percent <=> ~r.percent /\ c = "%"
<1>1. CASE ~r.percent /\ c = "%"
  <2>1. Understand(r, c, arguments) = [percent |-> TRUE, used |-> r.used, text |-> r.text]
    BY <1>1, UnderstandIs
  <2> QED
    BY <1>1, <2>1
<1>2. CASE ~r.percent /\ c # "%"
  <2>1. Understand(r, c, arguments) = [percent |-> FALSE, used |-> r.used, text |-> Append(r.text, c)]
    BY <1>2, UnderstandIs
  <2> QED
    BY <1>2, <2>1
<1>3. CASE r.percent /\ c \in Conversions
  <2>1. Understand(r, c, arguments) =
          [percent |-> FALSE, used |-> r.used + 1,
           text |-> r.text \o Shown(c, arguments[r.used + 1])]
    BY <1>3, UnderstandIs
  <2> QED
    BY <1>3, <2>1
<1>4. CASE r.percent /\ c = "%"
  <2>1. Understand(r, c, arguments) = [percent |-> FALSE, used |-> r.used, text |-> Append(r.text, "%")]
    BY <1>4, UnderstandIs, ZenonT(40)
  <2> QED
    BY <1>4, <2>1
<1>5. CASE r.percent /\ c \notin Conversions \cup {"%"}
  <2>1. Understand(r, c, arguments) = [percent |-> FALSE, used |-> r.used, text |-> r.text \o <<"%", c>>]
    BY <1>5, UnderstandIs
  <2> QED
    BY <1>5, <2>1
<1> QED
  BY <1>1, <1>2, <1>3, <1>4, <1>5

\* What the reader adds at a character: text, and a number of arguments.
LEMMA UnderstandGrows ==
  ASSUME NEW r \in Readers, NEW c \in Characters, NEW arguments \in Seq(Slots),
         Understand(r, c, arguments).used <= Len(arguments)
  PROVE  /\ Understand(r, c, arguments) \in Readers
         /\ \E t \in Seq(Characters) : Understand(r, c, arguments).text = r.text \o t
<1> DEFINE u == Understand(r, c, arguments)
<1>1. r.percent \in BOOLEAN /\ r.used \in Nat /\ r.text \in Seq(Characters) /\ "%" \in Characters
  BY CallAssumption DEF Readers
<1>2. \A t \in Seq(Characters) : r.text \o t \in Seq(Characters)
  BY <1>1, ConcatProperties
<1>3. SUFFICES \E t \in Seq(Characters) : /\ u.text = r.text \o t
                                          /\ u = [percent |-> u.percent, used |-> u.used, text |-> u.text]
                                          /\ u.percent \in BOOLEAN /\ u.used \in Nat
  <2>1. PICK t \in Seq(Characters) : /\ u.text = r.text \o t
                                     /\ u = [percent |-> u.percent, used |-> u.used, text |-> u.text]
                                     /\ u.percent \in BOOLEAN /\ u.used \in Nat
    BY <1>3
  <2> HIDE DEF u
  <2>2. u.text \in Seq(Characters)
    BY <1>2, <2>1
  <2>3. u \in Readers
    BY <2>1, <2>2 DEF Readers
  <2> QED
    BY <2>1, <2>3 DEF u
<1>4. CASE ~r.percent /\ c = "%"
  <2>1. u = [percent |-> TRUE, used |-> r.used, text |-> r.text]
    BY <1>4, UnderstandIs
  <2>2. r.text \o <<>> = r.text /\ <<>> \in Seq(Characters)
    BY <1>1, ConcatEmptySeq
  <2> HIDE DEF u
  <2> QED
    BY <1>1, <2>1, <2>2
<1>5. CASE ~r.percent /\ c # "%"
  <2>1. u = [percent |-> FALSE, used |-> r.used, text |-> Append(r.text, c)]
    BY <1>5, UnderstandIs
  <2>2. Append(r.text, c) = r.text \o <<c>> /\ <<c>> \in Seq(Characters)
    BY <1>1, AppendIsConcat
  <2> HIDE DEF u
  <2> QED
    BY <1>1, <2>1, <2>2
<1>6. CASE r.percent /\ c \in Conversions
  <2> DEFINE t == Shown(c, arguments[r.used + 1])
  <2>1. u = [percent |-> FALSE, used |-> r.used + 1, text |-> r.text \o t]
    BY <1>6, UnderstandIs
  <2>2. u.used = r.used + 1 /\ Len(arguments) \in Nat
    BY <2>1
  <2>3. r.used + 1 \in 1 .. Len(arguments)
    BY <1>1, <2>2
  <2>4. t \in Seq(Characters)
    <3>1. arguments[r.used + 1] \in Slots
      BY <2>3, ElementOfSeq
    <3> QED
      BY <1>6, <3>1, ShownType
  <2> HIDE DEF u, t
  <2>5. /\ u.text = r.text \o t /\ u.percent \in BOOLEAN /\ u.used \in Nat
        /\ u = [percent |-> u.percent, used |-> u.used, text |-> u.text]
    BY <1>1, <2>1
  <2> QED
    BY <2>4, <2>5
<1>7. CASE r.percent /\ c = "%"
  <2>1. u = [percent |-> FALSE, used |-> r.used, text |-> Append(r.text, "%")]
    BY <1>7, UnderstandIs, ZenonT(40)
  <2>2. Append(r.text, "%") = r.text \o <<"%">>
    BY <1>1, AppendIsConcat
  <2>3. <<"%">> \in Seq(Characters)
    BY <1>1
  <2> HIDE DEF u
  <2> QED
    BY <1>1, <2>1, <2>2, <2>3
<1>8. CASE r.percent /\ c \notin Conversions \cup {"%"}
  <2>1. u = [percent |-> FALSE, used |-> r.used, text |-> r.text \o <<"%", c>>]
    BY <1>8, UnderstandIs
  <2>2. <<"%", c>> \in Seq(Characters)
    BY <1>1
  <2> HIDE DEF u
  <2> QED
    BY <1>1, <2>1, <2>2
<1> QED
  BY <1>1, <1>4, <1>5, <1>6, <1>7, <1>8

\* The calls, as the assumption has them.
LEMMA CallFacts ==
  ASSUME NEW c \in PrintCalls
  PROVE  /\ c.format \in Seq(Characters) /\ Len(c.format) \in Nat
         /\ \A n \in 1 .. Len(c.format) : c.format[n] \in Characters
         /\ c.args \in Seq(Slots) /\ Len(c.args) \in Nat
         /\ \A n \in 1 .. Len(c.format) : Reading(c.format, c.args)[n].used <= Len(c.args)
<1>1. c.format \in Seq(Characters) /\ c.args \in Seq(Slots)
  BY CallAssumption DEF Slots
<1>2. \A n \in 1 .. Len(c.format) : Reading(c.format, c.args)[n].used <= Len(c.args)
  BY CallAssumption
<1>3. \A n \in 1 .. Len(c.format) : c.format[n] \in Characters
  BY <1>1, ElementOfSeq
<1> QED
  BY <1>1, <1>2, <1>3

\* The reader of a call's format: its readings, and the text they add.
LEMMA ReadingType ==
  ASSUME NEW c \in PrintCalls
  PROVE  \A n \in 0 .. Len(c.format) : Reading(c.format, c.args)[n] \in Readers
<1> DEFINE R == Reading(c.format, c.args)
           S == {n \in Nat : n <= Len(c.format) => R[n] \in Readers}
<1>1. 0 \in S
  <2>1. R[0] = Start
    BY CallFacts, ReadingDef
  <2>2. Start \in Readers
    BY DEF Start, Readers
  <2> QED
    BY <2>1, <2>2
<1>2. ASSUME NEW n \in Nat, n \in S PROVE n + 1 \in S
  <2> SUFFICES ASSUME n + 1 <= Len(c.format) PROVE R[n + 1] \in Readers
    OBVIOUS
  <2>1. R[n] \in Readers
    BY <1>2, CallFacts
  <2>2. n + 1 \in 1 .. Len(c.format) /\ (n + 1) - 1 = n
    BY CallFacts
  <2>3. R[n + 1] = Understand(R[n], c.format[n + 1], c.args)
    BY <2>2, CallFacts, ReadingDef
  <2>4. R[n + 1].used <= Len(c.args) /\ c.format[n + 1] \in Characters /\ c.args \in Seq(Slots)
    BY <2>2, CallFacts
  <2> HIDE DEF R
  <2> QED
    BY <2>1, <2>3, <2>4, UnderstandGrows
<1> HIDE DEF S
<1>3. \A n \in Nat : n \in S
  BY <1>1, <1>2, SetInduction
<1> QED
  BY <1>3, CallFacts DEF S

\* The text read so far is a prefix of the text read later.
LEMMA TextGrows ==
  ASSUME NEW c \in PrintCalls, NEW m \in 0 .. Len(c.format)
  PROVE  \E t \in Seq(Characters) :
           Reading(c.format, c.args)[Len(c.format)].text = Reading(c.format, c.args)[m].text \o t
<1> DEFINE R == Reading(c.format, c.args)
           L == Len(c.format)
           S == {n \in Nat : m + n <= L =>
                   \E t \in Seq(Characters) : R[m + n].text = R[m].text \o t}
<1>1. L \in Nat /\ m \in Nat /\ m <= L
  BY CallFacts
<1>2. \A n \in 0 .. L : R[n] \in Readers /\ R[n].text \in Seq(Characters)
  BY ReadingType DEF Readers
<1>3. 0 \in S
  <2>1. R[m].text \in Seq(Characters) /\ m + 0 = m
    BY <1>1, <1>2
  <2>2. R[m].text \o <<>> = R[m].text /\ <<>> \in Seq(Characters)
    BY <2>1, ConcatEmptySeq
  <2> HIDE DEF R
  <2> QED
    BY <2>1, <2>2
<1>4. ASSUME NEW n \in Nat, n \in S PROVE n + 1 \in S
  <2> SUFFICES ASSUME m + (n + 1) <= L
               PROVE  \E t \in Seq(Characters) : R[m + (n + 1)].text = R[m].text \o t
    OBVIOUS
  <2> DEFINE k == m + n
  <2>1. k + 1 \in 1 .. L /\ (k + 1) - 1 = k /\ k \in 0 .. L /\ m + (n + 1) = k + 1 /\ m \in 0 .. L
    BY <1>1
  <2>2. PICK t \in Seq(Characters) : R[k].text = R[m].text \o t
    <3>1. m + n <= L
      BY <1>1
    <3> HIDE DEF L, R
    <3> QED
      BY <1>4, <3>1
  <2> HIDE DEF k
  <2>3. R[k + 1] = Understand(R[k], c.format[k + 1], c.args)
    BY <2>1, CallFacts, ReadingDef, SMTT(30)
  <2>4. R[k + 1].used <= Len(c.args) /\ c.format[k + 1] \in Characters /\ c.args \in Seq(Slots)
    BY <2>1, CallFacts
  <2> HIDE DEF R
  <2> DEFINE r  == R[k]
             ch == c.format[k + 1]
             s  == R[m].text
  <2>5. PICK u \in Seq(Characters) : R[k + 1].text = R[k].text \o u
    <3>1. r \in Readers /\ ch \in Characters /\ R[k + 1] = Understand(r, ch, c.args)
      BY <1>2, <2>1, <2>3, <2>4
    <3> HIDE DEF r, ch
    <3>2. Understand(r, ch, c.args).used <= Len(c.args) /\ c.args \in Seq(Slots)
      BY <2>4, <3>1
    <3>3. \E u \in Seq(Characters) : Understand(r, ch, c.args).text = r.text \o u
      BY <3>1, <3>2, UnderstandGrows
    <3> QED
      BY <3>1, <3>3 DEF r
  <2>6. s \in Seq(Characters)
    BY <1>2, <2>1
  <2>7. (s \o t) \o u = s \o (t \o u) /\ t \o u \in Seq(Characters)
    <3> HIDE DEF s
    <3>1. (s \o t) \o u = s \o (t \o u)
      BY <2>6, ConcatAssociative, SMTT(30)
    <3>2. t \o u \in Seq(Characters)
      BY ConcatProperties
    <3> QED
      BY <3>1, <3>2
  <2> QED
    BY <2>1, <2>2, <2>5, <2>7
<1> HIDE DEF S
<1>5. L - m \in S
  <2>1. L - m \in Nat
    BY <1>1
  <2>2. \A n \in Nat : n \in S
    BY <1>3, <1>4, SetInduction
  <2> QED
    BY <2>1, <2>2
<1>6. m + (L - m) = L /\ L <= L
  BY <1>1
<1> HIDE DEF L, R
<1>7. \E t \in Seq(Characters) : R[L].text = R[m].text \o t
  BY <1>5, <1>6 DEF S
<1> QED
  BY <1>7 DEF L, R

\* The reader remembers a percent sign exactly behind an odd number of them.
LEMMA PercentParity ==
  ASSUME NEW c \in PrintCalls
  PROVE  \A n \in 0 .. Len(c.format) : \E b \in 0 .. n :
           /\ b # 0 => c.format[b] # "%"
           /\ \A k \in b + 1 .. n : c.format[k] = "%"
           /\ Reading(c.format, c.args)[n].percent <=> (n - b) % 2 = 1
<1> DEFINE R == Reading(c.format, c.args)
           F == c.format
           L == Len(F)
           P(n, b) == /\ b # 0 => F[b] # "%"
                      /\ \A k \in b + 1 .. n : F[k] = "%"
                      /\ R[n].percent <=> (n - b) % 2 = 1
           S == {n \in Nat : n <= L => \E b \in 0 .. n : P(n, b)}
<1>1. L \in Nat
  BY CallFacts
<1>2. 0 \in S
  <2>1. R[0] = Start
    BY CallFacts, ReadingDef
  <2>2. ~R[0].percent
    BY <2>1 DEF Start
  <2> HIDE DEF R, F, L
  <2>3. P(0, 0)
    BY <2>2
  <2> QED
    BY <2>3
<1>3. ASSUME NEW n \in Nat, n \in S PROVE n + 1 \in S
  <2> SUFFICES ASSUME n + 1 <= L PROVE \E b \in 0 .. n + 1 : P(n + 1, b)
    OBVIOUS
  <2>1. PICK b \in 0 .. n : P(n, b)
    BY <1>1, <1>3
  <2>2. n + 1 \in 1 .. L /\ (n + 1) - 1 = n /\ n \in 0 .. L
    BY <1>1
  <2>3. R[n + 1] = Understand(R[n], F[n + 1], c.args)
    BY <2>2, CallFacts, ReadingDef
  <2>4. R[n] \in Readers
    BY <2>2, ReadingType
  <2> HIDE DEF R, F, L
  <2>5. CASE F[n + 1] # "%"
    <3>1. ~R[n + 1].percent
      BY <2>3, <2>4, <2>5, UnderstandPercent
    <3>2. ((n + 1) - (n + 1)) % 2 = 0
      OBVIOUS
    <3>3. \A k \in (n + 1) + 1 .. n + 1 : FALSE
      OBVIOUS
    <3>4. P(n + 1, n + 1)
      BY <2>5, <3>1, <3>2, <3>3
    <3> QED
      BY <3>4
  <2>6. CASE F[n + 1] = "%"
    <3>1. R[n + 1].percent <=> ~R[n].percent
      BY <2>3, <2>4, <2>6, UnderstandPercent
    <3>2. (n - b) % 2 = 1 <=> ~(((n + 1) - b) % 2 = 1)
      OBVIOUS
    <3>3. \A k \in b + 1 .. n + 1 : F[k] = "%"
      BY <2>1, <2>6
    <3>4. P(n + 1, b)
      BY <2>1, <3>1, <3>2, <3>3
    <3>5. b \in 0 .. n + 1
      OBVIOUS
    <3> QED
      BY <3>4, <3>5
  <2> QED
    BY <2>5, <2>6
<1> HIDE DEF S
<1>4. \A n \in Nat : n \in S
  BY <1>2, <1>3, SetInduction
<1> QED
  BY <1>1, <1>4 DEF S

\* A reader who remembers a percent sign at the end has seen an odd number.
LEMMA PercentAtEnd ==
  ASSUME NEW c \in PrintCalls, format = c.format, args = c.args,
         Reading(format, args)[Len(format)].percent
  PROVE  LonePercent
<1> DEFINE L == Len(format)
           S == {0} \cup {n \in 1 .. L : format[n] # "%"}
<1>1. L \in Nat /\ L \in 0 .. L
  BY CallFacts
<1>2. PICK b \in 0 .. L : /\ b # 0 => format[b] # "%"
                          /\ \A k \in b + 1 .. L : format[k] = "%"
                          /\ (L - b) % 2 = 1
  BY <1>1, PercentParity, ZenonT(40)
<1>3. b \in S /\ \A n \in S : n \in Nat /\ n <= b
  BY <1>1, <1>2
<1> HIDE DEF S
<1>4. Max(S) = b
  <2>1. \A x \in S : (\A y \in S : x >= y) => x = b
    BY <1>1, <1>3
  <2>2. \A y \in S : b >= y
    BY <1>1, <1>3
  <2> QED
    BY <1>3, <2>1, <2>2 DEF Max
<1> QED
  BY <1>2, <1>4 DEF LonePercent, S

\* A sequence is a prefix of what is made by adding to it.
LEMMA PrefixOfConcat ==
  ASSUME NEW C, NEW s \in Seq(C), NEW t \in Seq(C)
  PROVE  IsPrefix(s, s \o t)
<1>1. /\ s \o t \in Seq(C) /\ Len(s \o t) = Len(s) + Len(t)
      /\ \A k \in 1 .. Len(s) : (s \o t)[k] = s[k]
  BY ConcatProperties
<1>2. Len(s) \in Nat /\ Len(t) \in Nat /\ Len(s) <= Len(s \o t)
  BY <1>1
<1> DEFINE u == s \o t
<1>3. u \in Seq(C) /\ (\A k \in 1 .. Len(s) : u[k] = s[k]) /\ Len(s) <= Len(u) /\ Len(u) \in Nat
  BY <1>1, <1>2
<1> HIDE DEF u
<1>4. SubSeq(s, 1, Len(s)) = SubSeq(u, 1, Len(s))
  BY <1>2, <1>3
<1> QED
  BY <1>3, <1>4 DEF IsPrefix, u

\* A prefix of a prefix.
LEMMA PrefixTransitive ==
  ASSUME NEW C, NEW s \in Seq(C), NEW t \in Seq(C), NEW u \in Seq(C),
         IsPrefix(s, t), IsPrefix(t, u)
  PROVE  IsPrefix(s, u)
<1>1. Len(s) \in Nat /\ Len(t) \in Nat /\ Len(u) \in Nat /\ Len(s) <= Len(t) /\ Len(t) <= Len(u)
  BY DEF IsPrefix
<1>2. ASSUME NEW k \in 1 .. Len(s) PROVE s[k] = t[k]
  <2>1. SubSeq(s, 1, Len(s))[k] = s[k] /\ SubSeq(t, 1, Len(s))[k] = t[k]
    BY <1>1
  <2> QED
    BY <2>1 DEF IsPrefix
<1>3. ASSUME NEW k \in 1 .. Len(t) PROVE t[k] = u[k]
  <2>1. SubSeq(t, 1, Len(t))[k] = t[k] /\ SubSeq(u, 1, Len(t))[k] = u[k]
    BY <1>1
  <2> QED
    BY <2>1 DEF IsPrefix
<1>4. \A k \in 1 .. Len(s) : s[k] = u[k]
  BY <1>1, <1>2, <1>3
<1>5. SubSeq(s, 1, Len(s)) = SubSeq(u, 1, Len(s))
  BY <1>1, <1>4
<1> QED
  BY <1>1, <1>5 DEF IsPrefix

-----------------------------------------------------------------------------
(* The invariant of a call                                                 *)

Letters == Characters \cup {NUL}

\* The reader behind the first n characters.
R(n) == Reading(format, args)[n]

PrintTypes ==
  /\ \E c \in PrintCalls : format = c.format /\ args = c.args
  /\ pos \in 1 .. Len(format) + 2
  /\ arg \in Nat
  /\ printed \in Seq(Letters)
  /\ value \in Nat /\ base \in {10, 16} /\ uppercase \in BOOLEAN
  /\ buffer \in Seq(Characters)
  /\ printPc \in {"format", "digits", "done"}

\* What is left of the number has room in what is left of the buffer.
FitInv ==
  /\ printPc = "digits" => Len(buffer) <= BUFFER /\ value < Power(4)[BUFFER - Len(buffer)]
  /\ printPc # "digits" => buffer = <<>>

\* The number that is being converted is v: the buffer has its last digits.
Converted(v) ==
  /\ v \in Nat \ {0} /\ v < WORD
  /\ value = v \div Power(base)[Len(buffer)]
  /\ LastDigits(buffer, v, base, uppercase)

\* The text of the reader is printed, up to the number being converted.
TextInv ==
  /\ pos <= Len(format) + 1 =>
       /\ ~R(pos - 1).percent
       /\ R(pos - 1).used + 1 = arg
       /\ printPc # "digits" => printed = R(pos - 1).text
       /\ printPc = "digits" =>
            \E v : Converted(v) /\ R(pos - 1).text = printed \o Numeral(v, base, uppercase)
  /\ pos = Len(format) + 2 =>
       /\ R(Len(format)).percent
       /\ printed = R(Len(format)).text \o <<"%", NUL>>
       /\ printPc # "digits"
  /\ printPc = "done" => pos > Len(format)

PrintInv == PrintTypes /\ FitInv /\ TextInv

\* A step prints the text, up to the number that it starts to convert.
Shows(text) ==
  /\ printed' \in Seq(Letters)
  /\ value' \in Nat /\ base' \in {10, 16} /\ uppercase' \in BOOLEAN
  /\ buffer' \in Seq(Characters)
  /\ printPc' \in {"format", "digits"}
  /\ FitInv'
  /\ printPc' # "digits" => printed' = printed \o text
  /\ printPc' = "digits" =>
       \E v : Converted(v)' /\ printed \o text = printed' \o Numeral(v, base', uppercase')

\* Strings are texts.
LEMMA StringIsText ==
  ASSUME NEW s \in Seq(Characters) PROVE s \in Seq(Letters)
BY SeqMonotonic DEF Letters

\* eX_PrintNumberUnsigned shows the numeral behind the sign.
LEMMA UnsignedShows ==
  ASSUME PrintTypes, NEW sign \in Seq(Characters), NEW v \in Nat, v < WORD,
         NEW b \in {10, 16}, NEW upper \in BOOLEAN,
         eX_PrintNumberUnsigned(sign, v, b, upper)
  PROVE  Shows(sign \o Numeral(v, b, upper))
<1> DEFINE n == Numeral(v, b, upper)
<1>1. printed \in Seq(Letters) /\ sign \in Seq(Letters)
  BY StringIsText DEF PrintTypes
<1>2. n \in Seq(Characters) /\ n \in Seq(Letters)
  BY NumeralType, StringIsText
<1>3. value' = v /\ base' = b /\ uppercase' = upper /\ buffer' = <<>> /\ Len(buffer') = 0
  BY DEF eX_PrintNumberUnsigned
<1>4. buffer' \in Seq(Characters)
  BY <1>3
<1>5. BUFFER \in Nat /\ WORD \in Nat /\ WORD <= Power(4)[BUFFER] /\ BUFFER - 0 = BUFFER
  BY WidthAssumption
<1>6. CASE v = 0
  <2>1. printed' = (printed \o sign) \o <<"0">> /\ printPc' = "format"
    BY <1>6 DEF eX_PrintNumberUnsigned
  <2>2. n = <<"0">>
    BY <1>6, NumeralZero
  <2> HIDE DEF n
  <2>3. printed' = printed \o (sign \o n)
    BY <1>1, <1>2, <2>1, <2>2, ConcatAssociative, SMTT(30)
  <2>4. sign \o n \in Seq(Letters)
    BY <1>1, <1>2, ConcatProperties
  <2>5. printed' \in Seq(Letters)
    BY <1>1, <2>3, <2>4, ConcatProperties
  <2>6. FitInv'
    BY <1>3, <2>1 DEF FitInv
  <2> QED
    BY <1>3, <1>4, <2>1, <2>3, <2>5, <2>6 DEF Shows, n
<1>7. CASE v # 0
  <2>1. printed' = (printed \o sign) \o <<>> /\ printPc' = "digits"
    BY <1>7 DEF eX_PrintNumberUnsigned
  <2>2. printed \o sign \in Seq(Letters)
    BY <1>1, ConcatProperties
  <2>3. printed' = printed \o sign
    BY <2>1, <2>2, ConcatEmptySeq
  <2> HIDE DEF n
  <2>4. (printed \o sign) \o n = printed \o (sign \o n)
    BY <1>1, <1>2, ConcatAssociative
  <2>5. v < Power(4)[BUFFER]
    <3>1. Power(4)[BUFFER] \in Nat
      BY <1>5, PowerFacts
    <3> QED
      BY <1>5, <3>1
  <2>6. FitInv'
    BY <1>3, <1>5, <2>1, <2>5 DEF FitInv
  <2>7. Converted(v)'
    <3>1. Power(b)[0] = 1 /\ v \div 1 = v
      BY PowerDef
    <3>2. value' = v \div Power(base')[Len(buffer')]
      BY <1>3, <3>1
    <3> QED
      BY <1>3, <1>7, <3>2 DEF Converted, LastDigits
  <2>8. printed \o (sign \o n) = printed' \o Numeral(v, base', uppercase')
    BY <1>3, <2>3, <2>4 DEF n
  <2>9. printed' \in Seq(Letters)
    BY <2>2, <2>3
  <2> QED
    BY <1>3, <1>4, <2>1, <2>6, <2>7, <2>8, <2>9 DEF Shows, n
<1> QED
  BY <1>6, <1>7

\* A text is shown at once.
LEMMA TextShows ==
  ASSUME PrintTypes, FitInv, printPc = "format", NEW text \in Seq(Letters), Text(text)
  PROVE  Shows(text)
<1>1. printed' = printed \o text /\ UNCHANGED <<value, base, uppercase, buffer, printPc>>
  BY DEF Text, number
<1>2. printed' \in Seq(Letters)
  BY <1>1, ConcatProperties DEF PrintTypes
<1>3. FitInv'
  BY <1>1 DEF FitInv
<1> QED
  BY <1>1, <1>2, <1>3 DEF Shows, PrintTypes

\* A directive that takes an argument shows it.
LEMMA ConvertingShows ==
  ASSUME PrintTypes, FitInv, printPc = "format", NEW c, NEW slot \in Slots, Converting(c, slot)
  PROVE  c \in Conversions /\ Shows(Shown(c, slot))
<1>1. CASE c \in {"c", "s"}
  <2>1. Text(Shown(c, slot))
    <3>1. CASE c = "c"
      BY <3>1 DEF Converting, Shown
    <3>2. CASE c = "s"
      BY <3>2 DEF Converting, Shown
    <3> QED
      BY <1>1, <3>1, <3>2
  <2>2. c \in Conversions
    BY <1>1 DEF Conversions
  <2>3. Shown(c, slot) \in Seq(Letters)
    BY <2>2, ShownType, StringIsText
  <2> QED
    BY <2>1, <2>2, <2>3, TextShows
<1>2. CASE c \in {"u", "x", "X"}
  <2> DEFINE u == Unsigned(slot)
  <2>1. \E b \in {10, 16}, upper \in BOOLEAN :
          eX_PrintNumberUnsigned(<<>>, u, b, upper) /\ Shown(c, slot) = Numeral(u, b, upper)
    <3>1. CASE c = "u"
      BY <3>1 DEF Converting, Shown
    <3>2. CASE c = "x"
      BY <3>2 DEF Converting, Shown
    <3>3. CASE c = "X"
      BY <3>3 DEF Converting, Shown
    <3> QED
      BY <1>2, <3>1, <3>2, <3>3
  <2>2. PICK b \in {10, 16}, upper \in BOOLEAN :
          eX_PrintNumberUnsigned(<<>>, u, b, upper) /\ Shown(c, slot) = Numeral(u, b, upper)
    BY <2>1
  <2>3. u \in Nat /\ u < WORD
    BY SlotNumbers
  <2> HIDE DEF u
  <2> DEFINE n == Numeral(u, b, upper)
  <2>4. n \in Seq(Characters) /\ <<>> \in Seq(Characters)
    BY <2>3, NumeralType
  <2>5. Shows(<<>> \o n)
    BY <2>2, <2>3, <2>4, UnsignedShows
  <2>6. <<>> \o n = n
    BY <2>4, ConcatEmptySeq
  <2> QED
    BY <1>2, <2>2, <2>5, <2>6 DEF Conversions
<1>3. CASE c = "d"
  <2> DEFINE s == Signed(slot)
  <2>1. eX_PrintNumberSigned(s)
    BY <1>3 DEF Converting
  <2>2. CASE s < 0
    <3>1. eX_PrintNumberUnsigned(<<"-">>, Magnitude(s), 10, FALSE)
      <4>1. s \in Int
        BY SlotNumbers
      <4> HIDE DEF s
      <4>2. ~(s >= 0)
        BY <2>2, <4>1
      <4> QED
        BY <2>1, <4>2 DEF eX_PrintNumberSigned
    <3>2. Magnitude(s) = -s /\ -s \in Nat /\ -s < WORD
      BY <2>2, SlotNumbers
    <3>3. <<"-">> \in Seq(Characters)
      BY CallAssumption
    <3>4. Shown(c, slot) = <<"-">> \o Numeral(-s, 10, FALSE)
      BY <1>3, <2>2 DEF Shown
    <3> HIDE DEF s
    <3>5. Shows(<<"-">> \o Numeral(-s, 10, FALSE))
      BY <3>1, <3>2, <3>3, UnsignedShows
    <3> QED
      BY <1>3, <3>4, <3>5 DEF Conversions
  <2>3. CASE ~(s < 0)
    <3>1. s \in Nat /\ s < WORD
      BY <2>3, SlotNumbers
    <3>2. eX_PrintNumberUnsigned(<<>>, s, 10, FALSE)
      BY <2>1, <2>3 DEF eX_PrintNumberSigned
    <3>3. Shown(c, slot) = Numeral(s, 10, FALSE)
      BY <1>3, <2>3 DEF Shown
    <3> HIDE DEF s
    <3> DEFINE n == Numeral(s, 10, FALSE)
    <3>4. n \in Seq(Characters)
      BY <3>1, NumeralType
    <3>5. <<>> \in Seq(Characters)
      OBVIOUS
    <3>6. Shows(<<>> \o n)
      BY <3>1, <3>2, <3>4, <3>5, UnsignedShows
    <3>7. <<>> \o n = n
      BY <3>4, ConcatEmptySeq
    <3> QED
      BY <1>3, <3>3, <3>6, <3>7 DEF Conversions
  <2> QED
    BY <2>2, <2>3
<1> QED
  BY <1>1, <1>2, <1>3 DEF Converting

\* The call behind the state.
LEMMA StateFacts ==
  ASSUME PrintTypes
  PROVE  /\ Len(format) \in Nat /\ args \in Seq(Slots) /\ Len(args) \in Nat
         /\ \A n \in 1 .. Len(format) : format[n] \in Characters
         /\ \A n \in 0 .. Len(format) : R(n) \in Readers
         /\ \A n \in 1 .. Len(format) : /\ R(n) = Understand(R(n - 1), format[n], args)
                                        /\ R(n).used <= Len(args)
         /\ R(0) = Start
<1>1. PICK c \in PrintCalls : format = c.format /\ args = c.args
  BY DEF PrintTypes
<1>2. /\ Len(format) \in Nat /\ args \in Seq(Slots) /\ Len(args) \in Nat
      /\ \A n \in 1 .. Len(format) : format[n] \in Characters
      /\ \A n \in 1 .. Len(format) : R(n).used <= Len(args)
  BY <1>1, CallFacts DEF R
<1>3. \A n \in 0 .. Len(format) : R(n) \in Readers
  BY <1>1, ReadingType DEF R
<1>4. R(0) = Start /\ \A n \in 1 .. Len(format) : R(n) = Understand(R(n - 1), format[n], args)
  BY <1>2, ReadingDef DEF R
<1> QED
  BY <1>2, <1>3, <1>4

\* Characters at and behind the end.
LEMMA CharFacts ==
  ASSUME PrintTypes, NEW n \in Nat \ {0}
  PROVE  /\ n <= Len(format) <=> CharAt(n) # NUL
         /\ n <= Len(format) => CharAt(n) = format[n]
         /\ NUL # "%" /\ NUL \notin Conversions
<1>1. NUL \notin Characters /\ Conversions \cup {"%"} \subseteq Characters
  BY CallAssumption DEF Conversions
<1>2. CASE n <= Len(format)
  <2>1. format[n] \in Characters
    BY <1>2, StateFacts
  <2> QED
    BY <1>1, <1>2, <2>1 DEF CharAt
<1>3. CASE ~(n <= Len(format))
  BY <1>1, <1>3 DEF CharAt
<1> QED
  BY <1>2, <1>3

LEMMA PrintInitInv ==
  ASSUME PrintInit PROVE PrintInv
<1>1. PrintTypes
  <2>1. PICK c \in PrintCalls : format = c.format /\ args = c.args
    BY DEF PrintInit
  <2>2. Len(format) \in Nat
    BY <2>1, CallFacts
  <2>3. <<>> \in Seq(Letters) /\ <<>> \in Seq(Characters) /\ 1 \in 1 .. Len(format) + 2
    BY <2>2
  <2>4. /\ pos = 1 /\ arg = 1 /\ printed = <<>> /\ value = 0 /\ base = 10 /\ uppercase = FALSE
        /\ buffer = <<>> /\ printPc = "format"
    BY DEF PrintInit
  <2> QED
    BY <2>1, <2>3, <2>4 DEF PrintTypes
<1>2. FitInv
  BY DEF FitInv, PrintInit
<1>3. TextInv
  <2>1. R(0) = Start /\ Len(format) \in Nat
    BY <1>1, StateFacts
  <2>2. pos = 1 /\ arg = 1 /\ printed = <<>> /\ printPc = "format" /\ pos - 1 = 0
    BY DEF PrintInit
  <2>3. ~R(0).percent /\ R(0).used = 0 /\ R(0).text = <<>>
    BY <2>1 DEF Start
  <2> QED
    BY <2>1, <2>2, <2>3 DEF TextInv
<1> QED
  BY <1>1, <1>2, <1>3 DEF PrintInv

LEMMA LiteralInv ==
  ASSUME PrintInv, Literal PROVE PrintInv'
<1> DEFINE c == format[pos]
           r == R(pos - 1)
<1> USE DEF PrintInv
<1>1. /\ printPc = "format" /\ pos \in Nat \ {0} /\ Len(format) \in Nat
      /\ CharAt(pos) # NUL /\ CharAt(pos) # "%"
      /\ printed' = Append(printed, CharAt(pos)) /\ pos' = pos + 1
      /\ UNCHANGED <<format, args, arg, value, base, uppercase, buffer, printPc>>
  BY StateFacts DEF Literal, PrintTypes, number
<1>2. pos <= Len(format) /\ CharAt(pos) = c
  BY <1>1, CharFacts
<1>3. pos \in 1 .. Len(format) /\ pos - 1 \in 0 .. Len(format) /\ pos' - 1 = pos
  BY <1>1, <1>2
<1>4. c \in Characters /\ c \in Letters /\ c # "%"
  BY <1>1, <1>2, <1>3, StateFacts DEF Letters
<1>5. r \in Readers /\ R(pos) = Understand(r, c, args)
  BY <1>3, StateFacts
<1>6. ~r.percent /\ r.used + 1 = arg /\ printed = r.text
  BY <1>1, <1>2 DEF TextInv
<1> HIDE DEF c, r
<1>7. R(pos) = [percent |-> FALSE, used |-> r.used, text |-> Append(r.text, c)]
  BY <1>4, <1>5, <1>6, UnderstandIs
<1>8. PrintTypes'
  <2>1. printed' \in Seq(Letters)
    BY <1>1, <1>2, <1>4, AppendProperties DEF PrintTypes
  <2>2. pos' \in 1 .. Len(format) + 2
    BY <1>1, <1>3
  <2> QED
    BY <1>1, <2>1, <2>2 DEF PrintTypes
<1>9. FitInv'
  BY <1>1 DEF FitInv
<1>10. TextInv'
  <2>1. ~R(pos).percent /\ R(pos).used + 1 = arg /\ R(pos).text = printed'
    BY <1>1, <1>2, <1>6, <1>7
  <2>2. R(pos - 1)' = R(pos)
    BY <1>1, <1>3 DEF R
  <2>3. pos' # Len(format) + 2
    BY <1>1, <1>3
  <2> QED
    BY <1>1, <1>3, <2>1, <2>2, <2>3 DEF TextInv
<1> QED
  BY <1>8, <1>9, <1>10

\* A directive inside the format that shows what the reader reads.
LEMMA ShowsInv ==
  ASSUME PrintInv, NEW text, Shows(text), UNCHANGED <<format, args>>,
         pos' = pos + 2, pos + 1 <= Len(format), arg' \in Nat,
         ~R(pos + 1).percent, R(pos + 1).used + 1 = arg', R(pos + 1).text = printed \o text
  PROVE  PrintInv'
<1> USE DEF PrintInv
<1>1. pos \in Nat \ {0} /\ Len(format) \in Nat
  BY StateFacts DEF PrintTypes
<1>2. PrintTypes'
  <2>1. pos' \in 1 .. Len(format) + 2
    BY <1>1
  <2> QED
    BY <2>1 DEF PrintTypes, Shows
<1>3. FitInv'
  BY DEF Shows
<1>4. TextInv'
  <2>1. R(pos - 1)' = R(pos + 1)
    <3>1. pos' - 1 = pos + 1
      BY <1>1
    <3> QED
      BY <3>1 DEF R
  <2>2. pos' # Len(format) + 2 /\ printPc' # "done"
    BY <1>1 DEF Shows
  <2>3. printPc' = "digits" =>
          \E v : Converted(v)' /\ R(pos + 1).text = printed' \o Numeral(v, base', uppercase')
    BY DEF Shows
  <2>4. printPc' # "digits" => printed' = R(pos + 1).text
    BY DEF Shows
  <2> QED
    BY <2>1, <2>2, <2>3, <2>4 DEF TextInv
<1> QED
  BY <1>2, <1>3, <1>4

LEMMA DirectiveInv ==
  ASSUME PrintInv, Directive PROVE PrintInv'
<1> DEFINE c == CharAt(pos + 1)
           r == R(pos - 1)
           q == R(pos)
<1> USE DEF PrintInv
<1>1. /\ printPc = "format" /\ pos \in Nat \ {0} /\ Len(format) \in Nat /\ arg \in Nat
      /\ CharAt(pos) = "%"
      /\ Plain(c) \/ Converting(c, args[arg])
      /\ arg' = arg + ArgsUsed(c) /\ pos' = pos + 2
      /\ UNCHANGED <<format, args>>
  BY StateFacts DEF Directive, PrintTypes, DirectiveLength
<1>2. pos <= Len(format) /\ format[pos] = "%"
  BY <1>1, CharFacts
<1>3. pos \in 1 .. Len(format) /\ pos - 1 \in 0 .. Len(format)
  BY <1>1, <1>2
<1>4. r \in Readers /\ q = Understand(r, "%", args) /\ q \in Readers
  BY <1>2, <1>3, StateFacts
<1>5. ~r.percent /\ r.used + 1 = arg /\ printed = r.text
  BY <1>1, <1>2 DEF TextInv
<1>6. q.percent /\ q.used + 1 = arg /\ printed = q.text
  <2> HIDE DEF r, q
  <2>1. q.percent /\ q.used = r.used /\ q.text = r.text
    BY <1>4, <1>5, UnderstandSign
  <2> QED
    BY <1>5, <2>1
<1>7. "%" \in Characters /\ "%" \in Letters /\ NUL \in Letters
  BY CallAssumption DEF Letters
<1>8. q.text \in Seq(Characters)
  <2> HIDE DEF q
  <2> QED
    BY <1>4 DEF Readers
<1>9. CASE pos + 1 <= Len(format)
  <2> DEFINE s == R(pos + 1)
  <2>1. pos + 1 \in 1 .. Len(format) /\ (pos + 1) - 1 = pos /\ pos + 1 \in Nat \ {0}
    BY <1>1, <1>9
  <2>2. s = Understand(q, c, args) /\ c \in Characters /\ s.used <= Len(args)
    <3>1. c = format[pos + 1]
      BY <1>9, <2>1, CharFacts
    <3> QED
      BY <2>1, <3>1, StateFacts
  <2>3. c \in Letters /\ args \in Seq(Slots) /\ Len(args) \in Nat
    BY <2>2, StateFacts DEF Letters
  <2>4. CASE c \in Conversions
    <3> DEFINE shown == Shown(c, args[arg])
    <3> HIDE DEF c, q, s
    <3>1. ~s.percent /\ s.used = q.used + 1 /\ s.text = q.text \o Shown(c, args[q.used + 1])
      BY <1>4, <1>6, <2>2, <2>4, UnderstandConversion, Zenon
    <3>2. ~s.percent /\ s.used = arg /\ s.text = printed \o shown
      BY <1>6, <3>1
    <3>3. arg \in 1 .. Len(args)
      <4>1. arg >= 1
        BY <1>4, <1>6 DEF Readers
      <4> QED
        BY <1>1, <2>2, <2>3, <3>2, <4>1
    <3>4. args[arg] \in Slots
      BY <2>3, <3>3, ElementOfSeq
    <3>5. ~Plain(c) /\ ArgsUsed(c) = 1
      BY <2>4 DEF Plain, ArgsUsed, Conversions
    <3>6. Shows(shown)
      BY <1>1, <3>4, <3>5, ConvertingShows
    <3>7. arg' = s.used + 1 /\ arg' \in Nat
      BY <1>1, <3>2, <3>5
    <3> HIDE DEF shown
    <3> QED
      BY <1>1, <1>9, <3>2, <3>6, <3>7, ShowsInv DEF s
  <2>5. CASE c \notin Conversions
    <3> DEFINE t == IF c = "%" THEN <<"%">> ELSE <<"%", c>>
    <3> HIDE DEF c, q, s
    <3>1. ~Converting(c, args[arg]) /\ ArgsUsed(c) = 0
      BY <2>5 DEF Converting, ArgsUsed, Conversions
    <3>2. Text(t)
      BY <1>1, <2>5, <3>1 DEF Plain
    <3>3. t \in Seq(Letters)
      BY <1>7, <2>3
    <3>4. ~s.percent /\ s.used + 1 = arg /\ s.text = printed \o t
      <4>1. CASE c = "%"
        <5>1. ~s.percent /\ s.used = q.used /\ s.text = Append(q.text, "%")
          BY <1>4, <1>6, <2>2, <4>1, UnderstandTwo
        <5>2. Append(q.text, "%") = q.text \o <<"%">>
          BY <1>7, <1>8, AppendIsConcat
        <5> QED
          BY <1>6, <4>1, <5>1, <5>2
      <4>2. CASE c # "%"
        <5>1. ~s.percent /\ s.used = q.used /\ s.text = q.text \o <<"%", c>>
          BY <1>4, <1>6, <2>2, <2>5, <4>2, UnderstandUnknown
        <5> QED
          BY <1>6, <4>2, <5>1
      <4> QED
        BY <4>1, <4>2
    <3>5. Shows(t)
      BY <1>1, <3>2, <3>3, TextShows
    <3>6. arg' = arg
      BY <1>1, <3>1
    <3> HIDE DEF t
    <3> QED
      BY <1>1, <1>9, <3>4, <3>5, <3>6, ShowsInv DEF s
  <2> QED
    BY <2>4, <2>5
<1>10. CASE ~(pos + 1 <= Len(format))
  <2>1. pos = Len(format) /\ c = NUL
    <3>1. pos + 1 \in Nat \ {0}
      BY <1>1
    <3> QED
      BY <1>1, <1>2, <1>10, <3>1, CharFacts
  <2>2. NUL # "%" /\ NUL \notin Conversions
    BY <1>1, CharFacts
  <2> DEFINE t == <<"%", NUL>>
  <2> HIDE DEF c, q
  <2>3. Text(t) /\ ArgsUsed(c) = 0
    BY <1>1, <2>1, <2>2 DEF Plain, Converting, ArgsUsed, Conversions
  <2>4. t \in Seq(Letters)
    BY <1>7
  <2> HIDE DEF t
  <2>5. Shows(t)
    BY <1>1, <2>3, <2>4, TextShows
  <2>6. printed' = printed \o t /\ printPc' = "format"
    BY <1>1, <2>3 DEF Text
  <2>7. pos' = Len(format) + 2 /\ arg' = arg
    BY <1>1, <2>1, <2>3
  <2>8. PrintTypes'
    <3>1. pos' \in 1 .. Len(format) + 2
      BY <1>1, <2>7
    <3> QED
      BY <1>1, <2>5, <2>7, <3>1 DEF PrintTypes, Shows
  <2>9. TextInv'
    <3>1. R(Len(format))' = q
      BY <1>1, <2>1 DEF R, q
    <3>2. printed' = q.text \o <<"%", NUL>>
      BY <1>6, <2>6 DEF t
    <3>3. ~(pos' <= Len(format) + 1)
      BY <1>1, <2>7
    <3> QED
      BY <1>1, <1>6, <2>6, <2>7, <3>1, <3>2, <3>3 DEF TextInv
  <2> QED
    BY <2>5, <2>8, <2>9 DEF Shows
<1> QED
  BY <1>9, <1>10

LEMMA DivideInv ==
  ASSUME PrintInv, Divide PROVE PrintInv'
<1> DEFINE n == Len(buffer)
           d == Digits(uppercase)[(value % base) + 1]
<1> USE DEF PrintInv
<1>1. /\ printPc = "digits" /\ value \in Nat \ {0}
      /\ buffer' = Append(buffer, d) /\ value' = value \div base
      /\ UNCHANGED <<format, args, pos, arg, printed, base, uppercase, printPc>>
  BY DEF Divide, PrintTypes
<1>2. /\ n \in Nat /\ n <= BUFFER /\ value < Power(4)[BUFFER - n] /\ BUFFER \in Nat
      /\ base \in {10, 16} /\ base \in Nat /\ base >= 4 /\ uppercase \in BOOLEAN
      /\ buffer \in Seq(Characters)
  BY <1>1, WidthAssumption DEF FitInv, PrintTypes
<1>3. n + 1 <= BUFFER
  <2>1. n # BUFFER
    <3> SUFFICES ASSUME n = BUFFER PROVE FALSE
      OBVIOUS
    <3>1. BUFFER - n = 0
      BY <1>2
    <3> HIDE DEF n
    <3> QED
      BY <1>1, <1>2, <3>1, PowerDef
  <2> QED
    BY <1>2, <2>1
<1>4. d \in Characters
  <2>1. (value % base) + 1 \in 1 .. 16
    BY <1>1, <1>2
  <2> QED
    BY <1>2, <2>1, DigitsType
<1>5. /\ buffer' \in Seq(Characters) /\ Len(buffer') = n + 1
      /\ \A k \in 1 .. n : buffer'[k] = buffer[k]
      /\ buffer'[n + 1] = d
  <2> HIDE DEF d
  <2> QED
    BY <1>1, <1>2, <1>4, AppendProperties
<1> HIDE DEF n, d
<1>6. value' \in Nat /\ value' < Power(4)[BUFFER - (n + 1)]
  <2> DEFINE m == BUFFER - n
             p == Power(4)[m - 1]
  <2>1. m \in 1 .. BUFFER /\ m - 1 \in 0 .. BUFFER /\ BUFFER - (n + 1) = m - 1
    BY <1>2, <1>3
  <2>2. Power(4)[m] = 4 * p
    BY <2>1, PowerDef
  <2>3. p \in Nat \ {0}
    BY <2>1, PowerFacts
  <2>4. value < 4 * p
    BY <1>2, <2>2
  <2> HIDE DEF p, m
  <2>5. value \div base \in Nat /\ value \div base < p
    BY <1>1, <1>2, <2>3, <2>4, DivBelow
  <2> QED
    BY <1>1, <2>1, <2>5 DEF p
<1>7. PrintTypes'
  BY <1>1, <1>5, <1>6 DEF PrintTypes
<1>8. FitInv'
  BY <1>1, <1>3, <1>5, <1>6 DEF FitInv
<1>9. ASSUME NEW v, Converted(v) PROVE Converted(v)'
  <2> DEFINE p == Power(base)[n]
  <2>1. v \in Nat \ {0} /\ v < WORD /\ value = v \div p
    BY <1>9 DEF Converted, n
  <2>2. n \in 0 .. BUFFER /\ n + 1 \in 1 .. BUFFER /\ (n + 1) - 1 = n
    BY <1>2, <1>3
  <2>3. p \in Nat \ {0}
    BY <1>2, <2>2, PowerFacts
  <2>4. Power(base)[n + 1] = base * p
    BY <2>2, PowerDef
  <2>5. d = Digit(v, base, uppercase, n + 1)
    BY <2>1, <2>2 DEF d, Digit
  <2> HIDE DEF p
  <2>6. value' = v \div Power(base)[n + 1]
    BY <1>1, <1>2, <2>1, <2>3, <2>4, DivTwice, SMTT(30)
  <2>7. ~(v < p)
    BY <1>1, <2>1, <2>3, DivZero
  <2>8. ASSUME NEW k \in 1 .. n + 1
        PROVE  buffer'[k] = Digit(v, base, uppercase, k) /\ ~(v < Power(base)[k - 1])
    <3>1. CASE k \in 1 .. n
      BY <1>5, <1>9, <3>1 DEF Converted, LastDigits, n
    <3>2. CASE k = n + 1
      BY <1>5, <2>2, <2>5, <2>7, <3>2 DEF p
    <3> QED
      BY <1>2, <3>1, <3>2
  <2> QED
    BY <1>1, <1>5, <2>1, <2>6, <2>8 DEF Converted, LastDigits
<1>10. TextInv'
  <2>1. R(pos - 1)' = R(pos - 1)
    BY <1>1 DEF R
  <2>2. pos <= Len(format) + 1 => 
          \E v : Converted(v)' /\ R(pos - 1).text = printed \o Numeral(v, base, uppercase)
    BY <1>1, <1>9 DEF TextInv
  <2>3. pos # Len(format) + 2
    BY <1>1 DEF TextInv
  <2> QED
    BY <1>1, <2>1, <2>2, <2>3 DEF TextInv
<1> QED
  BY <1>7, <1>8, <1>10

LEMMA EmitInv ==
  ASSUME PrintInv, Emit PROVE PrintInv'
<1> DEFINE n == Len(buffer)
<1> USE DEF PrintInv
<1>1. /\ printPc = "digits" /\ value = 0 /\ printed' = printed \o Reverse(buffer)
      /\ buffer' = <<>> /\ printPc' = "format"
      /\ UNCHANGED <<format, args, pos, arg, value, base, uppercase>>
  BY DEF Emit
<1>2. /\ n \in Nat /\ n <= BUFFER /\ BUFFER \in Nat
      /\ base \in {10, 16} /\ base \in Nat /\ base >= 4 /\ uppercase \in BOOLEAN
      /\ buffer \in Seq(Characters) /\ Len(format) \in Nat /\ pos \in 1 .. Len(format) + 2
  BY <1>1, WidthAssumption, StateFacts DEF FitInv, PrintTypes
<1>3. pos <= Len(format) + 1 /\ pos - 1 \in 0 .. Len(format)
  BY <1>1, <1>2 DEF TextInv
<1>4. PICK v : Converted(v) /\ R(pos - 1).text = printed \o Numeral(v, base, uppercase)
  BY <1>1, <1>3 DEF TextInv
<1>5. v \in Nat \ {0} /\ 0 = v \div Power(base)[n]
  BY <1>1, <1>4 DEF Converted
<1>6. n \in 1 .. BUFFER /\ v < Power(base)[n]
  <2>1. Power(base)[n] \in Nat \ {0}
    BY <1>2, PowerFacts
  <2>2. v < Power(base)[n]
    BY <1>5, <2>1, DivZero
  <2>3. n # 0
    BY <1>5, <2>2, PowerDef
  <2> QED
    BY <1>2, <2>2, <2>3
<1>7. Numeral(v, base, uppercase) = Reverse(buffer)
  BY <1>2, <1>4, <1>5, <1>6, ReverseNumeral DEF Converted
<1>8. printed' = R(pos - 1).text
  BY <1>1, <1>4, <1>7
<1>9. PrintTypes'
  <2>1. R(pos - 1) \in Readers
    BY <1>3, StateFacts
  <2>2. R(pos - 1).text \in Seq(Letters)
    <3> DEFINE r == R(pos - 1)
    <3> HIDE DEF r
    <3>1. r.text \in Seq(Characters)
      BY <2>1 DEF Readers, r
    <3> QED
      BY <3>1, StringIsText DEF r
  <2>3. printed' \in Seq(Letters) /\ buffer' \in Seq(Characters)
    BY <1>1, <1>8, <2>2
  <2> QED
    BY <1>1, <2>3 DEF PrintTypes
<1>10. FitInv'
  BY <1>1 DEF FitInv
<1>11. TextInv'
  <2>1. R(pos - 1)' = R(pos - 1)
    BY <1>1 DEF R
  <2>2. pos # Len(format) + 2
    BY <1>2, <1>3
  <2>3. ~R(pos - 1).percent /\ R(pos - 1).used + 1 = arg
    BY <1>3 DEF TextInv
  <2> QED
    BY <1>1, <1>8, <2>1, <2>2, <2>3 DEF TextInv
<1> QED
  BY <1>9, <1>10, <1>11

LEMMA EndInv ==
  ASSUME PrintInv, End PROVE PrintInv'
<1> USE DEF PrintInv
<1>1. /\ printPc = "format" /\ CharAt(pos) = NUL /\ printPc' = "done"
      /\ UNCHANGED <<format, args, pos, arg, printed, value, base, uppercase, buffer>>
      /\ pos \in Nat \ {0} /\ Len(format) \in Nat
  BY StateFacts DEF End, number, PrintTypes
<1>2. pos > Len(format)
  BY <1>1, CharFacts
<1>3. PrintTypes'
  BY <1>1 DEF PrintTypes
<1>4. FitInv'
  BY <1>1 DEF FitInv
<1>5. TextInv'
  <2>1. R(pos - 1)' = R(pos - 1) /\ R(Len(format))' = R(Len(format))
    BY <1>1 DEF R
  <2> QED
    BY <1>1, <1>2, <2>1 DEF TextInv
<1> QED
  BY <1>3, <1>4, <1>5

\* Every step of a call keeps the invariant.
LEMMA PrintStep ==
  ASSUME PrintInv, [eX_Print]_printVars PROVE PrintInv'
<1>1. CASE Literal
  BY <1>1, LiteralInv
<1>2. CASE Directive
  BY <1>2, DirectiveInv
<1>3. CASE Divide
  BY <1>3, DivideInv
<1>4. CASE Emit
  BY <1>4, EmitInv
<1>5. CASE End
  BY <1>5, EndInv
<1>6. CASE UNCHANGED printVars
  <2>1. UNCHANGED <<format, args, pos, arg, printed, value, base, uppercase, buffer, printPc>>
    BY <1>6 DEF printVars, number
  <2>2. PrintTypes'
    BY <2>1 DEF PrintInv, PrintTypes
  <2>3. FitInv'
    BY <2>1 DEF PrintInv, FitInv
  <2>4. R(pos - 1)' = R(pos - 1) /\ R(Len(format))' = R(Len(format))
    BY <2>1 DEF R
  <2>5. \A v : Converted(v)' <=> Converted(v)
    BY <2>1 DEF Converted
  <2>6. TextInv'
    BY <2>1, <2>4, <2>5 DEF PrintInv, TextInv
  <2> QED
    BY <2>2, <2>3, <2>6 DEF PrintInv
<1> QED
  BY <1>1, <1>2, <1>3, <1>4, <1>5, <1>6 DEF eX_Print

\* The invariant of eX_Print holds throughout a call: the reader of the format
\* and the loop of the code agree on position, arguments and text.
THEOREM PrintInvariant == PrintSpec => []PrintInv
<1>1. PrintInit => PrintInv
  BY PrintInitInv
<1>2. PrintInv /\ [eX_Print]_printVars => PrintInv'
  BY PrintStep
<1> QED
  BY <1>1, <1>2, PTL DEF PrintSpec

\* The digits of a number stay in the conversion's buffer.
DigitsFitBuffer == Len(buffer) <= BUFFER

\* The digits of a number fit into the conversion's buffer, for every width of
\* numbers that the buffer has a base-four digit for (main.c:1142, 1159).
THEOREM PrintDigitsFit == PrintSpec => []DigitsFitBuffer
<1>1. PrintInv => DigitsFitBuffer
  <2> SUFFICES ASSUME PrintInv PROVE Len(buffer) <= BUFFER
    BY DEF DigitsFitBuffer
  <2>1. CASE printPc = "digits"
    BY <2>1 DEF PrintInv, FitInv
  <2>2. CASE printPc # "digits"
    <3>1. buffer = <<>> /\ BUFFER \in Nat
      BY <2>2, WidthAssumption DEF PrintInv, FitInv
    <3> QED
      BY <3>1
  <2> QED
    BY <2>1, <2>2
<1> QED
  BY <1>1, PrintInvariant, PTL

\* The pointer passes the end of the format only behind a lone percent sign
\* (main.c:1259, 1316).
THEOREM PrintOverread == PrintSpec => []OverreadOnlyAfterLonePercent
<1>1. PrintInv => OverreadOnlyAfterLonePercent
  <2> SUFFICES ASSUME PrintInv, pos > Len(format) + 1 PROVE LonePercent
    BY DEF OverreadOnlyAfterLonePercent
  <2>1. PICK c \in PrintCalls : format = c.format /\ args = c.args
    BY DEF PrintInv, PrintTypes
  <2>2. pos = Len(format) + 2
    BY StateFacts DEF PrintInv, PrintTypes
  <2>3. Reading(format, args)[Len(format)].percent
    BY <2>2 DEF PrintInv, TextInv, R
  <2> QED
    BY <2>1, <2>3, PercentAtEnd
<1> QED
  BY <1>1, PrintInvariant, PTL

\* What eX_Print has printed is a prefix of what the format and its arguments
\* mean, and all of it at the end (main.c:1247-1320, 1141-1180).
THEOREM PrintExact == PrintSpec => []PrintedExact
<1>1. PrintInv => PrintedExact
  <2> SUFFICES ASSUME PrintInv PROVE PrintedExact
    OBVIOUS
  <2> DEFINE L == Len(format)
             last == R(L)
  <2>1. PICK c \in PrintCalls : format = c.format /\ args = c.args
    BY DEF PrintInv, PrintTypes
  <2>2. /\ L \in Nat /\ pos \in 1 .. L + 2 /\ printed \in Seq(Letters)
        /\ last \in Readers /\ printPc \in {"format", "digits", "done"}
    <3>1. L \in Nat /\ \A n \in 0 .. L : R(n) \in Readers
      BY StateFacts DEF PrintInv
    <3> QED
      BY <3>1 DEF PrintInv, PrintTypes
  <2>3. Meaning = IF last.percent THEN last.text \o <<"%", NUL>> ELSE last.text
    BY DEF Meaning, R
  <2>4. last.text \in Seq(Characters) /\ last.text \in Seq(Letters) /\ last.percent \in BOOLEAN
    <3> HIDE DEF last
    <3>1. last.text \in Seq(Characters) /\ last.percent \in BOOLEAN
      BY <2>2 DEF Readers
    <3> QED
      BY <3>1, StringIsText
  <2>5. <<"%", NUL>> \in Seq(Letters) /\ <<>> \in Seq(Letters)
    BY CallAssumption DEF Letters
  <2>6. CASE pos = L + 2
    <3>1. last.percent /\ printed = last.text \o <<"%", NUL>>
      BY <2>6 DEF PrintInv, TextInv
    <3>2. printed = Meaning
      BY <2>3, <3>1
    <3>3. printed \o <<>> = printed
      BY <2>2, ConcatEmptySeq
    <3>4. IsPrefix(printed, printed \o <<>>)
      BY <2>2, <2>5, PrefixOfConcat
    <3> QED
      BY <3>2, <3>3, <3>4 DEF PrintedExact
  <2>7. CASE pos # L + 2
    <3> DEFINE r == R(pos - 1)
    <3>1. pos <= L + 1 /\ pos - 1 \in 0 .. L
      BY <2>2, <2>7
    <3>2. \E t \in Seq(Letters) : r.text = printed \o t
      <4>1. CASE printPc # "digits"
        <5>1. r.text = printed
          BY <3>1, <4>1 DEF PrintInv, TextInv
        <5>2. printed \o <<>> = printed
          BY <2>2, ConcatEmptySeq
        <5> HIDE DEF r
        <5> QED
          BY <2>5, <5>1, <5>2
      <4>2. CASE printPc = "digits"
        <5>1. PICK v : Converted(v) /\ r.text = printed \o Numeral(v, base, uppercase)
          BY <3>1, <4>2 DEF PrintInv, TextInv
        <5>2. v \in Nat /\ v < WORD
          BY <5>1 DEF Converted
        <5>3. base \in {10, 16} /\ uppercase \in BOOLEAN
          BY DEF PrintInv, PrintTypes
        <5> DEFINE n == Numeral(v, base, uppercase)
        <5>4. n \in Seq(Letters)
          BY <5>2, <5>3, NumeralType, StringIsText
        <5> HIDE DEF n, r
        <5> QED
          BY <5>1, <5>4 DEF n
      <4> QED
        BY <4>1, <4>2
    <3>3. PICK t \in Seq(Letters) : r.text = printed \o t
      BY <3>2
    <3>4. \E u \in Seq(Characters) : last.text = r.text \o u
      BY <2>1, <3>1, TextGrows, Zenon DEF R
    <3>5. r.text \in Seq(Letters)
      <4>1. r \in Readers
        BY <3>1, StateFacts DEF PrintInv
      <4> HIDE DEF r
      <4> QED
        BY <4>1, StringIsText DEF Readers
    <3> HIDE DEF last, r
    <3>6. IsPrefix(printed, r.text)
      BY <2>2, <3>3, PrefixOfConcat
    <3>7. IsPrefix(r.text, last.text)
      BY <3>4, <3>5, StringIsText, PrefixOfConcat
    <3>8. IsPrefix(printed, Meaning)
      <4>1. IsPrefix(printed, last.text)
        BY <2>2, <2>4, <3>5, <3>6, <3>7, PrefixTransitive
      <4>2. CASE last.percent
        <5> DEFINE e == <<"%", NUL>>
        <5>1. Meaning = last.text \o e /\ e \in Seq(Letters)
          BY <2>3, <2>5, <4>2
        <5> HIDE DEF e
        <5>2. IsPrefix(last.text, Meaning) /\ Meaning \in Seq(Letters)
          BY <2>4, <5>1, PrefixOfConcat, ConcatProperties
        <5> QED
          BY <2>2, <2>4, <4>1, <5>2, PrefixTransitive
      <4>3. CASE ~last.percent
        BY <2>3, <4>1, <4>3
      <4> QED
        BY <4>2, <4>3
    <3>9. ASSUME printPc = "done" PROVE printed = Meaning
      <4>1. pos = L + 1 /\ pos - 1 = L
        BY <2>2, <3>1, <3>9 DEF PrintInv, TextInv
      <4>2. ~last.percent /\ printed = last.text
        BY <3>1, <3>9, <4>1 DEF PrintInv, TextInv, last
      <4> QED
        BY <2>3, <4>2
    <3> QED
      BY <3>8, <3>9 DEF PrintedExact
  <2> QED
    BY <2>6, <2>7
<1> QED
  BY <1>1, PrintInvariant, PTL
=============================================================================
