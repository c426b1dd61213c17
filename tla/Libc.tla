-------------------------------- MODULE Libc --------------------------------
(***************************************************************************)
(* The memory functions of the kernel (src/src/main.c): memcpy, memset,    *)
(* memmove and memcmp, which the compiler may call anywhere.  A behaviour  *)
(* is one call on a memory of MEMORY bytes; a step is one turn of the loop *)
(* of the function.                                                        *)
(***************************************************************************)
EXTENDS Integers

CONSTANTS
  MEMORY,    \* bytes of memory
  BYTE,      \* number of uint8_t values
  Fills      \* ints passed to memset

ASSUME LibcAssumption ==
  /\ MEMORY \in Nat
  /\ BYTE \in Nat \ {0}
  /\ Fills \subseteq Int

Address == 0 .. MEMORY - 1
Byte    == 0 .. BYTE - 1

VARIABLES
  call,      \* the function and its arguments; dest is s of memset, s1 of memcmp
  mem,       \* mem[a]: the byte at address a
  old,       \* the memory at the time of the call
  i,         \* the loop variable
  running,
  result     \* what the function has returned

libcVars == <<call, mem, old, i, running, result>>

Disjoint(a, b, n) == a + n <= b \/ b + n <= a

\* memcpy's pointers are restrict: its ranges do not overlap.
Call ==
  {k \in [fn : {"memcpy", "memset", "memmove", "memcmp"},
          dest : Address, src : Address, n : 0 .. MEMORY, c : Fills] :
     /\ k.dest + k.n <= MEMORY
     /\ k.src + k.n <= MEMORY
     /\ k.fn = "memcpy" => Disjoint(k.dest, k.src, k.n)}

\* Variant: memmove always copies upwards.
UpwardsAlways(k) == TRUE

\* memcpy copies upwards; memmove does when the source is above.
Upwards(k) == k.fn = "memcpy" \/ k.src > k.dest

Copies(k)    == k.fn \in {"memcpy", "memmove"}
Downwards(k) == k.fn = "memmove" /\ ~Upwards(k) /\ k.src # k.dest

LibcInit ==
  /\ call \in Call
  /\ mem \in [Address -> Byte]
  /\ old = mem
  /\ i = IF Downwards(call) THEN call.n ELSE 0
  /\ running = TRUE
  /\ result = 0

-----------------------------------------------------------------------------

CopyUp ==
  /\ running /\ Copies(call) /\ Upwards(call)
  /\ i < call.n
  /\ mem' = [mem EXCEPT ![call.dest + i] = mem[call.src + i]]
  /\ i' = i + 1
  /\ UNCHANGED <<call, old, running, result>>

CopyDown ==
  /\ running /\ Downwards(call)
  /\ i > 0
  /\ mem' = [mem EXCEPT ![call.dest + i - 1] = mem[call.src + i - 1]]
  /\ i' = i - 1
  /\ UNCHANGED <<call, old, running, result>>

memset ==
  /\ running /\ call.fn = "memset"
  /\ i < call.n
  /\ mem' = [mem EXCEPT ![call.dest + i] = call.c % BYTE]
  /\ i' = i + 1
  /\ UNCHANGED <<call, old, running, result>>

\* Variant: a greater byte is not told from an equal one.
SignOfLessOnly(a, b) == IF a < b THEN -1 ELSE 0

Sign(a, b) == IF a < b THEN -1 ELSE 1

memcmp ==
  /\ running /\ call.fn = "memcmp"
  /\ i < call.n
  /\ LET p1 == mem[call.dest + i]
         p2 == mem[call.src + i]
     IN  \/ /\ p1 # p2
            /\ running' = FALSE
            /\ result' = Sign(p1, p2)
            /\ UNCHANGED i
         \/ /\ p1 = p2
            /\ i' = i + 1
            /\ UNCHANGED <<running, result>>
  /\ UNCHANGED <<call, mem, old>>

\* The loop is over; memmove has none when the pointers are equal.
LoopOver ==
  \/ call.fn = "memmove" /\ call.src = call.dest
  \/ IF Downwards(call) THEN i = 0 ELSE i >= call.n

Return ==
  /\ running
  /\ LoopOver
  /\ running' = FALSE
  /\ result' = IF call.fn = "memcmp" THEN 0 ELSE call.dest
  /\ UNCHANGED <<call, mem, old, i>>

LibcNext == CopyUp \/ CopyDown \/ memset \/ memcmp \/ Return

LibcSpec == LibcInit /\ [][LibcNext]_libcVars

-----------------------------------------------------------------------------
(***************************************************************************)
(* Properties.                                                             *)
(***************************************************************************)

\* The memory after a call, from the memory before it.
Mandated(k, m) ==
  [a \in Address |->
    IF a \notin k.dest .. k.dest + k.n - 1 \/ k.fn = "memcmp" THEN m[a]
    ELSE IF k.fn = "memset" THEN k.c % BYTE
    ELSE m[k.src + (a - k.dest)]]

\* The first position at which the compared ranges differ is p.
DifferAt(k, m, p) ==
  /\ m[k.dest + p] # m[k.src + p]
  /\ \A q \in 0 .. p - 1 : m[k.dest + q] = m[k.src + q]

\* "Implement them as the C specification mandates" (main.c:92): however the
\* ranges of memmove overlap, the destination gets the bytes that the source
\* had before the call and nothing else changes; memcmp is negative or positive
\* as the first byte that differs is less or greater, and zero without one.
CallExact ==
  ~running =>
    /\ mem = Mandated(call, old)
    /\ call.fn # "memcmp" => result = call.dest
    /\ call.fn = "memcmp" =>
         \/ result = 0 /\ \A p \in 0 .. call.n - 1 : old[call.dest + p] = old[call.src + p]
         \/ \E p \in 0 .. call.n - 1 :
              /\ DifferAt(call, old, p)
              /\ old[call.dest + p] < old[call.src + p] => result < 0
              /\ old[call.dest + p] > old[call.src + p] => result > 0

\* The positions that are still to be copied.
Pending ==
  CASE Copies(call) /\ Upwards(call) -> i .. call.n - 1
    [] Downwards(call)              -> 0 .. i - 1
    [] OTHER                        -> {}

\* No byte of the source is overwritten before it has been copied, whichever
\* end memmove starts from (main.c:121, 125).
SourceIntact ==
  running => \A p \in Pending : mem[call.src + p] = old[call.src + p]
=============================================================================
