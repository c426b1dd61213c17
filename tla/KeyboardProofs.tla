--------------------------- MODULE KeyboardProofs ---------------------------
(***************************************************************************)
(* Proofs about the keyboard driver: for every buffer size and every set   *)
(* of scancodes its ring buffer implements the bounded queue and its       *)
(* tables agree; in the main loop, characters are lost in bursts only and  *)
(* the shell's lines are what the bytes mean; in the user's hands, strokes *)
(* are decoded with the modifiers that were down when they were made.      *)
(***************************************************************************)
EXTENDS Terminal, Typing, Induction, SequenceTheorems, TLAPS

N == eX_KEYBOARD_BUFFER_SIZE
R == eX_KeyboardReadIndex
W == eX_KeyboardWriteIndex

-----------------------------------------------------------------------------
(* Indices modulo the buffer size                                          *)

\* The remainder of a number that is at most one turn too large or too small.
LEMMA OneTurn ==
  ASSUME NEW n \in Nat \ {0}, NEW x \in -(n - 1) .. 2 * n - 1
  PROVE  x % n = IF x < 0 THEN x + n ELSE IF x < n THEN x ELSE x - n
<1>1. CASE x < 0
  BY <1>1
<1>2. CASE x >= 0 /\ x < n
  BY <1>2
<1>3. CASE x >= n
  BY <1>3
<1> QED
  BY <1>1, <1>2, <1>3

\* The slot of the k-th waiting character when r is the read index.
Slot(r, k) == (r + k - 1) % N

\* How many characters wait between the indices r and w.
Between(r, w) == (w - r) % N

\* The buffer size is a positive number.
LEMMA SizePositive == N \in Nat \ {0}
  BY KeyboardAssumption DEF N

\* Facts about Between.
LEMMA BetweenValue ==
  ASSUME NEW r \in 0 .. N - 1, NEW w \in 0 .. N - 1
  PROVE  /\ Between(r, w) = IF r <= w THEN w - r ELSE w - r + N
         /\ Between(r, w) \in 0 .. N - 1
<1>1. N \in Nat \ {0} /\ w - r \in -(N - 1) .. 2 * N - 1
  BY SizePositive
<1>2. (w - r) % N = IF w - r < 0 THEN (w - r) + N ELSE IF w - r < N THEN w - r ELSE (w - r) - N
  BY <1>1, OneTurn
<1> QED
  BY <1>1, <1>2 DEF Between

\* Facts about Slot.
LEMMA SlotValue ==
  ASSUME NEW r \in 0 .. N - 1, NEW k \in 1 .. N
  PROVE  /\ Slot(r, k) = IF r + k - 1 < N THEN r + k - 1 ELSE r + k - 1 - N
         /\ Slot(r, k) \in 0 .. N - 1
<1>1. N \in Nat \ {0} /\ r + k - 1 \in -(N - 1) .. 2 * N - 1
  BY SizePositive
<1>2. (r + k - 1) % N = IF r + k - 1 < 0 THEN (r + k - 1) + N
                        ELSE IF r + k - 1 < N THEN r + k - 1 ELSE (r + k - 1) - N
  BY <1>1, OneTurn
<1> QED
  BY <1>1, <1>2 DEF Slot

\* The successor of an index.
LEMMA NextValue ==
  ASSUME NEW x \in 0 .. N - 1
  PROVE  /\ (x + 1) % N = IF x = N - 1 THEN 0 ELSE x + 1
         /\ (x + 1) % N \in 0 .. N - 1
<1>1. N \in Nat \ {0} /\ x + 1 \in -(N - 1) .. 2 * N - 1
  BY SizePositive
<1>2. (x + 1) % N = IF x + 1 < 0 THEN (x + 1) + N ELSE IF x + 1 < N THEN x + 1 ELSE (x + 1) - N
  BY <1>1, OneTurn
<1> QED
  BY <1>1, <1>2

\* The ranges alone.
LEMMA BetweenRange ==
  ASSUME NEW r \in 0 .. N - 1, NEW w \in 0 .. N - 1
  PROVE  Between(r, w) \in Nat /\ Between(r, w) <= N - 1 /\ Between(r, w) <= N /\ N \in Nat
<1>1. Between(r, w) \in 0 .. N - 1
  BY BetweenValue
<1> QED
  BY <1>1, SizePositive

\* Every slot up to the buffer size is in the buffer.
LEMMA SlotRange ==
  ASSUME NEW r \in 0 .. N - 1, NEW k \in Nat, 1 <= k, k <= N
  PROVE  Slot(r, k) \in 0 .. N - 1
<1>1. k \in 1 .. N
  BY SizePositive
<1> QED
  BY <1>1, SlotValue

\* Moving the write index: the buffer is full exactly when the index would
\* meet the read index; otherwise one more character waits, in the slot that
\* was written, and none of the others is in it.
LEMMA PushArithmetic ==
  ASSUME NEW r \in 0 .. N - 1, NEW w \in 0 .. N - 1
  PROVE  /\ (w + 1) % N = r <=> Between(r, w) = N - 1
         /\ (w + 1) % N # r =>
              /\ Between(r, (w + 1) % N) = Between(r, w) + 1
              /\ Slot(r, Between(r, w) + 1) = w
              /\ \A k \in 1 .. Between(r, w) : Slot(r, k) # w
<1> DEFINE b == Between(r, w)
<1>1. N \in Nat \ {0}
  BY SizePositive
<1>2. b = (IF r <= w THEN w - r ELSE w - r + N) /\ b \in 0 .. N - 1
  BY BetweenValue
<1>3. (w + 1) % N = (IF w = N - 1 THEN 0 ELSE w + 1) /\ (w + 1) % N \in 0 .. N - 1
  BY NextValue
<1>4. Between(r, (w + 1) % N) =
        IF r <= (w + 1) % N THEN ((w + 1) % N) - r ELSE ((w + 1) % N) - r + N
  BY <1>3, BetweenValue
<1>5. \A k \in 1 .. N : Slot(r, k) = IF r + k - 1 < N THEN r + k - 1 ELSE r + k - 1 - N
  BY SlotValue
<1> DEFINE v == (w + 1) % N
<1> HIDE DEF b, v
<1>6. v = r <=> b = N - 1
  BY <1>1, <1>2, <1>3 DEF v
<1>7. v # r => Between(r, v) = b + 1
  BY <1>1, <1>2, <1>3, <1>4 DEF v
<1>8. v # r => Slot(r, b + 1) = w
  <2>1. b + 1 \in 1 .. N
    BY <1>1, <1>2
  <2> QED
    BY <1>1, <1>2, <1>5, <2>1
<1>9. \A k \in 1 .. b : Slot(r, k) # w
  BY <1>1, <1>2, <1>5
<1> QED
  BY <1>6, <1>7, <1>8, <1>9 DEF b, v

\* Moving the read index: one character less waits, and the others move up.
LEMMA GetArithmetic ==
  ASSUME NEW r \in 0 .. N - 1, NEW w \in 0 .. N - 1
  PROVE  /\ r = w <=> Between(r, w) = 0
         /\ r # w =>
              /\ Between((r + 1) % N, w) = Between(r, w) - 1
              /\ Slot(r, 1) = r
              /\ \A k \in 1 .. Between(r, w) - 1 : Slot((r + 1) % N, k) = Slot(r, k + 1)
<1> DEFINE b == Between(r, w)
           v == (r + 1) % N
<1>1. N \in Nat \ {0}
  BY SizePositive
<1>2. b = (IF r <= w THEN w - r ELSE w - r + N) /\ b \in 0 .. N - 1
  BY BetweenValue
<1>3. v = (IF r = N - 1 THEN 0 ELSE r + 1) /\ v \in 0 .. N - 1
  BY NextValue
<1>4. Between(v, w) = IF v <= w THEN w - v ELSE w - v + N
  BY <1>3, BetweenValue
<1>5. \A k \in 1 .. N : Slot(r, k) = IF r + k - 1 < N THEN r + k - 1 ELSE r + k - 1 - N
  BY SlotValue
<1>6. \A k \in 1 .. N : Slot(v, k) = IF v + k - 1 < N THEN v + k - 1 ELSE v + k - 1 - N
  BY <1>3, SlotValue
<1> HIDE DEF b, v
<1>7. r = w <=> b = 0
  BY <1>1, <1>2
<1>8. r # w => Between(v, w) = b - 1
  BY <1>1, <1>2, <1>3, <1>4
<1>9. Slot(r, 1) = r
  BY <1>1, <1>5
<1>10. \A k \in 1 .. b - 1 : Slot(v, k) = Slot(r, k + 1)
  BY <1>1, <1>2, <1>3, <1>5, <1>6
<1> QED
  BY <1>7, <1>8, <1>9, <1>10 DEF b, v

-----------------------------------------------------------------------------
(* The two tables                                                          *)

\* A key types two letters that differ in case only, or no letter.
Agree(plain, shifted) ==
  /\ plain \in 0 .. 127 /\ shifted \in 0 .. 127
  /\ \/ plain \in Lower /\ shifted = plain - 32
     \/ plain \notin Lower \cup Upper /\ shifted \notin Lower \cup Upper

\* The tables agree on which keys are letters, row by row of the keyboard.
LEMMA TablesAgree ==
  ASSUME NEW k \in 0 .. 127
  PROVE  Agree(eX_KeyboardNormal[k], eX_KeyboardShift[k])
<1>1. CASE k \in 2 .. 13
  <2> DEFINE plain   == <<49, 50, 51, 52, 53, 54, 55, 56, 57, 48, 45, 61, 8, 9>>
             shifted == <<33, 64, 35, 36, 37, 94, 38, 42, 40, 41, 95, 43>>
  <2>1. \A j \in 1 .. 12 : Agree(plain[j], shifted[j])
    BY DEF Agree, Lower, Upper
  <2>2. eX_KeyboardNormal[k] = plain[k - 1] /\ k - 1 \in 1 .. 12
    BY <1>1 DEF eX_KeyboardNormal
  <2>3. eX_KeyboardShift[k] = shifted[k - 1]
    BY <1>1 DEF eX_KeyboardShift
  <2> HIDE DEF plain, shifted
  <2> QED
    BY <2>1, <2>2, <2>3
<1>2. CASE k \in 16 .. 27
  <2> DEFINE plain   == <<113, 119, 101, 114, 116, 121, 117, 105, 111, 112, 91, 93, 10>>
             shifted == <<81, 87, 69, 82, 84, 89, 85, 73, 79, 80, 123, 125>>
  <2>1. \A j \in 1 .. 12 : Agree(plain[j], shifted[j])
    BY DEF Agree, Lower, Upper
  <2>2. eX_KeyboardNormal[k] = plain[k - 15] /\ k - 15 \in 1 .. 12
    BY <1>2 DEF eX_KeyboardNormal
  <2>3. eX_KeyboardShift[k] = shifted[k - 15]
    BY <1>2 DEF eX_KeyboardShift
  <2> HIDE DEF plain, shifted
  <2> QED
    BY <2>1, <2>2, <2>3
<1>3. CASE k \in 30 .. 41
  <2> DEFINE plain   == <<97, 115, 100, 102, 103, 104, 106, 107, 108, 59, 39, 96>>
             shifted == <<65, 83, 68, 70, 71, 72, 74, 75, 76, 58, 34, 126>>
  <2>1. \A j \in 1 .. 12 : Agree(plain[j], shifted[j])
    BY DEF Agree, Lower, Upper
  <2>2. eX_KeyboardNormal[k] = plain[k - 29] /\ k - 29 \in 1 .. 12
    BY <1>3 DEF eX_KeyboardNormal
  <2>3. eX_KeyboardShift[k] = shifted[k - 29]
    BY <1>3 DEF eX_KeyboardShift
  <2> HIDE DEF plain, shifted
  <2> QED
    BY <2>1, <2>2, <2>3
<1>4. CASE k \in 43 .. 53
  <2> DEFINE plain   == <<92, 122, 120, 99, 118, 98, 110, 109, 44, 46, 47>>
             shifted == <<124, 90, 88, 67, 86, 66, 78, 77, 60, 62, 63>>
  <2>1. \A j \in 1 .. 11 : Agree(plain[j], shifted[j])
    BY DEF Agree, Lower, Upper
  <2>2. eX_KeyboardNormal[k] = plain[k - 42] /\ k - 42 \in 1 .. 11
    BY <1>4 DEF eX_KeyboardNormal
  <2>3. eX_KeyboardShift[k] = shifted[k - 42]
    BY <1>4 DEF eX_KeyboardShift
  <2> HIDE DEF plain, shifted
  <2> QED
    BY <2>1, <2>2, <2>3
<1>5. CASE k \in {14, 15, 28}
  <2>1. eX_KeyboardNormal[k] \in {8, 9, 10}
    BY <1>5 DEF eX_KeyboardNormal
  <2>2. eX_KeyboardShift[k] = 0
    BY <1>5 DEF eX_KeyboardShift
  <2> QED
    BY <2>1, <2>2 DEF Agree, Lower, Upper
<1>6. CASE k \in {0, 1, 29, 42} \cup 54 .. 127
  <2>1. eX_KeyboardNormal[k] = IF k = 57 THEN 32 ELSE 0
    BY <1>6 DEF eX_KeyboardNormal
  <2>2. eX_KeyboardShift[k] = IF k = 57 THEN 32 ELSE 0
    BY <1>6 DEF eX_KeyboardShift
  <2> QED
    BY <2>1, <2>2 DEF Agree, Lower, Upper
<1> QED
  <2>1. \/ k \in 2 .. 13 \/ k \in 16 .. 27 \/ k \in 30 .. 41 \/ k \in 43 .. 53
        \/ k \in {14, 15, 28} \/ k \in {0, 1, 29, 42} \cup 54 .. 127
    OBVIOUS
  <2> QED
    BY <1>1, <1>2, <1>3, <1>4, <1>5, <1>6, <2>1

\* A key types a character or nothing.
LEMMA CharacterRange ==
  ASSUME NEW k \in 0 .. 127, NEW shift \in BOOLEAN, NEW caps \in BOOLEAN
  PROVE  Character(k, shift, caps) \in 0 .. 127
<1> DEFINE c == IF shift THEN eX_KeyboardShift[k] ELSE eX_KeyboardNormal[k]
<1>1. c \in 0 .. 127
  BY TablesAgree DEF Agree
<1>2. Character(k, shift, caps) = CASE caps /\ c \in Lower -> c - 97 + 65
                                    [] caps /\ c \in Upper -> c - 65 + 97
                                    [] OTHER               -> c
  BY DEF Character
<1> HIDE DEF c
<1> QED
  BY <1>1, <1>2 DEF Lower, Upper

\* Caps lock is the other state of Shift for letters, and nothing for others.
LEMMA CapsSwaps ==
  ASSUME NEW k \in 0 .. 127, NEW shift \in BOOLEAN, NEW caps \in BOOLEAN
  PROVE  Character(k, shift, caps) =
           Character(k, IF caps /\ eX_KeyboardNormal[k] \in Lower THEN ~shift ELSE shift, FALSE)
<1>1. Agree(eX_KeyboardNormal[k], eX_KeyboardShift[k])
  BY TablesAgree
<1>2. CASE eX_KeyboardNormal[k] \in Lower
  <2>1. eX_KeyboardNormal[k] \notin Upper /\ eX_KeyboardShift[k] \in Upper \ Lower
    BY <1>1, <1>2 DEF Agree, Lower, Upper
  <2> QED
    BY <1>1, <1>2, <2>1 DEF Character, Agree
<1>3. CASE eX_KeyboardNormal[k] \notin Lower
  BY <1>1, <1>3 DEF Character, Agree
<1> QED
  BY <1>2, <1>3

-----------------------------------------------------------------------------
(* The queue in the buffer                                                 *)

Contents(buf, r, w) == [k \in 1 .. Between(r, w) |-> buf[Slot(r, k)]]

\* The refinement mapping, in the terms of this module.
LEMMA QueueIsContents == Queue = Contents(eX_KeyboardBuffer, R, W)
  BY DEF Queue, Waiting, Contents, Between, Slot, N, R, W

\* The contents are a sequence of the length that the indices give.
LEMMA ContentsSeq ==
  ASSUME NEW V, NEW buf \in [0 .. N - 1 -> V], NEW r \in 0 .. N - 1, NEW w \in 0 .. N - 1
  PROVE  /\ Contents(buf, r, w) \in Seq(V)
         /\ Len(Contents(buf, r, w)) = Between(r, w)
<1>1. Between(r, w) \in Nat /\ Between(r, w) <= N /\ N \in Nat
  BY BetweenRange
<1>2. \A k \in 1 .. Between(r, w) : Slot(r, k) \in 0 .. N - 1
  BY <1>1, SlotRange
<1> QED
  BY <1>1, <1>2 DEF Contents

\* A push of c that finds room turns buf into after and w into next.
Pushed(V, buf, r, w, c, after, next) ==
  /\ buf \in [0 .. N - 1 -> V] /\ r \in 0 .. N - 1 /\ w \in 0 .. N - 1 /\ c \in V
  /\ next = (w + 1) % N /\ next # r
  /\ after = [buf EXCEPT ![w] = c]

\* A push that finds room appends.
LEMMA PushAppends ==
  ASSUME NEW V, NEW buf, NEW r, NEW w, NEW c, NEW after, NEW next,
         Pushed(V, buf, r, w, c, after, next)
  PROVE  Contents(after, r, next) = Append(Contents(buf, r, w), c)
<1> DEFINE b == Between(r, w)
           s == Contents(buf, r, w)
           t == Contents(after, r, next)
<1> USE DEF Pushed
<1>1. b \in Nat /\ b <= N - 1 /\ N \in Nat
  BY BetweenRange
<1>2. /\ Between(r, next) = b + 1
      /\ Slot(r, b + 1) = w
      /\ \A k \in 1 .. b : Slot(r, k) # w
  BY PushArithmetic
<1>3. \A k \in 1 .. b + 1 : Slot(r, k) \in 0 .. N - 1
  <2> HIDE DEF b
  <2> QED
    BY <1>1, SlotRange
<1>4. s \in Seq(V) /\ Len(s) = b
  BY ContentsSeq
<1>5. t = [k \in 1 .. b + 1 |-> after[Slot(r, k)]]
  BY <1>2 DEF Contents
<1>6. s = [k \in 1 .. b |-> buf[Slot(r, k)]]
  BY DEF Contents
<1> HIDE DEF s, t, b
<1>7. t \in Seq(V) /\ Len(t) = b + 1
  BY <1>1, <1>3, <1>5
<1>8. \A k \in 1 .. b : t[k] = s[k]
  BY <1>1, <1>2, <1>3, <1>5, <1>6
<1>9. t[b + 1] = c
  BY <1>1, <1>2, <1>3, <1>5
<1>10. t = Append(s, c)
  BY <1>1, <1>4, <1>7, <1>8, <1>9
<1> QED
  BY <1>10 DEF s, t

\* Reading takes the head.
LEMMA GetTakesHead ==
  ASSUME NEW V, NEW buf \in [0 .. N - 1 -> V], NEW r \in 0 .. N - 1, NEW w \in 0 .. N - 1,
         r # w
  PROVE  /\ Contents(buf, r, w) # <<>>
         /\ Head(Contents(buf, r, w)) = buf[r]
         /\ Contents(buf, (r + 1) % N, w) = Tail(Contents(buf, r, w))
<1> DEFINE b == Between(r, w)
           s == Contents(buf, r, w)
           t == Contents(buf, (r + 1) % N, w)
<1>1. b \in Nat /\ b <= N - 1 /\ N \in Nat /\ b > 0
  <2>1. b \in Nat /\ b <= N - 1 /\ N \in Nat
    BY BetweenRange
  <2>2. b # 0
    BY GetArithmetic
  <2> QED
    BY <2>1, <2>2
<1>2. /\ Between((r + 1) % N, w) = b - 1
      /\ Slot(r, 1) = r
      /\ \A k \in 1 .. b - 1 : Slot((r + 1) % N, k) = Slot(r, k + 1)
  BY GetArithmetic
<1>3. s \in Seq(V) /\ Len(s) = b
  BY ContentsSeq
<1>4. t \in Seq(V) /\ Len(t) = b - 1
  <2>1. (r + 1) % N \in 0 .. N - 1
    BY NextValue
  <2>2. t \in Seq(V) /\ Len(t) = Between((r + 1) % N, w)
    BY <2>1, ContentsSeq
  <2> QED
    BY <1>2, <2>2
<1>5. s = [k \in 1 .. b |-> buf[Slot(r, k)]]
  BY DEF Contents
<1>6. t = [k \in 1 .. b - 1 |-> buf[Slot((r + 1) % N, k)]]
  BY <1>2 DEF Contents
<1> HIDE DEF s, t, b
<1>7. s # <<>> /\ Head(s) = buf[r]
  <2>1. 1 \in 1 .. b
    BY <1>1
  <2>2. s[1] = buf[r]
    BY <1>2, <1>5, <2>1
  <2> QED
    BY <1>1, <1>3, <2>2
<1>8. \A k \in 1 .. b - 1 : t[k] = s[k + 1]
  BY <1>1, <1>2, <1>5, <1>6
<1>9. t = Tail(s)
  BY <1>1, <1>3, <1>4, <1>8
<1> QED
  BY <1>7, <1>9 DEF s, t

-----------------------------------------------------------------------------
(* The refinement                                                          *)

Cells == Typeable \cup {0}

\* The indices stay inside the buffer.
IndexInv ==
  /\ eX_KeyboardBuffer \in [0 .. N - 1 -> Cells]
  /\ R \in 0 .. N - 1
  /\ W \in 0 .. N - 1
  /\ eX_ShiftPressed \in BOOLEAN
  /\ eX_CapsLock \in BOOLEAN
  /\ drop \in BOOLEAN
  /\ kbc \in Seq(0 .. 255)

\* A character that the driver offers is one that some key types.
LEMMA OfferedTypeable ==
  ASSUME IndexInv, NEW scancode \in 0 .. 255, Offered(scancode) # <<>>
  PROVE  Head(Offered(scancode)) \in Typeable
<1> DEFINE c == Character(Code(scancode), eX_ShiftPressed, eX_CapsLock)
<1>1. Code(scancode) \in 0 .. 127
  BY DEF Code
<1>2. Offered(scancode) = <<c>> /\ c # 0
  BY DEF Offered
<1>3. <<Code(scancode), eX_ShiftPressed, eX_CapsLock>> \in (0 .. 127) \X BOOLEAN \X BOOLEAN
  BY <1>1 DEF IndexInv
<1>4. c \in {Character(k[1], k[2], k[3]) : k \in (0 .. 127) \X BOOLEAN \X BOOLEAN}
  BY <1>3
<1> QED
  BY <1>2, <1>4 DEF Typeable

\* A push of the driver is a Put of the queue.
LEMMA PushImplementsPut ==
  ASSUME IndexInv, NEW c \in Typeable, eX_Keyboard_PushChar(c)
  PROVE  /\ eX_KeyboardBuffer' \in [0 .. N - 1 -> Cells] /\ R' \in 0 .. N - 1 /\ W' \in 0 .. N - 1
         /\ Abstract!Put(c)
<1> DEFINE next == (W + 1) % N
<1>1. next \in 0 .. N - 1
  BY NextValue DEF IndexInv
<1>2. Queue = Contents(eX_KeyboardBuffer, R, W) /\ Len(Queue) = Between(R, W)
  BY QueueIsContents, ContentsSeq DEF IndexInv
<1>3. Queue' = Contents(eX_KeyboardBuffer', R', W')
  BY DEF Queue, Waiting, Contents, Between, Slot, N, R, W
<1>4. CASE next = R
  <2>1. UNCHANGED <<eX_KeyboardBuffer, R, W, got>> /\ drop' = ~drop
    BY <1>4 DEF eX_Keyboard_PushChar, Following, N, R, W
  <2>2. Queue' = Queue
    BY <1>2, <1>3, <2>1
  <2>3. Len(Queue) = N - 1
    BY <1>2, <1>4, PushArithmetic DEF IndexInv
  <2> QED
    BY <2>1, <2>2, <2>3 DEF Abstract!Put, IndexInv, N
<1>5. CASE next # R
  <2>1. /\ eX_KeyboardBuffer' = [eX_KeyboardBuffer EXCEPT ![W] = c]
        /\ W' = next /\ R' = R /\ UNCHANGED <<got, drop>>
    BY <1>5 DEF eX_Keyboard_PushChar, Following, N, R, W
  <2>2. Queue' = Append(Queue, c)
    <3>1. c \in Cells
      BY DEF Cells
    <3>2. /\ eX_KeyboardBuffer \in [0 .. N - 1 -> Cells]
          /\ R \in 0 .. N - 1
          /\ W \in 0 .. N - 1
      BY DEF IndexInv
    <3>3. Pushed(Cells, eX_KeyboardBuffer, R, W, c, eX_KeyboardBuffer', W')
      BY <1>5, <2>1, <3>1, <3>2 DEF Pushed
    <3>4. Contents(eX_KeyboardBuffer', R, W') = Append(Contents(eX_KeyboardBuffer, R, W), c)
      BY <3>3, PushAppends
    <3> QED
      BY <1>2, <1>3, <2>1, <3>4
  <2>3. Len(Queue) < N - 1
    <3>1. Between(R, W) # N - 1
      BY <1>5, PushArithmetic DEF IndexInv
    <3>2. Between(R, W) \in Nat /\ Between(R, W) <= N - 1 /\ N \in Nat
      BY BetweenRange DEF IndexInv
    <3> QED
      BY <1>2, <3>1, <3>2
  <2> QED
    BY <1>1, <2>1, <2>2, <2>3 DEF Abstract!Put, IndexInv, Cells, N
<1> QED
  BY <1>4, <1>5

\* Reading a character is a Get of the queue.
LEMMA GetImplementsGet ==
  ASSUME IndexInv, eX_Keyboard_GetChar
  PROVE  IndexInv' /\ Abstract!Get
<1>1. UNCHANGED <<kbc, eX_KeyboardBuffer, W, drop, modifiers>>
  BY DEF eX_Keyboard_GetChar, Following, W
<1>2. Queue = Contents(eX_KeyboardBuffer, R, W) /\ Len(Queue) = Between(R, W)
  BY QueueIsContents, ContentsSeq DEF IndexInv
<1>3. Queue' = Contents(eX_KeyboardBuffer', R', W')
  BY DEF Queue, Waiting, Contents, Between, Slot, N, R, W
<1>4. CASE R = W
  <2>1. got' = NoChar /\ R' = R
    BY <1>4 DEF eX_Keyboard_GetChar, Following, R, W
  <2>2. Queue = <<>> /\ Queue' = Queue
    <3>1. Between(R, W) = 0
      BY <1>4, GetArithmetic DEF IndexInv
    <3>2. Queue \in Seq(Cells)
      BY <1>2, ContentsSeq DEF IndexInv
    <3> QED
      BY <1>1, <1>2, <1>3, <2>1, <3>1, <3>2
  <2> QED
    BY <1>1, <2>1, <2>2 DEF Abstract!Get, IndexInv, modifiers
<1>5. CASE R # W
  <2>1. got' = eX_KeyboardBuffer[R] /\ R' = (R + 1) % N
    BY <1>5 DEF eX_Keyboard_GetChar, Following, R, W, N
  <2>2. Queue # <<>> /\ Head(Queue) = eX_KeyboardBuffer[R] /\ Queue' = Tail(Queue)
    BY <1>1, <1>2, <1>3, <1>5, <2>1, GetTakesHead DEF IndexInv
  <2>3. R' \in 0 .. N - 1
    BY <2>1, NextValue DEF IndexInv
  <2> QED
    BY <1>1, <2>1, <2>2, <2>3 DEF Abstract!Get, IndexInv, modifiers
<1> QED
  BY <1>4, <1>5

\* The queue depends on the ring's variables only.
LEMMA RingUnchanged ==
  ASSUME UNCHANGED ring
  PROVE  UNCHANGED <<Queue, got, drop>>
  BY DEF ring, Queue, Waiting

\* One scancode is a Put of the character that it offers, or invisible.
LEMMA PollImplementsPut ==
  ASSUME IndexInv, eX_Keyboard_Poll
  PROVE  /\ IndexInv'
         /\ \/ Offered(Head(kbc)) = <<>> /\ UNCHANGED Abstract!vars
            \/ /\ Offered(Head(kbc)) # <<>> /\ Head(Offered(Head(kbc))) \in Typeable
               /\ Abstract!Put(Head(Offered(Head(kbc))))
<1> DEFINE s == Head(kbc)
<1>1. s \in 0 .. 255 /\ kbc' \in Seq(0 .. 255)
  <2>1. kbc \in Seq(0 .. 255) /\ kbc # <<>> /\ kbc' = Tail(kbc)
    BY DEF IndexInv, eX_Keyboard_Poll
  <2>2. Head(kbc) \in 0 .. 255 /\ Tail(kbc) \in Seq(0 .. 255)
    BY <2>1, HeadTailProperties
  <2> QED
    BY <2>1, <2>2
<1>2. eX_Keyboard_HandleScancode(s)
  BY DEF eX_Keyboard_Poll
<1> HIDE DEF s
<1>3. eX_ShiftPressed' \in BOOLEAN /\ eX_CapsLock' \in BOOLEAN
  BY <1>2 DEF eX_Keyboard_HandleScancode, IndexInv
<1>4. CASE Offered(s) = <<>> /\ UNCHANGED ring
  BY <1>1, <1>3, <1>4, RingUnchanged DEF IndexInv, ring, R, W, Abstract!vars, s
<1>5. CASE Offered(s) # <<>> /\ eX_Keyboard_PushChar(Head(Offered(s)))
  <2>1. Head(Offered(s)) \in Typeable
    BY <1>1, <1>5, OfferedTypeable
  <2>2. /\ eX_KeyboardBuffer' \in [0 .. N - 1 -> Cells] /\ R' \in 0 .. N - 1 /\ W' \in 0 .. N - 1
        /\ Abstract!Put(Head(Offered(s)))
    BY <1>5, <2>1, PushImplementsPut
  <2>3. drop' \in BOOLEAN
    BY <2>2 DEF Abstract!Put, IndexInv
  <2> QED
    BY <1>1, <1>3, <1>5, <2>1, <2>2, <2>3 DEF IndexInv, s
<1> QED
  BY <1>2, <1>4, <1>5 DEF eX_Keyboard_HandleScancode

\* Initially the queue is empty.
LEMMA KeyboardInit ==
  ASSUME eX_Keyboard_Init
  PROVE  IndexInv /\ Abstract!Init
<1>1. N \in Nat \ {0} /\ 0 \in 0 .. N - 1
  BY SizePositive
<1>2. IndexInv
  <2>1. eX_KeyboardBuffer \in [0 .. N - 1 -> Cells]
    BY DEF eX_Keyboard_Init, Cells, N
  <2>2. R \in 0 .. N - 1 /\ W \in 0 .. N - 1
    BY <1>1 DEF eX_Keyboard_Init, R, W
  <2>3. eX_ShiftPressed \in BOOLEAN /\ eX_CapsLock \in BOOLEAN /\ drop \in BOOLEAN
    BY DEF eX_Keyboard_Init
  <2>4. kbc \in Seq(0 .. 255)
    BY DEF eX_Keyboard_Init
  <2> QED
    BY <2>1, <2>2, <2>3, <2>4 DEF IndexInv
<1>3. Queue \in Seq(Cells) /\ Len(Queue) = Between(R, W)
  BY <1>2, QueueIsContents, ContentsSeq DEF IndexInv
<1>4. Between(R, W) = 0
  BY <1>2, GetArithmetic DEF IndexInv, eX_Keyboard_Init, R, W
<1>5. Queue = <<>>
  BY <1>3, <1>4
<1> QED
  BY <1>2, <1>5 DEF Abstract!Init, eX_Keyboard_Init

\* A byte that arrives is invisible.
LEMMA SendInvisible ==
  ASSUME IndexInv, NEW s \in Scancodes, Send(<<s>>)
  PROVE  IndexInv' /\ UNCHANGED Abstract!vars
<1>1. UNCHANGED ring /\ UNCHANGED modifiers /\ kbc' = kbc \o <<s>>
  BY DEF Send
<1>2. kbc' \in Seq(0 .. 255)
  BY <1>1, KeyboardAssumption DEF IndexInv
<1> QED
  BY <1>1, <1>2, RingUnchanged DEF IndexInv, ring, modifiers, R, W, Abstract!vars

\* A step that leaves the driver alone is invisible.
LEMMA KeyboardUnchanged ==
  ASSUME IndexInv, UNCHANGED keyboardVars
  PROVE  IndexInv' /\ UNCHANGED Abstract!vars
  BY RingUnchanged DEF keyboardVars, IndexInv, ring, modifiers, R, W, Abstract!vars

\* Every step of the driver is a step of the queue.
LEMMA KeyboardStep ==
  ASSUME IndexInv, [Next]_keyboardVars
  PROVE  IndexInv' /\ [Abstract!Next]_(Abstract!vars)
<1>1. ASSUME NEW s \in Scancodes, Send(<<s>>) PROVE IndexInv' /\ UNCHANGED Abstract!vars
  BY <1>1, SendInvisible
<1>2. CASE eX_Keyboard_Poll
  BY <1>2, PollImplementsPut DEF Abstract!Next
<1>3. CASE eX_Keyboard_GetChar
  BY <1>3, GetImplementsGet DEF Abstract!Next
<1>4. CASE UNCHANGED keyboardVars
  BY <1>4, KeyboardUnchanged
<1> QED
  BY <1>1, <1>2, <1>3, <1>4 DEF Next

\* The ring buffer of the keyboard driver is a bounded queue that drops only
\* the newest character and only when it is full, for every buffer size.
THEOREM KeyboardImplementsQueue == Spec => ImplementsQueue
<1>1. eX_Keyboard_Init => IndexInv /\ Abstract!Init
  BY KeyboardInit
<1>2. IndexInv /\ [Next]_keyboardVars => IndexInv' /\ [Abstract!Next]_(Abstract!vars)
  BY KeyboardStep
<1> QED
  BY <1>1, <1>2, PTL DEF Spec, ImplementsQueue, Abstract!Spec

\* Whatever scancodes arrive, caps lock is the other state of Shift for the
\* keys with a letter and nothing for the others.
THEOREM KeyboardCapsLock == Spec => []CapsLockIsShiftForLetters
<1>1. eX_Keyboard_Init => IndexInv
  BY KeyboardInit
<1>2. IndexInv /\ [Next]_keyboardVars => IndexInv'
  BY KeyboardStep
<1>3. IndexInv => CapsLockIsShiftForLetters
  BY CapsSwaps DEF IndexInv, CapsLockIsShiftForLetters
<1> QED
  BY <1>1, <1>2, <1>3, PTL DEF Spec

-----------------------------------------------------------------------------
(* Bursts                                                                  *)

\* No character of the buffer is the answer of an empty queue.
LEMMA NoCharIsNone == NoChar \notin Cells
<1>1. ASSUME NEW c \in Typeable PROVE c \in 0 .. 127
  <2>1. PICK k \in (0 .. 127) \X BOOLEAN \X BOOLEAN : c = Character(k[1], k[2], k[3])
    BY DEF Typeable
  <2>2. k[1] \in 0 .. 127 /\ k[2] \in BOOLEAN /\ k[3] \in BOOLEAN
    OBVIOUS
  <2> QED
    BY <2>1, <2>2, CharacterRange
<1> QED
  BY <1>1 DEF Cells, NoChar

\* The queue of the driver is a sequence.
LEMMA QueueSeq ==
  ASSUME IndexInv
  PROVE  Queue \in Seq(Cells)
  BY QueueIsContents, ContentsSeq DEF IndexInv

\* What waits in the buffer was polled since the shell has last emptied it.
BurstInv ==
  /\ IndexInv
  /\ round \in Nat
  /\ Len(Queue) <= round

\* A step of the main loop, and what it drops.
LEMMA BurstStep ==
  ASSUME BurstInv, [TerminalNext]_terminalVars
  PROVE  BurstInv' /\ (drop' # drop => round >= eX_KEYBOARD_BUFFER_SIZE - 1)
<1>1. IndexInv /\ Queue \in Seq(Cells) /\ round \in Nat /\ Len(Queue) <= round
  BY QueueSeq DEF BurstInv
<1>2. ASSUME IndexInv', UNCHANGED Abstract!vars, round' = round PROVE BurstInv' /\ drop' = drop
  BY <1>1, <1>2 DEF BurstInv, Abstract!vars
<1>3. ASSUME NEW s \in Scancodes, ByteArrives(s) PROVE BurstInv' /\ drop' = drop
  <2>1. Send(<<s>>) /\ round' = round
    BY <1>3 DEF ByteArrives
  <2> QED
    BY <1>1, <1>2, <2>1, SendInvisible
<1>4. CASE PollByte
  <2>1. eX_Keyboard_Poll /\ round' = round + 1
    BY <1>4 DEF PollByte
  <2>2. IndexInv' /\ (UNCHANGED Abstract!vars \/ \E c \in Typeable : Abstract!Put(c))
    BY <1>1, <2>1, PollImplementsPut
  <2>3. CASE UNCHANGED Abstract!vars
    BY <1>1, <2>1, <2>2, <2>3 DEF BurstInv, Abstract!vars
  <2>4. ASSUME NEW c \in Typeable, Abstract!Put(c)
        PROVE  BurstInv' /\ (drop' # drop => round >= eX_KEYBOARD_BUFFER_SIZE - 1)
    <3>1. \/ Queue' = Append(Queue, c) /\ drop' = drop
          \/ Queue' = Queue /\ Len(Queue) = eX_KEYBOARD_BUFFER_SIZE - 1
      BY <2>4 DEF Abstract!Put
    <3>2. Len(Queue') <= round'
      BY <1>1, <2>1, <3>1
    <3> QED
      BY <1>1, <2>1, <2>2, <3>1, <3>2 DEF BurstInv
  <2> QED
    BY <2>2, <2>3, <2>4
<1>5. CASE PollDone
  BY <1>1, <1>2, <1>5, KeyboardUnchanged DEF PollDone
<1>6. CASE UpdateChar
  <2>1. eX_Keyboard_GetChar /\ round' = round
    BY <1>6 DEF UpdateChar
  <2>2. IndexInv' /\ Abstract!Get
    BY <1>1, <2>1, GetImplementsGet
  <2>3. Len(Queue') <= Len(Queue) /\ Len(Queue') \in Nat /\ drop' = drop
    BY <1>1, <2>2 DEF Abstract!Get
  <2> QED
    BY <1>1, <2>1, <2>2, <2>3 DEF BurstInv
<1>7. CASE UpdateDone
  <2>1. eX_Keyboard_GetChar /\ round' = 0 /\ got' = NoChar
    BY <1>7 DEF UpdateDone
  <2>2. IndexInv' /\ Abstract!Get
    BY <1>1, <2>1, GetImplementsGet
  <2>3. Queue = <<>> /\ Queue' = Queue /\ drop' = drop
    BY <1>1, <2>1, <2>2, NoCharIsNone, HeadTailProperties DEF Abstract!Get
  <2> QED
    BY <2>1, <2>2, <2>3 DEF BurstInv
<1>8. CASE UNCHANGED terminalVars
  BY <1>1, <1>2, <1>8, KeyboardUnchanged DEF terminalVars
<1> QED
  BY <1>3, <1>4, <1>5, <1>6, <1>7, <1>8 DEF TerminalNext, MainLoop

\* In the main loop a character is refused only when as many bytes as the
\* buffer can hold were polled since the shell has last emptied it.
THEOREM TerminalBursts == TerminalSpec => LostOnlyInBursts
<1>1. TerminalInit => BurstInv
  <2> SUFFICES ASSUME TerminalInit PROVE BurstInv
    OBVIOUS
  <2>1. IndexInv /\ Abstract!Init /\ round = 0
    BY KeyboardInit DEF TerminalInit
  <2>2. Queue = <<>>
    BY <2>1 DEF Abstract!Init
  <2> QED
    BY <2>1, <2>2 DEF BurstInv
<1>2. BurstInv /\ [TerminalNext]_terminalVars =>
        BurstInv' /\ [drop' # drop => round >= eX_KEYBOARD_BUFFER_SIZE - 1]_terminalVars
  BY BurstStep
<1> QED
  BY <1>1, <1>2, PTL DEF TerminalSpec, LostOnlyInBursts
-----------------------------------------------------------------------------
(* What the shell makes of a character                                     *)

\* What a character does to the line, and to the line and the last line
\* entered.
EditLine(line, c) ==
  CASE c = S!NewLine     -> <<>>
    [] c = S!BackSpace   -> IF line = <<>> THEN line ELSE Front(line)
    [] c \in S!Printable -> IF Len(line) < eX_SHELL_BUFFER_SIZE - 1 THEN Append(line, c) ELSE line
    [] OTHER             -> line
Edited(e, c) == <<EditLine(e[1], c), IF c = S!NewLine THEN e[1] ELSE e[2]>>

\* The line is a string of printable characters: none of its bytes is a NUL.
ShellInv ==
  /\ eX_ShellBuffer \in [0 .. eX_SHELL_BUFFER_SIZE - 1 -> 0 .. 127]
  /\ eX_ShellLength \in 0 .. eX_SHELL_BUFFER_SIZE - 1
  /\ \A m \in 0 .. eX_ShellLength - 1 : eX_ShellBuffer[m] \in S!Printable

\* The line that is held in a buffer.
LEMMA LineSeq ==
  ASSUME NEW length \in Nat, NEW buffer,
         \A m \in 0 .. length - 1 : buffer[m] \in S!Printable
  PROVE  /\ [k \in 1 .. length |-> buffer[k - 1]] \in Seq(S!Printable)
         /\ Len([k \in 1 .. length |-> buffer[k - 1]]) = length
<1> DEFINE line == [k \in 1 .. length |-> buffer[k - 1]]
<1>1. line \in [1 .. length -> S!Printable]
  OBVIOUS
<1>2. line \in Seq(S!Printable)
  BY <1>1, SeqDef
<1>3. Len(line) = length
  OBVIOUS
<1> QED
  BY <1>2, <1>3

\* The terminator ends the line, whatever older lines have left behind it.
LEMMA TerminatedLine ==
  ASSUME ShellInv
  PROVE  S!CString(S!Terminated(eX_ShellBuffer, eX_ShellLength)) = S!Line
<1> DEFINE buffer == S!Terminated(eX_ShellBuffer, eX_ShellLength)
           Ends(n) == buffer[n] = S!NUL /\ \A m \in 0 .. n - 1 : buffer[m] # S!NUL
           end == CHOOSE n \in DOMAIN buffer : Ends(n)
<1>1. eX_ShellLength \in 0 .. eX_SHELL_BUFFER_SIZE - 1 /\ eX_SHELL_BUFFER_SIZE \in Nat
  BY TerminalAssumption DEF ShellInv
<1>2. /\ DOMAIN buffer = 0 .. eX_SHELL_BUFFER_SIZE - 1
      /\ buffer[eX_ShellLength] = S!NUL
      /\ \A m \in 0 .. eX_ShellLength - 1 : buffer[m] = eX_ShellBuffer[m]
  BY <1>1 DEF ShellInv, S!Terminated
<1> HIDE DEF buffer
<1>3. \A m \in 0 .. eX_ShellLength - 1 : buffer[m] # S!NUL
  <2>1. \A c \in S!Printable : c # S!NUL
    BY DEF S!Printable, S!NUL
  <2>2. \A m \in 0 .. eX_ShellLength - 1 : buffer[m] \in S!Printable
    BY <1>2 DEF ShellInv
  <2> QED
    BY <2>1, <2>2
<1>4. Ends(eX_ShellLength) /\ eX_ShellLength \in DOMAIN buffer
  BY <1>1, <1>2, <1>3
<1>5. \A n \in DOMAIN buffer : Ends(n) => n = eX_ShellLength
  BY <1>1, <1>2, <1>3
<1>6. end = eX_ShellLength
  BY <1>4, <1>5
<1>7. S!CString(buffer) = [k \in 1 .. eX_ShellLength |-> buffer[k - 1]]
  BY <1>6 DEF S!CString
<1>8. \A k \in 1 .. eX_ShellLength : buffer[k - 1] = eX_ShellBuffer[k - 1]
  BY <1>1, <1>2
<1> QED
  BY <1>7, <1>8 DEF S!Line, buffer

\* The line and its next value are sequences.
LEMMA LineFacts ==
  ASSUME ShellInv
  PROVE  /\ S!Line \in Seq(S!Printable) /\ Len(S!Line) = eX_ShellLength
         /\ \A k \in 1 .. eX_ShellLength : S!Line[k] = eX_ShellBuffer[k - 1]
<1>1. eX_ShellLength \in Nat
  BY TerminalAssumption DEF ShellInv
<1> QED
  BY <1>1, LineSeq DEF ShellInv, S!Line

\* What Enter, Backspace and a character do.
LEMMA EnterEdits ==
  ASSUME ShellInv, S!eX_Shell_Enter
  PROVE  /\ ShellInv'
         /\ S!Line' = <<>> /\ answer'.text = S!Line
<1>1. eX_ShellLength \in Nat /\ eX_ShellLength \in 0 .. eX_SHELL_BUFFER_SIZE - 1
  BY TerminalAssumption DEF ShellInv
<1>2. /\ eX_ShellBuffer' = [eX_ShellBuffer EXCEPT ![eX_ShellLength] = 0]
      /\ eX_ShellLength' = 0
  BY DEF S!eX_Shell_Enter, S!Terminated, S!NUL
<1>3. answer'.text = S!Line
  BY TerminatedLine DEF S!eX_Shell_Enter
<1>4. ShellInv'
  BY <1>1, <1>2, TerminalAssumption DEF ShellInv
<1>5. S!Line' = <<>>
  BY <1>2 DEF S!Line
<1> QED
  BY <1>3, <1>4, <1>5

LEMMA BackspaceEdits ==
  ASSUME ShellInv, S!eX_Shell_Backspace
  PROVE  /\ ShellInv' /\ answer' = answer
         /\ S!Line' = IF S!Line = <<>> THEN S!Line ELSE Front(S!Line)
<1> DEFINE n == eX_ShellLength
<1>1. n \in 0 .. eX_SHELL_BUFFER_SIZE - 1 /\ n \in Nat /\ eX_SHELL_BUFFER_SIZE \in Nat
  BY TerminalAssumption DEF ShellInv
<1>2. /\ S!Line \in Seq(S!Printable) /\ Len(S!Line) = n
      /\ \A k \in 1 .. n : S!Line[k] = eX_ShellBuffer[k - 1]
  BY LineFacts
<1>3. CASE n = 0
  <2>1. UNCHANGED S!shellVars
    BY <1>3 DEF S!eX_Shell_Backspace
  <2>2. S!Line = <<>>
    BY <1>2, <1>3, EmptySeq
  <2>3. S!Line' = S!Line /\ ShellInv' /\ answer' = answer
    BY <2>1 DEF S!shellVars, S!Line, ShellInv
  <2> QED
    BY <2>2, <2>3
<1>4. CASE n # 0
  <2>1. n' = n - 1 /\ eX_ShellBuffer' = eX_ShellBuffer /\ answer' = answer
    BY <1>4 DEF S!eX_Shell_Backspace
  <2>2. ShellInv'
    BY <1>1, <1>4, <2>1 DEF ShellInv
  <2>3. /\ S!Line' \in Seq(S!Printable) /\ Len(S!Line') = n - 1
        /\ \A k \in 1 .. n - 1 : S!Line'[k] = eX_ShellBuffer[k - 1]
    <3>1. \A m \in 0 .. n - 2 : eX_ShellBuffer[m] \in S!Printable
      BY <1>1 DEF ShellInv
    <3>2. S!Line' = [k \in 1 .. n - 1 |-> eX_ShellBuffer[k - 1]]
      BY <2>1 DEF S!Line
    <3>3. n - 1 \in Nat /\ (n - 1) - 1 = n - 2
      BY <1>1, <1>4
    <3> QED
      BY <3>1, <3>2, <3>3, LineSeq
  <2>4. S!Line # <<>>
    BY <1>2, <1>4, EmptySeq
  <2>5. /\ Front(S!Line) \in Seq(S!Printable) /\ Len(Front(S!Line)) = n - 1
        /\ \A k \in 1 .. n - 1 : Front(S!Line)[k] = S!Line[k]
    BY <1>1, <1>2, <1>4 DEF Front
  <2>6. ASSUME NEW k \in 1 .. n - 1 PROVE S!Line'[k] = Front(S!Line)[k]
    <3>1. k \in 1 .. n
      BY <1>1
    <3> QED
      BY <1>2, <2>3, <2>5, <3>1
  <2>7. S!Line' = Front(S!Line)
    BY <2>3, <2>5, <2>6, SeqEqual
  <2> QED
    BY <2>1, <2>2, <2>4, <2>7
<1> QED
  BY <1>3, <1>4

LEMMA CharacterEdits ==
  ASSUME ShellInv, NEW c \in S!Printable, S!eX_Shell_Character(c)
  PROVE  /\ ShellInv' /\ answer' = answer
         /\ S!Line' = IF Len(S!Line) < eX_SHELL_BUFFER_SIZE - 1 THEN Append(S!Line, c) ELSE S!Line
<1> DEFINE n == eX_ShellLength
<1>1. n \in 0 .. eX_SHELL_BUFFER_SIZE - 1 /\ n \in Nat /\ eX_SHELL_BUFFER_SIZE \in Nat
  BY TerminalAssumption DEF ShellInv
<1>2. /\ S!Line \in Seq(S!Printable) /\ Len(S!Line) = n
      /\ \A k \in 1 .. n : S!Line[k] = eX_ShellBuffer[k - 1]
  BY LineFacts
<1>3. S!Full(n) <=> ~(n < eX_SHELL_BUFFER_SIZE - 1)
  BY <1>1 DEF S!Full
<1>4. CASE S!Full(n)
  <2>1. UNCHANGED S!shellVars
    BY <1>4 DEF S!eX_Shell_Character
  <2>2. S!Line' = S!Line /\ ShellInv' /\ answer' = answer
    BY <2>1 DEF S!shellVars, S!Line, ShellInv
  <2> QED
    BY <1>2, <1>3, <1>4, <2>2
<1>5. CASE ~S!Full(n)
  <2>1. n' = n + 1 /\ eX_ShellBuffer' = [eX_ShellBuffer EXCEPT ![n] = c] /\ answer' = answer
    BY <1>5 DEF S!eX_Shell_Character
  <2>2. n < eX_SHELL_BUFFER_SIZE - 1 /\ c \in 0 .. 127
    BY <1>3, <1>5 DEF S!Printable
  <2>3. \A m \in 0 .. n : eX_ShellBuffer'[m] = IF m = n THEN c ELSE eX_ShellBuffer[m]
    BY <1>1, <2>1 DEF ShellInv
  <2>4. eX_ShellBuffer' \in [0 .. eX_SHELL_BUFFER_SIZE - 1 -> 0 .. 127]
    BY <1>1, <2>1, <2>2 DEF ShellInv
  <2>5. \A m \in 0 .. (n + 1) - 1 : eX_ShellBuffer'[m] \in S!Printable
    BY <1>1, <2>3 DEF ShellInv
  <2>6. ShellInv'
    BY <1>1, <2>1, <2>2, <2>4, <2>5 DEF ShellInv
  <2>7. /\ S!Line' \in Seq(S!Printable) /\ Len(S!Line') = n + 1
        /\ \A k \in 1 .. n + 1 : S!Line'[k] = eX_ShellBuffer'[k - 1]
    <3>1. S!Line' = [k \in 1 .. n + 1 |-> eX_ShellBuffer'[k - 1]]
      BY <2>1 DEF S!Line
    <3> QED
      BY <1>1, <2>5, <3>1, LineSeq
  <2>8. /\ Append(S!Line, c) \in Seq(S!Printable) /\ Len(Append(S!Line, c)) = n + 1
        /\ \A k \in 1 .. n : Append(S!Line, c)[k] = S!Line[k]
        /\ Append(S!Line, c)[n + 1] = c
    BY <1>2, AppendProperties
  <2>9. ASSUME NEW k \in 1 .. n + 1 PROVE S!Line'[k] = Append(S!Line, c)[k]
    <3>1. k - 1 \in 0 .. n /\ (k = n + 1 <=> k - 1 = n) /\ (k # n + 1 => k \in 1 .. n)
      BY <1>1
    <3> QED
      BY <1>2, <2>3, <2>7, <2>8, <3>1
  <2>10. S!Line' = Append(S!Line, c)
    BY <2>7, <2>8, <2>9, SeqEqual
  <2> QED
    BY <1>2, <2>1, <2>2, <2>6, <2>10
<1> QED
  BY <1>4, <1>5

\* The shell edits as Edited says.
LEMMA ShellEdits ==
  ASSUME ShellInv, NEW c, S!eX_Shell_Update(c)
  PROVE  ShellInv' /\ <<S!Line', answer'.text>> = Edited(<<S!Line, answer.text>>, c)
<1> DEFINE e == <<S!Line, answer.text>>
<1>1. S!BackSpace # S!NewLine /\ S!BackSpace \notin S!Printable /\ S!NewLine \notin S!Printable
  BY DEF S!BackSpace, S!NewLine, S!Printable
<1>2. e[1] = S!Line /\ e[2] = answer.text
  OBVIOUS
<1>3. Edited(e, c) = <<EditLine(S!Line, c), IF c = S!NewLine THEN S!Line ELSE answer.text>>
  BY <1>2 DEF Edited
<1>4. CASE c = S!NewLine /\ S!eX_Shell_Enter
  <2>1. EditLine(S!Line, c) = <<>>
    BY <1>1, <1>4 DEF EditLine
  <2> QED
    BY <1>3, <1>4, <2>1, EnterEdits
<1>5. CASE c = S!BackSpace /\ S!eX_Shell_Backspace
  <2>1. EditLine(S!Line, c) = IF S!Line = <<>> THEN S!Line ELSE Front(S!Line)
    BY <1>1, <1>5 DEF EditLine
  <2> QED
    BY <1>1, <1>3, <1>5, <2>1, BackspaceEdits
<1>6. CASE c \in S!Printable /\ S!eX_Shell_Character(c)
  <2>1. EditLine(S!Line, c) =
          IF Len(S!Line) < eX_SHELL_BUFFER_SIZE - 1 THEN Append(S!Line, c) ELSE S!Line
    BY <1>1, <1>6 DEF EditLine
  <2> QED
    BY <1>1, <1>3, <1>6, <2>1, CharacterEdits
<1>7. CASE c \notin S!Printable \cup {S!NewLine, S!BackSpace} /\ UNCHANGED S!shellVars
  <2>1. EditLine(S!Line, c) = S!Line
    BY <1>7 DEF EditLine
  <2>2. S!Line' = S!Line /\ ShellInv' /\ answer' = answer
    BY <1>7 DEF S!shellVars, S!Line, ShellInv
  <2> QED
    BY <1>3, <1>7, <2>1, <2>2
<1> QED
  BY <1>4, <1>5, <1>6, <1>7 DEF S!eX_Shell_Update

-----------------------------------------------------------------------------
(* What the user means by a byte                                           *)

Transcripts ==
  [prefix : BOOLEAN, shift : BOOLEAN, caps : BOOLEAN,
   line : Seq(S!Printable), entered : Seq(S!Printable)]

EditOf(t) == <<t.line, t.entered>>

\* A byte that types nothing.
Silent(t, s) ==
  \/ s = Extended
  \/ t.prefix
  \/ Code(s) \in ShiftKeys \cup {CapsLock}
  \/ Released(s)
  \/ Character(Code(s), t.shift, t.caps) = 0

\* The line stays a string of printable characters.
LEMMA EditLineType ==
  ASSUME NEW line \in Seq(S!Printable), NEW c
  PROVE  EditLine(line, c) \in Seq(S!Printable)
<1>1. line # <<>> => Front(line) \in Seq(S!Printable)
  BY DEF Front
<1>2. c \in S!Printable => Append(line, c) \in Seq(S!Printable)
  OBVIOUS
<1>3. <<>> \in Seq(S!Printable)
  OBVIOUS
<1> QED
  BY <1>1, <1>2, <1>3 DEF EditLine

\* What Understand does to the modifiers, and to the line: it edits as the
\* shell does when the byte is not silent.
LEMMA UnderstandFacts ==
  ASSUME NEW t \in Transcripts, NEW s \in 0 .. 255
  PROVE  /\ Understand(t, s) \in Transcripts
         /\ Understand(t, s).prefix <=> s = Extended
         /\ Understand(t, s).shift <=> IF s # Extended /\ ~t.prefix /\ Code(s) \in ShiftKeys
                                       THEN ~Released(s) ELSE t.shift
         /\ Understand(t, s).caps <=> IF s # Extended /\ ~t.prefix /\ s = CapsLock
                                      THEN ~t.caps ELSE t.caps
         /\ EditOf(Understand(t, s)) =
              IF Silent(t, s) THEN EditOf(t)
              ELSE Edited(EditOf(t), Character(Code(s), t.shift, t.caps))
<1> DEFINE c == Character(Code(s), t.shift, t.caps)
           u == Understand(t, s)
<1>1. CASE s = Extended
  <2>1. u = [t EXCEPT !.prefix = TRUE]
    BY <1>1 DEF Understand
  <2> QED
    BY <1>1, <2>1 DEF Transcripts, EditOf, Silent
<1>2. CASE s # Extended /\ t.prefix
  <2>1. u = [t EXCEPT !.prefix = FALSE]
    BY <1>2 DEF Understand
  <2> QED
    BY <1>2, <2>1 DEF Transcripts, EditOf, Silent
<1>3. CASE s # Extended /\ ~t.prefix /\ Code(s) \in ShiftKeys
  <2>1. u = [t EXCEPT !.shift = ~Released(s)]
    BY <1>3 DEF Understand
  <2>2. (~Released(s)) \in BOOLEAN /\ s # CapsLock
    BY <1>3 DEF Released, CapsLock, Code, ShiftKeys
  <2> QED
    BY <1>3, <2>1, <2>2 DEF Transcripts, EditOf, Silent
<1>4. CASE s # Extended /\ ~t.prefix /\ Code(s) \notin ShiftKeys /\ s = CapsLock
  <2>1. u = [t EXCEPT !.caps = ~t.caps]
    BY <1>4 DEF Understand, Transcripts
  <2>2. Code(s) = CapsLock
    BY <1>4 DEF Code, CapsLock
  <2> QED
    BY <1>4, <2>1, <2>2 DEF Transcripts, EditOf, Silent
<1>5. CASE s # Extended /\ ~t.prefix /\ Code(s) \notin ShiftKeys /\ s # CapsLock /\ Released(s)
  <2>1. u = t
    BY <1>5 DEF Understand
  <2> QED
    BY <1>5, <2>1 DEF Transcripts, Silent
<1>6. CASE s # Extended /\ ~t.prefix /\ Code(s) \notin ShiftKeys /\ s # CapsLock /\ ~Released(s)
  <2>1. t.line \in Seq(S!Printable) /\ t.entered \in Seq(S!Printable)
    BY DEF Transcripts
  <2>2. /\ u.prefix = t.prefix /\ u.shift = t.shift /\ u.caps = t.caps
        /\ u.line = EditLine(t.line, c)
        /\ u.entered = IF c = S!NewLine THEN t.line ELSE t.entered
        /\ u = [prefix |-> u.prefix, shift |-> u.shift, caps |-> u.caps,
                line |-> u.line, entered |-> u.entered]
    <3>1. S!BackSpace # S!NewLine /\ S!BackSpace \notin S!Printable /\ S!NewLine \notin S!Printable
      BY DEF S!BackSpace, S!NewLine, S!Printable
    <3>2. u = CASE c = S!NewLine     -> [t EXCEPT !.line = <<>>, !.entered = t.line]
                [] c = S!BackSpace   -> [t EXCEPT !.line = IF @ = <<>> THEN @ ELSE Front(@)]
                [] c \in S!Printable -> [t EXCEPT !.line = IF Len(@) < eX_SHELL_BUFFER_SIZE - 1
                                                           THEN Append(@, c) ELSE @]
                [] OTHER             -> t
      BY <1>6 DEF Understand
    <3> HIDE DEF c, u
    <3>3. CASE c = S!NewLine
      BY <3>1, <3>2, <3>3 DEF Transcripts, EditLine
    <3>4. CASE c = S!BackSpace
      BY <3>1, <3>2, <3>4 DEF Transcripts, EditLine
    <3>5. CASE c \in S!Printable
      BY <3>1, <3>2, <3>5 DEF Transcripts, EditLine
    <3>6. CASE c \notin S!Printable \cup {S!NewLine, S!BackSpace}
      BY <3>1, <3>2, <3>6 DEF Transcripts, EditLine
    <3> QED
      BY <3>3, <3>4, <3>5, <3>6
  <2>3. EditLine(t.line, c) \in Seq(S!Printable)
    BY <2>1, EditLineType
  <2>4. EditOf(u) = Edited(EditOf(t), c)
    BY <2>2 DEF EditOf, Edited
  <2>5. c = 0 => Edited(EditOf(t), c) = EditOf(t)
    BY DEF EditOf, Edited, EditLine, S!NewLine, S!BackSpace, S!Printable
  <2>6. Silent(t, s) <=> c = 0
    <3>1. Code(s) # CapsLock
      BY <1>6 DEF Code, CapsLock, Released
    <3> QED
      BY <1>6, <3>1 DEF Silent
  <2>7. u \in Transcripts
    BY <2>1, <2>2, <2>3 DEF Transcripts
  <2> HIDE DEF c, u
  <2> QED
    BY <1>6, <2>2, <2>4, <2>5, <2>6, <2>7 DEF c, u
<1> QED
  BY <1>1, <1>2, <1>3, <1>4, <1>5, <1>6

-----------------------------------------------------------------------------
(* The transcript of the bytes                                             *)

\* t is the transcript before the first byte and after each.
Transcribes(t, bytes) ==
  /\ t = [k \in 0 .. Len(bytes) |-> t[k]]
  /\ t[0] = Blank
  /\ \A k \in 1 .. Len(bytes) : t[k] = Understand(t[k - 1], bytes[k])

\* There is one such function, and Transcript takes its last value.
LEMMA TranscriptUnique ==
  ASSUME NEW bytes, Len(bytes) \in Nat, NEW t, Transcribes(t, bytes)
  PROVE  Transcript(bytes) = t[Len(bytes)]
<1> DEFINE L == Len(bytes)
           Solves(f) == f = [n \in 0 .. L |->
                              IF n = 0 THEN Blank ELSE Understand(f[n - 1], bytes[n])]
           after == CHOOSE f : Solves(f)
<1>1. Solves(t)
  <2> DEFINE g == [n \in 0 .. L |-> IF n = 0 THEN Blank ELSE Understand(t[n - 1], bytes[n])]
  <2>1. \A n \in 0 .. L : t[n] = g[n]
    BY DEF Transcribes
  <2>2. g = [n \in 0 .. L |-> g[n]] /\ t = [n \in 0 .. L |-> t[n]]
    BY DEF Transcribes
  <2> HIDE DEF g
  <2>3. t = g
    BY <2>1, <2>2
  <2> QED
    BY <2>3 DEF g
<1>2. Solves(after)
  <2> HIDE DEF Solves
  <2> QED
    BY <1>1
<1>3. Transcript(bytes) = after[L]
  BY DEF Transcript
<1> HIDE DEF after
<1> DEFINE T == {n \in Nat : n <= L => after[n] = t[n]}
<1>4. 0 \in T
  BY <1>1, <1>2
<1>5. ASSUME NEW n \in Nat, n \in T PROVE n + 1 \in T
  <2> SUFFICES ASSUME n + 1 <= L PROVE after[n + 1] = t[n + 1]
    OBVIOUS
  <2>1. n + 1 \in 0 .. L /\ n + 1 # 0 /\ (n + 1) - 1 = n /\ n <= L
    OBVIOUS
  <2>2. after[n + 1] = Understand(after[n], bytes[n + 1])
    BY <1>2, <2>1
  <2>3. t[n + 1] = Understand(t[n], bytes[n + 1])
    BY <1>1, <2>1
  <2> QED
    BY <1>5, <2>1, <2>2, <2>3
<1> HIDE DEF T
<1>6. L \in T
  BY <1>4, <1>5, SetInduction
<1> QED
  BY <1>3, <1>6 DEF T

\* u transcribes more bytes, and agrees with t on the first ones.
Continues(u, t, bytes, more) ==
  Transcribes(u, more) /\ \A k \in 0 .. Len(bytes) : u[k] = t[k]

\* Another byte leaves the transcripts before it alone.
LEMMA TranscribeAppend ==
  ASSUME NEW bytes \in Seq(0 .. 255), NEW s \in 0 .. 255, NEW t, Transcribes(t, bytes),
         NEW more, more = Append(bytes, s)
  PROVE  \E u : Continues(u, t, bytes, more)
<1> DEFINE L == Len(bytes)
           last == Understand(t[L], s)
           u == [k \in 0 .. L + 1 |-> IF k <= L THEN t[k] ELSE last]
<1>1. L \in Nat
  OBVIOUS
<1>2. /\ Len(Append(bytes, s)) = L + 1 /\ Append(bytes, s)[L + 1] = s
      /\ \A k \in 1 .. L : Append(bytes, s)[k] = bytes[k]
  BY AppendProperties
<1>3. /\ \A k \in 0 .. L : u[k] = t[k]
      /\ u[L + 1] = last
  BY <1>1
<1>4. u = [k \in 0 .. L + 1 |-> u[k]] /\ u[0] = Blank
  BY <1>1 DEF Transcribes
<1> HIDE DEF u
<1>5. ASSUME NEW k \in 1 .. L + 1 PROVE u[k] = Understand(u[k - 1], Append(bytes, s)[k])
  <2>1. CASE k = L + 1
    <3>1. k - 1 = L /\ L \in 0 .. L
      BY <1>1, <2>1
    <3> QED
      BY <1>2, <1>3, <2>1, <3>1
  <2>2. CASE k # L + 1
    <3>1. k \in 1 .. L /\ k \in 0 .. L /\ k - 1 \in 0 .. L
      BY <1>1, <2>2
    <3> QED
      BY <1>2, <1>3, <3>1 DEF Transcribes
  <2> QED
    BY <2>1, <2>2
<1>6. Continues(u, t, bytes, more)
  BY <1>2, <1>3, <1>4, <1>5 DEF Continues, Transcribes
<1> QED
  BY <1>6

\* Every value is a transcript.
LEMMA TranscribesType ==
  ASSUME NEW bytes \in Seq(0 .. 255), NEW t, Transcribes(t, bytes)
  PROVE  \A k \in 0 .. Len(bytes) : t[k] \in Transcripts
<1> DEFINE L == Len(bytes)
           T == {n \in Nat : n <= L => t[n] \in Transcripts}
<1>1. L \in Nat /\ \A k \in 1 .. L : bytes[k] \in 0 .. 255
  BY LenProperties, ElementOfSeq
<1>2. 0 \in T
  <2>1. Blank \in Transcripts
    BY DEF Blank, Transcripts
  <2> QED
    BY <2>1 DEF Transcribes
<1>3. ASSUME NEW n \in Nat, n \in T PROVE n + 1 \in T
  <2> SUFFICES ASSUME n + 1 <= L PROVE t[n + 1] \in Transcripts
    OBVIOUS
  <2>1. n + 1 \in 1 .. L /\ (n + 1) - 1 = n /\ n <= L
    BY <1>1
  <2>2. t[n + 1] = Understand(t[n], bytes[n + 1])
    BY <2>1 DEF Transcribes
  <2> QED
    BY <1>1, <1>3, <2>1, <2>2, UnderstandFacts
<1> HIDE DEF T
<1>4. \A n \in Nat : n \in T
  BY <1>2, <1>3, SetInduction
<1> QED
  BY <1>1, <1>4 DEF T

-----------------------------------------------------------------------------
(* The main loop transcribes                                               *)

\* The characters of q, one after the other, edit e into f.
Leads(e, q, f) ==
  \E h : /\ h[0] = e
         /\ \A k \in 1 .. Len(q) : h[k] = Edited(h[k - 1], q[k])
         /\ h[Len(q)] = f

\* No character edits nothing.
LEMMA LeadsNone ==
  ASSUME NEW e, NEW f
  PROVE  Leads(e, <<>>, f) <=> e = f
<1>1. Len(<<>>) = 0 /\ 1 .. 0 = {}
  OBVIOUS
<1>2. ASSUME e = f PROVE Leads(e, <<>>, f)
  <2> DEFINE h == [k \in {0} |-> e]
  <2>1. h[0] = e
    OBVIOUS
  <2> HIDE DEF h
  <2> QED
    BY <1>1, <1>2, <2>1 DEF Leads
<1>3. ASSUME Leads(e, <<>>, f) PROVE e = f
  BY <1>1, <1>3 DEF Leads
<1> QED
  BY <1>2, <1>3

\* A character behind the others is the last to edit.
LEMMA LeadsAppend ==
  ASSUME NEW V, NEW q \in Seq(V), NEW c \in V, NEW e, NEW f, Leads(e, q, f)
  PROVE  Leads(e, Append(q, c), Edited(f, c))
<1> DEFINE L == Len(q)
<1>1. L \in Nat
  BY LenProperties
<1>2. PICK h : /\ h[0] = e
               /\ \A k \in 1 .. L : h[k] = Edited(h[k - 1], q[k])
               /\ h[L] = f
  BY DEF Leads
<1> DEFINE last == Edited(f, c)
           g == [k \in 0 .. L + 1 |-> IF k <= L THEN h[k] ELSE last]
<1>3. /\ Len(Append(q, c)) = L + 1 /\ Append(q, c)[L + 1] = c
      /\ \A k \in 1 .. L : Append(q, c)[k] = q[k]
  BY AppendProperties
<1>4. /\ \A k \in 0 .. L : g[k] = h[k]
      /\ g[L + 1] = last
  BY <1>1
<1> HIDE DEF g
<1>5. ASSUME NEW k \in 1 .. L + 1 PROVE g[k] = Edited(g[k - 1], Append(q, c)[k])
  <2>1. CASE k = L + 1
    <3>1. k - 1 = L /\ L \in 0 .. L
      BY <1>1, <2>1
    <3> QED
      BY <1>2, <1>3, <1>4, <2>1, <3>1
  <2>2. CASE k # L + 1
    <3>1. k \in 1 .. L /\ k \in 0 .. L /\ k - 1 \in 0 .. L
      BY <1>1, <2>2
    <3> QED
      BY <1>2, <1>3, <1>4, <3>1
  <2> QED
    BY <2>1, <2>2
<1>6. g[0] = e
  BY <1>1, <1>2, <1>4
<1> QED
  BY <1>3, <1>4, <1>5, <1>6 DEF Leads

\* The first character edits first.
LEMMA LeadsTail ==
  ASSUME NEW V, NEW q \in Seq(V), q # <<>>, NEW e, NEW f, Leads(e, q, f)
  PROVE  Leads(Edited(e, Head(q)), Tail(q), f)
<1> DEFINE L == Len(q)
<1>1. L \in Nat /\ L > 0
  BY LenProperties, EmptySeq
<1>2. PICK h : /\ h[0] = e
               /\ \A k \in 1 .. L : h[k] = Edited(h[k - 1], q[k])
               /\ h[L] = f
  BY DEF Leads
<1> DEFINE g == [k \in 0 .. L - 1 |-> h[k + 1]]
<1>3. /\ Len(Tail(q)) = L - 1 /\ Head(q) = q[1]
      /\ \A k \in 1 .. L - 1 : Tail(q)[k] = q[k + 1]
  BY <1>1
<1>4. \A k \in 0 .. L - 1 : g[k] = h[k + 1]
  OBVIOUS
<1> HIDE DEF g
<1>5. ASSUME NEW k \in 1 .. L - 1 PROVE g[k] = Edited(g[k - 1], Tail(q)[k])
  <2>1. k \in 0 .. L - 1 /\ k - 1 \in 0 .. L - 1 /\ (k - 1) + 1 = k /\ (k + 1) - 1 = k /\ k + 1 \in 1 .. L
    BY <1>1
  <2> QED
    BY <1>2, <1>3, <1>4, <2>1
<1>6. g[0] = Edited(e, Head(q))
  <2>1. 0 \in 0 .. L - 1 /\ 0 + 1 = 1 /\ 1 \in 1 .. L /\ 1 - 1 = 0
    BY <1>1
  <2>2. g[0] = h[1] /\ h[1] = Edited(h[0], q[1])
    BY <1>2, <1>4, <2>1
  <2> QED
    BY <1>2, <1>3, <2>2
<1>7. g[L - 1] = f
  <2>1. L - 1 \in 0 .. L - 1 /\ (L - 1) + 1 = L
    BY <1>1
  <2> QED
    BY <1>2, <1>4, <2>1
<1> QED
  BY <1>3, <1>5, <1>6, <1>7 DEF Leads

\* How many bytes were polled.
Polled == Len(arrived) - Len(kbc)

\* The driver has the modifiers of u, and the shell will edit what u edits
\* when it has taken the characters that wait.
Follows(u) ==
  /\ u.prefix <=> eX_ExtendedScancode
  /\ u.shift <=> eX_ShiftPressed
  /\ u.caps <=> eX_CapsLock
  /\ ~lost => Leads(<<S!Line, answer.text>>, Queue, EditOf(u))

\* The controller holds the bytes that were sent and not polled.
ControllerInv ==
  /\ arrived \in Seq(0 .. 255)
  /\ Len(kbc) <= Len(arrived)
  /\ \A k \in 1 .. Len(kbc) : kbc[k] = arrived[Polled + k]

TranscriptInv ==
  /\ IndexInv
  /\ ShellInv
  /\ eX_ExtendedScancode \in BOOLEAN
  /\ lost \in BOOLEAN
  /\ ControllerInv
  /\ \E t : Transcribes(t, arrived) /\ Follows(t[Polled])

\* The controller when a byte arrives and when one is polled.
LEMMA ControllerSteps ==
  ASSUME kbc \in Seq(0 .. 255), ControllerInv
  PROVE  /\ \A s \in 0 .. 255 :
              kbc' = kbc \o <<s>> /\ arrived' = Append(arrived, s) =>
                ControllerInv' /\ Polled' = Polled
         /\ kbc # <<>> /\ kbc' = Tail(kbc) /\ arrived' = arrived =>
              /\ ControllerInv' /\ Polled' = Polled + 1
              /\ Head(kbc) = arrived[Polled + 1] /\ Polled + 1 \in 1 .. Len(arrived)
<1> DEFINE K == Len(kbc)
           A == Len(arrived)
<1>1. K \in Nat /\ A \in Nat /\ K <= A /\ arrived \in Seq(0 .. 255)
  BY LenProperties DEF ControllerInv
<1>2. \A k \in 1 .. K : kbc[k] = arrived[(A - K) + k]
  BY DEF ControllerInv, Polled
<1>3. ASSUME NEW s \in 0 .. 255, kbc' = kbc \o <<s>>, arrived' = Append(arrived, s)
      PROVE  ControllerInv' /\ Polled' = Polled
  <2>1. kbc' = Append(kbc, s)
    BY <1>3
  <2>2. /\ Len(kbc') = K + 1 /\ kbc'[K + 1] = s
        /\ \A k \in 1 .. K : kbc'[k] = kbc[k]
    BY <2>1, AppendProperties
  <2>3. /\ Len(arrived') = A + 1 /\ arrived'[A + 1] = s /\ arrived' \in Seq(0 .. 255)
        /\ \A k \in 1 .. A : arrived'[k] = arrived[k]
    BY <1>1, <1>3, AppendProperties
  <2>4. Polled' = Polled
    BY <1>1, <2>2, <2>3 DEF Polled
  <2>5. ASSUME NEW k \in 1 .. K + 1 PROVE kbc'[k] = arrived'[(A - K) + k]
    <3>1. CASE k = K + 1
      <4>1. (A - K) + k = A + 1
        BY <1>1, <3>1
      <4> QED
        BY <2>2, <2>3, <3>1, <4>1
    <3>2. CASE k # K + 1
      <4>1. k \in 1 .. K /\ (A - K) + k \in 1 .. A
        BY <1>1, <3>2
      <4> QED
        BY <1>2, <2>2, <2>3, <4>1
    <3> QED
      BY <3>1, <3>2
  <2> QED
    BY <1>1, <2>2, <2>3, <2>4, <2>5 DEF ControllerInv, Polled
<1>4. ASSUME kbc # <<>>, kbc' = Tail(kbc), arrived' = arrived
      PROVE  /\ ControllerInv' /\ Polled' = Polled + 1
             /\ Head(kbc) = arrived[Polled + 1] /\ Polled + 1 \in 1 .. Len(arrived)
  <2>1. K > 0
    BY <1>1, <1>4, EmptySeq
  <2>2. /\ Len(kbc') = K - 1 /\ Head(kbc) = kbc[1]
        /\ \A k \in 1 .. K - 1 : kbc'[k] = kbc[k + 1]
    BY <1>4, <2>1
  <2>3. Polled = A - K /\ Polled' = (A - K) + 1 /\ Len(kbc') <= A /\ Polled + 1 \in 1 .. A
    BY <1>1, <1>4, <2>1, <2>2 DEF Polled
  <2>4. Head(kbc) = arrived[Polled + 1]
    BY <1>1, <1>2, <2>1, <2>2, <2>3
  <2>5. ASSUME NEW k \in 1 .. K - 1 PROVE kbc'[k] = arrived'[Polled' + k]
    <3>1. k + 1 \in 1 .. K /\ Polled' + k = (A - K) + (k + 1)
      BY <1>1, <2>3
    <3> QED
      BY <1>2, <1>4, <2>2, <3>1
  <2> QED
    BY <1>1, <1>4, <2>2, <2>3, <2>4, <2>5 DEF ControllerInv
<1> QED
  BY <1>3, <1>4

\* A step that leaves what Follows is about alone.
LEMMA FollowsUnchanged ==
  ASSUME NEW u, Follows(u), UNCHANGED <<modifiers, lost, Queue, shellVars>>
  PROVE  Follows(u)'
<1>1. S!Line' = S!Line /\ answer' = answer
  BY DEF shellVars, S!Line
<1> QED
  BY <1>1 DEF Follows, modifiers

\* Initially nothing has been sent and the line is empty.
LEMMA TranscriptInit ==
  ASSUME TerminalInit
  PROVE  TranscriptInv
<1>1. IndexInv /\ Abstract!Init
  BY KeyboardInit DEF TerminalInit
<1>2. /\ kbc = <<>> /\ arrived = <<>> /\ lost = FALSE /\ Queue = <<>>
      /\ eX_ExtendedScancode = FALSE /\ eX_ShiftPressed = FALSE /\ eX_CapsLock = FALSE
  BY <1>1 DEF TerminalInit, eX_Keyboard_Init, Abstract!Init
<1>3. /\ eX_ShellBuffer = [n \in 0 .. eX_SHELL_BUFFER_SIZE - 1 |-> 0]
      /\ eX_ShellLength = 0 /\ answer = [known |-> FALSE, text |-> <<>>]
  BY DEF TerminalInit, S!eX_Shell_Init, S!NUL
<1>4. ShellInv
  BY <1>3, TerminalAssumption DEF ShellInv
<1>5. S!Line = <<>> /\ answer.text = <<>>
  BY <1>3 DEF S!Line
<1>6. ControllerInv /\ Polled = 0 /\ Len(arrived) = 0
  BY <1>2 DEF ControllerInv, Polled
<1> DEFINE t == [k \in 0 .. 0 |-> Blank]
<1>7. t[0] = Blank
  OBVIOUS
<1>8. Transcribes(t, arrived)
  BY <1>6 DEF Transcribes
<1> HIDE DEF t
<1>9. Follows(Blank)
  <2>1. EditOf(Blank) = <<S!Line, answer.text>>
    BY <1>5 DEF EditOf, Blank
  <2>2. Leads(<<S!Line, answer.text>>, Queue, EditOf(Blank))
    BY <1>2, <2>1, LeadsNone
  <2> QED
    BY <1>2, <2>2 DEF Follows, Blank
<1> QED
  BY <1>1, <1>2, <1>4, <1>6, <1>7, <1>8, <1>9 DEF TranscriptInv

\* What polling a byte means.
LEMMA PollFollows ==
  ASSUME TranscriptInv, PollByte, NEW u \in Transcripts, Follows(u),
         NEW w, w = Understand(u, Head(kbc))
  PROVE  Follows(w)'
<1> DEFINE s == Head(kbc)
           e == <<S!Line, answer.text>>
<1>1. IndexInv /\ Queue \in Seq(Cells) /\ s \in 0 .. 255
  <2>1. IndexInv /\ kbc \in Seq(0 .. 255) /\ kbc # <<>>
    BY DEF TranscriptInv, IndexInv, PollByte, eX_Keyboard_Poll
  <2> QED
    BY <2>1, QueueSeq, HeadTailProperties
<1>2. /\ eX_Keyboard_Poll /\ lost' = (lost \/ drop' # drop)
      /\ eX_Keyboard_HandleScancode(s) /\ UNCHANGED shellVars
  BY DEF PollByte, eX_Keyboard_Poll
<1>3. /\ w.prefix <=> s = Extended
      /\ w.shift <=> IF s # Extended /\ ~u.prefix /\ Code(s) \in ShiftKeys
                     THEN ~Released(s) ELSE u.shift
      /\ w.caps <=> IF s # Extended /\ ~u.prefix /\ s = CapsLock THEN ~u.caps ELSE u.caps
      /\ EditOf(w) = IF Silent(u, s) THEN EditOf(u)
                     ELSE Edited(EditOf(u), Character(Code(s), u.shift, u.caps))
  BY <1>1, UnderstandFacts
<1>4. /\ u.prefix <=> eX_ExtendedScancode
      /\ u.shift <=> eX_ShiftPressed
      /\ u.caps <=> eX_CapsLock
      /\ ~lost => Leads(e, Queue, EditOf(u))
  BY DEF Follows
<1>5. e' = e
  BY <1>2 DEF shellVars, S!Line
<1> HIDE DEF s, e
<1>6. /\ eX_ExtendedScancode' <=> s = Extended
      /\ eX_ShiftPressed' <=> IF s # Extended /\ ~eX_ExtendedScancode /\ Code(s) \in ShiftKeys
                              THEN ~Released(s) ELSE eX_ShiftPressed
      /\ eX_CapsLock' <=> IF s # Extended /\ ~eX_ExtendedScancode /\ s = CapsLock
                          THEN ~eX_CapsLock ELSE eX_CapsLock
  BY <1>2 DEF eX_Keyboard_HandleScancode, ExtendedAfter, ModifierCode
<1>7. Character(Code(s), u.shift, u.caps) = Character(Code(s), eX_ShiftPressed, eX_CapsLock)
  BY <1>4 DEF Character
<1>8. /\ Silent(u, s) <=> Offered(s) = <<>>
      /\ ~Silent(u, s) => Head(Offered(s)) = Character(Code(s), u.shift, u.caps)
  BY <1>4, <1>7 DEF Silent, Offered
<1>9. ASSUME ~lost' PROVE Leads(e, Queue', EditOf(w))
  <2>1. ~lost /\ drop' = drop
    BY <1>2, <1>9 DEF TranscriptInv
  <2>2. \/ Offered(s) = <<>> /\ UNCHANGED Abstract!vars
        \/ /\ Offered(s) # <<>> /\ Head(Offered(s)) \in Typeable
           /\ Abstract!Put(Head(Offered(s)))
    BY <1>1, <1>2, PollImplementsPut DEF s
  <2>3. CASE Offered(s) = <<>> /\ UNCHANGED Abstract!vars
    BY <1>3, <1>4, <1>8, <2>1, <2>3 DEF Abstract!vars
  <2>4. CASE /\ Offered(s) # <<>> /\ Head(Offered(s)) \in Typeable
             /\ Abstract!Put(Head(Offered(s)))
    <3>1. Queue' = Append(Queue, Head(Offered(s))) \/ drop' = ~drop
      BY <2>4 DEF Abstract!Put
    <3>2. drop \in BOOLEAN
      BY <1>1 DEF IndexInv
    <3>3. Queue' = Append(Queue, Head(Offered(s)))
      BY <2>1, <3>1, <3>2
    <3>4. Head(Offered(s)) \in Cells
      BY <2>4 DEF Cells
    <3>5. Leads(e, Append(Queue, Head(Offered(s))), Edited(EditOf(u), Head(Offered(s))))
      BY <1>1, <1>4, <2>1, <3>4, LeadsAppend
    <3> QED
      BY <1>3, <1>8, <2>4, <3>3, <3>5
  <2> QED
    BY <2>2, <2>3, <2>4
<1>10. /\ w.prefix <=> eX_ExtendedScancode'
       /\ w.shift <=> eX_ShiftPressed'
       /\ w.caps <=> eX_CapsLock'
  BY <1>3, <1>4, <1>6
<1> QED
  BY <1>5, <1>9, <1>10 DEF Follows, e

\* The shell takes a character.
LEMMA UpdateFollows ==
  ASSUME TranscriptInv, UpdateChar, NEW u, Follows(u)
  PROVE  ShellInv' /\ IndexInv' /\ Follows(u)'
<1> DEFINE e == <<S!Line, answer.text>>
<1>1. IndexInv /\ ShellInv /\ Queue \in Seq(Cells)
  BY QueueSeq DEF TranscriptInv
<1>2. PICK c \in 0 .. 127 : got' = c /\ S!eX_Shell_Update(c)
  BY DEF UpdateChar
<1>3. eX_Keyboard_GetChar /\ lost' = lost /\ UNCHANGED modifiers
  BY DEF UpdateChar, eX_Keyboard_GetChar
<1>4. IndexInv' /\ Abstract!Get
  BY <1>1, <1>3, GetImplementsGet
<1>5. got' # NoChar
  BY <1>2 DEF NoChar
<1>6. Queue # <<>> /\ c = Head(Queue) /\ Queue' = Tail(Queue)
  BY <1>2, <1>4, <1>5 DEF Abstract!Get
<1>7. ShellInv' /\ e' = Edited(e, c)
  BY <1>1, <1>2, ShellEdits
<1> HIDE DEF e
<1>8. ASSUME ~lost PROVE Leads(e', Queue', EditOf(u))
  <2>1. Leads(e, Queue, EditOf(u))
    BY <1>8 DEF Follows, e
  <2>2. Leads(Edited(e, Head(Queue)), Tail(Queue), EditOf(u))
    BY <1>1, <1>6, <2>1, LeadsTail
  <2> QED
    BY <1>6, <1>7, <2>2
<1> QED
  BY <1>3, <1>4, <1>7, <1>8 DEF Follows, modifiers, e

\* Every step of the main loop keeps the invariant.
LEMMA TranscriptStep ==
  ASSUME TranscriptInv, [TerminalNext]_terminalVars
  PROVE  TranscriptInv'
<1>1. /\ IndexInv /\ ShellInv /\ ControllerInv /\ kbc \in Seq(0 .. 255)
      /\ arrived \in Seq(0 .. 255) /\ eX_ExtendedScancode \in BOOLEAN /\ lost \in BOOLEAN
      /\ Polled \in 0 .. Len(arrived) /\ Queue \in Seq(Cells)
  BY QueueSeq, LenProperties DEF TranscriptInv, IndexInv, ControllerInv, Polled
<1>2. PICK t : Transcribes(t, arrived) /\ Follows(t[Polled])
  BY DEF TranscriptInv
<1>3. ASSUME UNCHANGED shellVars PROVE ShellInv'
  BY <1>1, <1>3 DEF ShellInv, shellVars
<1>4. ASSUME UNCHANGED <<Abstract!vars, modifiers, lost, shellVars, kbc, arrived>>, IndexInv'
      PROVE  TranscriptInv'
  <2>1. UNCHANGED <<modifiers, lost, Queue, shellVars>>
    BY <1>4 DEF Abstract!vars
  <2>2. ASSUME NEW u, u = t[Polled] PROVE Follows(u)'
    BY <1>2, <2>1, <2>2, FollowsUnchanged
  <2>3. Polled' = Polled /\ ControllerInv'
    BY <1>1, <1>4 DEF Polled, ControllerInv
  <2>4. Follows(t[Polled])'
    BY <2>2, <2>3
  <2> QED
    BY <1>1, <1>2, <1>3, <1>4, <2>3, <2>4 DEF TranscriptInv, modifiers
<1>5. ASSUME NEW s \in Scancodes, ByteArrives(s) PROVE TranscriptInv'
  <2>1. /\ Send(<<s>>) /\ arrived' = Append(arrived, s) /\ UNCHANGED <<shellVars, lost>>
        /\ kbc' = kbc \o <<s>> /\ UNCHANGED modifiers /\ s \in 0 .. 255
    BY <1>5, KeyboardAssumption DEF ByteArrives, Send
  <2>2. IndexInv' /\ UNCHANGED Queue
    BY <1>1, <2>1, SendInvisible DEF Abstract!vars
  <2>3. ControllerInv' /\ Polled' = Polled
    BY <1>1, <2>1, ControllerSteps
  <2>4. PICK u : Continues(u, t, arrived, arrived')
    <3>1. arrived \in Seq(0 .. 255) /\ s \in 0 .. 255
      BY <1>1, <2>1
    <3> QED
      BY <1>2, <2>1, <3>1, TranscribeAppend
  <2>5. u[Polled] = t[Polled] /\ Transcribes(u, arrived')
    BY <1>1, <2>4 DEF Continues
  <2>6. ASSUME NEW v, v = t[Polled] PROVE Follows(v)'
    BY <1>2, <2>1, <2>2, <2>6, FollowsUnchanged
  <2>7. Follows(u[Polled])'
    BY <2>3, <2>5, <2>6
  <2> QED
    BY <1>1, <1>3, <2>1, <2>2, <2>3, <2>5, <2>7 DEF TranscriptInv, modifiers
<1>6. CASE PollByte
  <2>1. /\ eX_Keyboard_Poll /\ arrived' = arrived /\ UNCHANGED shellVars
        /\ kbc # <<>> /\ kbc' = Tail(kbc)
        /\ eX_ExtendedScancode' \in BOOLEAN /\ lost' \in BOOLEAN
    BY <1>1, <1>6 DEF PollByte, eX_Keyboard_Poll, eX_Keyboard_HandleScancode, ExtendedAfter
  <2>2. IndexInv'
    BY <1>1, <2>1, PollImplementsPut
  <2>3. /\ ControllerInv' /\ Polled' = Polled + 1
        /\ Head(kbc) = arrived[Polled + 1] /\ Polled + 1 \in 1 .. Len(arrived)
    BY <1>1, <2>1, ControllerSteps
  <2>4. t[Polled] \in Transcripts
    BY <1>1, <1>2, TranscribesType
  <2>5. t[Polled + 1] = Understand(t[Polled], Head(kbc))
    <3>1. (Polled + 1) - 1 = Polled
      BY <1>1
    <3> QED
      BY <1>2, <2>3, <3>1 DEF Transcribes
  <2>6. ASSUME NEW w, w = t[Polled + 1] PROVE Follows(w)'
    <3>1. PICK u \in Transcripts : u = t[Polled]
      BY <2>4
    <3> QED
      BY <1>2, <1>6, <2>5, <2>6, <3>1, PollFollows
  <2>7. Follows(t[Polled])'
    BY <2>3, <2>6
  <2> QED
    BY <1>2, <1>3, <2>1, <2>2, <2>3, <2>7 DEF TranscriptInv
<1>7. CASE PollDone
  <2>1. UNCHANGED keyboardVars /\ UNCHANGED <<shellVars, arrived, lost>>
    BY <1>7 DEF PollDone
  <2> QED
    BY <1>1, <1>4, <2>1, KeyboardUnchanged DEF keyboardVars
<1>8. CASE UpdateChar
  <2>1. UNCHANGED <<kbc, arrived, lost, modifiers>>
    BY <1>8 DEF UpdateChar, eX_Keyboard_GetChar
  <2>2. ASSUME NEW v, v = t[Polled] PROVE ShellInv' /\ IndexInv' /\ Follows(v)'
    BY <1>2, <1>8, <2>2, UpdateFollows
  <2>3. Polled' = Polled /\ ControllerInv'
    BY <1>1, <2>1 DEF Polled, ControllerInv
  <2>4. ShellInv' /\ IndexInv' /\ Follows(t[Polled])'
    BY <2>2, <2>3
  <2> QED
    BY <1>1, <1>2, <2>1, <2>3, <2>4 DEF TranscriptInv, modifiers
<1>9. CASE UpdateDone
  <2>1. /\ eX_Keyboard_GetChar /\ got' = NoChar
        /\ UNCHANGED <<kbc, modifiers, shellVars, arrived, lost>>
    BY <1>9 DEF UpdateDone, eX_Keyboard_GetChar
  <2>2. IndexInv' /\ Abstract!Get
    BY <1>1, <2>1, GetImplementsGet
  <2>3. Queue' = Queue
    BY <1>1, <2>1, <2>2, NoCharIsNone, HeadTailProperties DEF Abstract!Get
  <2>4. Polled' = Polled /\ ControllerInv'
    BY <1>1, <2>1 DEF Polled, ControllerInv
  <2>5. ASSUME NEW v, v = t[Polled] PROVE Follows(v)'
    BY <1>2, <2>1, <2>3, <2>5, FollowsUnchanged
  <2>6. Follows(t[Polled])'
    BY <2>4, <2>5
  <2> QED
    BY <1>1, <1>2, <1>3, <2>1, <2>2, <2>4, <2>6 DEF TranscriptInv, modifiers
<1>10. CASE UNCHANGED terminalVars
  <2>1. UNCHANGED keyboardVars /\ UNCHANGED <<shellVars, arrived, lost>>
    BY <1>10 DEF terminalVars
  <2> QED
    BY <1>1, <1>4, <2>1, KeyboardUnchanged DEF keyboardVars
<1> QED
  BY <1>5, <1>6, <1>7, <1>8, <1>9, <1>10 DEF TerminalNext, MainLoop

\* However the bytes, the polling and the shell interleave, the shell edits
\* and runs what the bytes mean one by one, unless the full buffer has refused
\* a character: for every size of both buffers and every set of scancodes.
THEOREM TerminalTranscript == TerminalSpec => []TranscriptExact
<1>1. TerminalInit => TranscriptInv
  BY TranscriptInit
<1>2. TranscriptInv /\ [TerminalNext]_terminalVars => TranscriptInv'
  BY TranscriptStep
<1>3. TranscriptInv => TranscriptExact
  <2> SUFFICES ASSUME TranscriptInv, kbc = <<>>, Queue = <<>>, ~lost
               PROVE  /\ S!Line = Transcript(arrived).line
                      /\ answer.text = Transcript(arrived).entered
    BY DEF TranscriptExact
  <2>1. PICK t : Transcribes(t, arrived) /\ Follows(t[Polled])
    BY DEF TranscriptInv
  <2>2. Polled = Len(arrived) /\ Len(arrived) \in Nat
    BY LenProperties DEF Polled, TranscriptInv, ControllerInv
  <2>3. Transcript(arrived) = t[Polled]
    BY <2>1, <2>2, TranscriptUnique
  <2>4. <<S!Line, answer.text>> = EditOf(t[Polled])
    BY <2>1, LeadsNone DEF Follows
  <2> QED
    BY <2>3, <2>4 DEF EditOf
<1> QED
  BY <1>1, <1>2, <1>3, PTL DEF TerminalSpec

-----------------------------------------------------------------------------
(* The bytes that wait, as the driver will decode them                     *)

\* What the driver knows and has done: prefix, Shift, caps lock, and the
\* characters that it has offered.
Drivers == BOOLEAN \X BOOLEAN \X BOOLEAN \X Seq(0 .. 127)
driver  == <<eX_ExtendedScancode, eX_ShiftPressed, eX_CapsLock, decoded>>

\* What the byte s types, and the driver after it.
Types(d, s) ==
  LET c == Character(Code(s), d[2], d[3])
  IN  IF \/ s = Extended
         \/ d[1]
         \/ Code(s) \in ShiftKeys \cup {CapsLock}
         \/ Released(s)
         \/ c = 0
        THEN <<>> ELSE <<c>>
ShiftAfter(d, s) ==
  IF s # Extended /\ ~d[1] /\ Code(s) \in ShiftKeys THEN ~Released(s) ELSE d[2]
CapsAfter(d, s) ==
  IF s # Extended /\ ~d[1] /\ s = CapsLock THEN ~d[3] ELSE d[3]
After(d, s) == <<ExtendedAfter(s), ShiftAfter(d, s), CapsAfter(d, s), d[4] \o Types(d, s)>>

\* The parts of a driver.
LEMMA DriverParts ==
  ASSUME NEW a \in BOOLEAN, NEW b \in BOOLEAN, NEW c \in BOOLEAN, NEW text \in Seq(0 .. 127)
  PROVE  /\ <<a, b, c, text>> \in Drivers
         /\ <<a, b, c, text>>[1] = a /\ <<a, b, c, text>>[2] = b
         /\ <<a, b, c, text>>[3] = c /\ <<a, b, c, text>>[4] = text
  BY DEF Drivers

\* The driver stays a driver.
LEMMA AfterParts ==
  ASSUME NEW d \in Drivers, NEW s \in 0 .. 255
  PROVE  /\ After(d, s) \in Drivers /\ Types(d, s) \in Seq(0 .. 127)
         /\ After(d, s)[1] = ExtendedAfter(s)
         /\ After(d, s)[2] = ShiftAfter(d, s)
         /\ After(d, s)[3] = CapsAfter(d, s)
         /\ After(d, s)[4] = d[4] \o Types(d, s)
<1>1. d[1] \in BOOLEAN /\ d[2] \in BOOLEAN /\ d[3] \in BOOLEAN /\ d[4] \in Seq(0 .. 127)
  BY DEF Drivers
<1>2. Character(Code(s), d[2], d[3]) \in 0 .. 127
  <2>1. Code(s) \in 0 .. 127
    BY DEF Code
  <2> QED
    BY <1>1, <2>1, CharacterRange
<1>3. Types(d, s) \in Seq(0 .. 127)
  <2> DEFINE c == Character(Code(s), d[2], d[3])
  <2>1. <<c>> \in Seq(0 .. 127) /\ <<>> \in Seq(0 .. 127)
    BY <1>2
  <2>2. Types(d, s) \in {<<>>, <<c>>}
    BY DEF Types
  <2> HIDE DEF c
  <2> QED
    BY <2>1, <2>2
<1>4. d[4] \o Types(d, s) \in Seq(0 .. 127)
  BY <1>1, <1>3, ConcatProperties
<1>5. ExtendedAfter(s) \in BOOLEAN
  BY DEF ExtendedAfter
<1>6. ShiftAfter(d, s) \in BOOLEAN /\ CapsAfter(d, s) \in BOOLEAN
  BY <1>1 DEF ShiftAfter, CapsAfter, Released
<1> QED
  BY <1>3, <1>4, <1>5, <1>6, DriverParts DEF After

\* The bytes of q, one after the other, take the driver from d to f.
Runs(d, q, f) ==
  \E h : /\ h[0] = d
         /\ \A k \in 0 .. Len(q) : h[k] \in Drivers
         /\ \A k \in 1 .. Len(q) : h[k] = After(h[k - 1], q[k])
         /\ h[Len(q)] = f

\* No byte changes nothing.
LEMMA RunsNone ==
  ASSUME NEW d \in Drivers, NEW f
  PROVE  Runs(d, <<>>, f) <=> d = f
<1>1. Len(<<>>) = 0 /\ 1 .. 0 = {} /\ 0 .. 0 = {0}
  OBVIOUS
<1>2. ASSUME d = f PROVE Runs(d, <<>>, f)
  <2> DEFINE h == [k \in {0} |-> d]
  <2>1. h[0] = d
    OBVIOUS
  <2> HIDE DEF h
  <2> QED
    BY <1>1, <1>2, <2>1 DEF Runs
<1>3. ASSUME Runs(d, <<>>, f) PROVE d = f
  BY <1>1, <1>3 DEF Runs
<1> QED
  BY <1>2, <1>3

\* The first byte is handled first.
LEMMA RunsTail ==
  ASSUME NEW q \in Seq(0 .. 255), q # <<>>, NEW d, NEW f, Runs(d, q, f)
  PROVE  Runs(After(d, Head(q)), Tail(q), f)
<1> DEFINE L == Len(q)
<1>1. L \in Nat /\ L > 0
  BY LenProperties, EmptySeq
<1>2. PICK h : /\ h[0] = d
               /\ \A k \in 0 .. L : h[k] \in Drivers
               /\ \A k \in 1 .. L : h[k] = After(h[k - 1], q[k])
               /\ h[L] = f
  BY DEF Runs
<1> DEFINE g == [k \in 0 .. L - 1 |-> h[k + 1]]
<1>3. /\ Len(Tail(q)) = L - 1 /\ Head(q) = q[1]
      /\ \A k \in 1 .. L - 1 : Tail(q)[k] = q[k + 1]
  BY <1>1
<1>4. \A k \in 0 .. L - 1 : g[k] = h[k + 1]
  OBVIOUS
<1> HIDE DEF g
<1>5. ASSUME NEW k \in 1 .. L - 1 PROVE g[k] = After(g[k - 1], Tail(q)[k])
  <2>1. k \in 0 .. L - 1 /\ k - 1 \in 0 .. L - 1 /\ (k - 1) + 1 = k /\ (k + 1) - 1 = k /\ k + 1 \in 1 .. L
    BY <1>1
  <2> QED
    BY <1>2, <1>3, <1>4, <2>1
<1>6. g[0] = After(d, Head(q))
  <2>1. 0 \in 0 .. L - 1 /\ 0 + 1 = 1 /\ 1 \in 1 .. L /\ 1 - 1 = 0
    BY <1>1
  <2>2. g[0] = h[1] /\ h[1] = After(h[0], q[1])
    BY <1>2, <1>4, <2>1
  <2> QED
    BY <1>2, <1>3, <2>2
<1>7. g[L - 1] = f
  <2>1. L - 1 \in 0 .. L - 1 /\ (L - 1) + 1 = L
    BY <1>1
  <2> QED
    BY <1>2, <1>4, <2>1
<1>8. ASSUME NEW k \in 0 .. L - 1 PROVE g[k] \in Drivers
  <2>1. k + 1 \in 0 .. L
    BY <1>1
  <2> QED
    BY <1>2, <1>4, <2>1
<1> QED
  BY <1>3, <1>5, <1>6, <1>7, <1>8 DEF Runs

\* The driver on its way through a code that follows q.
LEMMA RunsConcat ==
  ASSUME NEW q \in Seq(0 .. 255), NEW code \in Seq(0 .. 255), NEW d, NEW f, Runs(d, q, f),
         NEW m, m[0] = f,
         \A i \in 0 .. Len(code) : m[i] \in Drivers,
         \A i \in 1 .. Len(code) : m[i] = After(m[i - 1], code[i])
  PROVE  Runs(d, q \o code, m[Len(code)])
<1> DEFINE L == Len(q)
           M == Len(code)
<1>1. L \in Nat /\ M \in Nat
  BY LenProperties
<1>2. PICK h : /\ h[0] = d
               /\ \A k \in 0 .. L : h[k] \in Drivers
               /\ \A k \in 1 .. L : h[k] = After(h[k - 1], q[k])
               /\ h[L] = f
  BY DEF Runs
<1> DEFINE g == [k \in 0 .. L + M |-> IF k <= L THEN h[k] ELSE m[k - L]]
<1>3. /\ Len(q \o code) = L + M
      /\ \A k \in 1 .. L : (q \o code)[k] = q[k]
      /\ \A k \in 1 .. L + M : k > L => (q \o code)[k] = code[k - L]
  BY <1>1, ConcatProperties
<1>4. \A k \in 0 .. L : g[k] = h[k]
  BY <1>1
<1>5. ASSUME NEW k \in 0 .. L + M, k >= L PROVE g[k] = m[k - L]
  <2>1. CASE k = L
    BY <1>1, <1>2, <2>1
  <2>2. CASE k # L
    BY <1>1, <1>5, <2>2
  <2> QED
    BY <2>1, <2>2
<1> HIDE DEF g
<1>6. ASSUME NEW k \in 0 .. L + M PROVE g[k] \in Drivers
  <2>1. CASE k <= L
    <3>1. k \in 0 .. L
      BY <1>1, <2>1
    <3> QED
      BY <1>2, <1>4, <3>1
  <2>2. CASE k > L
    <3>1. k - L \in 0 .. M
      BY <1>1, <2>2
    <3> QED
      BY <1>1, <1>5, <2>2, <3>1
  <2> QED
    BY <1>1, <2>1, <2>2
<1>7. ASSUME NEW k \in 1 .. L + M PROVE g[k] = After(g[k - 1], (q \o code)[k])
  <2>1. CASE k <= L
    <3>1. k \in 1 .. L /\ k \in 0 .. L /\ k - 1 \in 0 .. L
      BY <1>1, <2>1
    <3> QED
      BY <1>2, <1>3, <1>4, <3>1
  <2>2. CASE k > L
    <3>1. /\ k - L \in 1 .. M /\ k - 1 >= L /\ (k - 1) - L = (k - L) - 1
          /\ k \in 0 .. L + M /\ k - 1 \in 0 .. L + M /\ k >= L
      BY <1>1, <2>2
    <3>2. g[k] = m[k - L] /\ g[k - 1] = m[(k - L) - 1]
      BY <1>5, <3>1
    <3>3. m[k - L] = After(m[(k - L) - 1], code[k - L])
      BY <3>1
    <3> QED
      BY <1>3, <2>2, <3>2, <3>3
  <2> QED
    BY <1>1, <2>1, <2>2
<1>8. g[0] = d /\ g[L + M] = m[M]
  <2>1. 0 \in 0 .. L /\ L + M \in 0 .. L + M /\ L + M >= L /\ (L + M) - L = M
    BY <1>1
  <2> QED
    BY <1>2, <1>4, <1>5, <2>1
<1> QED
  BY <1>3, <1>6, <1>7, <1>8 DEF Runs

\* One byte more.
LEMMA RunsByte ==
  ASSUME NEW q \in Seq(0 .. 255), NEW s \in 0 .. 255, NEW d, NEW f \in Drivers, Runs(d, q, f)
  PROVE  Runs(d, q \o <<s>>, After(f, s))
<1> DEFINE a == After(f, s)
           m == [i \in 0 .. 1 |-> IF i = 0 THEN f ELSE a]
<1>0. a \in Drivers
  BY AfterParts
<1>1. m[0] = f /\ m[1] = a /\ a \in Drivers
  BY <1>0
<1>2. Len(<<s>>) = 1 /\ <<s>>[1] = s /\ <<s>> \in Seq(0 .. 255)
  OBVIOUS
<1> HIDE DEF m
<1>3. \A i \in 0 .. 1 : m[i] \in Drivers
  BY <1>1
<1>4. \A i \in 1 .. 1 : m[i] = After(m[i - 1], <<s>>[i])
  BY <1>1, <1>2
<1> HIDE DEF a
<1>5. Runs(d, q \o <<s>>, m[Len(<<s>>)])
  BY <1>1, <1>2, <1>3, <1>4, RunsConcat
<1> QED
  BY <1>1, <1>2, <1>5 DEF a

\* A mute code leaves the driver as it was.
LEMMA RunsMute ==
  ASSUME NEW q \in Seq(0 .. 255), NEW code \in Seq(0 .. 255), Mute(code),
         NEW d, NEW f \in Drivers, ~f[1], Runs(d, q, f)
  PROVE  Runs(d, q \o code, f)
<1> DEFINE M == Len(code)
           m == [i \in 0 .. M |-> IF i = 0 THEN f ELSE <<ExtendedAfter(code[i]), f[2], f[3], f[4]>>]
<1>1. M \in Nat /\ M > 0 /\ code[M] # Extended
  BY LenProperties, EmptySeq DEF Mute
<1>2. /\ f[2] \in BOOLEAN /\ f[3] \in BOOLEAN /\ f[4] \in Seq(0 .. 127)
      /\ f = <<FALSE, f[2], f[3], f[4]>>
  <2>1. /\ f[1] \in BOOLEAN /\ f[2] \in BOOLEAN /\ f[3] \in BOOLEAN /\ f[4] \in Seq(0 .. 127)
        /\ f = <<f[1], f[2], f[3], f[4]>>
    BY DEF Drivers
  <2>2. f[1] = FALSE
    BY <2>1
  <2> QED
    BY <2>1, <2>2
<1>3. /\ m[0] = f
      /\ \A i \in 1 .. M : m[i] = <<ExtendedAfter(code[i]), f[2], f[3], f[4]>>
  BY <1>1
<1> HIDE DEF m
<1>4. ASSUME NEW i \in 0 .. M PROVE m[i] \in Drivers
  <2>1. CASE i = 0
    BY <1>3, <2>1
  <2>2. CASE i # 0
    <3>1. m[i] = <<ExtendedAfter(code[i]), f[2], f[3], f[4]>>
      BY <1>1, <1>3, <2>2
    <3>2. ExtendedAfter(code[i]) \in BOOLEAN
      BY DEF ExtendedAfter
    <3> QED
      BY <1>2, <3>1, <3>2, DriverParts
  <2> QED
    BY <2>1, <2>2
<1>5. ASSUME NEW i \in 1 .. M PROVE m[i] = After(m[i - 1], code[i])
  <2> DEFINE p == m[i - 1]
             s == code[i]
  <2>1. s \in 0 .. 255 /\ p \in Drivers
    BY <1>1, <1>4, ElementOfSeq
  <2>2. p[2] = f[2] /\ p[3] = f[3] /\ p[4] = f[4] /\ (p[1] <=> i > 1 /\ code[i - 1] = Extended)
    <3>1. CASE i = 1
      BY <1>3, <3>1
    <3>2. CASE i # 1
      <4>1. p = <<ExtendedAfter(code[i - 1]), f[2], f[3], f[4]>>
        BY <1>1, <1>3, <3>2
      <4>2. ExtendedAfter(code[i - 1]) \in BOOLEAN
        BY DEF ExtendedAfter
      <4>3. p[1] = ExtendedAfter(code[i - 1]) /\ p[2] = f[2] /\ p[3] = f[3] /\ p[4] = f[4]
        BY <1>2, <4>1, <4>2, DriverParts
      <4>4. i > 1
        BY <1>1, <3>2
      <4>5. ExtendedAfter(code[i - 1]) <=> code[i - 1] = Extended
        BY DEF ExtendedAfter
      <4> HIDE DEF p
      <4> QED
        BY <4>3, <4>4, <4>5
    <3> QED
      BY <3>1, <3>2
  <2>3. s = Extended \/ p[1] \/ Idle(s)
    BY <2>2 DEF Mute
  <2> HIDE DEF p, s
  <2>4. Idle(s) => \/ Released(s)
                   \/ Character(Code(s), p[2], p[3]) = 0
    <3>1. ASSUME eX_KeyboardNormal[Code(s)] = 0, eX_KeyboardShift[Code(s)] = 0
          PROVE  Character(Code(s), p[2], p[3]) = 0
      <4>1. 0 \notin Lower /\ 0 \notin Upper
        BY DEF Lower, Upper
      <4> QED
        BY <3>1, <4>1 DEF Character
    <3> QED
      BY <3>1 DEF Idle
  <2>5. Types(p, s) = <<>>
    BY <2>3, <2>4 DEF Types
  <2>6. p[4] \o <<>> = p[4]
    BY <1>2, <2>2, ConcatEmptySeq
  <2>7. After(p, s) = <<ExtendedAfter(s), p[2], p[3], p[4]>>
    <3>1. ShiftAfter(p, s) = p[2]
      BY <2>3 DEF Idle, ShiftAfter
    <3>2. CapsAfter(p, s) = p[3]
      BY <2>3 DEF Idle, CapsAfter
    <3> QED
      BY <2>5, <2>6, <3>1, <3>2 DEF After
  <2> QED
    BY <1>3, <2>2, <2>7 DEF p, s
<1>6. m[M] = f
  <2>1. m[M] = <<ExtendedAfter(code[M]), f[2], f[3], f[4]>>
    BY <1>1, <1>3
  <2>2. ExtendedAfter(code[M]) = FALSE
    BY <1>1 DEF ExtendedAfter
  <2> QED
    BY <1>2, <2>1, <2>2
<1>7. Runs(d, q \o code, m[M])
  BY <1>3, <1>4, <1>5, RunsConcat
<1> QED
  BY <1>6, <1>7

\* Concatenation of three texts.
LEMMA Reassociate ==
  ASSUME NEW a \in Seq(0 .. 127), NEW b \in Seq(0 .. 127), NEW c \in Seq(0 .. 127)
  PROVE  (a \o b) \o c = a \o (b \o c)
<1> DEFINE V == 0 .. 127
<1>1. a \in Seq(V) /\ b \in Seq(V) /\ c \in Seq(V)
  OBVIOUS
<1> HIDE DEF V
<1> QED
  BY <1>1, ConcatAssociative, SMTT(30)

\* What was offered stays offered.
Grows(d, f) == \E r \in Seq(0 .. 127) : f[4] = d[4] \o r

LEMMA RunsGrows ==
  ASSUME NEW q \in Seq(0 .. 255), NEW d, NEW f, Runs(d, q, f)
  PROVE  d \in Drivers /\ f \in Drivers /\ Grows(d, f)
<1> DEFINE L == Len(q)
<1>1. L \in Nat /\ \A k \in 1 .. L : q[k] \in 0 .. 255
  BY LenProperties, ElementOfSeq
<1>2. PICK h : /\ h[0] = d
               /\ \A k \in 0 .. L : h[k] \in Drivers
               /\ \A k \in 1 .. L : h[k] = After(h[k - 1], q[k])
               /\ h[L] = f
  BY DEF Runs
<1>3. d \in Drivers /\ f \in Drivers /\ d[4] \in Seq(0 .. 127)
  BY <1>1, <1>2 DEF Drivers
<1> DEFINE T == {n \in Nat : n <= L => \E r \in Seq(0 .. 127) : h[n][4] = d[4] \o r}
<1>4. 0 \in T
  <2>1. d[4] = d[4] \o <<>> /\ <<>> \in Seq(0 .. 127)
    BY <1>3, ConcatEmptySeq
  <2> QED
    BY <1>2, <2>1
<1>5. ASSUME NEW n \in Nat, n \in T PROVE n + 1 \in T
  <2> SUFFICES ASSUME n + 1 <= L PROVE \E r \in Seq(0 .. 127) : h[n + 1][4] = d[4] \o r
    OBVIOUS
  <2>1. n + 1 \in 1 .. L /\ (n + 1) - 1 = n /\ n \in 0 .. L /\ n <= L
    BY <1>1
  <2>2. PICK r \in Seq(0 .. 127) : h[n][4] = d[4] \o r
    BY <1>5, <2>1
  <2> DEFINE x == Types(h[n], q[n + 1])
  <2>3. h[n + 1][4] = h[n][4] \o x /\ x \in Seq(0 .. 127)
    <3>1. h[n + 1] = After(h[n], q[n + 1])
      BY <1>2, <2>1
    <3>2. h[n] \in Drivers /\ q[n + 1] \in 0 .. 255
      BY <1>1, <1>2, <2>1
    <3>3. /\ After(h[n], q[n + 1])[4] = h[n][4] \o Types(h[n], q[n + 1])
          /\ Types(h[n], q[n + 1]) \in Seq(0 .. 127)
      BY <3>2, AfterParts, Zenon
    <3> QED
      BY <3>1, <3>3, Zenon
  <2> HIDE DEF x
  <2>4. (d[4] \o r) \o x = d[4] \o (r \o x) /\ r \o x \in Seq(0 .. 127)
    <3>1. r \o x \in Seq(0 .. 127)
      BY <2>3, ConcatProperties
    <3>2. (d[4] \o r) \o x = d[4] \o (r \o x)
      BY <1>3, <2>3, Reassociate
    <3> QED
      BY <3>1, <3>2
  <2> QED
    BY <2>2, <2>3, <2>4
<1> HIDE DEF T
<1>6. L \in T
  BY <1>1, <1>4, <1>5, SetInduction
<1>7. \E r \in Seq(0 .. 127) : h[L][4] = d[4] \o r
  BY <1>1, <1>6 DEF T
<1> QED
  BY <1>2, <1>3, <1>7, Zenon DEF Grows

-----------------------------------------------------------------------------
(* Typing                                                                  *)

\* The driver f agrees with the user.
Agrees(f) ==
  /\ ~f[1]
  /\ f[3] <=> lamp
  /\ f[2] => ShiftHeld
  /\ ~overlap => (ShiftHeld => f[2]) /\ f[4] = meant

\* Two Shift keys are down together only after overlap has been noted.
OneShift == ~overlap => \A i, j \in held : IsShift(i) /\ IsShift(j) => i = j

\* When the driver has handled the bytes that wait, it will agree with the user.
TypingInv ==
  /\ kbc \in Seq(0 .. 255)
  /\ driver \in Drivers
  /\ held \subseteq Keys /\ lamp \in BOOLEAN /\ overlap \in BOOLEAN
  /\ OneShift
  /\ \E f : Runs(driver, kbc, f) /\ Agrees(f)

\* The codes of a key.
LEMMA KeyCodes ==
  ASSUME NEW k \in Keys
  PROVE  /\ MakeCode[k] \in Seq(0 .. 255) /\ BreakCode[k] \in Seq(0 .. 255)
         /\ \/ \E s \in 0 .. 127 : MakeCode[k] = <<s>>
            \/ Len(MakeCode[k]) > 1 /\ Mute(MakeCode[k])
         /\ \/ \E s \in ShiftKeys : MakeCode[k] = <<s>> /\ BreakCode[k] = <<s + 128>>
            \/ ~IsShift(k) /\ Mute(BreakCode[k])
<1>1. MakeCode[k] \in Seq(Scancodes) /\ BreakCode[k] \in Seq(Scancodes)
  BY TypingAssumption
<1>2. MakeCode[k] \in Seq(0 .. 255) /\ BreakCode[k] \in Seq(0 .. 255)
  <2> DEFINE V == 0 .. 255
  <2>1. Scancodes \subseteq V
    BY KeyboardAssumption
  <2> HIDE DEF V
  <2>2. MakeCode[k] \in Seq(V)
    BY <1>1, <2>1, SeqMonotonic
  <2>3. BreakCode[k] \in Seq(V)
    BY <1>1, <2>1, SeqMonotonic
  <2> QED
    BY <2>2, <2>3 DEF V
<1> QED
  BY <1>1, <1>2, TypingAssumption

\* A make code below 128 is no prefix and no break code; the break code of a
\* Shift key is that key's.
LEMMA ByteFacts ==
  /\ \A s \in 0 .. 127 : Code(s) = s /\ ~Released(s) /\ s # Extended /\ s \in 0 .. 255
  /\ \A s \in ShiftKeys : /\ s \in 0 .. 127 /\ s + 128 \in 0 .. 255 /\ s # CapsLock
                          /\ Code(s + 128) = s /\ Released(s + 128)
                          /\ s + 128 # Extended /\ s + 128 # CapsLock
  /\ CapsLock \in 0 .. 127
  BY DEF Code, Released, Extended, ShiftKeys, CapsLock

\* Initially no key is down.
LEMMA TypingInitInv ==
  ASSUME TypingInit
  PROVE  TypingInv
<1>1. /\ kbc = <<>> /\ held = {} /\ lamp = FALSE /\ overlap = FALSE /\ meant = <<>>
      /\ driver = <<FALSE, FALSE, FALSE, <<>>>>
  BY DEF TypingInit, eX_Keyboard_Init, driver
<1>2. <<>> \in Seq(0 .. 127) /\ FALSE \in BOOLEAN /\ kbc \in Seq(0 .. 255)
  BY <1>1
<1>3. /\ driver \in Drivers /\ driver[1] = FALSE /\ driver[2] = FALSE /\ driver[3] = FALSE
      /\ driver[4] = <<>>
  BY <1>1, <1>2, DriverParts
<1>4. Runs(driver, kbc, driver)
  BY <1>1, <1>3, RunsNone
<1>5. Agrees(driver)
  BY <1>1, <1>3 DEF Agrees, ShiftHeld
<1> HIDE DEF driver
<1>6. OneShift
  BY <1>1 DEF OneShift
<1> QED
  BY <1>1, <1>2, <1>3, <1>4, <1>5, <1>6 DEF TypingInv

\* Polling a byte is the first step of the run.
LEMMA PollKeeps ==
  ASSUME TypingInv, Poll
  PROVE  TypingInv'
<1> DEFINE s == Head(kbc)
<1>1. /\ kbc \in Seq(0 .. 255) /\ kbc # <<>> /\ kbc' = Tail(kbc)
      /\ eX_Keyboard_HandleScancode(s) /\ decoded' = decoded \o Offered(s) /\ UNCHANGED userVars
  BY DEF TypingInv, Poll, eX_Keyboard_Poll
<1>2. s \in 0 .. 255 /\ kbc' \in Seq(0 .. 255)
  BY <1>1, HeadTailProperties
<1>3. driver \in Drivers /\ eX_ExtendedScancode \in BOOLEAN /\ eX_ShiftPressed \in BOOLEAN
      /\ eX_CapsLock \in BOOLEAN /\ decoded \in Seq(0 .. 127)
  BY DEF TypingInv, Drivers, driver
<1>4. /\ driver[1] = eX_ExtendedScancode /\ driver[2] = eX_ShiftPressed
      /\ driver[3] = eX_CapsLock /\ driver[4] = decoded
  BY <1>3, DriverParts DEF driver
<1> HIDE DEF s
<1>5. Types(driver, s) = Offered(s)
  BY <1>4 DEF Types, Offered
<1>6. eX_ShiftPressed' = ShiftAfter(driver, s) /\ eX_CapsLock' = CapsAfter(driver, s)
  BY <1>1, <1>4 DEF eX_Keyboard_HandleScancode, ModifierCode, ShiftAfter, CapsAfter
<1>7. eX_ExtendedScancode' = ExtendedAfter(s)
  BY <1>1 DEF eX_Keyboard_HandleScancode
<1>8. driver' = After(driver, s)
  BY <1>1, <1>4, <1>5, <1>6, <1>7, Zenon DEF After, driver
<1>9. PICK f : Runs(driver, kbc, f) /\ Agrees(f)
  BY DEF TypingInv
<1>10. Runs(driver', kbc', f)
  <2>1. Runs(After(driver, Head(kbc)), Tail(kbc), f)
    BY <1>1, <1>9, RunsTail
  <2> QED
    BY <1>1, <1>8, <2>1 DEF s
<1>11. Agrees(f)'
  BY <1>1, <1>9 DEF Agrees, userVars, ShiftHeld
<1>12. driver' \in Drivers
  BY <1>2, <1>3, <1>8, AfterParts
<1>13. OneShift' /\ held' \subseteq Keys /\ lamp' \in BOOLEAN /\ overlap' \in BOOLEAN
  BY <1>1 DEF TypingInv, OneShift, userVars
<1> QED
  BY <1>2, <1>10, <1>11, <1>12, <1>13 DEF TypingInv

\* What bytes behind the others leave to show.
LEMMA SendKeeps ==
  ASSUME TypingInv, NEW code \in Seq(0 .. 255), Send(code), decoded' = decoded
  PROVE  kbc' = kbc \o code /\ kbc' \in Seq(0 .. 255) /\ driver' = driver /\ driver' \in Drivers
<1>1. kbc' = kbc \o code /\ UNCHANGED modifiers /\ kbc \in Seq(0 .. 255) /\ driver \in Drivers
  BY DEF Send, TypingInv
<1>2. kbc' \in Seq(0 .. 255)
  BY <1>1, ConcatProperties
<1>3. driver' = driver
  BY <1>1 DEF driver, modifiers
<1> QED
  BY <1>1, <1>2, <1>3

\* The driver after a code of one byte, by what the byte is.
Shifted(f, g)   == ~g[1] /\ g[2] /\ g[3] = f[3] /\ g[4] = f[4]
Unshifted(f, g) == ~g[1] /\ ~g[2] /\ g[3] = f[3] /\ g[4] = f[4]
Locked(f, g)    == ~g[1] /\ g[2] = f[2] /\ g[3] = ~f[3] /\ g[4] = f[4]
Typed(f, s)     == IF Character(s, f[2], f[3]) = 0 THEN <<>> ELSE <<Character(s, f[2], f[3])>>
Struck(f, s, g) == ~g[1] /\ g[2] = f[2] /\ g[3] = f[3] /\ g[4] = f[4] \o Typed(f, s)

LEMMA AfterShift ==
  ASSUME NEW f \in Drivers, ~f[1], NEW s \in ShiftKeys
  PROVE  Shifted(f, After(f, s)) /\ Unshifted(f, After(f, s + 128))
<1> DEFINE r == s + 128
<1>1. /\ s \in 0 .. 255 /\ Code(s) = s /\ ~Released(s) /\ s # Extended /\ s # CapsLock
      /\ r \in 0 .. 255 /\ Code(r) = s /\ Released(r) /\ r # Extended /\ r # CapsLock
  BY ByteFacts
<1> HIDE DEF r
<1>2. f[4] \o <<>> = f[4]
  <2>1. f[4] \in Seq(0 .. 127)
    BY DEF Drivers
  <2> QED
    BY <2>1, ConcatEmptySeq
<1>3. /\ ShiftAfter(f, s) /\ CapsAfter(f, s) = f[3] /\ Types(f, s) = <<>> /\ ~ExtendedAfter(s)
      /\ ~ShiftAfter(f, r) /\ CapsAfter(f, r) = f[3] /\ Types(f, r) = <<>> /\ ~ExtendedAfter(r)
  BY <1>1 DEF ShiftAfter, CapsAfter, Types, ExtendedAfter
<1>4. Shifted(f, After(f, s))
  <2>1. /\ After(f, s)[1] = ExtendedAfter(s) /\ After(f, s)[2] = ShiftAfter(f, s)
        /\ After(f, s)[3] = CapsAfter(f, s) /\ After(f, s)[4] = f[4] \o Types(f, s)
    BY <1>1, AfterParts, Zenon
  <2> QED
    BY <1>2, <1>3, <2>1, Zenon DEF Shifted
<1>5. Unshifted(f, After(f, r))
  <2>1. /\ After(f, r)[1] = ExtendedAfter(r) /\ After(f, r)[2] = ShiftAfter(f, r)
        /\ After(f, r)[3] = CapsAfter(f, r) /\ After(f, r)[4] = f[4] \o Types(f, r)
    BY <1>1, AfterParts, Zenon
  <2> QED
    BY <1>2, <1>3, <2>1, Zenon DEF Unshifted
<1> QED
  BY <1>4, <1>5 DEF r

LEMMA AfterCaps ==
  ASSUME NEW f \in Drivers, ~f[1]
  PROVE  Locked(f, After(f, CapsLock))
<1> DEFINE s == CapsLock
<1>1. s \in 0 .. 255 /\ Code(s) = s /\ ~Released(s) /\ s # Extended /\ s \notin ShiftKeys
  BY ByteFacts
<1>2. f[4] \o <<>> = f[4]
  <2>1. f[4] \in Seq(0 .. 127)
    BY DEF Drivers
  <2> QED
    BY <2>1, ConcatEmptySeq
<1>3. ShiftAfter(f, s) = f[2] /\ CapsAfter(f, s) = ~f[3] /\ Types(f, s) = <<>> /\ ~ExtendedAfter(s)
  BY <1>1 DEF ShiftAfter, CapsAfter, Types, ExtendedAfter
<1> HIDE DEF s
<1>4. Locked(f, After(f, s))
  BY <1>1, <1>2, <1>3, AfterParts DEF Locked
<1> QED
  BY <1>4 DEF s

LEMMA AfterKey ==
  ASSUME NEW f \in Drivers, ~f[1], NEW s \in 0 .. 127, s \notin ShiftKeys, s # CapsLock
  PROVE  Struck(f, s, After(f, s))
<1>1. s \in 0 .. 255 /\ Code(s) = s /\ ~Released(s) /\ s # Extended
  BY ByteFacts
<1>2. ShiftAfter(f, s) = f[2] /\ CapsAfter(f, s) = f[3] /\ ~ExtendedAfter(s)
  BY <1>1 DEF ShiftAfter, CapsAfter, ExtendedAfter
<1>3. Types(f, s) = Typed(f, s)
  BY <1>1 DEF Types, Typed
<1> QED
  BY <1>1, <1>2, <1>3, AfterParts DEF Struck

\* A stroke appends a make code.
LEMMA StrokeKeeps ==
  ASSUME TypingInv, NEW k \in Keys, Stroke(k)
  PROVE  TypingInv'
<1>1. MakeCode[k] \in Seq(0 .. 255)
  BY KeyCodes
<1>2. /\ Send(MakeCode[k]) /\ held' = held \cup {k} /\ decoded' = decoded
      /\ lamp' = (IF MakeCode[k] = <<CapsLock>> THEN ~lamp ELSE lamp)
      /\ meant' = meant \o Meaning(k)
      /\ overlap' = (overlap \/ (IsShift(k) /\ \E j \in held \ {k} : IsShift(j)))
  BY DEF Stroke
<1>3. kbc' = kbc \o MakeCode[k] /\ kbc' \in Seq(0 .. 255) /\ driver' = driver /\ driver' \in Drivers
  BY <1>1, <1>2, SendKeeps
<1>4. kbc \in Seq(0 .. 255) /\ held \subseteq Keys /\ lamp \in BOOLEAN /\ overlap \in BOOLEAN /\ OneShift
  BY DEF TypingInv
<1>5. PICK f : Runs(driver, kbc, f) /\ Agrees(f)
  BY DEF TypingInv
<1>6. f \in Drivers /\ ~f[1] /\ f[4] \in Seq(0 .. 127) /\ f[3] \in BOOLEAN
  <2>1. f \in Drivers /\ ~f[1]
    BY <1>4, <1>5, RunsGrows DEF Agrees
  <2> QED
    BY <2>1 DEF Drivers
<1>7. f[4] \o <<>> = f[4]
  BY <1>6, ConcatEmptySeq
<1>8. held' \subseteq Keys /\ lamp' \in BOOLEAN /\ overlap' \in BOOLEAN
  BY <1>2, <1>4
<1>9. OneShift'
  <2> SUFFICES ASSUME ~overlap', NEW i \in held', NEW j \in held', IsShift(i), IsShift(j)
               PROVE  i = j
    BY DEF OneShift, IsShift
  <2>1. ~overlap /\ (IsShift(k) => \A l \in held \ {k} : ~IsShift(l))
    BY <1>2, <1>4
  <2> QED
    BY <1>2, <1>4, <2>1 DEF OneShift
<1>10. ShiftHeld' <=> ShiftHeld \/ IsShift(k)
  BY <1>2 DEF ShiftHeld, IsShift
<1>11. ~overlap' => ~overlap
  BY <1>2, <1>4
<1>12. SUFFICES \E g : Runs(driver', kbc', g) /\ Agrees(g)'
  BY <1>3, <1>8, <1>9 DEF TypingInv
<1>13. CASE Len(MakeCode[k]) > 1 /\ Mute(MakeCode[k])
  <2>1. Runs(driver, kbc \o MakeCode[k], f)
    BY <1>1, <1>4, <1>5, <1>6, <1>13, RunsMute
  <2>2. ~IsShift(k) /\ MakeCode[k] # <<CapsLock>> /\ Meaning(k) = <<>>
    <3>1. ASSUME NEW s, MakeCode[k] = <<s>> PROVE FALSE
      <4>1. Len(MakeCode[k]) = 1
        BY <3>1
      <4> QED
        BY <1>13, <4>1
    <3> QED
      BY <1>13, <3>1 DEF IsShift, Meaning
  <2>3. Agrees(f)'
    BY <1>2, <1>5, <1>7, <1>10, <1>11, <2>2 DEF Agrees
  <2> QED
    BY <1>3, <2>1, <2>3
<1>14. ASSUME NEW s \in 0 .. 127, MakeCode[k] = <<s>>
       PROVE  \E g : Runs(driver', kbc', g) /\ Agrees(g)'
  <2>1. PICK g : g = After(f, s)
    OBVIOUS
  <2>2. Runs(driver', kbc', g)
    <3>1. s \in 0 .. 255
      BY ByteFacts
    <3>2. Runs(driver, kbc \o <<s>>, After(f, s))
      BY <1>4, <1>5, <1>6, <3>1, RunsByte
    <3> QED
      BY <1>3, <1>14, <2>1, <3>2
  <2>3. /\ IsShift(k) <=> s \in ShiftKeys
        /\ MakeCode[k] = <<CapsLock>> <=> s = CapsLock
        /\ ~(Len(MakeCode[k]) > 1) /\ MakeCode[k][1] = s
    BY <1>14 DEF IsShift
  <2>5. CASE s \in ShiftKeys
    <3>0. Shifted(f, g)
      BY <1>6, <2>1, <2>5, AfterShift, Zenon
    <3>1. ~g[1] /\ g[2] /\ g[3] = f[3] /\ g[4] = f[4]
      BY <3>0 DEF Shifted
    <3>2. s # CapsLock /\ Meaning(k) = <<>>
      BY <2>3, <2>5, ByteFacts DEF Meaning
    <3>3. Agrees(g)'
      BY <1>2, <1>5, <1>7, <1>10, <1>11, <2>3, <2>5, <3>1, <3>2 DEF Agrees
    <3> QED
      BY <2>2, <3>3
  <2>6. CASE s = CapsLock
    <3>0. Locked(f, g)
      BY <1>6, <2>1, <2>6, AfterCaps, Zenon
    <3>1. ~g[1] /\ g[2] = f[2] /\ g[3] = ~f[3] /\ g[4] = f[4]
      BY <3>0 DEF Locked
    <3>2. s \notin ShiftKeys /\ Meaning(k) = <<>>
      BY <2>3, <2>6, ByteFacts DEF Meaning
    <3>3. Agrees(g)'
      BY <1>2, <1>4, <1>5, <1>6, <1>7, <1>10, <1>11, <2>3, <2>6, <3>1, <3>2 DEF Agrees
    <3> QED
      BY <2>2, <3>3
  <2>7. CASE s \notin ShiftKeys \cup {CapsLock}
    <3>0. Struck(f, s, g)
      <4>1. s \notin ShiftKeys /\ s # CapsLock
        BY <2>7
      <4> QED
        BY <1>6, <2>1, <4>1, AfterKey, Zenon
    <3>1. ~g[1] /\ g[2] = f[2] /\ g[3] = f[3]
      BY <3>0 DEF Struck
    <3>2. g[4] = f[4] \o IF Character(s, f[2], f[3]) = 0 THEN <<>> ELSE <<Character(s, f[2], f[3])>>
      BY <3>0, Zenon DEF Struck, Typed
    <3>3. Meaning(k) = IF Character(s, ShiftHeld, lamp) = 0 THEN <<>>
                       ELSE <<Character(s, ShiftHeld, lamp)>>
      BY <2>3, <2>7 DEF Meaning
    <3>4. ASSUME ~overlap PROVE Character(s, f[2], f[3]) = Character(s, ShiftHeld, lamp)
      <4>1. (f[2] <=> ShiftHeld) /\ (f[3] <=> lamp)
        BY <1>5, <3>4 DEF Agrees
      <4> QED
        BY <4>1 DEF Character
    <3>5. ~overlap => g[4] = meant'
      BY <1>2, <1>5, <3>2, <3>3, <3>4 DEF Agrees
    <3>6. Agrees(g)'
      BY <1>2, <1>5, <1>10, <1>11, <2>3, <2>7, <3>1, <3>5 DEF Agrees
    <3> QED
      BY <2>2, <3>6
  <2> QED
    BY <2>5, <2>6, <2>7
<1> QED
  BY <1>13, <1>14, KeyCodes

\* A release appends a break code.
LEMMA ReleaseKeeps ==
  ASSUME TypingInv, NEW k \in Keys, Release(k)
  PROVE  TypingInv'
<1>1. BreakCode[k] \in Seq(0 .. 255)
  BY KeyCodes
<1>2. /\ k \in held /\ Send(BreakCode[k]) /\ held' = held \ {k} /\ decoded' = decoded
      /\ UNCHANGED <<lamp, meant, overlap>>
  BY DEF Release
<1>3. kbc' = kbc \o BreakCode[k] /\ kbc' \in Seq(0 .. 255) /\ driver' = driver /\ driver' \in Drivers
  BY <1>1, <1>2, SendKeeps
<1>4. kbc \in Seq(0 .. 255) /\ held \subseteq Keys /\ lamp \in BOOLEAN /\ overlap \in BOOLEAN /\ OneShift
  BY DEF TypingInv
<1>5. PICK f : Runs(driver, kbc, f) /\ Agrees(f)
  BY DEF TypingInv
<1>6. f \in Drivers /\ ~f[1]
  BY <1>4, <1>5, RunsGrows DEF Agrees
<1>7. held' \subseteq Keys /\ lamp' \in BOOLEAN /\ overlap' \in BOOLEAN
  BY <1>2, <1>4
<1>8. OneShift'
  BY <1>2, <1>4 DEF OneShift, IsShift
<1>9. SUFFICES \E g : Runs(driver', kbc', g) /\ Agrees(g)'
  BY <1>3, <1>7, <1>8 DEF TypingInv
<1>10. CASE ~IsShift(k) /\ Mute(BreakCode[k])
  <2>1. Runs(driver, kbc \o BreakCode[k], f)
    BY <1>1, <1>4, <1>5, <1>6, <1>10, RunsMute
  <2>2. ShiftHeld' <=> ShiftHeld
    BY <1>2, <1>10 DEF ShiftHeld, IsShift
  <2>3. Agrees(f)'
    BY <1>2, <1>5, <2>2 DEF Agrees
  <2> QED
    BY <1>3, <2>1, <2>3
<1>11. ASSUME NEW s \in ShiftKeys, MakeCode[k] = <<s>>, BreakCode[k] = <<s + 128>>
       PROVE  \E g : Runs(driver', kbc', g) /\ Agrees(g)'
  <2>1. PICK g : g = After(f, s + 128)
    OBVIOUS
  <2>2. s \in 0 .. 127 /\ s + 128 \in 0 .. 255
    BY ByteFacts
  <2>3. Runs(driver', kbc', g)
    <3>1. Runs(driver, kbc \o <<s + 128>>, After(f, s + 128))
      BY <1>4, <1>5, <1>6, <2>2, RunsByte
    <3> QED
      BY <1>3, <1>11, <2>1, <3>1
  <2>4. ~g[1] /\ ~g[2] /\ g[3] = f[3] /\ g[4] = f[4]
    <3>1. Unshifted(f, g)
      BY <1>6, <2>1, AfterShift, Zenon
    <3> QED
      BY <3>1 DEF Unshifted
  <2>5. IsShift(k)
    BY <1>11 DEF IsShift
  <2>6. ~overlap => ~ShiftHeld'
    BY <1>2, <1>4, <2>5 DEF OneShift, ShiftHeld, IsShift
  <2>7. Agrees(g)'
    BY <1>2, <1>5, <2>4, <2>6 DEF Agrees
  <2> QED
    BY <2>3, <2>7
<1> QED
  BY <1>10, <1>11, KeyCodes

\* Every step keeps the invariant.
LEMMA TypingStep ==
  ASSUME TypingInv, [TypingNext]_typingVars
  PROVE  TypingInv'
<1>1. ASSUME UNCHANGED <<kbc, modifiers, userVars, decoded>> PROVE TypingInv'
  <2>1. PICK f : Runs(driver, kbc, f) /\ Agrees(f)
    BY DEF TypingInv
  <2>2. driver' = driver /\ kbc' = kbc
    BY <1>1 DEF driver, modifiers
  <2>3. Agrees(f)' /\ OneShift'
    BY <1>1, <2>1 DEF Agrees, userVars, ShiftHeld, OneShift, TypingInv
  <2> QED
    BY <1>1, <2>1, <2>2, <2>3 DEF TypingInv, userVars
<1>2. CASE Read
  BY <1>1, <1>2 DEF Read, eX_Keyboard_GetChar
<1>3. CASE UNCHANGED typingVars
  BY <1>1, <1>3 DEF typingVars, keyboardVars
<1> QED
  BY <1>2, <1>3, PollKeeps, StrokeKeeps, ReleaseKeeps DEF TypingNext

\* The strokes are decoded with the modifiers that were down when they were
\* made, for every set of keys, every buffer size and every controller.
THEOREM TypingDecoded == TypingSpec => []DecodedAsTyped
<1>1. TypingInit => TypingInv
  BY TypingInitInv
<1>2. TypingInv /\ [TypingNext]_typingVars => TypingInv'
  BY TypingStep
<1>3. TypingInv => DecodedAsTyped
  <2> SUFFICES ASSUME TypingInv, ~overlap
               PROVE  IsPrefix(decoded, meant) /\ (kbc = <<>> => decoded = meant)
    BY DEF DecodedAsTyped
  <2>1. PICK f : Runs(driver, kbc, f) /\ Agrees(f)
    BY DEF TypingInv
  <2>2. f[4] = meant
    BY <2>1 DEF Agrees
  <2>3. driver \in Drivers /\ driver[4] = decoded /\ decoded \in Seq(0 .. 127)
    BY DEF TypingInv, Drivers, driver
  <2> HIDE DEF driver
  <2>4. PICK r \in Seq(0 .. 127) : meant = decoded \o r
    <3>1. kbc \in Seq(0 .. 255)
      BY DEF TypingInv
    <3>2. Grows(driver, f)
      BY <2>1, <3>1, RunsGrows
    <3> QED
      BY <2>2, <2>3, <3>2, Zenon DEF Grows
  <2>5. IsPrefix(decoded, meant)
    <3>1. SubSeq(decoded \o r, 1, Len(decoded)) = decoded /\ SubSeq(decoded, 1, Len(decoded)) = decoded
      BY <2>3, <2>4, SubSeqOfConcat1, SubSeqFull
    <3>2. Len(decoded) <= Len(decoded \o r)
      BY <2>3, <2>4, ConcatProperties, LenProperties
    <3> QED
      BY <2>4, <3>1, <3>2 DEF IsPrefix
  <2>6. kbc = <<>> => decoded = meant
    BY <2>1, <2>2, <2>3, RunsNone
  <2> QED
    BY <2>5, <2>6
<1> QED
  BY <1>1, <1>2, <1>3, PTL DEF TypingSpec

\* No modifier sticks: when no byte waits, the driver's are the user's.
THEOREM TypingModifiers == TypingSpec => []ModifiersFollowKeys
<1>1. TypingInit => TypingInv
  BY TypingInitInv
<1>2. TypingInv /\ [TypingNext]_typingVars => TypingInv'
  BY TypingStep
<1>3. TypingInv => ModifiersFollowKeys
  <2> SUFFICES ASSUME TypingInv, kbc = <<>>
               PROVE  /\ ~eX_ExtendedScancode
                      /\ eX_CapsLock = lamp
                      /\ eX_ShiftPressed => ShiftHeld
                      /\ ~overlap => (ShiftHeld => eX_ShiftPressed)
    BY DEF ModifiersFollowKeys
  <2>1. PICK f : Runs(driver, kbc, f) /\ Agrees(f)
    BY DEF TypingInv
  <2>2. driver \in Drivers /\ lamp \in BOOLEAN
    BY DEF TypingInv
  <2>3. Agrees(driver)
    BY <2>1, <2>2, RunsNone
  <2>4. /\ driver[1] = eX_ExtendedScancode /\ driver[2] = eX_ShiftPressed
        /\ driver[3] = eX_CapsLock /\ driver[3] \in BOOLEAN
    BY <2>2 DEF Drivers, driver
  <2> HIDE DEF driver
  <2> QED
    BY <2>2, <2>3, <2>4 DEF Agrees
<1> QED
  BY <1>1, <1>2, <1>3, PTL DEF TypingSpec
=============================================================================
