------------------------------ MODULE Keyboard ------------------------------
(***************************************************************************)
(* The PS/2 keyboard driver (src/src/keyboard.c): it reads scancodes (set  *)
(* 1) from the controller, keeps the state of the modifiers, translates to *)
(* ASCII, and hands characters to the shell through a ring buffer.         *)
(*                                                                         *)
(* The kernel polls, so a step of the driver is one scancode or one call   *)
(* of eX_Keyboard_GetChar; scancodes arrive between any two of them.       *)
(***************************************************************************)
EXTENDS Integers, Sequences

CONSTANTS
  eX_KEYBOARD_BUFFER_SIZE,
  Scancodes,     \* bytes the keyboard may send
  KBC_CAPACITY   \* bytes that wait in the keyboard and its controller

ASSUME KeyboardAssumption ==
  /\ eX_KEYBOARD_BUFFER_SIZE \in 1 .. 256    \* the indices are uint8_t
  /\ Scancodes \subseteq 0 .. 255
  /\ KBC_CAPACITY \in Nat

VARIABLES
  kbc,                    \* bytes the controller has not handed over yet
  eX_KeyboardBuffer,
  eX_KeyboardReadIndex,
  eX_KeyboardWriteIndex,
  eX_ShiftPressed,
  eX_CapsLock,
  eX_ExtendedScancode,
  got,                    \* what eX_Keyboard_GetChar returned last
  drop                    \* flips when a full buffer refuses a character

ring == <<eX_KeyboardBuffer, eX_KeyboardReadIndex, eX_KeyboardWriteIndex, got, drop>>
modifiers == <<eX_ShiftPressed, eX_CapsLock, eX_ExtendedScancode>>
keyboardVars == <<kbc, ring, modifiers>>

NoChar == -1

\* The state after eX_Keyboard_Init; the buffer is in the BSS.
eX_Keyboard_Init ==
  /\ kbc = <<>>
  /\ eX_KeyboardBuffer = [n \in 0 .. eX_KEYBOARD_BUFFER_SIZE - 1 |-> 0]
  /\ eX_KeyboardReadIndex = 0
  /\ eX_KeyboardWriteIndex = 0
  /\ eX_ShiftPressed = FALSE
  /\ eX_CapsLock = FALSE
  /\ eX_ExtendedScancode = FALSE
  /\ got = NoChar
  /\ drop = FALSE

-----------------------------------------------------------------------------
(* Scancodes to characters                                                 *)

\* 1234567890-= BS TAB / qwertyuiop[] NL / asdfghjkl;'` / \zxcvbnm,./ / SPACE;
\* the designated initializer leaves the other entries 0.
eX_KeyboardNormal ==
  [k \in 0 .. 127 |->
    CASE k \in \h02 .. \h0F -> <<49, 50, 51, 52, 53, 54, 55, 56, 57, 48, 45, 61, 8, 9>>[k - \h01]
      [] k \in \h10 .. \h1C -> <<113, 119, 101, 114, 116, 121, 117, 105, 111, 112, 91, 93, 10>>[k - \h0F]
      [] k \in \h1E .. \h29 -> <<97, 115, 100, 102, 103, 104, 106, 107, 108, 59, 39, 96>>[k - \h1D]
      [] k \in \h2B .. \h35 -> <<92, 122, 120, 99, 118, 98, 110, 109, 44, 46, 47>>[k - \h2A]
      [] k = \h39           -> 32
      [] OTHER              -> 0]

\* !@#$%^&*()_+ / QWERTYUIOP{} / ASDFGHJKL:"~ / |ZXCVBNM<>? / SPACE
eX_KeyboardShift ==
  [k \in 0 .. 127 |->
    CASE k \in \h02 .. \h0D -> <<33, 64, 35, 36, 37, 94, 38, 42, 40, 41, 95, 43>>[k - \h01]
      [] k \in \h10 .. \h1B -> <<81, 87, 69, 82, 84, 89, 85, 73, 79, 80, 123, 125>>[k - \h0F]
      [] k \in \h1E .. \h29 -> <<65, 83, 68, 70, 71, 72, 74, 75, 76, 58, 34, 126>>[k - \h1D]
      [] k \in \h2B .. \h35 -> <<124, 90, 88, 67, 86, 66, 78, 77, 60, 62, 63>>[k - \h2A]
      [] k = \h39           -> 32
      [] OTHER              -> 0]

Lower == 97 .. 122   \* 'a' .. 'z'
Upper == 65 .. 90    \* 'A' .. 'Z'

\* Variant: caps lock makes letters upper case, never lower case.
CharacterCapsOnlyRaises(code, shift, caps) ==
  LET c == IF shift THEN eX_KeyboardShift[code] ELSE eX_KeyboardNormal[code]
  IN  IF caps /\ c \in Lower THEN c - 97 + 65 ELSE c

\* The character of a make code, 0 for none: Shift chooses the table, caps
\* lock swaps the case of a letter.
Character(code, shift, caps) ==
  LET c == IF shift THEN eX_KeyboardShift[code] ELSE eX_KeyboardNormal[code]
  IN  CASE caps /\ c \in Lower -> c - 97 + 65
        [] caps /\ c \in Upper -> c - 65 + 97
        [] OTHER               -> c

-----------------------------------------------------------------------------
(* The ring buffer                                                         *)

\* The index after this one.
Following(index) == (index + 1) % eX_KEYBOARD_BUFFER_SIZE

\* Variants: no test for a full buffer; the buffer counts as full while two
\* slots are left.
PushCharUnchecked(c) ==
  /\ eX_KeyboardBuffer' = [eX_KeyboardBuffer EXCEPT ![eX_KeyboardWriteIndex] = c]
  /\ eX_KeyboardWriteIndex' = Following(eX_KeyboardWriteIndex)
  /\ UNCHANGED <<eX_KeyboardReadIndex, got, drop>>
PushCharEarlyFull(c) ==
  IF eX_KeyboardReadIndex = Following(Following(eX_KeyboardWriteIndex))
    THEN /\ drop' = ~drop
         /\ UNCHANGED <<eX_KeyboardBuffer, eX_KeyboardReadIndex, eX_KeyboardWriteIndex, got>>
    ELSE PushCharUnchecked(c)

eX_Keyboard_PushChar(c) ==
  LET next == Following(eX_KeyboardWriteIndex) IN
  \/ /\ next = eX_KeyboardReadIndex
     /\ drop' = ~drop
     /\ UNCHANGED <<eX_KeyboardBuffer, eX_KeyboardReadIndex, eX_KeyboardWriteIndex, got>>
  \/ /\ next # eX_KeyboardReadIndex
     /\ eX_KeyboardBuffer' = [eX_KeyboardBuffer EXCEPT ![eX_KeyboardWriteIndex] = c]
     /\ eX_KeyboardWriteIndex' = next
     /\ UNCHANGED <<eX_KeyboardReadIndex, got, drop>>

eX_Keyboard_GetChar ==
  /\ \/ /\ eX_KeyboardReadIndex = eX_KeyboardWriteIndex
        /\ got' = NoChar
        /\ UNCHANGED eX_KeyboardReadIndex
     \/ /\ eX_KeyboardReadIndex # eX_KeyboardWriteIndex
        /\ got' = eX_KeyboardBuffer[eX_KeyboardReadIndex]
        /\ eX_KeyboardReadIndex' = Following(eX_KeyboardReadIndex)
  /\ UNCHANGED <<kbc, eX_KeyboardBuffer, eX_KeyboardWriteIndex, drop, modifiers>>

-----------------------------------------------------------------------------
(* Scancode handling                                                       *)

Extended  == \hE0
CapsLock  == \h3A
ShiftKeys == {\h2A, \h36}

Released(scancode) == scancode >= 128
Code(scancode)     == scancode % 128

\* What eX_Keyboard_HandleScancode passes to eX_Keyboard_PushChar: one
\* character, or none.
Offered(scancode) ==
  LET c == Character(Code(scancode), eX_ShiftPressed, eX_CapsLock)
  IN  IF \/ scancode = Extended
         \/ eX_ExtendedScancode
         \/ Code(scancode) \in ShiftKeys \cup {CapsLock}
         \/ Released(scancode)
         \/ c = 0
        THEN <<>> ELSE <<c>>

\* Variant: a prefix is not remembered.
ExtendedAfterNever(scancode) == FALSE

\* The prefix is remembered for one byte, whatever that byte is.
ExtendedAfter(scancode) == scancode = Extended

\* Variant: a shift code is looked at even after a prefix.
ModifierCodeAlways(scancode) == scancode # Extended

\* The byte may change a modifier: it is no prefix and follows none.
ModifierCode(scancode) == scancode # Extended /\ ~eX_ExtendedScancode

eX_Keyboard_HandleScancode(scancode) ==
  /\ eX_ExtendedScancode' = ExtendedAfter(scancode)
  /\ eX_ShiftPressed' =
       IF ModifierCode(scancode) /\ Code(scancode) \in ShiftKeys
         THEN ~Released(scancode) ELSE eX_ShiftPressed
  /\ eX_CapsLock' =
       IF ModifierCode(scancode) /\ scancode = CapsLock
         THEN ~eX_CapsLock ELSE eX_CapsLock
  /\ \/ /\ Offered(scancode) = <<>>
        /\ UNCHANGED ring
     \/ /\ Offered(scancode) # <<>>
        /\ eX_Keyboard_PushChar(Head(Offered(scancode)))

\* One turn of the loop of eX_Keyboard_Poll: the status port says that a byte
\* is there, the data port hands it over.
eX_Keyboard_Poll ==
  /\ kbc # <<>>
  /\ kbc' = Tail(kbc)
  /\ eX_Keyboard_HandleScancode(Head(kbc))

\* The keyboard sends the bytes of a key (external).
Send(bytes) ==
  /\ Len(kbc) + Len(bytes) <= KBC_CAPACITY
  /\ kbc' = kbc \o bytes
  /\ UNCHANGED <<ring, modifiers>>

Next ==
  \/ \E s \in Scancodes : Send(<<s>>)
  \/ eX_Keyboard_Poll
  \/ eX_Keyboard_GetChar

Spec == eX_Keyboard_Init /\ [][Next]_keyboardVars

-----------------------------------------------------------------------------
(***************************************************************************)
(* Properties.                                                             *)
(***************************************************************************)

\* Whatever the modifiers are, every key types with caps lock on what it types
\* with the other state of Shift if it is a letter, and what it types without
\* caps lock if not: the two tables agree on which keys are letters
\* (keyboard.c:84-197, 238-242).
CapsLockIsShiftForLetters ==
  \A code \in 0 .. 127 :
    LET swapped == eX_CapsLock /\ eX_KeyboardNormal[code] \in Lower
    IN  Character(code, eX_ShiftPressed, eX_CapsLock) =
          Character(code, IF swapped THEN ~eX_ShiftPressed ELSE eX_ShiftPressed, FALSE)

\* How many characters wait in the ring buffer, and which, oldest first.
Waiting == (eX_KeyboardWriteIndex - eX_KeyboardReadIndex) % eX_KEYBOARD_BUFFER_SIZE
Queue ==
  [k \in 1 .. Waiting |->
    eX_KeyboardBuffer[(eX_KeyboardReadIndex + k - 1) % eX_KEYBOARD_BUFFER_SIZE]]

\* The characters that some key types.
Typeable ==
  {Character(k[1], k[2], k[3]) : k \in (0 .. 127) \X BOOLEAN \X BOOLEAN} \ {0}

Abstract == INSTANCE CharQueue WITH
  queue <- Queue, Capacity <- eX_KEYBOARD_BUFFER_SIZE - 1, Chars <- Typeable

\* The ring buffer is a queue of one character less than it has slots: both
\* indices may wrap any number of times, and no character is lost, doubled,
\* overtaken or overwritten except the newest one when the buffer is full
\* (keyboard.c:45).
ImplementsQueue == Abstract!Spec
=============================================================================
