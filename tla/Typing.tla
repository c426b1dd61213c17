------------------------------- MODULE Typing -------------------------------
(***************************************************************************)
(* The keyboard driver and the keyboard in the user's hands: keys go down, *)
(* repeat and come up, and send the make and break codes of scancode set 1 *)
(* (external, modelled from the codes that keyboard.c tells apart).  What  *)
(* the driver makes of the bytes, later, is compared with the keys that    *)
(* were down when a key was struck.                                        *)
(***************************************************************************)
EXTENDS Keyboard, SequencesExt

CONSTANTS
  Keys,
  MakeCode,    \* MakeCode[k]: bytes sent when k goes down and when it repeats
  BreakCode,   \* BreakCode[k]: bytes sent when k comes up
  MaxStrokes   \* bound on the strokes

IsShift(k) == \E s \in ShiftKeys : MakeCode[k] = <<s>>

\* A byte that changes no modifier and types nothing.
Idle(s) ==
  /\ Code(s) \notin ShiftKeys /\ s # CapsLock
  /\ Released(s) \/ (eX_KeyboardNormal[Code(s)] = 0 /\ eX_KeyboardShift[Code(s)] = 0)

\* A code that types nothing: its bytes are prefixes, follow one, or are idle.
Mute(code) ==
  /\ code # <<>> /\ code[Len(code)] # Extended
  /\ \A i \in 1 .. Len(code) :
       code[i] = Extended \/ (i > 1 /\ code[i - 1] = Extended) \/ Idle(code[i])

\* In scancode set 1 a key has one make code below 128, or is one of the keys
\* whose longer codes the driver ignores; only Shift has a break code that
\* matters, its make code with the top bit set.
ASSUME TypingAssumption ==
  /\ MakeCode \in [Keys -> Seq(Scancodes)]
  /\ BreakCode \in [Keys -> Seq(Scancodes)]
  /\ \A k \in Keys :
       /\ \/ \E s \in 0 .. 127 : MakeCode[k] = <<s>>
          \/ Len(MakeCode[k]) > 1 /\ Mute(MakeCode[k])
       /\ \/ \E s \in ShiftKeys : MakeCode[k] = <<s>> /\ BreakCode[k] = <<s + 128>>
          \/ ~IsShift(k) /\ Mute(BreakCode[k])
  /\ MaxStrokes \in Nat

VARIABLES
  held,       \* keys that are down
  lamp,       \* caps lock, as the user has set it
  strokes,    \* strokes so far
  meant,      \* characters the user has typed
  decoded,    \* characters the driver has offered to its buffer
  overlap     \* both Shift keys were down at the same time

userVars == <<held, lamp, strokes, meant, overlap>>
typingVars == <<keyboardVars, userVars, decoded>>

ShiftHeld == \E k \in held : IsShift(k)

\* What a stroke of k means: a key with one make code is the table's entry
\* for the Shift keys that are down now; the keys with a prefix, the modifiers
\* and Pause type nothing.
Meaning(k) ==
  IF Len(MakeCode[k]) > 1 \/ IsShift(k) \/ MakeCode[k] = <<CapsLock>> THEN <<>>
  ELSE LET c == Character(MakeCode[k][1], ShiftHeld, lamp)
       IN  IF c = 0 THEN <<>> ELSE <<c>>

TypingInit ==
  /\ eX_Keyboard_Init
  /\ held = {} /\ lamp = FALSE /\ strokes = 0
  /\ meant = <<>> /\ decoded = <<>> /\ overlap = FALSE

\* A key goes down, or repeats (external).
Stroke(k) ==
  /\ strokes < MaxStrokes
  /\ Send(MakeCode[k])
  /\ held' = held \cup {k}
  /\ lamp' = IF MakeCode[k] = <<CapsLock>> THEN ~lamp ELSE lamp
  /\ strokes' = strokes + 1
  /\ meant' = meant \o Meaning(k)
  /\ overlap' = (overlap \/ (IsShift(k) /\ \E j \in held \ {k} : IsShift(j)))
  /\ UNCHANGED decoded

\* A key comes up (external).
Release(k) ==
  /\ k \in held
  /\ Send(BreakCode[k])
  /\ held' = held \ {k}
  /\ UNCHANGED <<lamp, strokes, meant, decoded, overlap>>

Poll ==
  /\ eX_Keyboard_Poll
  /\ decoded' = decoded \o Offered(Head(kbc))
  /\ UNCHANGED userVars

Read ==
  /\ eX_Keyboard_GetChar
  /\ UNCHANGED <<userVars, decoded>>

TypingNext ==
  \/ \E k \in Keys : Stroke(k) \/ Release(k)
  \/ Poll
  \/ Read

TypingSpec == TypingInit /\ [][TypingNext]_typingVars

-----------------------------------------------------------------------------
(***************************************************************************)
(* Properties.                                                             *)
(***************************************************************************)

\* The bytes of several keys may wait in the controller when the modifiers
\* have already changed again, and still every stroke is decoded with the
\* modifiers that were down when it was made: the characters offered to the
\* buffer are the ones typed, in that order, as long as the two Shift keys are
\* not down together (eX_ShiftPressed is one flag for both, keyboard.c:214).
DecodedAsTyped ==
  ~overlap => /\ IsPrefix(decoded, meant)
              /\ kbc = <<>> => decoded = meant

\* When no byte waits, the driver is not in the middle of a prefixed code, its
\* caps lock is the user's, and Shift is on only if a Shift key is down: no
\* modifier sticks, and the fake Shift codes that navigation keys send around
\* their own are not taken for a Shift key (keyboard.c:203-224).
ModifiersFollowKeys ==
  kbc = <<>> =>
    /\ ~eX_ExtendedScancode
    /\ eX_CapsLock = lamp
    /\ eX_ShiftPressed => ShiftHeld
    /\ ~overlap => (ShiftHeld => eX_ShiftPressed)
=============================================================================
