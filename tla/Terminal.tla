------------------------------ MODULE Terminal ------------------------------
(***************************************************************************)
(* The kernel's main loop (src/src/main.c, the end of kmain): it polls the *)
(* keyboard until the controller is empty, then lets the shell handle the  *)
(* characters until the ring buffer is empty, forever.                     *)
(*                                                                         *)
(* The driver's and the shell's loops take one step for each turn, and the *)
(* keyboard may send a byte between any two.                               *)
(***************************************************************************)
EXTENDS Keyboard, SequencesExt

CONSTANTS
  Columns, Pitch, Rows, Garbled,
  eX_SHELL_BUFFER_SIZE, Prompt, Help, HelpText, Clear, Version, VersionText,
  UnknownText,
  MaxBytes       \* bound on the bytes the keyboard sends

ASSUME TerminalAssumption ==
  /\ eX_SHELL_BUFFER_SIZE \in Nat \ {0}
  /\ MaxBytes \in Nat

VARIABLES
  eX_ShellBuffer, eX_ShellLength, console, answer,
  pc,            \* the loop that is running: "poll" or "update"
  arrived,       \* the bytes sent so far
  lost,          \* a character was refused by the full ring buffer
  round          \* bytes polled since the shell has last emptied the buffer

\* A line feed for each byte, and the lines of the help, at most.
S == INSTANCE Shell WITH
  Input <- 0 .. 127, MaxRow <- MaxBytes * (2 + Len(HelpText))

shellVars == <<eX_ShellBuffer, eX_ShellLength, console, answer>>
terminalVars == <<keyboardVars, shellVars, pc, arrived, lost, round>>

\* kmain enters the loop with a prompt on the row below the boot log
\* (main.c:1852-2016); the model leaves the log out and has the prompt on the
\* first row.  Nothing below the prompt has been drawn on in either case.
TerminalInit ==
  /\ eX_Keyboard_Init
  /\ S!eX_Shell_Init
  /\ pc = "poll"
  /\ arrived = <<>>
  /\ lost = FALSE
  /\ round = 0

ByteArrives(s) ==
  /\ Len(arrived) < MaxBytes
  /\ Send(<<s>>)
  /\ arrived' = Append(arrived, s)
  /\ UNCHANGED <<shellVars, pc, lost, round>>

PollByte ==
  /\ pc = "poll"
  /\ eX_Keyboard_Poll
  /\ lost' = (lost \/ drop' # drop)
  /\ round' = round + 1
  /\ UNCHANGED <<shellVars, pc, arrived>>

\* Variant: the shell gets no turn.
PollDoneAgain ==
  /\ pc = "poll"
  /\ kbc = <<>>
  /\ UNCHANGED terminalVars

PollDone ==
  /\ pc = "poll"
  /\ kbc = <<>>
  /\ pc' = "update"
  /\ UNCHANGED <<keyboardVars, shellVars, arrived, lost, round>>

UpdateChar ==
  /\ pc = "update"
  /\ eX_Keyboard_GetChar
  /\ \E c \in 0 .. 127 : got' = c /\ S!eX_Shell_Update(c)
  /\ UNCHANGED <<pc, arrived, lost, round>>

UpdateDone ==
  /\ pc = "update"
  /\ eX_Keyboard_GetChar
  /\ got' = NoChar
  /\ pc' = "poll"
  /\ round' = 0
  /\ UNCHANGED <<shellVars, arrived, lost>>

MainLoop == PollByte \/ PollDone \/ UpdateChar \/ UpdateDone

TerminalNext == MainLoop \/ \E s \in Scancodes : ByteArrives(s)

\* The processor keeps executing the loop; nobody has to type.
TerminalSpec == TerminalInit /\ [][TerminalNext]_terminalVars /\ WF_terminalVars(MainLoop)

-----------------------------------------------------------------------------
(***************************************************************************)
(* Properties.                                                             *)
(***************************************************************************)

\* What a byte means to a user who types without haste, on a transcript of
\* the modifiers, the line being edited and the last line entered.
Understand(t, s) ==
  LET c == Character(Code(s), t.shift, t.caps) IN
  IF s = Extended               THEN [t EXCEPT !.prefix = TRUE]
  ELSE IF t.prefix              THEN [t EXCEPT !.prefix = FALSE]
  ELSE IF Code(s) \in ShiftKeys THEN [t EXCEPT !.shift = ~Released(s)]
  ELSE IF s = CapsLock          THEN [t EXCEPT !.caps = ~@]
  ELSE IF Released(s)           THEN t
  ELSE CASE c = S!NewLine     -> [t EXCEPT !.line = <<>>, !.entered = t.line]
         [] c = S!BackSpace   -> [t EXCEPT !.line = IF @ = <<>> THEN @ ELSE Front(@)]
         [] c \in S!Printable -> [t EXCEPT !.line = IF Len(@) < eX_SHELL_BUFFER_SIZE - 1
                                                    THEN Append(@, c) ELSE @]
         [] OTHER             -> t

Blank == [prefix |-> FALSE, shift |-> FALSE, caps |-> FALSE, line |-> <<>>, entered |-> <<>>]

Transcript(bytes) ==
  LET after[n \in 0 .. Len(bytes)] ==
        IF n = 0 THEN Blank ELSE Understand(after[n - 1], bytes[n])
  IN  after[Len(bytes)]

\* However the bytes, the polling and the shell interleave: when nothing waits
\* and nothing was refused, the shell edits, and has last run, what the bytes
\* mean one by one in the order they were sent.
TranscriptExact ==
  kbc = <<>> /\ Queue = <<>> /\ ~lost =>
    /\ S!Line = Transcript(arrived).line
    /\ answer.text = Transcript(arrived).entered

\* A character is lost only in a burst: as many bytes as the ring buffer can
\* hold characters were polled since the shell has emptied it, so nothing that
\* was typed before the burst takes up room (keyboard.c:45, main.c:2018-2021).
LostOnlyInBursts ==
  [][drop' # drop => round >= eX_KEYBOARD_BUFFER_SIZE - 1]_terminalVars

\* Every byte is handled, and every character is taken by the shell: the loop
\* over the controller and the loop over the buffer both come to an end when
\* the user pauses.
EverythingHandled ==
  kbc # <<>> \/ eX_KeyboardReadIndex # eX_KeyboardWriteIndex
    ~> kbc = <<>> /\ eX_KeyboardReadIndex = eX_KeyboardWriteIndex
=============================================================================
