------------------------------- MODULE Shell --------------------------------
(***************************************************************************)
(* The shell (src/src/shell.c): it edits one line in a fixed buffer and    *)
(* runs it when Enter arrives, echoing everything on the console.          *)
(*                                                                         *)
(* The texts and the names of the commands are constants.  The handling of *)
(* one character is one step: nothing else writes to the console while the *)
(* shell runs.                                                             *)
(***************************************************************************)
EXTENDS Console

CONSTANTS
  eX_SHELL_BUFFER_SIZE,
  Prompt,          \* "eyaX> "
  Help, HelpText,  \* the command and what it prints, and so on
  Clear,
  Version, VersionText,
  UnknownText,     \* "Unknown command: "
  Input,           \* characters the keyboard delivers
  MaxRow           \* bound on the cursor's row

NUL       == 0
BackSpace == 8
Printable == 32 .. 126

ASSUME ShellAssumption ==
  /\ eX_SHELL_BUFFER_SIZE \in Nat \ {0}
  /\ \A text \in {Prompt, Help, Clear, Version, UnknownText} : text \in Seq(Printable)
  \* What a command prints are complete lines.
  /\ \A text \in {HelpText, VersionText} :
       /\ text \in Seq(Printable \cup {NewLine})
       /\ text # <<>> /\ text[Len(text)] = NewLine
  /\ Input \subseteq 0 .. 127
  /\ MaxRow \in Nat

VARIABLES
  eX_ShellBuffer,
  eX_ShellLength,
  console,
  answer           \* the last line entered, and whether it is a command

shellVars == <<eX_ShellBuffer, eX_ShellLength, console, answer>>

\* The buffer is in the BSS; eX_Shell_Init prints the first prompt.
eX_Shell_Init ==
  /\ eX_ShellBuffer = [n \in 0 .. eX_SHELL_BUFFER_SIZE - 1 |-> NUL]
  /\ eX_ShellLength = 0
  /\ console = eX_PrintString(ClearedConsole, Prompt)
  /\ answer = [known |-> FALSE, text |-> <<>>]

-----------------------------------------------------------------------------

\* Variant: the console goes back although the line is empty.
BackspaceOnEmptyLine ==
  /\ eX_ShellLength' = IF eX_ShellLength = 0 THEN 0 ELSE eX_ShellLength - 1
  /\ console' = eX_Backspace(console)
  /\ UNCHANGED <<eX_ShellBuffer, answer>>

eX_Shell_Backspace ==
  \/ /\ eX_ShellLength = 0
     /\ UNCHANGED shellVars
  \/ /\ eX_ShellLength # 0
     /\ eX_ShellLength' = eX_ShellLength - 1
     /\ console' = eX_Backspace(console)
     /\ UNCHANGED <<eX_ShellBuffer, answer>>

\* The C string at the start of a buffer: what precedes the first NUL.
CString(buffer) ==
  LET end == CHOOSE n \in DOMAIN buffer :
               buffer[n] = NUL /\ \A m \in 0 .. n - 1 : buffer[m] # NUL
  IN  [k \in 1 .. end |-> buffer[k - 1]]

\* The loop over both strings ends at the first difference or the first end.
eX_Shell_StringEquals(buffer, text) == CString(buffer) = text

\* Variant: the string is not terminated.
TerminatedNever(buffer, length) == buffer

Terminated(buffer, length) == [buffer EXCEPT ![length] = NUL]

\* What a terminated buffer prints below the line.
Reply(con, buffer) ==
  CASE eX_Shell_StringEquals(buffer, Help)    -> eX_PrintString(con, HelpText)
    [] eX_Shell_StringEquals(buffer, Clear)   -> eX_Clear(con)
    [] eX_Shell_StringEquals(buffer, Version) -> eX_PrintString(con, VersionText)
    [] OTHER ->
         IF eX_ShellLength > 0
           THEN eX_PrintString(con, UnknownText \o CString(buffer) \o <<NewLine>>)
           ELSE con

eX_Shell_Enter ==
  LET buffer == Terminated(eX_ShellBuffer, eX_ShellLength) IN
  /\ console.y < MaxRow
  /\ eX_ShellBuffer' = buffer
  /\ console' = eX_PrintString(Reply(eX_PrintChar(console, NewLine), buffer), Prompt)
  /\ eX_ShellLength' = 0
  /\ answer' = [known |-> \E name \in {Help, Clear, Version} :
                            eX_Shell_StringEquals(buffer, name),
                text |-> CString(buffer)]

\* Variant: the last byte of the buffer is used for a character too.
FullAtSize(length) == length >= eX_SHELL_BUFFER_SIZE

\* The line takes no further character: one byte is kept for the terminator.
Full(length) == length >= eX_SHELL_BUFFER_SIZE - 1

eX_Shell_Character(c) ==
  \/ /\ Full(eX_ShellLength)
     /\ UNCHANGED shellVars
  \/ /\ ~Full(eX_ShellLength)
     /\ eX_ShellBuffer' = [eX_ShellBuffer EXCEPT ![eX_ShellLength] = c]
     /\ eX_ShellLength' = eX_ShellLength + 1
     /\ console' = eX_PrintChar(console, c)
     /\ UNCHANGED answer

\* One turn of the loop of eX_Shell_Update, with the character received.
eX_Shell_Update(c) ==
  \/ c = NewLine /\ eX_Shell_Enter
  \/ c = BackSpace /\ eX_Shell_Backspace
  \/ c \in Printable /\ eX_Shell_Character(c)
  \/ c \notin Printable \cup {NewLine, BackSpace} /\ UNCHANGED shellVars

Next == \E c \in Input : eX_Shell_Update(c)

Spec == eX_Shell_Init /\ [][Next]_shellVars

-----------------------------------------------------------------------------
(***************************************************************************)
(* Properties.                                                             *)
(***************************************************************************)

\* The line the user is editing.
Line == [k \in 1 .. eX_ShellLength |-> eX_ShellBuffer[k - 1]]

\* The shell's variables stay in their ranges; the terminator always has room.
TypeOK ==
  /\ eX_ShellBuffer \in [0 .. eX_SHELL_BUFFER_SIZE - 1 -> 0 .. 127]
  /\ eX_ShellLength \in 0 .. eX_SHELL_BUFFER_SIZE - 1
  /\ console \in Consoles

Editor == INSTANCE LineEditor WITH
  line <- Line, MaxLine <- eX_SHELL_BUFFER_SIZE - 1, Chars <- Printable,
  Commands <- {Help, Clear, Version}

\* Whatever older, longer lines have left in the buffer, the line that is run
\* is exactly what was typed since the last Enter with the erased characters
\* taken out and the ones beyond the limit never added (shell.c:52-74).
ImplementsLineEditor == Editor!Spec

\* The cursor is always behind the line: the shell erases only characters of
\* the line and never eats into the prompt, whatever a command has printed and
\* wherever it has left the cursor.
PromptTracksLine == console.x = Len(Prompt) + eX_ShellLength

\* No line of the text is longer than a row of the framebuffer.
Fits(text) ==
  \A n \in 0 .. Len(text) - Columns - 1 :
    \E k \in n + 1 .. n + Columns + 1 : text[k] = NewLine

\* The longest line and the longest answers fit a row of the framebuffer.
WideEnough ==
  /\ \A text \in {Prompt, UnknownText} : Len(text) + eX_SHELL_BUFFER_SIZE - 1 <= Columns
  /\ Fits(HelpText) /\ Fits(VersionText)

\* On a framebuffer that is wide enough, the row of the cursor shows the prompt
\* and the line, and blanks behind it and for the characters that the font
\* lacks: nothing erased stays visible, and no earlier output is left where the
\* prompt comes to stand.
LineOnScreen ==
  WideEnough /\ console.y < Rows =>
    \A x \in 0 .. Columns - 1 :
      console.cells[<<x, console.y>>] =
        LET shown == Prompt \o Line
        IN  IF x < Len(shown) THEN Look(shown[x + 1]) ELSE Space

\* There is no scrolling and no test for the last row (main.c:1121, 167), so
\* the cursor can leave the framebuffer; but on one that is wide enough no
\* pixel is written past its end by a step that leaves the cursor on it.
OutsideOnlyBelow ==
  [][WideEnough /\ console'.outside # console.outside => console'.y >= Rows]_shellVars
=============================================================================
