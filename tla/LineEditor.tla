----------------------------- MODULE LineEditor -----------------------------
(***************************************************************************)
(* What the shell promises: a line that grows at its end up to a limit,    *)
(* shrinks at its end, and is looked up among the commands, as a whole,    *)
(* when it is entered.                                                     *)
(***************************************************************************)
EXTENDS Integers, Sequences, SequencesExt

CONSTANTS
  MaxLine,     \* the longest line
  Chars,       \* the characters a line is made of
  Commands     \* the names of the commands

VARIABLES
  line,        \* the characters entered and not taken back
  answer       \* the last line entered, and whether it is a command

vars == <<line, answer>>

Init ==
  /\ line = <<>>
  /\ answer = [known |-> FALSE, text |-> <<>>]

Type(c) ==
  /\ Len(line) < MaxLine
  /\ line' = Append(line, c)
  /\ UNCHANGED answer

Erase ==
  /\ line # <<>>
  /\ line' = Front(line)
  /\ UNCHANGED answer

Enter ==
  /\ answer' = [known |-> line \in Commands, text |-> line]
  /\ line' = <<>>

Next == Erase \/ Enter \/ \E c \in Chars : Type(c)

Spec == Init /\ [][Next]_vars
=============================================================================
