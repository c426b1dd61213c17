----------------------------- MODULE MCRoutines -----------------------------
(***************************************************************************)
(* TLC instance of Routines.  Memory functions: four bytes of three values *)
(* and every pair of ranges.  eX_Print: every format of up to four         *)
(* characters, and formats like the kernel's with two arguments of all     *)
(* critical values.  Console: two rows of two cells with a column of       *)
(* padding, two glyphs of the font, a character without a glyph and one    *)
(* beyond the table.                                                       *)
(***************************************************************************)
EXTENDS Routines

\* Ints that a byte cuts off.
MCFills == {-1, 0, 4}

\* Zero, the limits of one and two digits, and the limits of int, of unsigned
\* int and of the slot, with the numbers next to them.
Numbers == {0, 1, 9, 10, 99, 100, 15, 16, 127, 128, 129, 254, 255, 256, 511, 1023}

Slot(n) == [value |-> n, string |-> IF n = 0 THEN NULL ELSE <<"%", "d">>]

Alphabet == {"%", "d", "X", "s", "l", "a"}

\* One argument is enough for the last directive to miss its own if an
\* earlier one took it.
Short ==
  [format : UNION {[1 .. n -> Alphabet] : n \in 0 .. 4},
   args   : {<<Slot(128), Slot(77)>>, <<Slot(0), Slot(1023)>>}]

Kernel ==
  [format : {<<"%", "u", " ", "%", "X">>, <<"%", "l", "u", "%", "d">>,
             <<"%", "x", "%", "0", "X", "%", "u">>, <<"%", "c", "%", "d">>},
   args   : {<<Slot(n), Slot(m)>> : n \in Numbers, m \in Numbers}]

MCCalls == Short \cup Kernel

MCCharacters ==
  {"0", "1", "2", "3", "4", "5", "6", "7", "8", "9",
   "a", "b", "c", "d", "e", "f", "A", "B", "C", "D", "E", "F",
   "%", "s", "u", "x", "X", "-", "(", "n", "l", ")", "?", " "}

MCChar == [n \in 0 .. 255 |-> IF n = 97 THEN "a" ELSE "?"]

\* 'A' and 'B'.
MCGlyph ==
  65 :> <<24, 36, 66, 66, 126, 66, 66, 0>> @@ 66 :> <<124, 66, 66, 124, 66, 66, 124, 0>>
=============================================================================
