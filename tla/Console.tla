------------------------------ MODULE Console -------------------------------
(***************************************************************************)
(* The framebuffer console (src/src/main.c): a cursor that moves over a    *)
(* grid of 8x8 pixel cells, and the pixels of the glyphs drawn there.      *)
(*                                                                         *)
(* A console is a record: the cursor x, y (eX_CursorX, eX_CursorY), what   *)
(* each cell of the framebuffer shows, and whether a pixel was ever written*)
(* past the framebuffer's last.  A cell shows the character drawn in it, or*)
(* Garbled when pieces of glyphs overlap; Framebuffer relates the cells to *)
(* the pixels.  The width and the pitch are multiples of eight pixels, *)
(* which a 1366 pixel wide framebuffer, for one, does not have.  The cursor*)
(* is a size_t that never wraps: a line has at most some hundred characters*)
(***************************************************************************)
EXTENDS Integers, Sequences

CONSTANTS
  Columns,   \* the framebuffer's width in cells
  Pitch,     \* a row's distance in memory from the next, in cells
  Rows,      \* the framebuffer's height in cells
  Garbled    \* what a cell with pieces of several glyphs shows

ASSUME ConsoleAssumption ==
  /\ Columns \in Nat \ {0} /\ Rows \in Nat \ {0}
  /\ Pitch \in Nat /\ Pitch >= Columns

NewLine == 10
Space   == 32

Cells == (0 .. Columns - 1) \X (0 .. Rows - 1)

\* The characters that have a glyph: all printable ones but $ & ; [ ] ^ ` { |
\* } ~ and the space.  The other entries of the table are zero: blank.
eX_Font == (33 .. 126) \ ({36, 38, 59, 91, 93, 94, 96} \cup 123 .. 126)

\* What a cell shows when c is drawn in it.
Look(c) == IF c \in eX_Font THEN c ELSE Space

Consoles ==
  [x : Nat, y : Nat, cells : [Cells -> eX_Font \cup {Space, Garbled}], outside : BOOLEAN]

-----------------------------------------------------------------------------
(* eX_DrawChar and eX_PutPixel                                             *)

\* A pixel right of the framebuffer is, in memory, in the padding behind its
\* row or at the left of the next one: a glyph drawn x columns to the right
\* starts x \div Pitch pixel rows lower, in column x % Pitch.
PixelRow(x, y) == 8 * y + x \div Pitch

\* The cells that hold pixels of a glyph drawn at x, y.
Covered(x, y) ==
  {<<x % Pitch, PixelRow(x, y) \div 8>>, <<x % Pitch, (PixelRow(x, y) + 7) \div 8>>}

\* Some pixel of the glyph is past the end of the framebuffer.  The code has no
\* such test; the model notes what the stores have reached.
PastEnd(x, y) == PixelRow(x, y) + 7 >= 8 * Rows

eX_DrawChar(console, c, x, y) ==
  IF c >= 128 THEN console
  ELSE [console EXCEPT
         !.cells = [cell \in Cells |->
                     IF cell \notin Covered(x, y)     THEN @[cell]
                     ELSE IF PixelRow(x, y) % 8 = 0   THEN Look(c)
                                                      ELSE Garbled],
         !.outside = @ \/ PastEnd(x, y)]

-----------------------------------------------------------------------------
(* The operations                                                          *)

\* Variant: a character is drawn one row too low.
PrintCharLow(console, c) ==
  IF c = NewLine THEN [console EXCEPT !.x = 0, !.y = @ + 1]
  ELSE [eX_DrawChar(console, c, console.x, console.y + 1) EXCEPT !.x = @ + 1]

\* There is no wrapping at the right margin and no scrolling at the bottom.
eX_PrintChar(console, c) ==
  IF c = NewLine THEN [console EXCEPT !.x = 0, !.y = @ + 1]
  ELSE [eX_DrawChar(console, c, console.x, console.y) EXCEPT !.x = @ + 1]

\* The console after each character of a text.
Progress(console, text) ==
  LET after[n \in 0 .. Len(text)] ==
        IF n = 0 THEN console ELSE eX_PrintChar(after[n - 1], text[n])
  IN  after

\* eX_Print of a text without directives, or of "%s".
eX_PrintString(console, text) == Progress(console, text)[Len(text)]

\* Variant: the character before the cursor stays on the screen.
BackspaceKeepsGlyph(console) ==
  IF console.x = 0 THEN console ELSE [console EXCEPT !.x = @ - 1]

eX_Backspace(console) ==
  IF console.x = 0 THEN console
  ELSE eX_DrawChar([console EXCEPT !.x = @ - 1], Space, console.x - 1, console.y)

eX_Clear(console) ==
  [console EXCEPT !.x = 0, !.y = 0, !.cells = [cell \in Cells |-> Space]]

\* A framebuffer that eX_Clear has filled.
ClearedConsole ==
  [x |-> 0, y |-> 0, cells |-> [cell \in Cells |-> Space], outside |-> FALSE]
=============================================================================
