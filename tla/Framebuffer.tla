---------------------------- MODULE Framebuffer -----------------------------
(***************************************************************************)
(* The pixels behind the console (src/src/main.c): eX_PutPixel,            *)
(* eX_DrawChar and eX_Clear on the memory of the framebuffer, beside the   *)
(* cells that Console abstracts them to.                                   *)
(*                                                                         *)
(* Glyphs are drawn at multiples of eight pixels, so the eight pixels of a *)
(* row of a glyph are one entry of the memory: a byte of the font, a bit   *)
(* for each pixel in the foreground colour.                                *)
(***************************************************************************)
EXTENDS Console

CONSTANTS
  Glyph,      \* Glyph[c]: the eight rows of c, for the characters of the run
  Printed,    \* characters that are printed
  MaxDrawn    \* bound on the operations

ASSUME FramebufferAssumption ==
  /\ Printed \subseteq 0 .. 255
  /\ Printed \cap eX_Font \subseteq DOMAIN Glyph
  /\ DOMAIN Glyph \subseteq eX_Font
  /\ Glyph \in [DOMAIN Glyph -> [1 .. 8 -> 0 .. 255]]
  /\ MaxDrawn \in Nat

VARIABLES
  console,    \* the cursor, and what the cells should show
  pixels,     \* the framebuffer's memory, with the padding
  past,       \* a pixel was written behind the memory
  drawn       \* operations so far

framebufferVars == <<console, pixels, past, drawn>>

Memory == 0 .. 8 * Rows * Pitch - 1

\* Variant: the rows are the framebuffer's width apart.
PixelIndexByWidth(x, y, row) == (8 * y + row) * Columns + x

\* Variant: the rows of characters are nine pixel rows apart.
PixelIndexTall(x, y, row) == (9 * y + row) * Pitch + x

\* Where eX_PutPixel stores the pixels of a glyph's row.
PixelIndex(x, y, row) == (8 * y + row) * Pitch + x

GlyphRow(c, row) == IF c \in DOMAIN Glyph THEN Glyph[c][row + 1] ELSE 0

\* The pixels after the loops of eX_DrawChar: rows are drawn from the top, so
\* that no two of them are stored in the same place.
DrawPixels(c, x, y) ==
  [n \in Memory |->
    IF c < 128 /\ \E row \in 0 .. 7 : n = PixelIndex(x, y, row)
      THEN GlyphRow(c, CHOOSE row \in 0 .. 7 : n = PixelIndex(x, y, row))
      ELSE pixels[n]]

\* Some pixel of the glyph is stored behind the memory.
DrawnPast(c, x, y) == c < 128 /\ \E row \in 0 .. 7 : PixelIndex(x, y, row) \notin Memory

\* eX_Clear leaves the padding as it is.
ClearPixels(px) == [n \in Memory |-> IF n % Pitch < Columns THEN 0 ELSE px[n]]

\* The boot loader leaves anything in the memory; kmain clears it first.
FramebufferInit ==
  /\ console = ClearedConsole
  /\ pixels = ClearPixels([n \in Memory |-> 255])
  /\ past = FALSE
  /\ drawn = 0

Draw(c, x, y) ==
  /\ pixels' = DrawPixels(c, x, y)
  /\ past' = (past \/ DrawnPast(c, x, y))

PrintChar(c) ==
  /\ drawn < MaxDrawn
  /\ \/ c = NewLine /\ UNCHANGED <<pixels, past>>
     \/ c # NewLine /\ Draw(c, console.x, console.y)
  /\ console' = eX_PrintChar(console, c)
  /\ drawn' = drawn + 1

Backspace ==
  /\ drawn < MaxDrawn
  /\ \/ console.x = 0 /\ UNCHANGED <<pixels, past>>
     \/ console.x > 0 /\ Draw(Space, console.x - 1, console.y)
  /\ console' = eX_Backspace(console)
  /\ drawn' = drawn + 1

Clear ==
  /\ drawn < MaxDrawn
  /\ pixels' = ClearPixels(pixels)
  /\ console' = eX_Clear(console)
  /\ drawn' = drawn + 1
  /\ UNCHANGED past

FramebufferNext == (\E c \in Printed : PrintChar(c)) \/ Backspace \/ Clear

FramebufferSpec == FramebufferInit /\ [][FramebufferNext]_framebufferVars

-----------------------------------------------------------------------------
(***************************************************************************)
(* Properties.                                                             *)
(***************************************************************************)

\* Every cell that Console says shows a character has exactly the pixels of
\* that character's glyph, whatever the padding, whatever was drawn there
\* before, and wherever a line that is too long has run on to (main.c:167-171,
\* 1090-1113): the cells are a faithful picture of the pixels.
CellsShowGlyphs ==
  \A cell \in Cells :
    console.cells[cell] # Garbled =>
      \A row \in 0 .. 7 :
        pixels[(8 * cell[2] + row) * Pitch + cell[1]] = GlyphRow(console.cells[cell], row)

\* eX_PutPixel tests neither coordinate (main.c:166-171), and eX_PrintChar
\* neither wraps nor scrolls: all the same, as long as the cursor is above the
\* bottom of the screen and no further to the right than the pitch reaches, no
\* step writes a pixel behind the framebuffer's memory.
WritesStayInMemory ==
  [][past' # past => console.y >= Rows \/ console.x >= Pitch]_framebufferVars
=============================================================================
