---------------------------- MODULE ShellProofs -----------------------------
(***************************************************************************)
(* Proofs about Shell and its console, for every size of the framebuffer   *)
(* and of the line, and all texts.                                         *)
(***************************************************************************)
EXTENDS Shell, Induction, SequenceTheorems, TLAPS

Char == Printable \cup {NewLine}

-----------------------------------------------------------------------------
(* Printing a text, character by character                                 *)

\* The recursion of Progress has a solution.
LEMMA ProgressExists ==
  ASSUME NEW con, NEW text
  PROVE  \A n \in Nat : \E f :
           f = [k \in 0 .. n |-> IF k = 0 THEN con ELSE eX_PrintChar(f[k - 1], text[k])]
<1>. DEFINE Solves(f, n) ==
       f = [k \in 0 .. n |-> IF k = 0 THEN con ELSE eX_PrintChar(f[k - 1], text[k])]
     S == {n \in Nat : \E f : Solves(f, n)}
<1>1. 0 \in S
  <2>. DEFINE f == [k \in 0 .. 0 |-> con]
  <2>1. Solves(f, 0)
    OBVIOUS
  <2>. QED
    BY <2>1
<1>2. ASSUME NEW n \in Nat, n \in S PROVE n + 1 \in S
  <2>1. PICK f : Solves(f, n)
    BY <1>2
  <2>. DEFINE last == eX_PrintChar(f[n], text[n + 1])
              g == [k \in 0 .. n + 1 |-> IF k <= n THEN f[k] ELSE last]
  <2>2. ASSUME NEW k \in 0 .. n + 1
        PROVE  g[k] = IF k = 0 THEN con ELSE eX_PrintChar(g[k - 1], text[k])
    <3>1. CASE k = 0
      BY <2>1, <3>1
    <3>2. CASE k # 0 /\ k <= n
      <4>1. f[k] = eX_PrintChar(f[k - 1], text[k])
        BY <2>1, <3>2
      <4>2. g[k] = f[k] /\ g[k - 1] = f[k - 1]
        BY <3>2
      <4>. QED
        BY <3>2, <4>1, <4>2
    <3>3. CASE k = n + 1
      <4>1. g[k - 1] = f[n] /\ k # 0 /\ g[k] = last
        BY <3>3
      <4>. QED
        BY <3>3, <4>1
    <3>. QED
      BY <3>1, <3>2, <3>3
  <2>3. Solves(g, n + 1)
    <3>. DEFINE h == [k \in 0 .. n + 1 |-> IF k = 0 THEN con ELSE eX_PrintChar(g[k - 1], text[k])]
    <3>1. DOMAIN g = 0 .. n + 1 /\ DOMAIN h = 0 .. n + 1
      OBVIOUS
    <3>2. \A k \in 0 .. n + 1 : g[k] = h[k]
      BY <2>2
    <3>3. g = [k \in 0 .. n + 1 |-> g[k]] /\ h = [k \in 0 .. n + 1 |-> h[k]]
      OBVIOUS
    <3>. HIDE DEF g, h
    <3>4. g = h
      BY <3>2, <3>3
    <3>. QED
      BY <3>4 DEF h
  <2>. HIDE DEF g, Solves
  <2>4. \E h : Solves(h, n + 1)
    BY <2>3, Zenon
  <2>. QED
    BY <2>4
<1>. HIDE DEF S
<1>3. \A n \in Nat : n \in S
  BY <1>1, <1>2, SetInduction
<1>. QED
  BY <1>3 DEF S

\* What Progress is: the console is passed from character to character.
LEMMA ProgressDef ==
  ASSUME NEW con, NEW text, Len(text) \in Nat
  PROVE  /\ Progress(con, text)[0] = con
         /\ \A n \in 1 .. Len(text) :
              Progress(con, text)[n] = eX_PrintChar(Progress(con, text)[n - 1], text[n])
<1>. DEFINE L == Len(text)
            after == CHOOSE f :
              f = [k \in 0 .. L |-> IF k = 0 THEN con ELSE eX_PrintChar(f[k - 1], text[k])]
<1>1. after = [k \in 0 .. L |-> IF k = 0 THEN con ELSE eX_PrintChar(after[k - 1], text[k])]
  BY ProgressExists
<1>2. Progress(con, text) = after
  BY DEF Progress
<1>. HIDE DEF after
<1>. QED
  BY <1>1, <1>2

-----------------------------------------------------------------------------
(* One character                                                           *)

\* A glyph drawn left of the right margin is in its cell and no other.
LEMMA InOneCell ==
  ASSUME NEW x \in 0 .. Columns - 1, NEW y \in Nat
  PROVE  /\ PixelRow(x, y) % 8 = 0
         /\ Covered(x, y) = {<<x, y>>}
         /\ PastEnd(x, y) <=> y >= Rows
<1>1. x \in Nat /\ Pitch \in Nat \ {0} /\ x < Pitch /\ Rows \in Nat
  BY ConsoleAssumption
<1>2. x \div Pitch = 0 /\ x % Pitch = x
  BY <1>1
<1>3. PixelRow(x, y) = 8 * y
  BY <1>2 DEF PixelRow
<1>4. (8 * y) % 8 = 0 /\ (8 * y) \div 8 = y /\ (8 * y + 7) \div 8 = y
  OBVIOUS
<1>5. 8 * y + 7 >= 8 * Rows <=> y >= Rows
  BY <1>1
<1>. QED
  BY <1>2, <1>3, <1>4, <1>5 DEF Covered, PastEnd

\* One glyph was drawn, in one cell or below the framebuffer.
OneGlyph(old, new, c, x, y) ==
  /\ new.outside <=> old.outside \/ y >= Rows
  /\ \A cell \in Cells :
       new.cells[cell] = IF cell = <<x, y>> THEN Look(c) ELSE old.cells[cell]

\* Drawing a glyph moves no cursor.
LEMMA DrawFacts ==
  ASSUME NEW con \in Consoles, NEW c \in 0 .. 127, NEW x \in Nat, NEW y \in Nat
  PROVE  /\ eX_DrawChar(con, c, x, y) \in Consoles
         /\ eX_DrawChar(con, c, x, y).x = con.x
         /\ eX_DrawChar(con, c, x, y).y = con.y
         /\ x < Columns => OneGlyph(con, eX_DrawChar(con, c, x, y), c, x, y)
<1>. DEFINE drawn == [cell \in Cells |->
                       IF cell \notin Covered(x, y)     THEN con.cells[cell]
                       ELSE IF PixelRow(x, y) % 8 = 0   THEN Look(c)
                                                        ELSE Garbled]
            past == con.outside \/ PastEnd(x, y)
            new == [con EXCEPT !.cells = drawn, !.outside = past]
<1>1. eX_DrawChar(con, c, x, y) = new
  BY DEF eX_DrawChar, Consoles
<1>2. drawn \in [Cells -> eX_Font \cup {Space, Garbled}]
  BY DEF Consoles, Look
<1>3. past \in BOOLEAN
  BY DEF PastEnd, Consoles
<1>4. ASSUME x < Columns
      PROVE  /\ past <=> con.outside \/ y >= Rows
             /\ \A cell \in Cells :
                  drawn[cell] = IF cell = <<x, y>> THEN Look(c) ELSE con.cells[cell]
  <2>1. x \in 0 .. Columns - 1
    BY <1>4, ConsoleAssumption
  <2>. QED
    BY <2>1, InOneCell
<1>. HIDE DEF drawn, past
<1>5. new \in Consoles /\ new.x = con.x /\ new.y = con.y /\ new.cells = drawn /\ new.outside = past
  BY <1>2, <1>3 DEF Consoles
<1>. QED
  BY <1>1, <1>4, <1>5 DEF OneGlyph

\* A line feed moves the cursor only.
LEMMA NewLineFacts ==
  ASSUME NEW con \in Consoles
  PROVE  /\ eX_PrintChar(con, NewLine) \in Consoles
         /\ eX_PrintChar(con, NewLine).x = 0
         /\ eX_PrintChar(con, NewLine).y = con.y + 1
         /\ eX_PrintChar(con, NewLine).cells = con.cells
         /\ eX_PrintChar(con, NewLine).outside = con.outside
<1>. DEFINE next == con.y + 1
<1>1. next \in Nat
  BY DEF Consoles
<1>2. eX_PrintChar(con, NewLine) = [con EXCEPT !.x = 0, !.y = next]
  BY DEF eX_PrintChar, Consoles
<1>. HIDE DEF next
<1>3. /\ [con EXCEPT !.x = 0, !.y = next] \in Consoles
      /\ [con EXCEPT !.x = 0, !.y = next].x = 0
      /\ [con EXCEPT !.x = 0, !.y = next].y = next
      /\ [con EXCEPT !.x = 0, !.y = next].cells = con.cells
      /\ [con EXCEPT !.x = 0, !.y = next].outside = con.outside
  BY <1>1 DEF Consoles
<1>. QED
  BY <1>2, <1>3 DEF next

\* Printing any other character moves the cursor one column on.
LEMMA PrintCharFacts ==
  ASSUME NEW con \in Consoles, NEW c \in Printable
  PROVE  /\ eX_PrintChar(con, c) \in Consoles
         /\ eX_PrintChar(con, c).x = con.x + 1
         /\ eX_PrintChar(con, c).y = con.y
         /\ con.x < Columns => OneGlyph(con, eX_PrintChar(con, c), c, con.x, con.y)
<1>. DEFINE d == eX_DrawChar(con, c, con.x, con.y)
            next == d.x + 1
<1>1. c \in 0 .. 127 /\ c # NewLine /\ con.x \in Nat /\ con.y \in Nat
  BY DEF Printable, NewLine, Consoles
<1>2. /\ d \in Consoles /\ d.x = con.x /\ d.y = con.y
      /\ con.x < Columns => OneGlyph(con, d, c, con.x, con.y)
  BY <1>1, DrawFacts
<1>. HIDE DEF d
<1>3. eX_PrintChar(con, c) = [d EXCEPT !.x = next]
  BY <1>1, <1>2 DEF eX_PrintChar, d, Consoles
<1>4. next \in Nat /\ next = con.x + 1
  BY <1>1, <1>2
<1>. HIDE DEF next
<1>5. /\ [d EXCEPT !.x = next] \in Consoles
      /\ [d EXCEPT !.x = next].x = next
      /\ [d EXCEPT !.x = next].y = d.y
      /\ [d EXCEPT !.x = next].cells = d.cells
      /\ [d EXCEPT !.x = next].outside = d.outside
  BY <1>2, <1>4 DEF Consoles
<1>. QED
  BY <1>2, <1>3, <1>4, <1>5 DEF OneGlyph

\* Taking one character back blanks its cell.
LEMMA BackspaceFacts ==
  ASSUME NEW con \in Consoles, con.x # 0
  PROVE  /\ eX_Backspace(con) \in Consoles
         /\ eX_Backspace(con).x = con.x - 1
         /\ eX_Backspace(con).y = con.y
         /\ con.x <= Columns => OneGlyph(con, eX_Backspace(con), Space, con.x - 1, con.y)
<1>. DEFINE back == con.x - 1
            moved == [con EXCEPT !.x = back]
            d == eX_DrawChar(moved, Space, back, con.y)
<1>1. back \in Nat /\ con.y \in Nat /\ Space \in 0 .. 127 /\ con.x \in Nat
  BY DEF Consoles, Space
<1>2. eX_Backspace(con) = d
  BY DEF eX_Backspace, Consoles
<1>3. con.x <= Columns => back < Columns
  BY <1>1, ConsoleAssumption
<1>. HIDE DEF back
<1>4. moved \in Consoles /\ moved.x = back /\ moved.y = con.y
      /\ moved.cells = con.cells /\ moved.outside = con.outside
  BY <1>1 DEF Consoles
<1>. HIDE DEF moved
<1>5. /\ d \in Consoles /\ d.x = moved.x /\ d.y = moved.y
      /\ back < Columns => OneGlyph(moved, d, Space, back, con.y)
  BY <1>1, <1>4, DrawFacts
<1>. HIDE DEF d
<1>6. back = con.x - 1
  BY DEF back
<1>. QED
  BY <1>2, <1>3, <1>4, <1>5, <1>6 DEF OneGlyph

\* Any character leaves a console.
LEMMA PrintCharType ==
  ASSUME NEW con \in Consoles, NEW c \in Char
  PROVE  eX_PrintChar(con, c) \in Consoles
  BY NewLineFacts, PrintCharFacts DEF Char

-----------------------------------------------------------------------------
(* A text                                                                  *)

\* A text leaves a console.
LEMMA ProgressType ==
  ASSUME NEW con \in Consoles, NEW text \in Seq(Char)
  PROVE  \A n \in 0 .. Len(text) : Progress(con, text)[n] \in Consoles
<1>. DEFINE S == {n \in Nat : n <= Len(text) => Progress(con, text)[n] \in Consoles}
<1>1. Len(text) \in Nat /\ \A n \in 1 .. Len(text) : text[n] \in Char
  BY LenProperties, ElementOfSeq
<1>2. 0 \in S
  BY <1>1, ProgressDef
<1>3. ASSUME NEW n \in Nat, n \in S PROVE n + 1 \in S
  <2>. SUFFICES ASSUME n + 1 <= Len(text) PROVE Progress(con, text)[n + 1] \in Consoles
    OBVIOUS
  <2>1. n + 1 \in 1 .. Len(text) /\ (n + 1) - 1 = n
    BY <1>1
  <2>2. Progress(con, text)[n + 1] = eX_PrintChar(Progress(con, text)[n], text[n + 1])
    BY <1>1, <2>1, ProgressDef
  <2>3. Progress(con, text)[n] \in Consoles
    BY <1>1, <1>3, <2>1
  <2>. QED
    BY <1>1, <2>1, <2>2, <2>3, PrintCharType
<1>. HIDE DEF S
<1>4. \A n \in Nat : n \in S
  BY <1>2, <1>3, SetInduction
<1>. QED
  BY <1>1, <1>4 DEF S

\* A text without line feeds: each character is one column on.
LEMMA RowCursor ==
  ASSUME NEW con \in Consoles, NEW text \in Seq(Printable)
  PROVE  \A n \in 0 .. Len(text) :
           /\ Progress(con, text)[n] \in Consoles
           /\ Progress(con, text)[n].x = con.x + n
           /\ Progress(con, text)[n].y = con.y
<1>. DEFINE P(n) == Progress(con, text)[n]
            S == {n \in Nat : n <= Len(text) =>
                    P(n) \in Consoles /\ P(n).x = con.x + n /\ P(n).y = con.y}
<1>1. Len(text) \in Nat /\ \A n \in 1 .. Len(text) : text[n] \in Printable
  BY LenProperties, ElementOfSeq
<1>2. P(0) = con /\ \A n \in 1 .. Len(text) : P(n) = eX_PrintChar(P(n - 1), text[n])
  BY <1>1, ProgressDef
<1>. HIDE DEF P
<1>3. con.x \in Nat /\ con.y \in Nat
  BY DEF Consoles
<1>4. 0 \in S
  BY <1>2, <1>3
<1>5. ASSUME NEW n \in Nat, n \in S PROVE n + 1 \in S
  <2>. SUFFICES ASSUME n + 1 <= Len(text)
                PROVE  P(n + 1) \in Consoles /\ P(n + 1).x = con.x + (n + 1) /\ P(n + 1).y = con.y
    OBVIOUS
  <2>1. P(n + 1) = eX_PrintChar(P(n), text[n + 1]) /\ text[n + 1] \in Printable
    <3>1. n + 1 \in 1 .. Len(text) /\ (n + 1) - 1 = n
      BY <1>1
    <3>. QED
      BY <1>1, <1>2, <3>1
  <2>2. P(n) \in Consoles /\ P(n).x = con.x + n /\ P(n).y = con.y
    BY <1>1, <1>5
  <2>3. P(n + 1) \in Consoles /\ P(n + 1).x = P(n).x + 1 /\ P(n + 1).y = P(n).y
    BY <2>1, <2>2, PrintCharFacts
  <2>. QED
    BY <1>3, <2>2, <2>3
<1>. HIDE DEF S
<1>6. \A n \in Nat : n \in S
  BY <1>4, <1>5, SetInduction
<1>. QED
  BY <1>1, <1>6 DEF S, P

\* What a row shows after n characters of a text were printed into it.
RowShows(con, new, text, n) ==
  /\ new.outside <=> con.outside \/ (n > 0 /\ con.y >= Rows)
  /\ \A cx \in 0 .. Columns - 1, cy \in 0 .. Rows - 1 :
       new.cells[<<cx, cy>>] =
         IF cy = con.y /\ con.x <= cx /\ cx < con.x + n
           THEN Look(text[cx - con.x + 1])
           ELSE con.cells[<<cx, cy>>]

\* One more character in the row.
LEMMA RowStep ==
  ASSUME NEW con \in Consoles, NEW old \in Consoles, NEW new \in Consoles, NEW text, NEW n \in Nat,
         old.x = con.x + n, old.y = con.y,
         RowShows(con, old, text, n), OneGlyph(old, new, text[n + 1], old.x, old.y)
  PROVE  RowShows(con, new, text, n + 1)
<1>0. con.x \in Nat /\ con.y \in Nat
  BY DEF Consoles
<1>1. new.outside <=> con.outside \/ (n + 1 > 0 /\ con.y >= Rows)
  BY DEF RowShows, OneGlyph
<1>2. ASSUME NEW cx \in 0 .. Columns - 1, NEW cy \in 0 .. Rows - 1
      PROVE  new.cells[<<cx, cy>>] =
               IF cy = con.y /\ con.x <= cx /\ cx < con.x + (n + 1)
                 THEN Look(text[cx - con.x + 1])
                 ELSE con.cells[<<cx, cy>>]
  <2>1. <<cx, cy>> \in Cells
    BY DEF Cells
  <2>2. <<cx, cy>> = <<old.x, old.y>> <=> cx = con.x + n /\ cy = con.y
    OBVIOUS
  <2>3. new.cells[<<cx, cy>>] = IF cx = con.x + n /\ cy = con.y THEN Look(text[n + 1])
                                                                 ELSE old.cells[<<cx, cy>>]
    BY <2>1, <2>2 DEF OneGlyph
  <2>4. old.cells[<<cx, cy>>] = IF cy = con.y /\ con.x <= cx /\ cx < con.x + n
                                  THEN Look(text[cx - con.x + 1]) ELSE con.cells[<<cx, cy>>]
    BY DEF RowShows
  <2>5. cx = con.x + n => cx - con.x + 1 = n + 1
    BY <1>0
  <2>6. CASE cx = con.x + n
    BY <1>0, <2>3, <2>4, <2>5, <2>6
  <2>7. CASE cx # con.x + n
    BY <1>0, <2>3, <2>4, <2>7
  <2>. QED
    BY <2>6, <2>7
<1>. QED
  BY <1>1, <1>2 DEF RowShows

\* A text without line feeds that fits the row appears in it, and nothing else
\* changes.
LEMMA RowText ==
  ASSUME NEW con \in Consoles, NEW text \in Seq(Printable), con.x + Len(text) <= Columns
  PROVE  /\ eX_PrintString(con, text) \in Consoles
         /\ eX_PrintString(con, text).x = con.x + Len(text)
         /\ eX_PrintString(con, text).y = con.y
         /\ RowShows(con, eX_PrintString(con, text), text, Len(text))
<1>. DEFINE P(n) == Progress(con, text)[n]
            S == {n \in Nat : n <= Len(text) => RowShows(con, P(n), text, n)}
<1>1. Len(text) \in Nat /\ \A n \in 1 .. Len(text) : text[n] \in Printable
  BY LenProperties, ElementOfSeq
<1>2. P(0) = con /\ \A n \in 1 .. Len(text) : P(n) = eX_PrintChar(P(n - 1), text[n])
  BY <1>1, ProgressDef
<1>3. \A n \in 0 .. Len(text) : P(n) \in Consoles /\ P(n).x = con.x + n /\ P(n).y = con.y
  BY RowCursor
<1>4. eX_PrintString(con, text) = P(Len(text))
  BY DEF eX_PrintString
<1>. HIDE DEF P
<1>5. con.x \in Nat /\ con.y \in Nat /\ Columns \in Nat
  BY ConsoleAssumption DEF Consoles
<1>6. 0 \in S
  BY <1>2, <1>5 DEF RowShows
<1>7. ASSUME NEW n \in Nat, n \in S PROVE n + 1 \in S
  <2>. SUFFICES ASSUME n + 1 <= Len(text)
                PROVE  RowShows(con, P(n + 1), text, n + 1)
    OBVIOUS
  <2>1. P(n + 1) = eX_PrintChar(P(n), text[n + 1]) /\ text[n + 1] \in Printable
    <3>1. n + 1 \in 1 .. Len(text) /\ (n + 1) - 1 = n
      BY <1>1
    <3>. QED
      BY <1>1, <1>2, <3>1
  <2>2. /\ P(n) \in Consoles /\ P(n).x = con.x + n /\ P(n).y = con.y
        /\ P(n + 1) \in Consoles
    BY <1>1, <1>3
  <2>3. P(n).x < Columns /\ RowShows(con, P(n), text, n)
    BY <1>1, <1>5, <1>7, <2>2
  <2>4. OneGlyph(P(n), P(n + 1), text[n + 1], P(n).x, P(n).y)
    BY <2>1, <2>2, <2>3, PrintCharFacts
  <2>. QED
    BY <2>2, <2>3, <2>4, RowStep
<1>. HIDE DEF S
<1>8. \A n \in Nat : n \in S
  BY <1>6, <1>7, SetInduction
<1>9. RowShows(con, P(Len(text)), text, Len(text))
  BY <1>1, <1>8 DEF S
<1>. QED
  BY <1>1, <1>3, <1>4, <1>9

\* Lines were printed from a console `con` on, the last one so far from its
\* first column: what is below the cursor is as it was.
LinesPrinted(con, new) ==
  /\ new.y >= con.y
  /\ (new.outside <=> con.outside) \/ new.y >= Rows
  /\ \A cx \in 0 .. Columns - 1, cy \in 0 .. Rows - 1 :
       cy > new.y => new.cells[<<cx, cy>>] = con.cells[<<cx, cy>>]

\* The last characters printed are in the cursor's row.
InLine(new, text, n) ==
  new.x <= n /\ \A k \in n - new.x + 1 .. n : text[k] # NewLine

\* Printing goes on with any character in a column of the framebuffer.
LEMMA LinesStep ==
  ASSUME NEW con \in Consoles, NEW old \in Consoles, NEW c \in Char,
         old.x < Columns \/ c = NewLine, LinesPrinted(con, old)
  PROVE  LinesPrinted(con, eX_PrintChar(old, c))
<1>. DEFINE new == eX_PrintChar(old, c)
<1>0. con.y \in Nat /\ old.y \in Nat /\ Rows \in Nat /\ old.x \in Nat
  BY ConsoleAssumption DEF Consoles
<1>1. CASE c = NewLine
  <2>1. new.y = old.y + 1 /\ new.cells = old.cells /\ new.outside = old.outside
    BY <1>1, NewLineFacts
  <2>. QED
    BY <1>0, <2>1 DEF LinesPrinted
<1>2. CASE c \in Printable /\ old.x < Columns
  <2>1. new.y = old.y /\ OneGlyph(old, new, c, old.x, old.y)
    BY <1>2, PrintCharFacts
  <2>. HIDE DEF new
  <2>2. (new.outside <=> con.outside) \/ new.y >= Rows
    BY <2>1 DEF OneGlyph, LinesPrinted
  <2>3. ASSUME NEW cx \in 0 .. Columns - 1, NEW cy \in 0 .. Rows - 1, cy > new.y
        PROVE  new.cells[<<cx, cy>>] = con.cells[<<cx, cy>>]
    <3>1. <<cx, cy>> \in Cells /\ <<cx, cy>> # <<old.x, old.y>>
      BY <1>0, <2>1, <2>3 DEF Cells
    <3>2. new.cells[<<cx, cy>>] = old.cells[<<cx, cy>>]
      BY <2>1, <3>1 DEF OneGlyph
    <3>. QED
      BY <2>1, <2>3, <3>2 DEF LinesPrinted
  <2>4. LinesPrinted(con, new)
    BY <2>1, <2>2, <2>3 DEF LinesPrinted
  <2>. QED
    BY <2>4 DEF new
<1>. QED
  BY <1>1, <1>2 DEF Char

\* A text whose lines fit stays in its rows.
LEMMA LinesText ==
  ASSUME NEW con \in Consoles, NEW text \in Seq(Char), con.x = 0, Fits(text)
  PROVE  \A n \in 0 .. Len(text) : LinesPrinted(con, Progress(con, text)[n])
<1>. DEFINE P(n) == Progress(con, text)[n]
            S == {n \in Nat : n <= Len(text) => LinesPrinted(con, P(n)) /\ InLine(P(n), text, n)}
<1>1. Len(text) \in Nat /\ \A n \in 1 .. Len(text) : text[n] \in Char
  BY LenProperties, ElementOfSeq
<1>2. P(0) = con /\ \A n \in 1 .. Len(text) : P(n) = eX_PrintChar(P(n - 1), text[n])
  BY <1>1, ProgressDef
<1>3. \A n \in 0 .. Len(text) : P(n) \in Consoles
  BY ProgressType
<1>. HIDE DEF P
<1>5. con.y \in Nat /\ Columns \in Nat
  BY ConsoleAssumption DEF Consoles
<1>6. 0 \in S
  BY <1>2, <1>5 DEF LinesPrinted, InLine
<1>7. ASSUME NEW n \in Nat, n \in S PROVE n + 1 \in S
  <2>. SUFFICES ASSUME n + 1 <= Len(text)
                PROVE  LinesPrinted(con, P(n + 1)) /\ InLine(P(n + 1), text, n + 1)
    OBVIOUS
  <2>1. P(n + 1) = eX_PrintChar(P(n), text[n + 1]) /\ text[n + 1] \in Char
    <3>1. n + 1 \in 1 .. Len(text) /\ (n + 1) - 1 = n
      BY <1>1
    <3>. QED
      BY <1>1, <1>2, <3>1
  <2>2. /\ P(n) \in Consoles /\ P(n).x \in Nat
        /\ LinesPrinted(con, P(n)) /\ InLine(P(n), text, n)
    BY <1>1, <1>3, <1>7 DEF Consoles
  <2>3. P(n).x < Columns \/ text[n + 1] = NewLine
    <3>. SUFFICES ASSUME P(n).x >= Columns, text[n + 1] # NewLine PROVE FALSE
      BY <1>5, <2>2
    <3>. DEFINE m == n - Columns
    <3>1. m \in 0 .. Len(text) - Columns - 1
      BY <1>1, <1>5, <2>2 DEF InLine
    <3>2. PICK k \in m + 1 .. m + Columns + 1 : text[k] = NewLine
      BY <3>1 DEF Fits
    <3>3. k = n + 1 \/ k \in n - P(n).x + 1 .. n
      BY <1>5, <2>2
    <3>. QED
      BY <2>2, <3>2, <3>3 DEF InLine
  <2>4. LinesPrinted(con, P(n + 1))
    BY <2>1, <2>2, <2>3, LinesStep
  <2>5. InLine(P(n + 1), text, n + 1)
    <3>1. CASE text[n + 1] = NewLine
      <4>1. P(n + 1).x = 0
        BY <2>1, <2>2, <3>1, NewLineFacts
      <4>. QED
        BY <4>1 DEF InLine
    <3>2. CASE text[n + 1] # NewLine
      <4>1. P(n + 1).x = P(n).x + 1
        BY <2>1, <2>2, <3>2, PrintCharFacts DEF Char
      <4>. QED
        BY <2>2, <3>2, <4>1 DEF InLine
    <3>. QED
      BY <3>1, <3>2
  <2>. QED
    BY <2>4, <2>5
<1>. HIDE DEF S
<1>8. \A n \in Nat : n \in S
  BY <1>6, <1>7, SetInduction
<1>. QED
  BY <1>1, <1>8 DEF S, P

\* All rows from y on are blank.
BlankFrom(con, y) ==
  \A cx \in 0 .. Columns - 1, cy \in 0 .. Rows - 1 :
    cy >= y => con.cells[<<cx, cy>>] = Space

\* Complete lines leave the cursor in the first column, and, if they fit, in a
\* row as blank as it was.
LEMMA LinesEnd ==
  ASSUME NEW con \in Consoles, NEW text \in Seq(Char), con.x = 0,
         text # <<>>, text[Len(text)] = NewLine
  PROVE  /\ eX_PrintString(con, text) \in Consoles
         /\ eX_PrintString(con, text).x = 0
         /\ Fits(text) /\ BlankFrom(con, con.y) =>
              /\ BlankFrom(eX_PrintString(con, text), eX_PrintString(con, text).y)
              /\ \/ eX_PrintString(con, text).outside <=> con.outside
                 \/ eX_PrintString(con, text).y >= Rows
<1>. DEFINE L == Len(text)
            P(n) == Progress(con, text)[n]
<1>1. L \in Nat /\ L # 0 /\ L \in 1 .. L /\ L - 1 \in 0 .. L /\ L \in 0 .. L
  BY EmptySeq, LenProperties
<1>2. P(L) = eX_PrintChar(P(L - 1), NewLine)
  BY <1>1, ProgressDef
<1>3. P(L - 1) \in Consoles /\ P(L) \in Consoles
  BY <1>1, ProgressType
<1>4. eX_PrintString(con, text) = P(L)
  BY DEF eX_PrintString
<1>5. Fits(text) => LinesPrinted(con, P(L - 1))
  BY <1>1, LinesText
<1>. HIDE DEF P, L
<1>6. /\ P(L).x = 0 /\ P(L).y = P(L - 1).y + 1
      /\ P(L).cells = P(L - 1).cells /\ P(L).outside = P(L - 1).outside
  BY <1>2, <1>3, NewLineFacts
<1>7. ASSUME Fits(text), BlankFrom(con, con.y)
      PROVE  /\ BlankFrom(P(L), P(L).y)
             /\ (P(L).outside <=> con.outside) \/ P(L).y >= Rows
  <2>1. P(L - 1).y \in Nat /\ con.y \in Nat /\ Rows \in Nat
    BY <1>3, ConsoleAssumption DEF Consoles
  <2>2. (P(L).outside <=> con.outside) \/ P(L).y >= Rows
    BY <1>5, <1>6, <1>7, <2>1 DEF LinesPrinted
  <2>3. ASSUME NEW cx \in 0 .. Columns - 1, NEW cy \in 0 .. Rows - 1, cy >= P(L).y
        PROVE  P(L).cells[<<cx, cy>>] = Space
    <3>1. cy > P(L - 1).y /\ P(L - 1).y >= con.y
      BY <1>5, <1>6, <1>7, <2>1, <2>3 DEF LinesPrinted
    <3>2. P(L - 1).cells[<<cx, cy>>] = con.cells[<<cx, cy>>]
      BY <1>5, <1>7, <3>1 DEF LinesPrinted
    <3>3. con.cells[<<cx, cy>>] = Space
      BY <1>7, <2>1, <3>1 DEF BlankFrom
    <3>. QED
      BY <1>6, <3>2, <3>3
  <2>. QED
    BY <2>2, <2>3 DEF BlankFrom
<1>. QED
  BY <1>3, <1>4, <1>6, <1>7

-----------------------------------------------------------------------------
(* The line buffer                                                         *)

\* The bytes of the line are characters of it: none is a NUL.
BufferInv ==
  \A m \in 0 .. eX_ShellLength - 1 : eX_ShellBuffer[m] \in Printable

\* The line that is held in a buffer.
LineOf(buffer, length) == [k \in 1 .. length |-> buffer[k - 1]]

\* It is a sequence.
LEMMA LineSeq ==
  ASSUME NEW length \in Nat, NEW buffer,
         \A m \in 0 .. length - 1 : buffer[m] \in Printable
  PROVE  /\ LineOf(buffer, length) \in Seq(Printable)
         /\ Len(LineOf(buffer, length)) = length
         /\ \A k \in 1 .. length : LineOf(buffer, length)[k] = buffer[k - 1]
<1>. DEFINE line == LineOf(buffer, length)
<1>1. line \in [1 .. length -> Printable]
  BY DEF LineOf
<1>2. line \in Seq(Printable)
  BY <1>1, SeqDef
<1>3. Len(line) = length
  BY DEF LineOf
<1>. QED
  BY <1>2, <1>3 DEF LineOf

\* What the row shows: the prompt and the line.
LEMMA ShownSeq ==
  ASSUME NEW length \in Nat, NEW buffer,
         \A m \in 0 .. length - 1 : buffer[m] \in Printable
  PROVE  /\ Len(Prompt) \in Nat
         /\ Len(Prompt \o LineOf(buffer, length)) = Len(Prompt) + length
         /\ \A k \in 1 .. Len(Prompt) + length :
              (Prompt \o LineOf(buffer, length))[k] =
                IF k <= Len(Prompt) THEN Prompt[k] ELSE buffer[k - Len(Prompt) - 1]
<1>1. Prompt \in Seq(Printable) /\ Len(Prompt) \in Nat
  BY ShellAssumption, LenProperties
<1>. DEFINE line == LineOf(buffer, length)
<1>2. /\ line \in Seq(Printable) /\ Len(line) = length
      /\ \A k \in 1 .. length : line[k] = buffer[k - 1]
  BY LineSeq
<1>. HIDE DEF line
<1>3. /\ Len(Prompt \o line) = Len(Prompt) + Len(line)
      /\ \A k \in 1 .. Len(Prompt) + Len(line) :
           (Prompt \o line)[k] = IF k <= Len(Prompt) THEN Prompt[k] ELSE line[k - Len(Prompt)]
  BY <1>1, <1>2, ConcatProperties
<1>4. ASSUME NEW k \in 1 .. Len(Prompt) + length, k > Len(Prompt)
      PROVE  line[k - Len(Prompt)] = buffer[k - Len(Prompt) - 1]
  BY <1>1, <1>2, <1>4
<1>5. \A k \in 1 .. Len(Prompt) + length :
        (Prompt \o line)[k] = IF k <= Len(Prompt) THEN Prompt[k] ELSE buffer[k - Len(Prompt) - 1]
  BY <1>1, <1>2, <1>3, <1>4
<1>. QED
  BY <1>1, <1>2, <1>3, <1>5 DEF line

\* The terminator ends the line, whatever older lines have left behind it.
LEMMA TerminatedLine ==
  ASSUME TypeOK, BufferInv
  PROVE  CString(Terminated(eX_ShellBuffer, eX_ShellLength)) = Line
<1>. DEFINE buffer == Terminated(eX_ShellBuffer, eX_ShellLength)
            Ends(n) == buffer[n] = NUL /\ \A m \in 0 .. n - 1 : buffer[m] # NUL
            end == CHOOSE n \in DOMAIN buffer : Ends(n)
<1>1. eX_ShellLength \in 0 .. eX_SHELL_BUFFER_SIZE - 1 /\ eX_SHELL_BUFFER_SIZE \in Nat
  BY ShellAssumption DEF TypeOK
<1>2. /\ DOMAIN buffer = 0 .. eX_SHELL_BUFFER_SIZE - 1
      /\ buffer[eX_ShellLength] = NUL
      /\ \A m \in 0 .. eX_ShellLength - 1 : buffer[m] = eX_ShellBuffer[m]
  BY <1>1 DEF TypeOK, Terminated
<1>. HIDE DEF buffer
<1>3. \A m \in 0 .. eX_ShellLength - 1 : buffer[m] # NUL
  <2>1. \A c \in Printable : c # NUL
    BY DEF Printable, NUL
  <2>2. \A m \in 0 .. eX_ShellLength - 1 : buffer[m] \in Printable
    BY <1>2 DEF BufferInv
  <2>. QED
    BY <2>1, <2>2
<1>4. Ends(eX_ShellLength) /\ eX_ShellLength \in DOMAIN buffer
  BY <1>1, <1>2, <1>3
<1>5. \A n \in DOMAIN buffer : Ends(n) => n = eX_ShellLength
  <2>. SUFFICES ASSUME NEW n \in DOMAIN buffer, Ends(n) PROVE n = eX_ShellLength
    OBVIOUS
  <2>1. n \in Int /\ n >= 0
    BY <1>1, <1>2
  <2>2. ~(n < eX_ShellLength)
    BY <1>1, <1>3, <2>1
  <2>3. ~(n > eX_ShellLength)
    BY <1>1, <1>2, <2>1
  <2>. QED
    BY <1>1, <2>1, <2>2, <2>3
<1>6. end = eX_ShellLength
  BY <1>4, <1>5
<1>7. CString(buffer) = [k \in 1 .. eX_ShellLength |-> buffer[k - 1]]
  BY <1>6 DEF CString
<1>8. \A k \in 1 .. eX_ShellLength : buffer[k - 1] = eX_ShellBuffer[k - 1]
  BY <1>1, <1>2
<1>. QED
  BY <1>7, <1>8 DEF Line, buffer

-----------------------------------------------------------------------------
(* Prompts and replies                                                     *)

\* The cursor's row shows a text and is blank behind it.
Shows(con, shown) ==
  con.y < Rows =>
    \A x \in 0 .. Columns - 1 :
      con.cells[<<x, con.y>>] = IF x < Len(shown) THEN Look(shown[x + 1]) ELSE Space

\* A prompt that is printed in a blank row is all the row shows.
LEMMA PromptFacts ==
  ASSUME NEW con \in Consoles, con.x = 0
  PROVE  /\ eX_PrintString(con, Prompt) \in Consoles
         /\ eX_PrintString(con, Prompt).x = Len(Prompt)
         /\ eX_PrintString(con, Prompt).y = con.y
         /\ WideEnough /\ BlankFrom(con, con.y) =>
              /\ Shows(eX_PrintString(con, Prompt), Prompt)
              /\ BlankFrom(eX_PrintString(con, Prompt), con.y + 1)
              /\ (eX_PrintString(con, Prompt).outside <=> con.outside) \/ con.y >= Rows
<1>. DEFINE new == eX_PrintString(con, Prompt)
<1>1. /\ Prompt \in Seq(Printable) /\ Len(Prompt) \in Nat /\ Len(Prompt) \in 0 .. Len(Prompt)
      /\ con.x \in Nat /\ con.y \in Nat
  BY ShellAssumption, LenProperties DEF Consoles
<1>2. new \in Consoles /\ new.x = Len(Prompt) /\ new.y = con.y
  BY <1>1, RowCursor DEF eX_PrintString
<1>3. ASSUME WideEnough, BlankFrom(con, con.y)
      PROVE  /\ Shows(new, Prompt)
             /\ BlankFrom(new, con.y + 1)
             /\ (new.outside <=> con.outside) \/ con.y >= Rows
  <2>1. con.x + Len(Prompt) <= Columns
    BY <1>1, <1>3, ShellAssumption, ConsoleAssumption DEF WideEnough
  <2>2. RowShows(con, new, Prompt, Len(Prompt))
    BY <1>1, <2>1, RowText
  <2>. HIDE DEF new
  <2>3. (new.outside <=> con.outside) \/ con.y >= Rows
    BY <2>2 DEF RowShows
  <2>4. BlankFrom(new, con.y + 1)
    BY <1>1, <1>3, <2>2 DEF RowShows, BlankFrom
  <2>5. ASSUME con.y < Rows, NEW x \in 0 .. Columns - 1
        PROVE  new.cells[<<x, con.y>>] = IF x < Len(Prompt) THEN Look(Prompt[x + 1]) ELSE Space
    <3>1. con.y \in 0 .. Rows - 1 /\ x - con.x + 1 = x + 1
      BY <1>1, <2>5, ConsoleAssumption
    <3>2. con.cells[<<x, con.y>>] = Space
      BY <1>1, <1>3, <3>1 DEF BlankFrom
    <3>. QED
      BY <1>1, <2>2, <3>1, <3>2 DEF RowShows
  <2>. QED
    BY <1>2, <2>3, <2>4, <2>5 DEF Shows, new
<1>. QED
  BY <1>2, <1>3

\* Clearing the screen.
LEMMA ClearFacts ==
  ASSUME NEW con \in Consoles
  PROVE  /\ eX_Clear(con) \in Consoles
         /\ eX_Clear(con).x = 0
         /\ eX_Clear(con).outside = con.outside
         /\ BlankFrom(eX_Clear(con), eX_Clear(con).y)
<1>. DEFINE blank == [cell \in Cells |-> Space]
<1>1. blank \in [Cells -> eX_Font \cup {Space, Garbled}]
  OBVIOUS
<1>2. \A cx \in 0 .. Columns - 1, cy \in 0 .. Rows - 1 : blank[<<cx, cy>>] = Space
  BY DEF Cells
<1>3. eX_Clear(con) = [con EXCEPT !.x = 0, !.y = 0, !.cells = blank]
  BY DEF eX_Clear
<1>. HIDE DEF blank
<1>4. /\ [con EXCEPT !.x = 0, !.y = 0, !.cells = blank] \in Consoles
      /\ [con EXCEPT !.x = 0, !.y = 0, !.cells = blank].x = 0
      /\ [con EXCEPT !.x = 0, !.y = 0, !.cells = blank].cells = blank
      /\ [con EXCEPT !.x = 0, !.y = 0, !.cells = blank].outside = con.outside
  BY <1>1 DEF Consoles
<1>. QED
  BY <1>2, <1>3, <1>4 DEF BlankFrom

\* A line that is no command is repeated on a line of its own.
LEMMA UnknownReply ==
  ASSUME NEW line \in Seq(Printable), Len(line) <= eX_SHELL_BUFFER_SIZE - 1
  PROVE  LET text == UnknownText \o line \o <<NewLine>>
         IN  /\ text \in Seq(Char) /\ text # <<>> /\ text[Len(text)] = NewLine
             /\ WideEnough => Fits(text)
<1>. DEFINE front == UnknownText \o line
            text == front \o <<NewLine>>
<1>1. /\ UnknownText \in Seq(Char) /\ line \in Seq(Char) /\ <<NewLine>> \in Seq(Char)
      /\ Len(<<NewLine>>) = 1 /\ <<NewLine>>[1] = NewLine
  <2>1. Printable \subseteq Char /\ NewLine \in Char
    BY DEF Char
  <2>2. UnknownText \in Seq(Printable)
    BY ShellAssumption
  <2>. QED
    BY <2>1, <2>2, SeqMonotonic
<1>2. Len(UnknownText) \in Nat /\ Len(line) \in Nat
  BY <1>1, LenProperties
<1>3. front \in Seq(Char) /\ Len(front) = Len(UnknownText) + Len(line)
  BY <1>1, ConcatProperties
<1>. HIDE DEF front
<1>4. /\ text \in Seq(Char) /\ Len(text) = Len(front) + 1
      /\ \A k \in 1 .. Len(front) + 1 :
           text[k] = IF k <= Len(front) THEN front[k] ELSE <<NewLine>>[k - Len(front)]
  BY <1>1, <1>3, ConcatProperties
<1>. HIDE DEF text
<1>5. text[Len(text)] = NewLine
  <2>1. Len(front) + 1 \in 1 .. Len(front) + 1 /\ ~(Len(front) + 1 <= Len(front))
        /\ Len(front) + 1 - Len(front) = 1
    BY <1>2, <1>3
  <2>. QED
    BY <1>1, <1>4, <2>1
<1>6. text # <<>>
  BY <1>2, <1>3, <1>4, EmptySeq
<1>7. ASSUME WideEnough PROVE Fits(text)
  <2>1. Len(text) <= Columns + 1 /\ Columns \in Nat
    BY <1>2, <1>3, <1>4, <1>7, ShellAssumption, ConsoleAssumption DEF WideEnough
  <2>2. ASSUME NEW n \in 0 .. Len(text) - Columns - 1
        PROVE  \E k \in n + 1 .. n + Columns + 1 : text[k] = NewLine
    <3>1. Len(text) \in n + 1 .. n + Columns + 1
      BY <1>2, <1>3, <1>4, <2>1
    <3>. QED
      BY <1>5, <3>1
  <2>. QED
    BY <2>2 DEF Fits
<1>. QED
  BY <1>4, <1>5, <1>6, <1>7 DEF text, front

\* Whatever a line prints, the cursor is in the first column of a blank row.
LEMMA ReplyFacts ==
  ASSUME TypeOK, BufferInv, NEW con \in Consoles, con.x = 0
  PROVE  LET new == Reply(con, Terminated(eX_ShellBuffer, eX_ShellLength))
         IN  /\ new \in Consoles
             /\ new.x = 0
             /\ WideEnough /\ BlankFrom(con, con.y) =>
                  BlankFrom(new, new.y) /\ ((new.outside <=> con.outside) \/ new.y >= Rows)
<1>. DEFINE buffer == Terminated(eX_ShellBuffer, eX_ShellLength)
            unknown == UnknownText \o Line \o <<NewLine>>
            new == Reply(con, buffer)
            Good(r) == /\ r \in Consoles
                       /\ r.x = 0
                       /\ WideEnough /\ BlankFrom(con, con.y) =>
                            BlankFrom(r, r.y) /\ ((r.outside <=> con.outside) \/ r.y >= Rows)
<1>1. CString(buffer) = Line
  BY TerminatedLine
<1>2. /\ eX_ShellLength \in Nat /\ eX_ShellLength <= eX_SHELL_BUFFER_SIZE - 1
      /\ Line \in Seq(Printable) /\ Len(Line) = eX_ShellLength
  <2>1. eX_ShellLength \in Nat /\ eX_ShellLength <= eX_SHELL_BUFFER_SIZE - 1
    BY ShellAssumption DEF TypeOK
  <2>2. Line = LineOf(eX_ShellBuffer, eX_ShellLength)
    BY DEF Line, LineOf
  <2>. QED
    BY <2>1, <2>2, LineSeq DEF BufferInv
<1>. HIDE DEF buffer
<1>3. \/ new = eX_PrintString(con, HelpText)
      \/ new = eX_Clear(con)
      \/ new = eX_PrintString(con, VersionText)
      \/ new = eX_PrintString(con, unknown)
      \/ new = con
  BY <1>1 DEF Reply
<1>4. ASSUME NEW text \in {HelpText, VersionText} PROVE Good(eX_PrintString(con, text))
  <2>1. text \in Seq(Char) /\ text # <<>> /\ text[Len(text)] = NewLine
    BY ShellAssumption DEF Char
  <2>2. WideEnough => Fits(text)
    BY DEF WideEnough
  <2>. QED
    BY <2>1, <2>2, LinesEnd
<1>5. Good(eX_PrintString(con, unknown))
  <2>1. /\ unknown \in Seq(Char) /\ unknown # <<>> /\ unknown[Len(unknown)] = NewLine
        /\ WideEnough => Fits(unknown)
    BY <1>2, UnknownReply
  <2>. HIDE DEF unknown
  <2>. QED
    BY <2>1, LinesEnd
<1>6. Good(eX_Clear(con))
  BY ClearFacts
<1>7. Good(con)
  OBVIOUS
<1>. HIDE DEF new, unknown, Good
<1>8. Good(new)
  BY <1>3, <1>4, <1>5, <1>6, <1>7
<1>. QED
  BY <1>8 DEF Good, new, buffer

-----------------------------------------------------------------------------
(* The inductive invariant                                                 *)

\* Nothing was ever printed below the cursor.
BelowBlank == WideEnough => BlankFrom(console, console.y + 1)

IInv ==
  /\ TypeOK
  /\ BufferInv
  /\ PromptTracksLine
  /\ BelowBlank
  /\ LineOnScreen

\* What a step does to the framebuffer's end.
OutsideStep == WideEnough /\ console'.outside # console.outside => console'.y >= Rows

\* The shell starts with a prompt on a cleared screen.
LEMMA InitIInv == eX_Shell_Init => IInv
<1>. SUFFICES ASSUME eX_Shell_Init PROVE IInv
  OBVIOUS
<1>. USE DEF eX_Shell_Init
<1>1. /\ ClearedConsole \in Consoles /\ ClearedConsole.x = 0 /\ ClearedConsole.y = 0
      /\ BlankFrom(ClearedConsole, 0)
  BY DEF ClearedConsole, Consoles, BlankFrom, Cells
<1>2. /\ console \in Consoles /\ console.x = Len(Prompt) /\ console.y = 0
      /\ WideEnough => Shows(console, Prompt) /\ BlankFrom(console, 1)
  BY <1>1, PromptFacts
<1>3. TypeOK
  <2>1. 0 \in 0 .. 127 /\ 0 \in 0 .. eX_SHELL_BUFFER_SIZE - 1
    BY ShellAssumption
  <2>. QED
    BY <1>2, <2>1 DEF TypeOK, NUL
<1>4. BufferInv /\ BelowBlank
  BY <1>2 DEF BufferInv, BelowBlank
<1>5. PromptTracksLine
  BY <1>2, ShellAssumption, LenProperties DEF PromptTracksLine
<1>6. LineOnScreen
  <2>1. Prompt \o Line = Prompt
    BY ShellAssumption, ConcatEmptySeq DEF Line
  <2>. QED
    BY <1>2, <2>1 DEF LineOnScreen, Shows
<1>. QED
  BY <1>3, <1>4, <1>5, <1>6 DEF IInv

\* Enter: the reply and a new prompt.
LEMMA EnterPreserves ==
  ASSUME IInv, eX_Shell_Enter
  PROVE  IInv' /\ OutsideStep
<1>. DEFINE buffer == Terminated(eX_ShellBuffer, eX_ShellLength)
            con1 == eX_PrintChar(console, NewLine)
            con2 == Reply(con1, buffer)
<1>1. /\ eX_ShellBuffer' = buffer /\ eX_ShellLength' = 0
      /\ console' = eX_PrintString(con2, Prompt)
  BY DEF eX_Shell_Enter
<1>2. console \in Consoles /\ console.y \in Nat
  BY DEF IInv, TypeOK, Consoles
<1>3. /\ con1 \in Consoles /\ con1.x = 0 /\ con1.y = console.y + 1
      /\ con1.cells = console.cells /\ con1.outside = console.outside
  BY <1>2, NewLineFacts
<1>. HIDE DEF con1
<1>4. WideEnough => BlankFrom(con1, con1.y)
  BY <1>3 DEF IInv, BelowBlank, BlankFrom
<1>5. /\ con2 \in Consoles /\ con2.x = 0
      /\ WideEnough =>
           BlankFrom(con2, con2.y) /\ ((con2.outside <=> con1.outside) \/ con2.y >= Rows)
  BY <1>3, <1>4, ReplyFacts DEF IInv
<1>. HIDE DEF con2
<1>6. /\ console' \in Consoles /\ console'.x = Len(Prompt) /\ console'.y = con2.y
      /\ WideEnough =>
           /\ Shows(console', Prompt)
           /\ BlankFrom(console', con2.y + 1)
           /\ (console'.outside <=> con2.outside) \/ con2.y >= Rows
  BY <1>1, <1>5, PromptFacts
<1>7. TypeOK'
  <2>1. buffer \in [0 .. eX_SHELL_BUFFER_SIZE - 1 -> 0 .. 127]
    BY DEF IInv, TypeOK, Terminated, NUL
  <2>2. 0 \in 0 .. eX_SHELL_BUFFER_SIZE - 1
    BY ShellAssumption
  <2>. QED
    BY <1>1, <1>6, <2>1, <2>2 DEF TypeOK
<1>8. BufferInv' /\ BelowBlank'
  BY <1>1, <1>6 DEF BufferInv, BelowBlank, WideEnough
<1>9. PromptTracksLine'
  BY <1>1, <1>6, ShellAssumption, LenProperties DEF PromptTracksLine
<1>10. LineOnScreen'
  <2>1. Prompt \o Line' = Prompt
    BY <1>1, ShellAssumption, ConcatEmptySeq DEF Line
  <2>. QED
    BY <1>6, <2>1 DEF LineOnScreen, Shows
<1>11. OutsideStep
  BY <1>3, <1>5, <1>6 DEF OutsideStep, Consoles
<1>. QED
  BY <1>7, <1>8, <1>9, <1>10, <1>11 DEF IInv

\* The row of an edited line: it shows the line when it showed the old one and
\* the one cell that differs was drawn.
LEMMA ShowsStep ==
  ASSUME NEW old \in Consoles, NEW new \in Consoles, new.y = old.y,
         NEW shown, NEW next, NEW x \in Nat, NEW c,
         Len(shown) \in Nat, Len(next) \in Nat,
         Shows(old, shown), OneGlyph(old, new, c, x, old.y),
         \A k \in 0 .. Columns - 1 :
           IF k = x THEN Look(c) = IF k < Len(next) THEN Look(next[k + 1]) ELSE Space
           ELSE /\ k < Len(shown) <=> k < Len(next)
                /\ k < Len(shown) => shown[k + 1] = next[k + 1]
  PROVE  Shows(new, next)
<1>. SUFFICES ASSUME old.y < Rows, NEW k \in 0 .. Columns - 1
              PROVE  new.cells[<<k, old.y>>] =
                       IF k < Len(next) THEN Look(next[k + 1]) ELSE Space
  BY DEF Shows
<1>1. old.y \in Nat /\ Rows \in Nat /\ <<k, old.y>> \in Cells
  BY ConsoleAssumption DEF Consoles, Cells
<1>2. <<k, old.y>> = <<x, old.y>> <=> k = x
  OBVIOUS
<1>3. new.cells[<<k, old.y>>] = IF k = x THEN Look(c) ELSE old.cells[<<k, old.y>>]
  BY <1>1, <1>2 DEF OneGlyph
<1>4. old.cells[<<k, old.y>>] = IF k < Len(shown) THEN Look(shown[k + 1]) ELSE Space
  BY DEF Shows
<1>5. CASE k = x
  BY <1>3, <1>5
<1>6. CASE k # x
  BY <1>3, <1>4, <1>6
<1>. QED
  BY <1>5, <1>6

\* A glyph in the cursor's row leaves what is below it.
LEMMA BelowStep ==
  ASSUME NEW old \in Consoles, NEW new, NEW x, NEW c, new.y = old.y,
         BlankFrom(old, old.y + 1), OneGlyph(old, new, c, x, old.y)
  PROVE  BlankFrom(new, new.y + 1)
<1>. SUFFICES ASSUME NEW cx \in 0 .. Columns - 1, NEW cy \in 0 .. Rows - 1, cy >= old.y + 1
              PROVE  new.cells[<<cx, cy>>] = Space
  BY DEF BlankFrom
<1>1. <<cx, cy>> \in Cells /\ <<cx, cy>> # <<x, old.y>>
  BY DEF Cells, Consoles
<1>. QED
  BY <1>1 DEF OneGlyph, BlankFrom

\* A character: it is added to the line and drawn behind it.
LEMMA CharacterPreserves ==
  ASSUME IInv, NEW c \in Printable, eX_Shell_Character(c)
  PROVE  IInv' /\ OutsideStep
<1>1. CASE Full(eX_ShellLength) /\ UNCHANGED shellVars
  BY <1>1 DEF shellVars, IInv, TypeOK, BufferInv, PromptTracksLine, BelowBlank, LineOnScreen,
              Line, OutsideStep
<1>2. CASE ~Full(eX_ShellLength)
  <2>. DEFINE n == eX_ShellLength
              L == Len(Prompt)
              shown == Prompt \o LineOf(eX_ShellBuffer, n)
              next  == Prompt \o LineOf(eX_ShellBuffer', n')
  <2>1. /\ eX_ShellBuffer' = [eX_ShellBuffer EXCEPT ![n] = c] /\ n' = n + 1
        /\ console' = eX_PrintChar(console, c)
    BY <1>2 DEF eX_Shell_Character
  <2>2. /\ n \in Nat /\ n + 1 <= eX_SHELL_BUFFER_SIZE - 1 /\ eX_SHELL_BUFFER_SIZE \in Nat
        /\ n \in 0 .. eX_SHELL_BUFFER_SIZE - 1
        /\ eX_ShellBuffer \in [0 .. eX_SHELL_BUFFER_SIZE - 1 -> 0 .. 127]
        /\ console \in Consoles /\ console.y \in Nat
    BY <1>2, ShellAssumption DEF IInv, TypeOK, Full, Consoles
  <2>3. /\ eX_ShellBuffer' \in [0 .. eX_SHELL_BUFFER_SIZE - 1 -> 0 .. 127]
        /\ eX_ShellBuffer'[n] = c
        /\ \A m \in 0 .. n - 1 : eX_ShellBuffer'[m] = eX_ShellBuffer[m]
    <3>1. c \in 0 .. 127
      BY DEF Printable
    <3>2. eX_ShellBuffer' \in [0 .. eX_SHELL_BUFFER_SIZE - 1 -> 0 .. 127]
      BY <2>1, <2>2, <3>1
    <3>3. \A m \in 0 .. eX_SHELL_BUFFER_SIZE - 1 :
            eX_ShellBuffer'[m] = IF m = n THEN c ELSE eX_ShellBuffer[m]
      BY <2>1, <2>2
    <3>4. \A m \in 0 .. n - 1 : m \in 0 .. eX_SHELL_BUFFER_SIZE - 1 /\ m # n
      BY <2>2
    <3>. QED
      BY <2>2, <3>2, <3>3, <3>4
  <2>4. \A m \in 0 .. n - 1 : eX_ShellBuffer[m] \in Printable
    BY DEF IInv, BufferInv
  <2>5. \A m \in 0 .. n' - 1 : eX_ShellBuffer'[m] \in Printable
    <3>1. \A m \in 0 .. n' - 1 : m \in 0 .. n - 1 \/ m = n
      BY <2>1, <2>2
    <3>. QED
      BY <2>3, <2>4, <3>1
  <2>6. /\ L \in Nat /\ Len(shown) = L + n
        /\ \A k \in 1 .. L + n :
             shown[k] = IF k <= L THEN Prompt[k] ELSE eX_ShellBuffer[k - L - 1]
    BY <2>2, <2>4, ShownSeq
  <2>7. /\ Len(next) = L + (n + 1)
        /\ \A k \in 1 .. L + (n + 1) :
             next[k] = IF k <= L THEN Prompt[k] ELSE eX_ShellBuffer'[k - L - 1]
    <3>1. n' \in Nat
      BY <2>1, <2>2
    <3>2. /\ Len(next) = L + n'
          /\ \A k \in 1 .. L + n' :
               next[k] = IF k <= L THEN Prompt[k] ELSE eX_ShellBuffer'[k - L - 1]
      BY <2>5, <3>1, ShownSeq
    <3>. QED
      BY <2>1, <3>2
  <2>8. console.x = L + n
    BY DEF IInv, PromptTracksLine
  <2>. HIDE DEF shown, next, L
  <2>9. /\ console' \in Consoles /\ console'.x = console.x + 1 /\ console'.y = console.y
        /\ console.x < Columns => OneGlyph(console, console', c, console.x, console.y)
    BY <2>1, <2>2, PrintCharFacts
  <2>10. WideEnough => console.x < Columns
    BY <2>2, <2>6, <2>8, ConsoleAssumption DEF WideEnough, L
  <2>11. TypeOK'
    BY <2>1, <2>2, <2>3, <2>9 DEF TypeOK
  <2>12. BufferInv' /\ PromptTracksLine'
    BY <2>1, <2>2, <2>5, <2>6, <2>8, <2>9 DEF BufferInv, PromptTracksLine, L
  <2>13. BelowBlank'
    <3>1. ASSUME WideEnough PROVE BlankFrom(console', console'.y + 1)
      BY <2>2, <2>9, <2>10, <3>1, BelowStep DEF IInv, BelowBlank
    <3>. QED
      BY <3>1 DEF BelowBlank, WideEnough
  <2>14. LineOnScreen'
    <3>1. ASSUME WideEnough PROVE Shows(console', next)
      <4>1. Shows(console, shown)
        BY <3>1 DEF IInv, LineOnScreen, Shows, shown, Line, LineOf
      <4>2. ASSUME NEW k \in 0 .. Columns - 1
            PROVE  IF k = console.x
                   THEN Look(c) = IF k < Len(next) THEN Look(next[k + 1]) ELSE Space
                   ELSE /\ k < Len(shown) <=> k < Len(next)
                        /\ k < Len(shown) => shown[k + 1] = next[k + 1]
        <5>1. CASE k = console.x
          <6>1. k < Len(next) /\ k + 1 \in 1 .. L + (n + 1) /\ ~(k + 1 <= L) /\ (k + 1) - L - 1 = n
            BY <2>2, <2>6, <2>7, <2>8, <5>1
          <6>2. next[k + 1] = c
            BY <2>3, <2>7, <6>1
          <6>. QED
            BY <5>1, <6>1, <6>2
        <5>2. CASE k # console.x
          <6>1. k < Len(shown) <=> k < Len(next)
            BY <2>2, <2>6, <2>7, <2>8, <5>2
          <6>2. ASSUME k < Len(shown) PROVE shown[k + 1] = next[k + 1]
            <7>1. k + 1 \in 1 .. L + n /\ k + 1 \in 1 .. L + (n + 1)
              BY <2>2, <2>6, <6>2
            <7>2. CASE k + 1 <= L
              BY <2>6, <2>7, <7>1, <7>2
            <7>3. CASE ~(k + 1 <= L)
              <8>1. k + 1 - L - 1 \in 0 .. n - 1
                BY <2>2, <2>6, <7>1, <7>3
              <8>. QED
                BY <2>3, <2>6, <2>7, <7>1, <7>3, <8>1
            <7>. QED
              BY <7>2, <7>3
          <6>. QED
            BY <5>2, <6>1, <6>2
        <5>. QED
          BY <5>1, <5>2
      <4>3. console.x \in Nat /\ Len(shown) \in Nat /\ Len(next) \in Nat
        BY <2>2, <2>6, <2>7, <2>8
      <4>. QED
        BY <2>2, <2>9, <2>10, <3>1, <4>1, <4>2, <4>3, ShowsStep
    <3>. QED
      BY <3>1 DEF LineOnScreen, WideEnough, Shows, next, Line, LineOf
  <2>15. OutsideStep
    <3>1. console.outside \in BOOLEAN /\ console'.outside \in BOOLEAN
      BY <2>2, <2>9 DEF Consoles
    <3>. QED
      BY <2>9, <2>10, <3>1 DEF OutsideStep, OneGlyph
  <2>. QED
    BY <2>11, <2>12, <2>13, <2>14, <2>15 DEF IInv
<1>. QED
  BY <1>1, <1>2 DEF eX_Shell_Character

\* Backspace: the last character of the line is taken back and blanked.
LEMMA BackspacePreserves ==
  ASSUME IInv, eX_Shell_Backspace
  PROVE  IInv' /\ OutsideStep
<1>1. CASE eX_ShellLength = 0
  <2>1. UNCHANGED shellVars
    BY <1>1 DEF eX_Shell_Backspace
  <2>. QED
    BY <2>1 DEF shellVars, IInv, TypeOK, BufferInv, PromptTracksLine, BelowBlank, LineOnScreen,
                Line, OutsideStep
<1>2. CASE eX_ShellLength # 0
  <2>. DEFINE n == eX_ShellLength
              L == Len(Prompt)
              x == console.x - 1
              shown == Prompt \o LineOf(eX_ShellBuffer, n)
              next  == Prompt \o LineOf(eX_ShellBuffer, n - 1)
  <2>1. eX_ShellBuffer' = eX_ShellBuffer /\ n' = n - 1 /\ console' = eX_Backspace(console)
    BY <1>2 DEF eX_Shell_Backspace
  <2>2. /\ n \in Nat /\ n - 1 \in Nat /\ n <= eX_SHELL_BUFFER_SIZE - 1
        /\ n - 1 \in 0 .. eX_SHELL_BUFFER_SIZE - 1 /\ eX_SHELL_BUFFER_SIZE \in Nat
        /\ console \in Consoles /\ console.y \in Nat
    BY <1>2, ShellAssumption DEF IInv, TypeOK, Consoles
  <2>3. /\ \A m \in 0 .. n - 1 : eX_ShellBuffer[m] \in Printable
        /\ \A m \in 0 .. (n - 1) - 1 : eX_ShellBuffer[m] \in Printable
    <3>1. \A m \in 0 .. (n - 1) - 1 : m \in 0 .. n - 1
      BY <2>2
    <3>. QED
      BY <3>1 DEF IInv, BufferInv
  <2>4. /\ L \in Nat /\ Len(shown) = L + n
        /\ \A k \in 1 .. L + n :
             shown[k] = IF k <= L THEN Prompt[k] ELSE eX_ShellBuffer[k - L - 1]
    BY <2>2, <2>3, ShownSeq
  <2>5. /\ Len(next) = L + (n - 1)
        /\ \A k \in 1 .. L + (n - 1) :
             next[k] = IF k <= L THEN Prompt[k] ELSE eX_ShellBuffer[k - L - 1]
    <3>. DEFINE p == n - 1
    <3>1. p \in Nat /\ \A m \in 0 .. p - 1 : eX_ShellBuffer[m] \in Printable
      BY <2>2, <2>3
    <3>. HIDE DEF p
    <3>2. /\ Len(Prompt \o LineOf(eX_ShellBuffer, p)) = L + p
          /\ \A k \in 1 .. L + p :
               (Prompt \o LineOf(eX_ShellBuffer, p))[k] =
                 IF k <= L THEN Prompt[k] ELSE eX_ShellBuffer[k - L - 1]
      BY <3>1, ShownSeq
    <3>. QED
      BY <3>2 DEF p
  <2>6. console.x = L + n
    BY DEF IInv, PromptTracksLine
  <2>. HIDE DEF shown, next, L
  <2>7. x \in Nat /\ x = L + (n - 1) /\ console.x # 0 /\ console.x \in Nat
    BY <2>2, <2>4, <2>6
  <2>8. /\ console' \in Consoles /\ console'.x = x /\ console'.y = console.y
        /\ console.x <= Columns => OneGlyph(console, console', Space, x, console.y)
    BY <2>1, <2>2, <2>7, BackspaceFacts
  <2>9. WideEnough => console.x <= Columns
    BY <2>2, <2>4, <2>6, ConsoleAssumption DEF WideEnough, L
  <2>. HIDE DEF x
  <2>10. TypeOK'
    BY <2>1, <2>2, <2>8 DEF IInv, TypeOK
  <2>11. BufferInv' /\ PromptTracksLine'
    BY <2>1, <2>2, <2>3, <2>7, <2>8 DEF BufferInv, PromptTracksLine, L
  <2>12. BelowBlank'
    <3>1. ASSUME WideEnough PROVE BlankFrom(console', console'.y + 1)
      BY <2>2, <2>8, <2>9, <3>1, BelowStep DEF IInv, BelowBlank
    <3>. QED
      BY <3>1 DEF BelowBlank, WideEnough
  <2>13. LineOnScreen'
    <3>1. ASSUME WideEnough PROVE Shows(console', next)
      <4>1. Shows(console, shown)
        BY <3>1 DEF IInv, LineOnScreen, Shows, shown, Line, LineOf
      <4>2. ASSUME NEW k \in 0 .. Columns - 1
            PROVE  IF k = x
                   THEN Look(Space) = IF k < Len(next) THEN Look(next[k + 1]) ELSE Space
                   ELSE /\ k < Len(shown) <=> k < Len(next)
                        /\ k < Len(shown) => shown[k + 1] = next[k + 1]
        <5>1. CASE k = x
          BY <2>5, <2>7, <5>1 DEF Look
        <5>2. CASE k # x
          <6>1. k < Len(shown) <=> k < Len(next)
            BY <2>2, <2>4, <2>5, <2>7, <5>2
          <6>2. ASSUME k < Len(shown) PROVE shown[k + 1] = next[k + 1]
            <7>1. k + 1 \in 1 .. L + n /\ k + 1 \in 1 .. L + (n - 1)
              BY <2>2, <2>4, <2>7, <5>2, <6>2
            <7>. QED
              BY <2>4, <2>5, <7>1
          <6>. QED
            BY <5>2, <6>1, <6>2
        <5>. QED
          BY <5>1, <5>2
      <4>3. Len(shown) \in Nat /\ Len(next) \in Nat
        BY <2>2, <2>4, <2>5
      <4>. QED
        BY <2>2, <2>7, <2>8, <2>9, <3>1, <4>1, <4>2, <4>3, ShowsStep
    <3>. QED
      BY <2>1, <3>1 DEF LineOnScreen, WideEnough, Shows, next, Line, LineOf
  <2>14. OutsideStep
    <3>1. console.outside \in BOOLEAN /\ console'.outside \in BOOLEAN
      BY <2>2, <2>8 DEF Consoles
    <3>. QED
      BY <2>8, <2>9, <3>1 DEF OutsideStep, OneGlyph
  <2>. QED
    BY <2>10, <2>11, <2>12, <2>13, <2>14 DEF IInv
<1>. QED
  BY <1>1, <1>2

\* Every step preserves the invariant and stays in the framebuffer.
LEMMA StepPreserves ==
  ASSUME IInv, [Next]_shellVars
  PROVE  IInv' /\ OutsideStep
<1>1. CASE UNCHANGED shellVars
  BY <1>1 DEF shellVars, IInv, TypeOK, BufferInv, PromptTracksLine, BelowBlank, LineOnScreen,
              Line, OutsideStep
<1>2. CASE eX_Shell_Enter
  BY <1>2, EnterPreserves
<1>3. CASE eX_Shell_Backspace
  BY <1>3, BackspacePreserves
<1>4. ASSUME NEW c \in Printable, eX_Shell_Character(c)
      PROVE  IInv' /\ OutsideStep
  BY <1>4, CharacterPreserves
<1>. QED
  BY <1>1, <1>2, <1>3, <1>4 DEF Next, eX_Shell_Update

\* The invariant holds in every state.
THEOREM ShellInvariant == Spec => []IInv
<1>1. IInv /\ [Next]_shellVars => IInv'
  BY StepPreserves
<1>. QED
  BY <1>1, InitIInv, PTL DEF Spec

\* The variables keep their ranges, so the terminator always has room: for
\* every length of the buffer and whatever is typed.
THEOREM ShellTypeOK == Spec => []TypeOK
<1>1. IInv => TypeOK
  BY DEF IInv
<1>. QED
  BY <1>1, ShellInvariant, PTL

\* The cursor is behind the line: no key eats into the prompt.
THEOREM ShellPrompt == Spec => []PromptTracksLine
<1>1. IInv => PromptTracksLine
  BY DEF IInv
<1>. QED
  BY <1>1, ShellInvariant, PTL

\* On every framebuffer that is wide enough the cursor's row shows the prompt
\* and the line, and nothing else.
THEOREM ShellScreen == Spec => []LineOnScreen
<1>1. IInv => LineOnScreen
  BY DEF IInv
<1>. QED
  BY <1>1, ShellInvariant, PTL

\* On such a framebuffer a step writes past its end only when it leaves the
\* cursor below the last row.
THEOREM ShellOutside == Spec => OutsideOnlyBelow
<1>1. IInv /\ [Next]_shellVars => [WideEnough /\ console'.outside # console.outside => console'.y >= Rows]_shellVars
  BY StepPreserves DEF OutsideStep
<1>. QED
  BY <1>1, ShellInvariant, PTL DEF Spec, OutsideOnlyBelow

-----------------------------------------------------------------------------
(* The shell implements LineEditor                                         *)

\* Every step of the shell is a step of the line editor, or changes nothing
\* that it has.
LEMMA EditorStep ==
  ASSUME IInv, [Next]_shellVars
  PROVE  [Editor!Next]_(Editor!vars)
<1>. DEFINE n == eX_ShellLength
<1>1. /\ n \in Nat /\ n <= eX_SHELL_BUFFER_SIZE - 1 /\ eX_SHELL_BUFFER_SIZE \in Nat
      /\ n \in 0 .. eX_SHELL_BUFFER_SIZE - 1
      /\ eX_ShellBuffer \in [0 .. eX_SHELL_BUFFER_SIZE - 1 -> 0 .. 127]
  BY ShellAssumption DEF IInv, TypeOK
<1>2. Line = LineOf(eX_ShellBuffer, n) /\ Line' = LineOf(eX_ShellBuffer', n')
  BY DEF Line, LineOf
<1>3. /\ Line \in Seq(Printable) /\ Len(Line) = n
      /\ \A k \in 1 .. n : Line[k] = eX_ShellBuffer[k - 1]
  BY <1>1, <1>2, LineSeq DEF IInv, BufferInv
<1>4. IInv'
  BY StepPreserves
<1>5. n' \in Nat
  BY <1>4, ShellAssumption DEF IInv, TypeOK
<1>6. /\ Line' \in Seq(Printable) /\ Len(Line') = n'
      /\ \A k \in 1 .. n' : Line'[k] = eX_ShellBuffer'[k - 1]
  <2>1. \A m \in 0 .. n' - 1 : eX_ShellBuffer'[m] \in Printable
    BY <1>4 DEF IInv, BufferInv
  <2>. QED
    BY <1>2, <1>5, <2>1, LineSeq
<1>7. CASE UNCHANGED shellVars
  BY <1>7 DEF shellVars, Editor!vars, Line
<1>8. CASE eX_Shell_Enter
  <2>. DEFINE buffer == Terminated(eX_ShellBuffer, eX_ShellLength)
  <2>1. CString(buffer) = Line
    BY TerminatedLine DEF IInv
  <2>2. n' = 0 /\ Line' = <<>>
    BY <1>6, <1>8, EmptySeq DEF eX_Shell_Enter
  <2>3. (\E name \in {Help, Clear, Version} : eX_Shell_StringEquals(buffer, name))
          = (Line \in {Help, Clear, Version})
    <3>1. (\E name \in {Help, Clear, Version} : eX_Shell_StringEquals(buffer, name))
            <=> (Line \in {Help, Clear, Version})
      BY <2>1, Zenon DEF eX_Shell_StringEquals
    <3>2. ASSUME NEW A \in BOOLEAN, NEW B \in BOOLEAN, A <=> B PROVE A = B
      BY <3>2
    <3>3. (\E name \in {Help, Clear, Version} : eX_Shell_StringEquals(buffer, name)) \in BOOLEAN
      BY Zenon
    <3>4. (Line \in {Help, Clear, Version}) \in BOOLEAN
      <4>1. ASSUME NEW names PROVE (Line \in names) \in BOOLEAN
        OBVIOUS
      <4>. QED
        BY <4>1, Zenon
    <3>. QED
      BY <3>1, <3>2, <3>3, <3>4, Zenon
  <2>4. answer' = [known |-> Line \in {Help, Clear, Version}, text |-> Line]
    BY <1>8, <2>1, <2>3, Zenon DEF eX_Shell_Enter
  <2>5. Editor!Enter
    BY <2>2, <2>4 DEF Editor!Enter
  <2>. QED
    BY <2>5 DEF Editor!Next
<1>9. CASE eX_Shell_Backspace
  <2>1. CASE n = 0
    <3>1. UNCHANGED shellVars
      BY <1>9, <2>1 DEF eX_Shell_Backspace
    <3>. QED
      BY <1>7, <3>1
  <2>2. CASE n # 0
    <3>1. n' = n - 1 /\ eX_ShellBuffer' = eX_ShellBuffer /\ answer' = answer
      BY <1>9, <2>2 DEF eX_Shell_Backspace
    <3>2. Line # <<>>
      BY <1>3, <2>2, EmptySeq
    <3>3. /\ Editor!Front(Line) \in Seq(Printable) /\ Len(Editor!Front(Line)) = n - 1
          /\ \A k \in 1 .. n - 1 : Editor!Front(Line)[k] = Line[k]
      BY <1>1, <1>3, <2>2 DEF Editor!Front
    <3>4. \A k \in 1 .. n - 1 : Line'[k] = Line[k]
      BY <1>1, <1>3, <1>6, <3>1
    <3>5. Line' = Editor!Front(Line)
      BY <1>6, <3>1, <3>3, <3>4, SeqEqual
    <3>6. Editor!Erase
      BY <3>1, <3>2, <3>5 DEF Editor!Erase
    <3>. QED
      BY <3>6 DEF Editor!Next
  <2>. QED
    BY <2>1, <2>2
<1>10. ASSUME NEW c \in Printable, eX_Shell_Character(c)
       PROVE  [Editor!Next]_(Editor!vars)
  <2>1. CASE Full(n)
    <3>1. UNCHANGED shellVars
      BY <1>10, <2>1 DEF eX_Shell_Character
    <3>. QED
      BY <1>7, <3>1
  <2>2. CASE ~Full(n)
    <3>1. n' = n + 1 /\ eX_ShellBuffer' = [eX_ShellBuffer EXCEPT ![n] = c] /\ answer' = answer
      BY <1>10, <2>2 DEF eX_Shell_Character
    <3>2. n < eX_SHELL_BUFFER_SIZE - 1
      BY <1>1, <2>2 DEF Full
    <3>3. /\ Append(Line, c) \in Seq(Printable) /\ Len(Append(Line, c)) = n + 1
          /\ \A k \in 1 .. n : Append(Line, c)[k] = Line[k]
          /\ Append(Line, c)[n + 1] = c
      BY <1>3, AppendProperties
    <3>4. ASSUME NEW k \in 1 .. n + 1 PROVE Line'[k] = Append(Line, c)[k]
      <4>1. CASE k = n + 1
        BY <1>1, <1>6, <3>1, <3>3, <4>1
      <4>2. CASE k # n + 1
        <5>1. k \in 1 .. n /\ k - 1 # n /\ k - 1 \in 0 .. eX_SHELL_BUFFER_SIZE - 1
          BY <1>1, <4>2
        <5>2. eX_ShellBuffer'[k - 1] = eX_ShellBuffer[k - 1]
          BY <1>1, <3>1, <5>1
        <5>. QED
          BY <1>3, <1>6, <3>1, <3>3, <5>1, <5>2
      <4>. QED
        BY <4>1, <4>2
    <3>5. Line' = Append(Line, c)
      BY <1>6, <3>1, <3>3, <3>4, SeqEqual
    <3>6. Editor!Type(c)
      BY <1>3, <3>1, <3>2, <3>5 DEF Editor!Type
    <3>. QED
      BY <3>6 DEF Editor!Next
  <2>. QED
    BY <2>1, <2>2
<1>. QED
  BY <1>7, <1>8, <1>9, <1>10 DEF Next, eX_Shell_Update

\* The shell implements the line editor: the buffer, with its stale bytes and
\* its terminator, is the line that was typed, for every size of the buffer.
THEOREM ShellRefinement == Spec => ImplementsLineEditor
<1>1. eX_Shell_Init => Editor!Init
  <2>. SUFFICES ASSUME eX_Shell_Init PROVE Editor!Init
    OBVIOUS
  <2>1. Line = <<>>
    BY DEF eX_Shell_Init, Line
  <2>. QED
    BY <2>1 DEF eX_Shell_Init, Editor!Init
<1>2. IInv /\ [Next]_shellVars => [Editor!Next]_(Editor!vars)
  BY EditorStep
<1>. QED
  BY <1>1, <1>2, ShellInvariant, PTL DEF Spec, ImplementsLineEditor, Editor!Spec
=============================================================================
