------------------------------ MODULE EvalProofs ----------------------------
(***************************************************************************)
(* What is proved of Eval, for a screen of any size that holds a line, any *)
(* characters and outputs, and any length of the line.                     *)
(***************************************************************************)
EXTENDS Eval, FoldLemmas, FiniteSetTheorems, SequenceTheorems

\* What is printed, and what a cell shows.
Printed == Chars \cup Controls \cup {NUL, Blank, "$", "!"}
Glyphs == Printed \cup {Cursor}

\* The block is none of the characters, and the prompt no control character.
LEMMA CharsDiffer ==
  /\ Cursor \notin Printed
  /\ Blank # Cursor
  /\ NL # TAB /\ NL # BACK /\ NL # BS /\ NL # CR
  /\ BACK # TAB /\ BACK # BS /\ BACK # CR
  /\ TAB # BS /\ TAB # CR /\ BS # CR
  /\ "$" \notin Controls
  /\ NUL # SPACE /\ NUL # QUOTE /\ SPACE # QUOTE
<1>1. Cursor \notin Chars
  BY EvalAssumption, Zenon
<1>2. Cursor \notin Controls /\ Cursor \notin {NUL, Blank, "$", "!"}
  BY Zenon DEF Controls, Cursor, Blank, NUL, NL, TAB, BACK, BS, CR
<1>3. Blank # Cursor
  BY Zenon DEF Blank, Cursor
<1>4. /\ NL # TAB /\ NL # BACK /\ NL # BS /\ NL # CR
      /\ BACK # TAB /\ BACK # BS /\ BACK # CR
      /\ TAB # BS /\ TAB # CR /\ BS # CR
  BY Zenon DEF NL, TAB, BACK, BS, CR
<1>5. "$" \notin Controls
  BY Zenon DEF Controls, Cursor, NL, TAB, BACK, BS, CR
<1>6. NUL # SPACE /\ NUL # QUOTE /\ SPACE # QUOTE
  BY Zenon DEF NUL, SPACE, QUOTE
<1> QED BY <1>1, <1>2, <1>3, <1>4, <1>5, <1>6, Zenon DEF Printed

-----------------------------------------------------------------------------
(* Cells. *)

\* A place on the screen has a cell, and the last row ends with the last one.
LEMMA CellIn ==
  ASSUME NEW x \in 0..Cols - 1, NEW y \in 0..Rows - 1
  PROVE  /\ Cell(x, y) \in Cells /\ Cell(x, y) \in Nat
         /\ Cell(x, y) <= (Rows - 1) * Cols + x
<1>1. Cols \in Nat /\ Rows \in Nat /\ x \in Nat /\ y \in Nat /\ x < Cols /\ Rows - 1 - y \in Nat
  BY ConsoleAssumption
<1>2. (Rows - 1 - y) * Cols \in Nat /\ y * Cols \in Nat
  BY <1>1
<1>3. (Rows - 1) * Cols = (Rows - 1 - y) * Cols + y * Cols
  BY <1>1
<1>4. Cols * Rows = (Rows - 1) * Cols + Cols
  BY <1>1
<1>5. PICK a, b, e \in Int : a = (Rows - 1 - y) * Cols /\ b = y * Cols /\ e = (Rows - 1) * Cols
  BY <1>1
<1>6. a >= 0 /\ b >= 0 /\ e = a + b /\ Cols * Rows = e + Cols
  BY <1>2, <1>3, <1>4, <1>5
<1> QED BY <1>1, <1>5, <1>6 DEF Cell, Cells

\* Going right and going down.
LEMMA CellNext ==
  ASSUME NEW x \in Nat, NEW y \in Nat
  PROVE  /\ Cell(x + 1, y) = Cell(x, y) + 1
         /\ x + 1 = Cols => Cell(0, y + 1) = Cell(x, y) + 1
         /\ Cell(0, y) = y * Cols
<1>1. Cols \in Nat
  BY ConsoleAssumption
<1>2. (y + 1) * Cols = y * Cols + Cols /\ y * Cols \in Nat
  BY <1>1
<1>3. PICK a, b \in Int : a = y * Cols /\ b = (y + 1) * Cols
  BY <1>1
<1> QED BY <1>1, <1>2, <1>3 DEF Cell

-----------------------------------------------------------------------------
(* The operations of the console. *)

Consoles == [x : Nat, y : Nat, lx : Nat, ly : Nat, scr : [Cells -> Glyphs]]

\* The block is at most where last_x and last_y say.
Drawn(c) == \A p \in Cells : c.scr[p] = Cursor => c.lx < Cols /\ c.ly < Rows /\ p = Cell(c.lx, c.ly)

\* There is none.
Bare(c) == \A p \in Cells : c.scr[p] # Cursor

\* There is one, at the cursor, and last_x and last_y say so.
Steady ==
  {c \in Consoles : /\ c.x < Cols /\ c.y < Rows /\ c.lx = c.x /\ c.ly = c.y
                    /\ {p \in Cells : c.scr[p] = Cursor} = {Cell(c.x, c.y)}}

\* The block is nowhere but at the cursor.
Ready ==
  {c \in Consoles : /\ c.x < Cols /\ c.y < Rows
                    /\ \A p \in Cells : c.scr[p] = Cursor => p = Cell(c.x, c.y)}

\* d is c with ch at the place x, y.
Put(d, c, ch, x, y) ==
  /\ d \in Consoles /\ d.x = c.x /\ d.y = c.y /\ d.lx = c.lx /\ d.ly = c.ly
  /\ \A p \in Cells : d.scr[p] = IF x < Cols /\ y < Rows /\ p = Cell(x, y) THEN ch ELSE c.scr[p]

\* put_char.
LEMMA PutCharIs ==
  ASSUME NEW c \in Consoles, NEW ch \in Glyphs, NEW x \in Nat, NEW y \in Nat
  PROVE  Put(PutChar(c, ch, x, y), c, ch, x, y)
<1>1. CASE x < Cols /\ y < Rows
  <2>1. PutChar(c, ch, x, y) = [c EXCEPT !.scr[Cell(x, y)] = ch]
    BY <1>1 DEF PutChar
  <2>2. Cell(x, y) \in Cells
    BY <1>1, CellIn, ConsoleAssumption
  <2> QED BY <1>1, <2>1, <2>2 DEF Consoles, Put
<1>2. CASE ~ (x < Cols /\ y < Rows)
  <2>1. PutChar(c, ch, x, y) = c
    BY <1>2 DEF PutChar
  <2> QED BY <1>2, <2>1 DEF Put
<1> QED BY <1>1, <1>2

\* The three ways in which console_cur is called with a block to draw or erase.
Redraw(c) == ConsoleCur(c, TRUE, TRUE)
Erase(c) == ConsoleCur(c, TRUE, FALSE)
Draw(c) == ConsoleCur(c, FALSE, TRUE)
Moved(c) == [c EXCEPT !.lx = c.x, !.ly = c.y]

\* And what it does then.
LEMMA CurIs ==
  ASSUME NEW c
  PROVE  /\ Erase(c) = [PutChar(c, Blank, c.lx, c.ly) EXCEPT !.lx = c.x, !.ly = c.y]
         /\ Draw(c) = PutChar(Moved(c), Cursor, c.x, c.y)
         /\ Redraw(c) = PutChar(Erase(c), Cursor, c.x, c.y)
         /\ ConsoleCur(c, FALSE, FALSE) = Moved(c)
<1>1. Erase(c) = [PutChar(c, Blank, c.lx, c.ly) EXCEPT !.lx = c.x, !.ly = c.y]
  BY Zenon DEF Erase, ConsoleCur
<1>2. Draw(c) = PutChar(Moved(c), Cursor, c.x, c.y)
  BY Zenon DEF Draw, ConsoleCur, Moved
<1>3. Redraw(c) = PutChar(Erase(c), Cursor, c.x, c.y)
  <2>1. Redraw(c) = PutChar([PutChar(c, Blank, c.lx, c.ly) EXCEPT !.lx = c.x, !.ly = c.y],
                            Cursor, c.x, c.y)
    BY Zenon DEF Redraw, ConsoleCur
  <2> QED BY <1>1, <2>1
<1>4. ConsoleCur(c, FALSE, FALSE) = Moved(c)
  BY Zenon DEF ConsoleCur, Moved
<1> QED BY <1>1, <1>2, <1>3, <1>4

\* Moving last_x and last_y to the cursor.
LEMMA MovedIs ==
  ASSUME NEW c \in Consoles
  PROVE  /\ Moved(c) \in Consoles /\ Moved(c).scr = c.scr
         /\ Moved(c).x = c.x /\ Moved(c).y = c.y /\ Moved(c).lx = c.x /\ Moved(c).ly = c.y
BY DEF Moved, Consoles

\* Erasing the block leaves none.
LEMMA EraseIs ==
  ASSUME NEW c \in Consoles, Drawn(c)
  PROVE  /\ Erase(c) \in Consoles /\ Bare(Erase(c))
         /\ Erase(c).x = c.x /\ Erase(c).y = c.y /\ Erase(c).lx = c.x /\ Erase(c).ly = c.y
         /\ \A p \in Cells : c.scr[p] = Erase(c).scr[p]
                             \/ (c.lx < Cols /\ c.ly < Rows /\ p = Cell(c.lx, c.ly))
<1> DEFINE d == PutChar(c, Blank, c.lx, c.ly)
<1>1. Blank \in Glyphs /\ c.lx \in Nat /\ c.ly \in Nat /\ c.x \in Nat /\ c.y \in Nat
  BY DEF Glyphs, Printed, Consoles
<1>2. /\ d \in Consoles /\ d.x = c.x /\ d.y = c.y
      /\ \A p \in Cells : d.scr[p] =
              IF c.lx < Cols /\ c.ly < Rows /\ p = Cell(c.lx, c.ly) THEN Blank ELSE c.scr[p]
  <2>1. Put(d, c, Blank, c.lx, c.ly)
    BY <1>1, PutCharIs
  <2> HIDE DEF d
  <2> QED BY <2>1 DEF Put
<1>3. Erase(c) = [d EXCEPT !.lx = c.x, !.ly = c.y]
  BY CurIs
<1> HIDE DEF d
<1>4. /\ Erase(c) \in Consoles /\ Erase(c).scr = d.scr
      /\ Erase(c).x = c.x /\ Erase(c).y = c.y /\ Erase(c).lx = c.x /\ Erase(c).ly = c.y
  <2>1. PICK a, b \in Nat : a = c.x /\ b = c.y
    BY <1>1
  <2>2. Erase(c) = [d EXCEPT !.lx = a, !.ly = b]
    BY <1>3, <2>1
  <2>3. /\ Erase(c) \in Consoles /\ Erase(c).scr = d.scr /\ Erase(c).x = d.x /\ Erase(c).y = d.y
        /\ Erase(c).lx = a /\ Erase(c).ly = b
    BY <1>2, <2>2 DEF Consoles
  <2> QED BY <1>2, <2>1, <2>3
<1>5. ASSUME NEW p \in Cells PROVE d.scr[p] # Cursor
  <2>1. Blank # Cursor
    BY CharsDiffer, Zenon
  <2> QED BY <1>2, <2>1 DEF Drawn
<1> QED BY <1>2, <1>4, <1>5 DEF Bare

\* Drawing it where there is none.
LEMMA DrawIs ==
  ASSUME NEW c \in Consoles, Bare(c), c.x < Cols, c.y < Rows
  PROVE  /\ Draw(c) \in Steady /\ Draw(c).x = c.x /\ Draw(c).y = c.y
         /\ \A p \in Cells : p # Cell(c.x, c.y) => Draw(c).scr[p] = c.scr[p]
<1> DEFINE m == Moved(c)
           d == PutChar(m, Cursor, c.x, c.y)
<1>1. Cursor \in Glyphs /\ c.x \in Nat /\ c.y \in Nat
  BY DEF Glyphs, Consoles
<1>2. /\ m \in Consoles /\ m.scr = c.scr
      /\ m.x = c.x /\ m.y = c.y /\ m.lx = c.x /\ m.ly = c.y
  BY MovedIs
<1> HIDE DEF m
<1>3. /\ d \in Consoles /\ d.x = c.x /\ d.y = c.y /\ d.lx = c.x /\ d.ly = c.y
      /\ \A p \in Cells : d.scr[p] =
              IF c.x < Cols /\ c.y < Rows /\ p = Cell(c.x, c.y) THEN Cursor ELSE c.scr[p]
  <2>1. Put(d, m, Cursor, c.x, c.y)
    BY <1>1, <1>2, PutCharIs
  <2> HIDE DEF d
  <2> QED BY <1>2, <2>1 DEF Put
<1>4. Draw(c) = d
  BY CurIs DEF m
<1> HIDE DEF d
<1>5. Cell(c.x, c.y) \in Cells
  BY <1>1, CellIn, ConsoleAssumption
<1>6. {p \in Cells : d.scr[p] = Cursor} = {Cell(c.x, c.y)}
  BY <1>3, <1>5 DEF Bare
<1>7. d \in Steady
  BY <1>3, <1>6 DEF Steady
<1> QED BY <1>3, <1>4, <1>7

\* Erasing it and drawing it again.
LEMMA RedrawIs ==
  ASSUME NEW c \in Consoles, Drawn(c), c.x < Cols, c.y < Rows
  PROVE  /\ Redraw(c) \in Steady /\ Redraw(c).x = c.x /\ Redraw(c).y = c.y
         /\ \A p \in Cells : \/ p = Cell(c.x, c.y)
                             \/ c.lx < Cols /\ c.ly < Rows /\ p = Cell(c.lx, c.ly)
                             \/ Redraw(c).scr[p] = c.scr[p]
<1> DEFINE e == Erase(c)
           d == PutChar(e, Cursor, c.x, c.y)
<1>1. Cursor \in Glyphs /\ c.x \in Nat /\ c.y \in Nat
  BY DEF Glyphs, Consoles
<1>2. /\ e \in Consoles /\ Bare(e) /\ e.x = c.x /\ e.y = c.y /\ e.lx = c.x /\ e.ly = c.y
      /\ \A p \in Cells : c.scr[p] = e.scr[p]
                          \/ (c.lx < Cols /\ c.ly < Rows /\ p = Cell(c.lx, c.ly))
  BY EraseIs
<1> HIDE DEF e
<1>3. /\ d \in Consoles /\ d.x = c.x /\ d.y = c.y /\ d.lx = c.x /\ d.ly = c.y
      /\ \A p \in Cells : d.scr[p] =
              IF c.x < Cols /\ c.y < Rows /\ p = Cell(c.x, c.y) THEN Cursor ELSE e.scr[p]
  <2>1. Put(d, e, Cursor, c.x, c.y)
    BY <1>1, <1>2, PutCharIs
  <2> HIDE DEF d
  <2> QED BY <1>2, <2>1 DEF Put
<1>4. Redraw(c) = d
  BY CurIs DEF e
<1> HIDE DEF d
<1>5. Cell(c.x, c.y) \in Cells
  BY <1>1, CellIn, ConsoleAssumption
<1>6. {p \in Cells : d.scr[p] = Cursor} = {Cell(c.x, c.y)}
  BY <1>2, <1>3, <1>5 DEF Bare
<1>7. d \in Steady
  BY <1>3, <1>6 DEF Steady
<1> QED BY <1>2, <1>3, <1>4, <1>7

\* r is c a line further down: on the next row, or on the last one with
\* everything a row higher.
Roll(r, c) ==
  /\ r \in Consoles /\ Drawn(r) /\ r.x = 0 /\ r.y < Rows
  /\ Bare(c) => Bare(r)
  /\ \/ c.y + 1 < Rows /\ r.y = c.y + 1 /\ r.scr = c.scr
     \/ /\ c.y + 1 = Rows /\ r.y = c.y
        /\ \A p \in Cells : p + Cols \in Cells =>
             \/ r.scr[p] = c.scr[p + Cols]
             \/ c.lx < Cols /\ c.ly < Rows /\ p + Cols = Cell(c.lx, c.ly)

\* console_roll.
LEMMA RollIs ==
  ASSUME NEW c \in Consoles, Drawn(c), c.y < Rows
  PROVE  Roll(ConsoleRoll(c), c)
<1> DEFINE d == [c EXCEPT !.x = 0, !.y = c.y + 1]
           e == Erase(d)
           r == ConsoleRoll(c)
<1>1. r = IF d.y < Rows THEN d ELSE [e EXCEPT !.scr = Scrolled(e.scr), !.y = d.y - 1]
  BY Zenon DEF ConsoleRoll, Erase
<1> HIDE DEF r
<1>2. c.y \in Nat /\ Rows \in Nat /\ Cols \in Nat
  BY ConsoleAssumption DEF Consoles
<1>3. /\ d \in Consoles /\ d.x = 0 /\ d.y = c.y + 1 /\ d.scr = c.scr /\ d.lx = c.lx /\ d.ly = c.ly
  <2>1. PICK y \in Nat : y = c.y + 1
    BY <1>2
  <2>2. d = [c EXCEPT !.x = 0, !.y = y]
    BY <2>1
  <2> QED BY <2>1, <2>2 DEF Consoles
<1> HIDE DEF d
<1>4. Drawn(d) /\ (Bare(c) => Bare(d))
  BY <1>3 DEF Drawn, Bare
<1>5. CASE c.y + 1 < Rows
  <2>1. r = d
    BY <1>1, <1>3, <1>5
  <2> QED BY <1>3, <1>4, <1>5, <2>1 DEF Roll, r
<1>6. CASE ~ (c.y + 1 < Rows)
  <2>1. c.y + 1 = Rows
    BY <1>2, <1>6
  <2>2. /\ e \in Consoles /\ Bare(e) /\ e.x = 0
        /\ \A p \in Cells : d.scr[p] = e.scr[p]
                            \/ (d.lx < Cols /\ d.ly < Rows /\ p = Cell(d.lx, d.ly))
    BY <1>3, <1>4, EraseIs
  <2> HIDE DEF e
  <2>3. r = [e EXCEPT !.scr = Scrolled(e.scr), !.y = c.y]
    <3>1. d.y - 1 = c.y
      BY <1>2, <1>3
    <3>2. ~ (d.y < Rows)
      BY <1>3, <1>6
    <3> QED BY <1>1, <3>1, <3>2
  <2>4. PICK scr : scr = Scrolled(e.scr)
    OBVIOUS
  <2>5. scr \in [Cells -> Glyphs]
    <3>1. Blank \in Glyphs /\ e.scr \in [Cells -> Glyphs]
      BY <2>2 DEF Glyphs, Printed, Consoles
    <3> QED BY <2>4, <3>1 DEF Scrolled
  <2>6. /\ r \in Consoles /\ r.x = 0 /\ r.y = c.y /\ r.scr = scr
    <3>1. PICK y \in Nat : y = c.y
      BY <1>2
    <3>2. r = [e EXCEPT !.scr = scr, !.y = y]
      BY <2>3, <2>4, <3>1
    <3> QED BY <2>2, <2>5, <3>1, <3>2 DEF Consoles
  <2>7. \A p \in Cells : scr[p] = IF p + Cols \in Cells THEN e.scr[p + Cols] ELSE Blank
    BY <2>4 DEF Scrolled
  <2>8. Blank # Cursor
    BY CharsDiffer, Zenon
  <2>9. Bare(r)
    BY <2>2, <2>6, <2>7, <2>8 DEF Bare
  <2>10. Drawn(r)
    BY <2>9 DEF Bare, Drawn
  <2>11. \A p \in Cells : p + Cols \in Cells =>
             \/ r.scr[p] = c.scr[p + Cols]
             \/ c.lx < Cols /\ c.ly < Rows /\ p + Cols = Cell(c.lx, c.ly)
    BY <1>3, <2>2, <2>6, <2>7
  <2> QED BY <2>1, <2>6, <2>9, <2>10, <2>11 DEF Roll, r
<1> QED BY <1>5, <1>6

\* What is behind the character ch that d shows where c has its cursor: what c
\* shows there, a row further up if the screen was scrolled.
Shift(d, c, ch) ==
  \E s \in {0, Cols} :
    /\ Cell(d.x, d.y) = Cell(c.x, c.y) + 1 - s
    /\ s = Cols => Cell(d.x, d.y) = (Rows - 1) * Cols
    /\ \A p \in Cells : p <= Cell(c.x, c.y) /\ p - s >= 0 =>
         d.scr[p - s] = IF p = Cell(c.x, c.y) THEN ch ELSE c.scr[p]

\* A character that is no control character.
LEMMA PlainIs ==
  ASSUME NEW c \in Ready, NEW ch \in Printed
  PROVE  Plain(c, ch) \in Steady /\ Shift(Plain(c, ch), c, ch)
<1> DEFINE w == PutChar(c, ch, c.x, c.y)
           d == [w EXCEPT !.x = c.x + 1]
           m == Moved(d)
           r == ConsoleRoll(m)
           at == Cell(c.x, c.y)
<1>1. /\ c \in Consoles /\ c.x \in Nat /\ c.y \in Nat /\ c.x < Cols /\ c.y < Rows
      /\ Cols \in Nat /\ Rows \in Nat
      /\ \A p \in Cells : c.scr[p] = Cursor => p = at
  BY ConsoleAssumption DEF Ready, Consoles
<1>2. at \in Cells /\ at \in Nat
  BY <1>1, CellIn
<1>3. ch # Cursor /\ ch \in Glyphs
  BY CharsDiffer, Zenon DEF Glyphs
<1>4. Plain(c, ch) = IF d.x >= Cols THEN Draw(r) ELSE Draw(d)
  <2>1. ConsoleCur(d, FALSE, FALSE) = m
    BY CurIs
  <2> HIDE DEF m
  <2>2. Plain(c, ch) = ConsoleCur(IF d.x >= Cols THEN ConsoleRoll(ConsoleCur(d, FALSE, FALSE)) ELSE d,
                                  FALSE, TRUE)
    BY Zenon DEF Plain
  <2>3. Plain(c, ch) = Draw(IF d.x >= Cols THEN ConsoleRoll(ConsoleCur(d, FALSE, FALSE)) ELSE d)
    BY <2>2, Zenon DEF Draw
  <2> QED BY <2>1, <2>3
<1>5. /\ w \in Consoles /\ w.y = c.y
      /\ \A p \in Cells : w.scr[p] = IF p = at THEN ch ELSE c.scr[p]
  <2>1. Put(w, c, ch, c.x, c.y)
    BY <1>1, <1>3, PutCharIs
  <2> HIDE DEF w
  <2> QED BY <1>1, <2>1 DEF Put
<1> HIDE DEF w
<1>6. d \in Consoles /\ d.x = c.x + 1 /\ d.y = c.y /\ d.scr = w.scr
  <2>1. PICK x \in Nat : x = c.x + 1
    BY <1>1
  <2>2. d = [w EXCEPT !.x = x]
    BY <2>1
  <2> QED BY <1>5, <2>1, <2>2 DEF Consoles
<1> HIDE DEF d
<1>7. Bare(d)
  BY <1>1, <1>3, <1>5, <1>6 DEF Bare
<1>8. at <= (Rows - 1) * Cols + c.x
  BY <1>1, CellIn
<1>9. CASE c.x + 1 < Cols
  <2>1. Plain(c, ch) = Draw(d)
    BY <1>1, <1>4, <1>6, <1>9
  <2>2. Cell(d.x, d.y) = at + 1
    BY <1>1, <1>6, CellNext
  <2>3. /\ Draw(d) \in Steady /\ Draw(d).x = d.x /\ Draw(d).y = d.y
        /\ \A p \in Cells : p # Cell(d.x, d.y) => Draw(d).scr[p] = d.scr[p]
    BY <1>1, <1>6, <1>7, <1>9, DrawIs
  <2>4. \A p \in Cells : p <= at =>
          Draw(d).scr[p] = IF p = at THEN ch ELSE c.scr[p]
    BY <1>2, <1>5, <1>6, <2>2, <2>3 DEF Cells
  <2>5. Shift(Draw(d), c, ch)
    <3>1. Cell(Draw(d).x, Draw(d).y) = at + 1 - 0
      BY <1>2, <2>2, <2>3
    <3>2. 0 # Cols
      BY ConsoleAssumption
    <3>3. \A p \in Cells : p - 0 = p
      BY DEF Cells
    <3> QED BY <2>4, <3>1, <3>2, <3>3 DEF Shift
  <2> QED BY <2>1, <2>3, <2>5
<1>10. CASE c.x + 1 = Cols
  <2>1. Plain(c, ch) = Draw(r)
    BY <1>1, <1>4, <1>6, <1>10
  <2>2. /\ m \in Consoles /\ m.scr = w.scr /\ m.x = c.x + 1 /\ m.y = c.y
        /\ m.lx = c.x + 1 /\ m.ly = c.y
    BY <1>6, MovedIs
  <2>3. Bare(m) /\ Drawn(m)
    BY <1>6, <1>7, <2>2 DEF Bare, Drawn
  <2> HIDE DEF m
  <2>4. Roll(r, m)
    BY <1>1, <2>2, <2>3, RollIs
  <2> HIDE DEF r
  <2>5. r \in Consoles /\ Bare(r) /\ r.x = 0 /\ r.y < Rows /\ r.x < Cols /\ r.y \in Nat
    BY <1>1, <2>3, <2>4 DEF Roll, Consoles
  <2>6. /\ Draw(r) \in Steady /\ Draw(r).x = r.x /\ Draw(r).y = r.y
        /\ \A p \in Cells : p # Cell(r.x, r.y) => Draw(r).scr[p] = r.scr[p]
    BY <2>5, DrawIs
  <2>7. CASE c.y + 1 < Rows
    <3>1. r.y = c.y + 1 /\ r.scr = w.scr
      BY <1>1, <2>2, <2>4, <2>7 DEF Roll
    <3>2. Cell(r.x, r.y) = at + 1
      BY <1>1, <1>10, <2>5, <3>1, CellNext
    <3>3. \A p \in Cells : p <= at =>
            Draw(r).scr[p] = IF p = at THEN ch ELSE c.scr[p]
      BY <1>2, <1>5, <2>6, <3>1, <3>2 DEF Cells
    <3>4. Cell(Draw(r).x, Draw(r).y) = at + 1 - 0
      BY <1>2, <2>6, <3>2
    <3>5. 0 # Cols
      BY ConsoleAssumption
    <3>6. \A p \in Cells : p - 0 = p
      BY DEF Cells
    <3>7. Shift(Draw(r), c, ch)
      BY <3>3, <3>4, <3>5, <3>6 DEF Shift
    <3> QED BY <2>1, <2>6, <3>7
  <2>8. CASE c.y + 1 = Rows
    <3>1. /\ r.y = c.y
          /\ \A p \in Cells : p + Cols \in Cells => r.scr[p] = w.scr[p + Cols]
      BY <1>1, <1>10, <2>2, <2>4, <2>8 DEF Roll
    <3>2. c.y = Rows - 1
      BY <1>1, <2>8
    <3>3. Cell(r.x, r.y) = (Rows - 1) * Cols
      BY <1>1, <2>5, <3>1, <3>2, CellNext
    <3>4. at = (Rows - 1) * Cols + c.x
      BY <3>2 DEF Cell
    <3>5. (Rows - 1) * Cols \in Int
      BY <1>1
    <3>6. Cell(r.x, r.y) = at + 1 - Cols
      BY <1>1, <1>10, <3>3, <3>4, <3>5
    <3>7. ASSUME NEW p \in Cells, p <= at, p - Cols >= 0
          PROVE  Draw(r).scr[p - Cols] = IF p = at THEN ch ELSE c.scr[p]
      <4>1. PICK q \in Cells : q = p - Cols
        <5>1. PICK e \in Int : e = Cols * Rows
          BY <1>1
        <5> QED BY <1>1, <3>7, <5>1 DEF Cells
      <4>2. p = q + Cols /\ q # Cell(r.x, r.y)
        BY <1>1, <1>2, <3>6, <3>7, <4>1 DEF Cells
      <4>3. Draw(r).scr[q] = r.scr[q]
        BY <2>6, <4>2
      <4>4. r.scr[q] = w.scr[p]
        BY <3>1, <4>2
      <4> QED BY <1>5, <4>1, <4>3, <4>4
    <3>8. Cell(Draw(r).x, Draw(r).y) = at + 1 - Cols /\ Cell(Draw(r).x, Draw(r).y) = (Rows - 1) * Cols
      BY <2>6, <3>3, <3>6
    <3>9. Shift(Draw(r), c, ch)
      BY <3>7, <3>8 DEF Shift
    <3> QED BY <2>1, <2>6, <3>9
  <2> QED BY <1>1, <2>7, <2>8
<1> QED BY <1>1, <1>9, <1>10

\* A console waiting for a key has its block where last_x and last_y say.
LEMMA SteadyIs ==
  ASSUME NEW c \in Steady
  PROVE  /\ c \in Consoles /\ Drawn(c) /\ c \in Ready
         /\ c.x \in Nat /\ c.y \in Nat /\ c.x < Cols /\ c.y < Rows
         /\ c.lx = c.x /\ c.ly = c.y /\ Cols \in Nat /\ Rows \in Nat
BY ConsoleAssumption DEF Steady, Ready, Consoles, Drawn

Place(c, x, y) == [c EXCEPT !.x = x, !.y = y]

\* The cursor moves, the block stays where it was drawn.
LEMMA PlaceIs ==
  ASSUME NEW c \in Consoles, Drawn(c), NEW x, NEW y, x \in Nat, y \in Nat
  PROVE  /\ Place(c, x, y) \in Consoles /\ Drawn(Place(c, x, y))
         /\ Place(c, x, y).x = x /\ Place(c, x, y).y = y /\ Place(c, x, y).scr = c.scr
         /\ Place(c, x, y).lx = c.lx /\ Place(c, x, y).ly = c.ly
BY DEF Place, Consoles, Drawn

\* Only x does.
LEMMA ColumnIs ==
  ASSUME NEW c \in Consoles, NEW x
  PROVE  [c EXCEPT !.x = x] = Place(c, x, c.y)
BY DEF Place, Consoles

\* A line feed.
LEMMA NewLineIs ==
  ASSUME NEW c \in Steady
  PROVE  Redraw(ConsoleRoll(c)) \in Steady
<1> DEFINE r == ConsoleRoll(c)
<1>1. c \in Consoles /\ Drawn(c) /\ c.y < Rows
  BY SteadyIs
<1>2. Roll(r, c)
  BY <1>1, RollIs
<1> HIDE DEF r
<1>3. r \in Consoles /\ Drawn(r) /\ r.x < Cols /\ r.y < Rows
  BY <1>2, ConsoleAssumption DEF Roll
<1> QED BY <1>3, RedrawIs DEF r

\* A tab, which at the end of a line goes to the next one.
LEMMA TabIs ==
  ASSUME NEW c \in Steady
  PROVE  Tab(c) \in Steady
<1> DEFINE d == [c EXCEPT !.x = c.x + 4 - (c.x % 4)]
           e == Erase(d)
           r == ConsoleRoll(e)
<1>1. c \in Consoles /\ Drawn(c) /\ c.x \in Nat /\ c.y \in Nat /\ c.y < Rows
  BY SteadyIs
<1>2. Tab(c) = IF d.x >= Cols THEN Redraw(r) ELSE Redraw(d)
  <2>1. ConsoleCur(d, TRUE, FALSE) = e
    BY Zenon DEF Erase
  <2> HIDE DEF e
  <2>2. Tab(c) = ConsoleCur(IF d.x >= Cols THEN ConsoleRoll(ConsoleCur(d, TRUE, FALSE)) ELSE d,
                            TRUE, TRUE)
    BY Zenon DEF Tab
  <2>3. Tab(c) = Redraw(IF d.x >= Cols THEN ConsoleRoll(ConsoleCur(d, TRUE, FALSE)) ELSE d)
    BY <2>2, Zenon DEF Redraw
  <2> QED BY <2>1, <2>3
<1>3. d \in Consoles /\ Drawn(d) /\ d.x \in Nat /\ d.y < Rows
  <2>1. PICK x \in Nat : x = c.x + 4 - (c.x % 4)
    BY <1>1
  <2>2. d = Place(c, x, c.y)
    BY <1>1, <2>1, ColumnIs
  <2>3. PICK y \in Nat : y = c.y
    BY <1>1
  <2>4. d = Place(c, x, y)
    BY <2>2, <2>3
  <2> HIDE DEF d
  <2> QED BY <1>1, <2>3, <2>4, PlaceIs
<1> HIDE DEF d
<1>4. CASE d.x >= Cols
  <2>1. e \in Consoles /\ Bare(e) /\ e.y < Rows
    BY <1>3, EraseIs
  <2> HIDE DEF e
  <2>2. Drawn(e)
    BY <2>1 DEF Bare, Drawn
  <2>3. Roll(r, e)
    BY <2>1, <2>2, RollIs
  <2> HIDE DEF r
  <2>4. r \in Consoles /\ Drawn(r) /\ r.x < Cols /\ r.y < Rows
    BY <2>3, ConsoleAssumption DEF Roll
  <2> QED BY <1>2, <1>4, <2>4, RedrawIs
<1>5. CASE ~ (d.x >= Cols)
  <2>1. d.x < Cols
    BY <1>3, <1>5, ConsoleAssumption
  <2> QED BY <1>2, <1>3, <1>5, <2>1, RedrawIs
<1> QED BY <1>4, <1>5

\* What a forced backspace leaves: the cell before the cursor is where the
\* cursor is now, and what is before that one stays.
Behind(d, c) ==
  Cell(c.x, c.y) > 0 => /\ Cell(d.x, d.y) = Cell(c.x, c.y) - 1
                        /\ \A p \in Cells : p < Cell(d.x, d.y) => d.scr[p] = c.scr[p]

\* A forced backspace.
LEMMA BackForceIs ==
  ASSUME NEW c \in Steady
  PROVE  BackForce(c) \in Steady /\ Behind(BackForce(c), c)
<1>1. /\ c \in Consoles /\ Drawn(c) /\ c.x \in Nat /\ c.y \in Nat /\ c.x < Cols /\ c.y < Rows
      /\ c.lx = c.x /\ c.ly = c.y /\ Cols \in Nat /\ Rows \in Nat
  BY SteadyIs
<1> DEFINE d == CASE c.x # 0 -> [c EXCEPT !.x = c.x - 1]
                  [] c.x = 0 /\ c.y # 0 -> [c EXCEPT !.x = Cols - 1, !.y = c.y - 1]
                  [] OTHER -> c
<1>2. BackForce(c) = Redraw(d)
  BY Zenon DEF BackForce, Redraw
<1>3. ASSUME d \in Consoles, Drawn(d), d.x < Cols, d.y < Rows, d.scr = c.scr,
             d.lx = c.lx, d.ly = c.ly,
             Cell(c.x, c.y) > 0 => Cell(d.x, d.y) = Cell(c.x, c.y) - 1
      PROVE  BackForce(c) \in Steady /\ Behind(BackForce(c), c)
  <2> HIDE DEF d
  <2>1. /\ Redraw(d) \in Steady /\ Redraw(d).x = d.x /\ Redraw(d).y = d.y
        /\ \A p \in Cells : \/ p = Cell(d.x, d.y)
                            \/ d.lx < Cols /\ d.ly < Rows /\ p = Cell(d.lx, d.ly)
                            \/ Redraw(d).scr[p] = d.scr[p]
    BY <1>3, RedrawIs
  <2>2. Cell(c.x, c.y) \in Nat /\ \A p \in Cells : p \in Int
    BY <1>1, CellIn DEF Cells
  <2>3. Behind(Redraw(d), c)
    BY <1>1, <1>3, <2>1, <2>2 DEF Behind
  <2> QED BY <1>2, <2>1, <2>3
<1>4. CASE c.x # 0
  <2>1. PICK x, y \in Nat : x = c.x - 1 /\ y = c.y
    BY <1>1, <1>4
  <2>2. d = Place(c, x, y)
    <3>1. d = [c EXCEPT !.x = x]
      BY <1>4, <2>1
    <3> HIDE DEF d
    <3> QED BY <1>1, <2>1, <3>1, ColumnIs
  <2> HIDE DEF d
  <2>3. /\ d \in Consoles /\ Drawn(d) /\ d.x = x /\ d.y = y
        /\ d.scr = c.scr /\ d.lx = c.lx /\ d.ly = c.ly
    BY <1>1, <2>1, <2>2, PlaceIs
  <2>4. Cell(c.x, c.y) = Cell(d.x, d.y) + 1 /\ Cell(d.x, d.y) \in Nat
    <3>1. Cell(x + 1, y) = Cell(x, y) + 1
      BY CellNext
    <3>2. x + 1 = c.x
      BY <1>1, <2>1
    <3>3. x \in 0..Cols - 1 /\ y \in 0..Rows - 1
      BY <1>1, <2>1
    <3>4. Cell(x, y) \in Nat
      BY <3>3, CellIn
    <3>5. Cell(c.x, c.y) = Cell(x, y) + 1
      BY <2>1, <3>1, <3>2
    <3> QED BY <2>3, <3>4, <3>5
  <2>5. d.x < Cols /\ d.y < Rows
    BY <1>1, <2>1, <2>3
  <2>6. Cell(c.x, c.y) > 0 => Cell(d.x, d.y) = Cell(c.x, c.y) - 1
    BY <2>4
  <2> QED BY <1>3, <2>3, <2>5, <2>6
<1>5. CASE c.x = 0 /\ c.y # 0
  <2>1. PICK x, y \in Nat : x = Cols - 1 /\ y = c.y - 1
    <3>1. Cols - 1 \in Nat /\ c.y - 1 \in Nat
      BY <1>1, <1>5
    <3> QED BY <3>1
  <2>2. d = Place(c, x, y)
    BY <1>5, <2>1 DEF Place
  <2> HIDE DEF d
  <2>3. /\ d \in Consoles /\ Drawn(d) /\ d.x = x /\ d.y = y
        /\ d.scr = c.scr /\ d.lx = c.lx /\ d.ly = c.ly
    BY <1>1, <2>1, <2>2, PlaceIs
  <2>4. Cell(c.x, c.y) = Cell(d.x, d.y) + 1 /\ Cell(d.x, d.y) \in Nat
    <3>1. x + 1 = Cols /\ y + 1 = c.y
      BY <1>1, <1>5, <2>1
    <3>2. Cell(0, y + 1) = Cell(x, y) + 1
      BY <3>1, CellNext
    <3>3. Cell(x, y) \in Nat
      BY <1>1, <2>1, <3>1, CellIn
    <3> QED BY <1>5, <2>3, <3>1, <3>2, <3>3
  <2> QED BY <1>1, <1>3, <2>1, <2>3, <2>4
<1>6. CASE c.x = 0 /\ c.y = 0
  <2>1. d = c
    BY <1>6
  <2> HIDE DEF d
  <2>2. Cell(c.x, c.y) = 0
    BY <1>1, <1>6 DEF Cell
  <2> QED BY <1>1, <1>3, <2>1, <2>2
<1> QED BY <1>4, <1>5, <1>6

\* Every character leaves a console that was waiting for a key as if it did.
LEMMA OutCharIs ==
  ASSUME NEW c \in Steady, NEW ch \in Printed
  PROVE  OutChar(c, ch) \in Steady
<1>1. /\ c \in Consoles /\ Drawn(c) /\ c \in Ready /\ c.x \in Nat /\ c.y \in Nat
      /\ c.x < Cols /\ c.y < Rows /\ Cols \in Nat
  BY SteadyIs
<1>2. ASSUME NEW x \in Nat, x < Cols PROVE Redraw([c EXCEPT !.x = x]) \in Steady
  <2>1. PICK y \in Nat : y = c.y
    BY <1>1
  <2>2. PICK d : d = Place(c, x, y)
    OBVIOUS
  <2>3. d = [c EXCEPT !.x = x]
    BY <1>1, <2>1, <2>2, ColumnIs
  <2>4. d \in Consoles /\ Drawn(d) /\ d.x < Cols /\ d.y < Rows
    <3>1. d.x = x /\ d.y = y
      BY <1>1, <2>2, PlaceIs
    <3>2. d \in Consoles
      BY <1>1, <2>2, PlaceIs
    <3>3. Drawn(d)
      BY <1>1, <2>2, PlaceIs
    <3> QED BY <1>1, <1>2, <2>1, <3>1, <3>2, <3>3
  <2> QED BY <2>3, <2>4, RedrawIs
<1>3. CASE ch = NL
  <2>1. OutChar(c, ch) = Redraw(ConsoleRoll(c))
    BY <1>3, CharsDiffer, Zenon DEF OutChar, Redraw
  <2> QED BY <2>1, NewLineIs
<1>4. CASE ch = TAB
  <2>1. OutChar(c, ch) = Tab(c)
    BY <1>4, CharsDiffer, Zenon DEF OutChar
  <2> QED BY <2>1, TabIs
<1>5. CASE ch = BACK
  <2>1. OutChar(c, ch) = BackForce(c)
    BY <1>5, CharsDiffer, Zenon DEF OutChar
  <2> QED BY <2>1, BackForceIs
<1>6. CASE ch = BS
  <2>1. OutChar(c, ch) = Backspace(c)
    BY <1>6, CharsDiffer, Zenon DEF OutChar
  <2>2. CASE c.x = 0
    BY <2>1, <2>2 DEF Backspace
  <2>3. CASE c.x # 0
    <3>1. Backspace(c) = Redraw([c EXCEPT !.x = c.x - 1])
      BY <2>3, Zenon DEF Backspace, Redraw
    <3>2. c.x - 1 \in Nat /\ c.x - 1 < Cols
      BY <1>1, <2>3
    <3> QED BY <1>2, <2>1, <3>1, <3>2
  <2> QED BY <2>2, <2>3
<1>7. CASE ch = CR
  <2>1. OutChar(c, ch) = Redraw([c EXCEPT !.x = 0])
    BY <1>7, CharsDiffer, Zenon DEF OutChar, Redraw
  <2>2. 0 < Cols
    BY ConsoleAssumption
  <2> QED BY <1>2, <2>1, <2>2
<1>8. CASE ch \notin Controls
  <2>1. OutChar(c, ch) = Plain(c, ch)
    BY <1>8, Zenon DEF OutChar, Controls
  <2> QED BY <1>1, <2>1, PlainIs
<1> QED BY <1>3, <1>4, <1>5, <1>6, <1>7, <1>8, Zenon DEF Controls

\* Clearing the screen leaves no block, and last_x and last_y as they were.
LEMMA ClsIs ==
  /\ \A c \in Steady : ConsoleCls(c) \in Ready
  /\ Cleared \in Ready
<1>1. ASSUME NEW c \in Consoles PROVE ConsoleCls(c) \in Ready
  <2> DEFINE empty == [p \in Cells |-> Blank]
             d == [c EXCEPT !.scr = empty, !.x = 0, !.y = 0]
  <2>1. empty \in [Cells -> Glyphs] /\ \A p \in Cells : empty[p] = Blank
    BY DEF Glyphs, Printed
  <2>2. ConsoleCls(c) = d
    BY DEF ConsoleCls
  <2> HIDE DEF empty
  <2>3. d \in Consoles /\ d.x = 0 /\ d.y = 0 /\ d.scr = empty
    BY <2>1 DEF Consoles
  <2> HIDE DEF d
  <2>4. Blank # Cursor
    BY CharsDiffer, Zenon
  <2> QED BY <2>1, <2>2, <2>3, <2>4, ConsoleAssumption DEF Ready
<1>2. Cleared \in Ready
  <2> DEFINE z == [x |-> 0, y |-> 0, lx |-> 0, ly |-> 0, scr |-> [p \in Cells |-> Blank]]
  <2>1. z \in Consoles
    BY DEF Consoles, Glyphs, Printed
  <2> QED BY <1>1, <2>1 DEF Cleared
<1> QED BY <1>1, <1>2, SteadyIs

-----------------------------------------------------------------------------
(* The output of a string. *)

\* The fold of OutChar, from b over s, at a set of positions.
OutEqn(f, b, s) ==
  f = [X \in SUBSET DOMAIN s |->
         IF X = {} THEN b ELSE OutChar(f[X \ {Max(X)}], s[Max(X)])]

\* A string printed on a console waiting for a key leaves it as if it waited.
LEMMA OutIs ==
  ASSUME NEW b \in Steady, NEW n \in Nat, NEW s \in [1..n -> Printed]
  PROVE  ConsoleOut(b, s) \in Steady
<1> DEFINE h == [p \in Steady \X Printed |-> OutChar(p[1], p[2])]
<1>1. h \in [Steady \X Printed -> Steady]
  BY OutCharIs
<1>2. \A t \in Steady, x \in Printed : h[<<t, x>>] = OutChar(t, x)
  OBVIOUS
<1>3. DOMAIN s = 1..n
  OBVIOUS
<1> HIDE DEF h
<1>4. PICK f \in [SUBSET (1..n) -> Steady] : FoldEqn(f, h, b, n, s)
  BY <1>1, FoldExists
<1>5. OutEqn(f, b, s)
  <2>1. ASSUME NEW X \in SUBSET (1..n), X # {}
        PROVE  OutChar(f[X \ {Max(X)}], s[Max(X)]) = h[<<f[X \ {Max(X)}], s[Max(X)]>>]
    <3>1. Max(X) \in 1..n /\ X \ {Max(X)} \in SUBSET (1..n)
      BY <2>1, MaxIs
    <3> QED BY <1>2, <3>1
  <2> QED BY <1>3, <1>4, <2>1 DEF FoldEqn, OutEqn
<1>6. PICK g : g = CHOOSE q : OutEqn(q, b, s)
  OBVIOUS
<1>7. OutEqn(g, b, s)
  BY <1>5, <1>6, Zenon
<1>8. ConsoleOut(b, s) = g[1..n]
  <2>1. g = CHOOSE q : q = [X \in SUBSET DOMAIN s |->
              IF X = {} THEN b ELSE OutChar(q[X \ {Max(X)}], s[Max(X)])]
    BY <1>6 DEF OutEqn
  <2> QED BY <1>3, <2>1 DEF ConsoleOut, FoldLeft, MapThenFoldSet
<1> DEFINE S == {k \in Nat : k <= n => g[1..k] \in Steady}
<1>9. 0 \in S
  <2>1. 1..0 = {} /\ {} \in SUBSET (1..n)
    OBVIOUS
  <2> QED BY <1>3, <1>7, <2>1 DEF OutEqn
<1>10. ASSUME NEW k \in Nat, k \in S, k + 1 <= n PROVE g[1..k + 1] \in Steady
  <2>1. 1..k + 1 \in SUBSET (1..n) /\ k + 1 \in 1..k + 1
    BY <1>10
  <2>2. Max(1..k + 1) = k + 1
    <3>1. \A y \in 1..k + 1 : k + 1 >= y
      OBVIOUS
    <3> QED BY <2>1, <3>1, MaxUnique
  <2>3. (1..k + 1) \ {k + 1} = 1..k
    OBVIOUS
  <2>4. g[1..k + 1] = OutChar(g[1..k], s[k + 1])
    BY <1>3, <1>7, <2>1, <2>2, <2>3 DEF OutEqn
  <2>5. g[1..k] \in Steady /\ s[k + 1] \in Printed
    BY <1>10
  <2> QED BY <2>4, <2>5, OutCharIs
<1>11. n \in S
  <2>1. \A k \in Nat : k \in S => k + 1 \in S
    BY <1>10
  <2> HIDE DEF S
  <2> QED BY <1>9, <2>1, NatSet
<1> QED BY <1>8, <1>11

\* A single character is a step, from any console.
LEMMA OneChar ==
  ASSUME NEW c, NEW ch
  PROVE  ConsoleOut(c, <<ch>>) = OutChar(c, ch)
<1> DEFINE s == <<ch>>
           f == [X \in SUBSET DOMAIN s |->
                   IF X = {} THEN c ELSE OutChar(c, ch)]
<1>1. DOMAIN s = 1..1 /\ 1..1 = {1} /\ s[1] = ch
  OBVIOUS
<1>2. Max({1}) = 1
  <2>1. {1} \in SUBSET (1..1) /\ \A y \in {1} : 1 >= y
    OBVIOUS
  <2> QED BY <2>1, MaxUnique
<1> HIDE DEF s
<1>3. SUBSET DOMAIN s = {{}, {1}}
  BY <1>1
<1>4. OutEqn(f, c, s)
  <2>1. \A X \in SUBSET DOMAIN s :
          (IF X = {} THEN c ELSE OutChar(f[X \ {Max(X)}], s[Max(X)]))
             = (IF X = {} THEN c ELSE OutChar(c, ch))
    <3> SUFFICES ASSUME NEW X \in SUBSET DOMAIN s, X # {}
                 PROVE  OutChar(f[X \ {Max(X)}], s[Max(X)]) = OutChar(c, ch)
      OBVIOUS
    <3>1. X = {1}
      BY <1>3
    <3>2. X \ {Max(X)} = {} /\ s[Max(X)] = ch
      BY <1>1, <1>2, <3>1
    <3>3. f[{}] = c
      OBVIOUS
    <3> HIDE DEF f
    <3> QED BY <3>2, <3>3
  <2> QED BY <2>1 DEF OutEqn
<1> HIDE DEF f
<1>5. PICK g : g = CHOOSE q : OutEqn(q, c, s)
  OBVIOUS
<1>6. OutEqn(g, c, s)
  BY <1>4, <1>5, Zenon
<1>7. ConsoleOut(c, s) = g[{1}]
  <2>1. g = CHOOSE q : q = [X \in SUBSET DOMAIN s |->
              IF X = {} THEN c ELSE OutChar(q[X \ {Max(X)}], s[Max(X)])]
    BY <1>5 DEF OutEqn
  <2> QED BY <1>1, <2>1 DEF ConsoleOut, FoldLeft, MapThenFoldSet
<1>8. g[{1}] = OutChar(c, ch)
  <2>1. {} \in SUBSET DOMAIN s /\ {1} \in SUBSET DOMAIN s /\ {1} # {} /\ {1} \ {1} = {}
    BY <1>3
  <2>2. g[{}] = c
    BY <1>6, <2>1 DEF OutEqn
  <2> QED BY <1>1, <1>2, <1>6, <2>1, <2>2 DEF OutEqn
<1> QED BY <1>7, <1>8 DEF s

-----------------------------------------------------------------------------
(* The line on the screen. *)

\* The screen shows the text t, up to the cursor and over the end of lines.
Shows(c, t) ==
  LET first == Cell(c.x, c.y) - Len(t)
  IN  first >= 0 /\ \A n \in 1..Len(t) : c.scr[first + n - 1] = t[n]

\* The cells a text is in that is shown are cells before the cursor.
LEMMA ShownCells ==
  ASSUME NEW c \in Steady, NEW L \in Nat, L <= Cell(c.x, c.y), NEW n \in 1..L
  PROVE  /\ Cell(c.x, c.y) - L + n - 1 \in Cells
         /\ Cell(c.x, c.y) - L + n - 1 < Cell(c.x, c.y)
<1>1. c.x \in Nat /\ c.y \in Nat /\ c.x < Cols /\ c.y < Rows /\ Cols \in Nat /\ Rows \in Nat
  BY SteadyIs
<1>2. Cell(c.x, c.y) \in Cells /\ Cell(c.x, c.y) \in Nat
  BY <1>1, CellIn
<1>3. PICK e \in Int : e = Cols * Rows
  BY <1>1
<1> QED BY <1>2, <1>3 DEF Cells

\* A character that is typed is shown behind the text, scrolled or not.
LEMMA TypedShown ==
  ASSUME NEW c \in Steady, NEW S, NEW t \in Seq(S), Shows(c, t),
         NEW ch \in Printed, Len(t) + 1 <= (Rows - 1) * Cols
  PROVE  Plain(c, ch) \in Steady /\ Shows(Plain(c, ch), Append(t, ch))
<1> DEFINE d == Plain(c, ch)
           at == Cell(c.x, c.y)
<1>1. c \in Ready /\ c.x \in Nat /\ c.y \in Nat /\ c.x < Cols /\ c.y < Rows /\ Cols \in Nat /\ Rows \in Nat
  BY SteadyIs
<1>2. d \in Steady /\ Shift(d, c, ch)
  BY <1>1, PlainIs
<1> HIDE DEF d
<1>3. PICK s \in {0, Cols} :
        /\ Cell(d.x, d.y) = at + 1 - s
        /\ s = Cols => Cell(d.x, d.y) = (Rows - 1) * Cols
        /\ \A p \in Cells : p <= at /\ p - s >= 0 =>
             d.scr[p - s] = IF p = at THEN ch ELSE c.scr[p]
  BY <1>2 DEF Shift
<1>4. PICK L \in Nat : L = Len(t)
  OBVIOUS
<1>5. at \in Nat /\ at \in Cells /\ s \in Nat
  <2>1. at \in Nat /\ at \in Cells
    BY <1>1, CellIn
  <2> HIDE DEF at
  <2>2. s = 0 \/ s = Cols
    BY <1>3
  <2> QED BY <1>1, <2>1, <2>2
<1>6. L <= at /\ \A n \in 1..L : c.scr[at - L + n - 1] = t[n]
  <2>1. at - L >= 0 /\ \A n \in 1..L : c.scr[at - L + n - 1] = t[n]
    BY <1>4 DEF Shows
  <2> HIDE DEF at
  <2> QED BY <1>5, <2>1
<1>7. PICK u : u = Append(t, ch)
  OBVIOUS
<1>8. Len(u) = L + 1 /\ u[L + 1] = ch /\ \A n \in 1..L : u[n] = t[n]
  BY <1>4, <1>7
<1>9. PICK first \in Int : first = at - s - L
  BY <1>4, <1>5
<1>10. Cell(d.x, d.y) - (L + 1) = first
  BY <1>3, <1>5, <1>9
<1>11. first >= 0
  <2>1. CASE s = 0
    BY <1>5, <1>6, <1>9, <2>1
  <2>2. CASE s = Cols
    <3>1. (Rows - 1) * Cols \in Int
      BY <1>1
    <3> QED BY <1>3, <1>4, <1>10, <2>2, <3>1
  <2> QED BY <2>1, <2>2
<1>12. ASSUME NEW n \in 1..L + 1 PROVE d.scr[first + n - 1] = u[n]
  <2>1. CASE n = L + 1
    <3>1. at - s >= 0 /\ first + n - 1 = at - s
      BY <1>5, <1>9, <1>11, <2>1
    <3> QED BY <1>3, <1>5, <1>8, <2>1, <3>1
  <2>2. CASE n \in 1..L
    <3>1. PICK p \in Cells : p = at - L + n - 1 /\ p < at
      <4>1. at - L + n - 1 \in Cells /\ at - L + n - 1 < at
        BY <1>6, <2>2, ShownCells
      <4> QED BY <4>1
    <3>2. first + n - 1 = p - s /\ p - s >= 0 /\ p <= at /\ p # at
      BY <1>5, <1>9, <1>11, <3>1, <2>2 DEF Cells
    <3>3. d.scr[p - s] = c.scr[p]
      BY <1>3, <3>2
    <3> QED BY <1>6, <1>8, <2>2, <3>1, <3>2, <3>3
  <2> QED BY <2>1, <2>2
<1>13. Shows(d, u)
  BY <1>8, <1>10, <1>11, <1>12 DEF Shows
<1> QED BY <1>2, <1>7, <1>13 DEF d

\* A character taken back is not shown, and the text before it still is.
LEMMA BackShown ==
  ASSUME NEW c \in Steady, NEW S, NEW t \in Seq(S), Shows(c, t), t # <<>>,
         NEW u \in Seq(S), Len(u) = Len(t) - 1, \A n \in 1..Len(u) : u[n] = t[n]
  PROVE  Shows(BackForce(c), u)
<1> DEFINE d == BackForce(c)
           at == Cell(c.x, c.y)
<1>1. PICK L \in Nat : L = Len(t)
  OBVIOUS
<1>2. L >= 1 /\ Len(u) = L - 1
  BY <1>1
<1>3. c.x \in Nat /\ c.y \in Nat /\ c.x < Cols /\ c.y < Rows /\ Cols \in Nat /\ Rows \in Nat
  BY SteadyIs
<1>4. at \in Nat
  BY <1>3, CellIn
<1>5. L <= at /\ \A n \in 1..L : c.scr[at - L + n - 1] = t[n]
  BY <1>1, <1>4 DEF Shows
<1>6. Behind(d, c)
  BY BackForceIs
<1> HIDE DEF d
<1>7. Cell(d.x, d.y) = at - 1 /\ \A p \in Cells : p < at - 1 => d.scr[p] = c.scr[p]
  BY <1>2, <1>4, <1>5, <1>6 DEF Behind
<1>8. ASSUME NEW n \in 1..L - 1 PROVE d.scr[at - L + n - 1] = u[n]
  <2>1. n \in 1..L /\ at - L + n - 1 < at - 1
    BY <1>4
  <2>2. at - L + n - 1 \in Cells
    BY <1>5, <2>1, ShownCells
  <2> QED BY <1>2, <1>5, <1>7, <2>1, <2>2
<1>9. at - 1 - (L - 1) = at - L
  BY <1>4
<1> QED BY <1>2, <1>4, <1>5, <1>7, <1>8, <1>9 DEF Shows, d

\* A new prompt is shown.
LEMMA PromptShown ==
  ASSUME NEW c \in Ready
  PROVE  ConsoleOut(c, Prompt) \in Steady /\ Shows(ConsoleOut(c, Prompt), Prompt)
<1> DEFINE d == Plain(c, "$")
           at == Cell(c.x, c.y)
<1>1. ConsoleOut(c, Prompt) = d
  <2>1. ConsoleOut(c, Prompt) = OutChar(c, "$")
    BY OneChar DEF Prompt
  <2>2. OutChar(c, "$") = Plain(c, "$")
    BY CharsDiffer, Zenon DEF OutChar, Controls
  <2> QED BY <2>1, <2>2
<1>2. d \in Steady /\ Shift(d, c, "$")
  <2>1. "$" \in Printed
    BY DEF Printed
  <2> QED BY <2>1, PlainIs
<1> HIDE DEF d
<1>3. PICK s \in {0, Cols} :
        /\ Cell(d.x, d.y) = at + 1 - s
        /\ s = Cols => Cell(d.x, d.y) = (Rows - 1) * Cols
        /\ \A p \in Cells : p <= at /\ p - s >= 0 =>
             d.scr[p - s] = IF p = at THEN "$" ELSE c.scr[p]
  BY <1>2 DEF Shift
<1>4. c.x \in Nat /\ c.y \in Nat /\ c.x < Cols /\ c.y < Rows /\ Cols \in Nat /\ Rows \in Nat
  BY ConsoleAssumption DEF Ready, Consoles
<1>5. at \in Nat /\ at \in Cells /\ s \in Nat
  BY <1>3, <1>4, CellIn
<1>6. Len(Prompt) = 1 /\ Prompt[1] = "$"
  BY DEF Prompt
<1>7. at - s >= 0
  <2>1. CASE s = 0
    BY <1>5, <2>1
  <2>2. CASE s = Cols
    <3>1. (Rows - 1) * Cols \in Int
      BY <1>4
    <3>2. (Rows - 1) * Cols >= 1
      BY <1>6, <3>1, EvalAssumption
    <3> QED BY <1>3, <1>5, <2>2, <3>1, <3>2
  <2> QED BY <2>1, <2>2
<1>8. d.scr[at - s] = "$"
  BY <1>3, <1>5, <1>7
<1>9. Cell(d.x, d.y) - 1 = at - s
  BY <1>3, <1>5
<1>10. Shows(d, Prompt)
  <2>1. \A n \in 1..1 : n = 1
    OBVIOUS
  <2>2. PICK q \in Int : q = Cell(d.x, d.y) - 1
    BY <1>5, <1>9
  <2>3. q + 1 - 1 = q /\ q >= 0 /\ d.scr[q] = Prompt[1]
    BY <1>6, <1>7, <1>8, <1>9, <2>2
  <2> QED BY <1>6, <2>1, <2>2, <2>3 DEF Shows
<1> QED BY <1>1, <1>2, <1>10

-----------------------------------------------------------------------------
(* The splitter writes terminators into the line, and nothing else. *)

Lines == [0..CharMax -> Chars \cup {NUL}]

\* The splitter's states on the line b: what was a terminator still is.
SplitStates(b) ==
  {s \in [b : Lines, argv : Seq(Nat), mark : BOOLEAN, space : BOOLEAN, full : BOOLEAN] :
     \A n \in 0..CharMax : b[n] = NUL => s.b[n] = NUL}

\* A step of the splitter goes from one to another.
LEMMA SplitAtIs ==
  ASSUME NEW b \in Lines, NEW s \in SplitStates(b), NEW k \in 0..CharMax
  PROVE  SplitAt(s, k) \in SplitStates(b)
<1>1. PICK l : l = [s.b EXCEPT ![k] = NUL]
  OBVIOUS
<1>2. s.b \in Lines /\ \A n \in 0..CharMax : b[n] = NUL => s.b[n] = NUL
  BY DEF SplitStates
<1>3. l \in Lines /\ \A n \in 0..CharMax : b[n] = NUL => l[n] = NUL
  BY <1>1, <1>2 DEF Lines
<1>4. SplitSpace(s, k) \in SplitStates(b)
  <2>1. SplitSpace(s, k) = s \/ SplitSpace(s, k) = [s EXCEPT !.space = TRUE, !.b = l]
    BY <1>1 DEF SplitSpace
  <2> QED BY <1>3, <2>1 DEF SplitStates
<1>5. SplitQuote(s, k) \in SplitStates(b)
  <2>1. \/ SplitQuote(s, k) = [s EXCEPT !.mark = TRUE]
        \/ SplitQuote(s, k) = [s EXCEPT !.mark = FALSE, !.space = TRUE, !.b = l]
    BY <1>1 DEF SplitQuote
  <2> QED BY <1>3, <2>1 DEF SplitStates
<1>6. SplitOther(s, k) \in SplitStates(b)
  <2>1. PICK a : a = Append(s.argv, k)
    OBVIOUS
  <2>2. a \in Seq(Nat)
    BY <2>1 DEF SplitStates
  <2>3. PICK f \in BOOLEAN : f = (Len(s.argv) + 1 >= ArgsMax)
    <3>1. (Len(s.argv) + 1 >= ArgsMax) \in BOOLEAN
      OBVIOUS
    <3> QED BY <3>1, Zenon
  <2>4. \/ SplitOther(s, k) = s
        \/ SplitOther(s, k) = [s EXCEPT !.argv = a, !.space = FALSE, !.full = f]
    BY <2>1, <2>3 DEF SplitOther
  <2> QED BY <2>2, <2>4 DEF SplitStates
<1>7. SplitAt(s, k) \in {s, SplitSpace(s, k), SplitQuote(s, k), SplitOther(s, k)}
  BY Zenon DEF SplitAt
<1> QED BY <1>4, <1>5, <1>6, <1>7

Splits(t, s) == FoldLeft(SplitAt, t, s)

\* The fold of SplitAt, from t over s, at a set of positions.
SplitEqn(f, t, s) ==
  f = [X \in SUBSET DOMAIN s |->
         IF X = {} THEN t ELSE SplitAt(f[X \ {Max(X)}], s[Max(X)])]

\* g has, at 1..k, the splitter after k steps.
SplitRun(g, b, t, n, s) ==
  /\ g[1..0] = t
  /\ \A k \in 1..n : g[1..k] = SplitAt(g[1..k - 1], s[k])
  /\ \A k \in 0..n : g[1..k] \in SplitStates(b)
  /\ Splits(t, s) = g[1..n]

\* The splitter is a trace of its steps, which leave terminators as they are.
LEMMA SplitTrace ==
  ASSUME NEW b \in Lines, NEW t \in SplitStates(b), NEW n \in Nat, NEW s \in [1..n -> 0..CharMax]
  PROVE  \E g : SplitRun(g, b, t, n, s)
<1> DEFINE T == SplitStates(b)
           K == 0..CharMax
           h == [p \in T \X K |-> SplitAt(p[1], p[2])]
<1>1. DOMAIN s = 1..n /\ s \in [1..n -> K] /\ t \in T /\ \A u \in T, k \in K : SplitAt(u, k) \in T
  BY SplitAtIs
<1> HIDE DEF T, K
<1>2. h \in [T \X K -> T]
  BY <1>1
<1>3. \A u \in T, k \in K : h[<<u, k>>] = SplitAt(u, k)
  OBVIOUS
<1> HIDE DEF h
<1>4. PICK f \in [SUBSET (1..n) -> T] : FoldEqn(f, h, t, n, s)
  BY <1>1, <1>2, FoldExists
<1>5. SplitEqn(f, t, s)
  <2>1. ASSUME NEW X \in SUBSET (1..n), X # {}
        PROVE  SplitAt(f[X \ {Max(X)}], s[Max(X)]) = h[<<f[X \ {Max(X)}], s[Max(X)]>>]
    <3>1. Max(X) \in 1..n /\ X \ {Max(X)} \in SUBSET (1..n)
      BY <2>1, MaxIs
    <3> QED BY <1>1, <1>3, <3>1
  <2> QED BY <1>1, <1>4, <2>1 DEF FoldEqn, SplitEqn
<1>6. PICK g : g = CHOOSE q : SplitEqn(q, t, s)
  OBVIOUS
<1>7. SplitEqn(g, t, s)
  BY <1>5, <1>6, Zenon
<1>8. Splits(t, s) = g[1..n]
  <2>1. g = CHOOSE q : q = [X \in SUBSET DOMAIN s |->
              IF X = {} THEN t ELSE SplitAt(q[X \ {Max(X)}], s[Max(X)])]
    BY <1>6 DEF SplitEqn
  <2> QED BY <1>1, <2>1 DEF Splits, FoldLeft, MapThenFoldSet
<1> DEFINE S == {k \in Nat : k <= n => g[1..k] \in T}
<1>9. g[1..0] = t
  <2>1. 1..0 = {} /\ {} \in SUBSET (1..n)
    OBVIOUS
  <2> QED BY <1>1, <1>7, <2>1 DEF SplitEqn
<1>10. ASSUME NEW k \in 1..n PROVE g[1..k] = SplitAt(g[1..k - 1], s[k])
  <2>1. 1..k \in SUBSET (1..n) /\ k \in 1..k
    OBVIOUS
  <2>2. Max(1..k) = k
    <3>1. \A y \in 1..k : k >= y
      OBVIOUS
    <3> QED BY <2>1, <3>1, MaxUnique
  <2>3. (1..k) \ {k} = 1..k - 1
    OBVIOUS
  <2> QED BY <1>1, <1>7, <2>1, <2>2, <2>3 DEF SplitEqn
<1>11. ASSUME NEW k \in Nat, k \in S, k + 1 <= n PROVE g[1..k + 1] \in T
  <2>1. k + 1 \in 1..n /\ (k + 1) - 1 = k
    BY <1>11
  <2>2. g[1..k + 1] = SplitAt(g[1..k], s[k + 1])
    BY <1>10, <2>1
  <2>3. PICK u \in T, j \in K : u = g[1..k] /\ j = s[k + 1]
    <3>1. g[1..k] \in T /\ s[k + 1] \in K
      BY <1>1, <1>11, <2>1
    <3> QED BY <3>1
  <2>4. SplitAt(u, j) \in T
    BY <1>1, Zenon
  <2> QED BY <2>2, <2>3, <2>4
<1>12. Nat \subseteq S
  <2>1. 0 \in S
    BY <1>1, <1>9
  <2>2. \A k \in Nat : k \in S => k + 1 \in S
    BY <1>11
  <2> HIDE DEF S
  <2> QED BY <2>1, <2>2, NatSet
<1>13. \A k \in 0..n : g[1..k] \in SplitStates(b)
  BY <1>12 DEF T
<1> QED BY <1>8, <1>9, <1>10, <1>13 DEF SplitRun

\* t is a string of the buffer that starts at k.
StringAt(t, k) ==
  \E m \in Nat : k + m <= CharMax /\ t \in [1..m -> Chars \cup {NUL}]

\* A string ends at the terminator behind it.
LEMMA StringIs ==
  ASSUME NEW b \in Lines, NEW k \in 0..CharMax, NEW e \in k..CharMax, b[e] = NUL
  PROVE  StringAt(String(b, k), k)
<1> DEFINE X == {n \in k..CharMax : b[n] = NUL}
<1>1. CharMax \in Nat /\ k \in Nat
  BY EvalAssumption
<1>2. X \in SUBSET Nat /\ X # {}
  BY <1>1
<1>3. PICK end : end = Min(X)
  OBVIOUS
<1>4. end \in k..CharMax
  <2> HIDE DEF X
  <2>1. end \in X
    BY <1>2, <1>3, MinIs
  <2> QED BY <2>1 DEF X
<1>5. PICK m \in Nat : m = end - k
  BY <1>1, <1>4
<1>6. PICK t : t = [n \in 1..m |-> b[k + n - 1]]
  OBVIOUS
<1>7. t \in [1..m -> Chars \cup {NUL}]
  <2>1. \A n \in 1..m : k + n - 1 \in 0..CharMax
    BY <1>1, <1>4, <1>5
  <2> QED BY <1>6, <2>1 DEF Lines
<1>8. String(b, k) = t
  BY <1>3, <1>5, <1>6, Zenon DEF String
<1>9. k + m <= CharMax
  BY <1>1, <1>4, <1>5
<1> QED BY <1>7, <1>8, <1>9 DEF StringAt

\* A line that ends has a start before it.
LEMMA StartIs ==
  ASSUME NEW b \in Lines, NEW e \in 0..CharMax, b[e] = NUL
  PROVE  CommandStart(b) \in 0..e
<1> DEFINE X == {n \in 0..CharMax : b[n] # SPACE}
<1>1. X \in SUBSET Nat /\ e \in X
  BY CharsDiffer, EvalAssumption
<1>2. PICK m : m = Min(X)
  OBVIOUS
<1> HIDE DEF X
<1>3. m \in X /\ m <= e
  BY <1>1, <1>2, MinIs
<1>4. m \in Nat
  BY <1>1, <1>3
<1> QED BY <1>2, <1>3, <1>4 DEF CommandStart, X

\* The splitter's result.
LEMMA SplitIs ==
  ASSUME NEW b \in Lines, NEW e \in 0..CharMax, b[e] = NUL
  PROVE  Split(b) \in SplitStates(b)
<1>1. PICK start : start = CommandStart(b)
  OBVIOUS
<1>2. start \in 0..e /\ CharMax \in Nat
  BY <1>1, StartIs, EvalAssumption
<1>3. PICK m \in Nat : start + m <= CharMax /\ String(b, start) \in [1..m -> Chars \cup {NUL}]
  <2>1. start \in 0..CharMax /\ e \in start..CharMax
    BY <1>2
  <2>2. StringAt(String(b, start), start)
    BY <2>1, StringIs
  <2> QED BY <2>2 DEF StringAt
<1>4. Len(String(b, start)) = m
  <2>1. PICK t : t = String(b, start)
    OBVIOUS
  <2>2. t \in [1..m -> Chars \cup {NUL}]
    BY <1>3, <2>1
  <2>3. DOMAIN t = 1..m /\ t \in Seq(Chars \cup {NUL})
    BY <2>2
  <2> QED BY <2>1, <2>3
<1>5. Positions(b) = [n \in 1..m |-> start + n - 1]
  <2>1. \A x, y : x = y => [n \in 1..x |-> start + n - 1] = [n \in 1..y |-> start + n - 1]
    OBVIOUS
  <2> QED BY <1>1, <1>4, <2>1 DEF Positions
<1>6. Positions(b) \in [1..m -> 0..CharMax]
  BY <1>2, <1>3, <1>5
<1>7. PICK t : t = [b |-> b, argv |-> <<>>, mark |-> FALSE, space |-> FALSE, full |-> FALSE]
  OBVIOUS
<1>8. t \in SplitStates(b)
  BY <1>7 DEF SplitStates
<1>9. Split(b) = Splits(t, Positions(b))
  BY <1>7 DEF Split, Splits
<1>10. PICK g : SplitRun(g, b, t, m, Positions(b))
  BY <1>6, <1>8, SplitTrace
<1>11. m \in 0..m
  OBVIOUS
<1> QED BY <1>9, <1>10, <1>11 DEF SplitRun

-----------------------------------------------------------------------------
(* The splitter follows the line that was typed. *)

\* The numbers of a set that are at most k.
Upto(S, k) == {j \in S : j <= k}

\* How many there are, one number after the other.
LEMMA UptoIs ==
  ASSUME NEW L \in Nat, NEW S \in SUBSET (1..L)
  PROVE  /\ \A k \in 0..L : IsFiniteSet(Upto(S, k)) /\ Cardinality(Upto(S, k)) \in Nat
         /\ Upto(S, L) = S /\ Upto(S, 0) = {} /\ Cardinality(Upto(S, 0)) = 0
<1>1. ASSUME NEW k \in 0..L
      PROVE  IsFiniteSet(Upto(S, k)) /\ Cardinality(Upto(S, k)) \in Nat
  <2>1. IsFiniteSet(1..L)
    BY FS_Interval
  <2>2. Upto(S, k) \subseteq 1..L
    BY DEF Upto
  <2> QED BY <2>1, <2>2, FS_Subset, FS_CardinalityType
<1>2. Upto(S, L) = S /\ Upto(S, 0) = {}
  <2>1. \A x \in S : x \in 1..L /\ x <= L /\ ~ (x <= 0)
    OBVIOUS
  <2> QED BY <2>1, Zenon DEF Upto
<1>3. Cardinality(Upto(S, 0)) = 0
  BY <1>2, FS_EmptySet
<1> QED BY <1>1, <1>2, <1>3

\* The next number counts if it is in the set.
LEMMA UptoNext ==
  ASSUME NEW L \in Nat, NEW S \in SUBSET (1..L), NEW k \in 0..L - 1, NEW q, q = k + 1
  PROVE  Cardinality(Upto(S, q)) =
           IF q \in S THEN Cardinality(Upto(S, k)) + 1 ELSE Cardinality(Upto(S, k))
<1>1. /\ \A x \in S : x <= q <=> x <= k \/ x = q
      /\ ~ (q <= k) /\ q <= q
  OBVIOUS
<1>2. CASE q \in S
  <2>1. Upto(S, q) = Upto(S, k) \cup {q} /\ q \notin Upto(S, k)
    BY <1>1, <1>2, Zenon DEF Upto
  <2>2. k \in 0..L
    OBVIOUS
  <2>3. IsFiniteSet(Upto(S, k))
    BY <2>2, UptoIs
  <2> QED BY <1>2, <2>1, <2>3, FS_AddElement
<1>3. CASE q \notin S
  <2>1. Upto(S, q) = Upto(S, k)
    BY <1>1, <1>3, Zenon DEF Upto
  <2> QED BY <1>3, <2>1
<1> QED BY <1>2, <1>3

\* A number of the set is known by how many are at most it.
LEMMA NthIs ==
  ASSUME NEW L \in Nat, NEW S \in SUBSET (1..L), NEW x \in S
  PROVE  Nth(S, Cardinality(Upto(S, x))) = x
<1>1. ASSUME NEW y \in S, NEW z \in S, y < z
      PROVE  Cardinality(Upto(S, y)) < Cardinality(Upto(S, z))
  <2>1. y \in 0..L /\ z \in 0..L
    OBVIOUS
  <2>2. /\ IsFiniteSet(Upto(S, y)) /\ Cardinality(Upto(S, y)) \in Nat
        /\ IsFiniteSet(Upto(S, z)) /\ Cardinality(Upto(S, z)) \in Nat
    BY <2>1, UptoIs
  <2>3. z \in Upto(S, z) /\ z \notin Upto(S, y) /\ Upto(S, y) \subseteq Upto(S, z) \ {z}
    <3>1. ~ (z <= y) /\ z <= z /\ \A w \in S : w <= y => w <= z /\ w # z
      BY <1>1
    <3> QED BY <3>1, Zenon DEF Upto
  <2>4. /\ IsFiniteSet(Upto(S, z) \ {z})
        /\ Cardinality(Upto(S, z) \ {z}) = Cardinality(Upto(S, z)) - 1
    BY <2>2, <2>3, FS_RemoveElement
  <2>5. Cardinality(Upto(S, y)) <= Cardinality(Upto(S, z) \ {z})
    BY <2>3, <2>4, FS_Subset
  <2> QED BY <2>2, <2>4, <2>5
<1>2. \A y \in S : Cardinality(Upto(S, y)) = Cardinality(Upto(S, x)) => y = x
  <2> SUFFICES ASSUME NEW y \in S, Cardinality(Upto(S, y)) = Cardinality(Upto(S, x)), y # x
               PROVE  FALSE
    OBVIOUS
  <2>1. Cardinality(Upto(S, y)) \in Nat
    <3>1. y \in 0..L
      OBVIOUS
    <3> QED BY <3>1, UptoIs
  <2>2. y < x \/ x < y
    OBVIOUS
  <2> QED BY <1>1, <2>1, <2>2
<1>3. PICK n : n = Cardinality(Upto(S, x))
  OBVIOUS
<1>4. x = CHOOSE y \in S : Cardinality({j \in S : j <= y}) = n
  BY <1>2, <1>3 DEF Upto
<1> QED BY <1>3, <1>4 DEF Nth

\* The next letter starts an argument.
Open(t, p) ==
  \A j \in Letters(t) : j <= p => \E x \in Separators(t) : j < x /\ x <= p

\* What is known of the place k of the line t, behind the place p.
At(t, p, k) ==
  /\ k \in Separators(t) => Open(t, k)
  /\ k \notin Separators(t) /\ k \notin Letters(t) => (Open(t, k) <=> Open(t, p))
  /\ k \in Letters(t) => ~ Open(t, k)
  /\ k \in Starts(t) <=> k \in Letters(t) /\ Open(t, p)
  /\ k \in Quotes(t) => (Inside(t, k + 1) <=> ~ Inside(t, k))
  /\ k \notin Quotes(t) => (Inside(t, k + 1) <=> Inside(t, k))
  /\ k \in Letters(t) <=> t[k] # SPACE /\ k \notin Quotes(t)
  /\ k \in Separators(t) <=> \/ t[k] = SPACE /\ ~ Inside(t, k)
                             \/ k \in Quotes(t) /\ Inside(t, k)
  /\ k \in Quotes(t) => t[k] # SPACE

\* And why.
LEMMA AtIs ==
  ASSUME NEW t \in Seq(Chars), NEW p \in 0..Len(t) - 1
  PROVE  At(t, p, p + 1)
<1> DEFINE k == p + 1
<1>1. PICK L \in Nat : L = Len(t)
  OBVIOUS
<1>2. k \in 1..L /\ p \in Nat /\ p \in 0..L - 1
  BY <1>1
<1>3. /\ Quotes(t) \in SUBSET (1..L) /\ Separators(t) \in SUBSET (1..L)
      /\ Letters(t) \in SUBSET (1..L) /\ Starts(t) \in SUBSET (1..L)
  BY <1>1 DEF Quotes, Separators, Letters, Starts
<1>4. k \in Quotes(t) => t[k] # SPACE
  BY CharsDiffer, Zenon DEF Quotes
<1>5. k \in Letters(t) <=> t[k] # SPACE /\ k \notin Quotes(t)
  BY <1>1, <1>2 DEF Letters
<1>6. k \in Separators(t) <=> \/ t[k] = SPACE /\ ~ Inside(t, k)
                              \/ k \in Quotes(t) /\ Inside(t, k)
  BY <1>1, <1>2 DEF Separators
<1>7. k \in Letters(t) => k \notin Separators(t)
  BY <1>5, <1>6
<1>8. k \in Starts(t) <=> k \in Letters(t) /\ Open(t, p)
  <2>1. \A x \in 1..L : x < k <=> x <= p
    BY <1>2
  <2> HIDE DEF k
  <2>2. k \in Starts(t) <=> /\ k \in Letters(t)
                            /\ \A j \in Letters(t) : j < k => \E s \in Separators(t) : j < s /\ s < k
    BY DEF Starts
  <2> QED BY <1>3, <2>1, <2>2 DEF Open
<1>9. \A x \in 1..L : x <= k <=> x <= p \/ x = k
  BY <1>2
<1>10. (k \in Quotes(t) => (Inside(t, k + 1) <=> ~ Inside(t, k)))
       /\ (k \notin Quotes(t) => (Inside(t, k + 1) <=> Inside(t, k)))
  <2>1. /\ {q \in Quotes(t) : q < k + 1} = Upto(Quotes(t), k)
        /\ {q \in Quotes(t) : q < k} = Upto(Quotes(t), p)
    <3>1. \A x \in Quotes(t) : (x < k + 1 <=> x <= k) /\ (x < k <=> x <= p)
      BY <1>2, <1>3
    <3> HIDE DEF k
    <3> QED BY <3>1, Zenon DEF Upto
  <2>2. PICK m, n \in Nat : m = Cardinality(Upto(Quotes(t), p)) /\ n = Cardinality(Upto(Quotes(t), p + 1))
    <3>1. p \in 0..L /\ p + 1 \in 0..L
      BY <1>2
    <3>2. Cardinality(Upto(Quotes(t), p)) \in Nat /\ Cardinality(Upto(Quotes(t), p + 1)) \in Nat
      BY <1>3, <3>1, UptoIs
    <3> QED BY <3>2
  <2>3. n = IF k \in Quotes(t) THEN m + 1 ELSE m
    <3>1. Cardinality(Upto(Quotes(t), k)) =
            IF k \in Quotes(t) THEN Cardinality(Upto(Quotes(t), p)) + 1
            ELSE Cardinality(Upto(Quotes(t), p))
      BY <1>2, <1>3, UptoNext
    <3> QED BY <2>2, <3>1
  <2>4. (Inside(t, k) <=> m % 2 = 1) /\ (Inside(t, k + 1) <=> n % 2 = 1)
    <3>1. /\ Inside(t, k) <=> Cardinality(Upto(Quotes(t), p)) % 2 = 1
          /\ Inside(t, k + 1) <=> Cardinality(Upto(Quotes(t), k)) % 2 = 1
      BY <2>1, Zenon DEF Inside
    <3> QED BY <2>2, <3>1
  <2>5. (m + 1) % 2 = 1 <=> m % 2 # 1
    OBVIOUS
  <2> QED BY <2>3, <2>4, <2>5
<1> HIDE DEF k
<1>11. k \in Separators(t) => Open(t, k)
  BY <1>3, <1>7, <1>9, <1>2 DEF Open
<1>12. k \notin Separators(t) /\ k \notin Letters(t) => (Open(t, k) <=> Open(t, p))
  BY <1>3, <1>9 DEF Open
<1>13. k \in Letters(t) => ~ Open(t, k)
  <2> SUFFICES ASSUME k \in Letters(t), Open(t, k) PROVE FALSE
    OBVIOUS
  <2>1. k <= k
    BY <1>2
  <2>2. PICK x \in Separators(t) : k < x /\ x <= k
    BY <2>1 DEF Open
  <2> QED BY <1>2, <1>3, <2>2
<1>14. At(t, p, k)
  BY <1>4, <1>5, <1>6, <1>8, <1>10, <1>11, <1>12, <1>13 DEF At
<1> QED BY <1>14 DEF k

Count(t, p) == Cardinality(Upto(Starts(t), p))

\* The buffer b holds the line t.
Holds(b, t) ==
  /\ b \in Lines /\ t \in Seq(Chars) /\ Len(t) \in 1..CharMax
  /\ b[Len(t)] = NUL
  /\ \A n \in 1..Len(t) : b[n - 1] = t[n]

\* What the splitter's line shows once it has been from start to before p.
Cut(l, t, b, start, p) ==
  \A n \in 0..CharMax : l[n] = IF n \in start..p - 1 /\ n + 1 \in Separators(t) THEN NUL ELSE b[n]

\* Each argument found so far is at its start.
Found(argv, t) ==
  \A n \in 1..Len(argv) : argv[n] + 1 \in Starts(t) /\ Count(t, argv[n] + 1) = n

\* The splitter is before the place p + 1 of the line t.
Track(s, t, b, start, p) ==
  /\ s.full <=> Count(t, p) >= ArgsMax
  /\ ~ s.full => /\ s.mark <=> Inside(t, p + 1)
                 /\ s.space \/ s.argv = <<>> <=> Open(t, p)
                 /\ Len(s.argv) = Count(t, p)
                 /\ Found(s.argv, t)
                 /\ Cut(s.b, t, b, start, p)

\* What a place that is left as it is does to the line, and one that is cut.
LEMMA CutNext ==
  ASSUME NEW l \in Lines, NEW t, NEW b, NEW p \in 0..CharMax, NEW start \in 0..p, Cut(l, t, b, start, p)
  PROVE  /\ p + 1 \notin Separators(t) => Cut(l, t, b, start, p + 1)
         /\ p + 1 \in Separators(t) => Cut([l EXCEPT ![p] = NUL], t, b, start, p + 1)
<1>1. CharMax \in Nat /\ p \in Nat /\ start \in Nat
  BY EvalAssumption
<1>2. ASSUME NEW n \in 0..CharMax
      PROVE  n \in start..(p + 1) - 1 <=> n \in start..p - 1 \/ n = p
  BY <1>1
<1>3. p \notin start..p - 1
  BY <1>1
<1>4. CASE p + 1 \notin Separators(t)
  <2> SUFFICES Cut(l, t, b, start, p + 1)
    BY <1>4
  <2> QED BY <1>2, <1>4 DEF Cut
<1>5. CASE p + 1 \in Separators(t)
  <2> DEFINE m == [l EXCEPT ![p] = NUL]
  <2>1. \A n \in 0..CharMax : m[n] = IF n = p THEN NUL ELSE l[n]
    BY DEF Lines
  <2> HIDE DEF m
  <2>2. Cut(m, t, b, start, p + 1)
    BY <1>2, <1>5, <2>1 DEF Cut
  <2> QED BY <1>5, <2>2 DEF m
<1> QED BY <1>4, <1>5

\* What the splitter reads at the place p is what was typed there, and a quote
\* is one to it if it is one by its place.
LEMMA ReadsTyped ==
  ASSUME NEW b, NEW t, Holds(b, t), NEW l \in Lines, NEW p \in 0..Len(t) - 1, NEW start \in 0..p,
         Cut(l, t, b, start, p)
  PROVE  l[p] = t[p + 1] /\ (IsQuote(l, p) <=> p + 1 \in Quotes(t))
<1>1. CharMax \in Nat /\ Len(t) \in Nat /\ p \in 0..CharMax /\ p + 1 \in 1..Len(t) /\ p \in Nat
  BY EvalAssumption DEF Holds
<1>2. l[p] = t[p + 1]
  <2>1. b[(p + 1) - 1] = t[p + 1] /\ (p + 1) - 1 = p
    BY <1>1 DEF Holds
  <2>2. p \notin start..p - 1
    BY <1>1
  <2> QED BY <1>1, <2>1, <2>2 DEF Cut
<1>3. ASSUME p > 0 PROVE l[p - 1] # ESC <=> t[p] # ESC
  <2>1. p - 1 \in 0..CharMax /\ p \in 1..Len(t) /\ (p - 1) + 1 = p
    BY <1>1, <1>3
  <2>2. b[p - 1] = t[p]
    BY <2>1 DEF Holds
  <2>3. CASE l[p - 1] = b[p - 1]
    BY <2>2, <2>3
  <2>4. CASE l[p - 1] # b[p - 1]
    <3>1. l[p - 1] = NUL /\ p \in Separators(t)
      BY <2>1, <2>4 DEF Cut
    <3>2. t[p] = SPACE \/ t[p] = QUOTE
      BY <3>1 DEF Separators, Quotes
    <3>3. NUL # ESC /\ SPACE # ESC /\ QUOTE # ESC
      BY Zenon DEF NUL, ESC, SPACE, QUOTE
    <3> QED BY <3>1, <3>2, <3>3, Zenon
  <2> QED BY <2>3, <2>4
<1>4. p + 1 \in Quotes(t) <=> t[p + 1] = QUOTE /\ p > 0 /\ t[p] # ESC
  <2>1. p + 1 > 1 <=> p > 0
    BY <1>1
  <2>2. (p + 1) - 1 = p
    BY <1>1
  <2> QED BY <1>1, <2>1, <2>2 DEF Quotes
<1>5. IsQuote(l, p) <=> l[p] = QUOTE /\ p > 0 /\ l[p - 1] # ESC
  BY DEF IsQuote
<1>6. CASE p > 0
  BY <1>2, <1>3, <1>4, <1>5, <1>6
<1>7. CASE ~ (p > 0)
  BY <1>2, <1>4, <1>5, <1>7
<1> QED BY <1>2, <1>6, <1>7

\* The number of arguments up to a place, and up to the next one.
LEMMA CountIs ==
  ASSUME NEW t \in Seq(Chars)
  PROVE  /\ Starts(t) \in SUBSET (1..Len(t))
         /\ \A p \in 0..Len(t) : Count(t, p) \in Nat
         /\ \A p \in 0..Len(t) - 1 :
              Count(t, p + 1) = IF p + 1 \in Starts(t) THEN Count(t, p) + 1 ELSE Count(t, p)
<1>1. PICK L \in Nat : L = Len(t)
  OBVIOUS
<1>2. Starts(t) \in SUBSET (1..L)
  BY <1>1 DEF Starts, Letters
<1>3. \A p \in 0..L : Count(t, p) \in Nat
  BY <1>2, UptoIs DEF Count
<1>4. ASSUME NEW p \in 0..L - 1
      PROVE  Count(t, p + 1) = IF p + 1 \in Starts(t) THEN Count(t, p) + 1 ELSE Count(t, p)
  <2>1. PICK q : q = p + 1
    OBVIOUS
  <2>2. Count(t, q) = IF q \in Starts(t) THEN Count(t, p) + 1 ELSE Count(t, p)
    BY <1>2, <2>1, UptoNext DEF Count
  <2> QED BY <2>1, <2>2
<1> QED BY <1>1, <1>2, <1>3, <1>4

\* A place further, with no argument starting there, for a splitter that is
\* not full: what is left to show.
LEMMA TrackNone ==
  ASSUME NEW t \in Seq(Chars), NEW b, NEW start, NEW p \in 0..Len(t) - 1, NEW q, q = p + 1,
         NEW s, NEW d, Track(s, t, b, start, p), ~ s.full, q \notin Starts(t),
         d.full = s.full, d.argv = s.argv, d.mark <=> Inside(t, q + 1),
         d.space \/ d.argv = <<>> <=> Open(t, q), Cut(d.b, t, b, start, q)
  PROVE  Track(d, t, b, start, q)
<1>1. Count(t, q) = Count(t, p)
  BY CountIs
<1>2. ~ (Count(t, p) >= ArgsMax) /\ Len(s.argv) = Count(t, p) /\ Found(s.argv, t)
  BY DEF Track
<1>3. (d.full <=> Count(t, q) >= ArgsMax) /\ Len(d.argv) = Count(t, q) /\ Found(d.argv, t)
  BY <1>1, <1>2
<1> QED BY <1>3 DEF Track

\* A step of the splitter at a space.
LEMMA TrackSpace ==
  ASSUME NEW b, NEW t, Holds(b, t), NEW s \in SplitStates(b), NEW p \in 0..Len(t) - 1,
         NEW start \in 0..p, Track(s, t, b, start, p), ~ s.full, t[p + 1] = SPACE
  PROVE  Track(SplitSpace(s, p), t, b, start, p + 1)
<1> DEFINE q == p + 1
           d == SplitSpace(s, p)
<1>1. t \in Seq(Chars) /\ p \in 0..CharMax /\ q = p + 1
  BY EvalAssumption DEF Holds
<1>2. At(t, p, q)
  BY <1>1, AtIs
<1> HIDE DEF q
<1>3. s.b \in Lines /\ Cut(s.b, t, b, start, p) /\ (s.mark <=> Inside(t, q))
      /\ (s.space \/ s.argv = <<>> <=> Open(t, p))
  BY <1>1 DEF Track, SplitStates
<1>4. q \notin Quotes(t) /\ q \notin Letters(t) /\ q \notin Starts(t)
      /\ (q \in Separators(t) <=> ~ Inside(t, q)) /\ (Inside(t, q + 1) <=> Inside(t, q))
      /\ (q \in Separators(t) => Open(t, q))
      /\ (q \notin Separators(t) => (Open(t, q) <=> Open(t, p)))
  BY <1>1, <1>2, Zenon DEF At
<1>5. CASE s.mark
  <2>1. d = s
    BY <1>5 DEF SplitSpace
  <2>2. Cut(s.b, t, b, start, q)
    BY <1>1, <1>3, <1>4, <1>5, CutNext
  <2>3. (s.mark <=> Inside(t, q + 1)) /\ (s.space \/ s.argv = <<>> <=> Open(t, q))
    BY <1>3, <1>4, <1>5, Zenon
  <2>4. Track(s, t, b, start, q)
    BY <1>1, <1>4, <2>2, <2>3, TrackNone
  <2> QED BY <2>1, <2>4 DEF q
<1>6. CASE ~ s.mark
  <2> DEFINE l == [s.b EXCEPT ![p] = NUL]
  <2>1. d = [s EXCEPT !.space = TRUE, !.b = l]
    BY <1>6 DEF SplitSpace
  <2>2. Cut(l, t, b, start, q)
    BY <1>1, <1>3, <1>4, <1>6, CutNext
  <2> HIDE DEF l
  <2>3. d.full = s.full /\ d.argv = s.argv /\ d.mark = s.mark /\ d.space = TRUE /\ d.b = l
    BY <2>1 DEF SplitStates
  <2> HIDE DEF d
  <2>4. d.mark <=> Inside(t, q + 1)
    BY <1>3, <1>4, <2>3, Zenon
  <2>5. d.space \/ d.argv = <<>> <=> Open(t, q)
    BY <1>3, <1>4, <1>6, <2>3, Zenon
  <2>6. Track(d, t, b, start, q)
    BY <1>1, <1>4, <2>2, <2>3, <2>4, <2>5, TrackNone
  <2> QED BY <2>6 DEF q, d
<1> QED BY <1>5, <1>6

\* At a quote.
LEMMA TrackQuote ==
  ASSUME NEW b, NEW t, Holds(b, t), NEW s \in SplitStates(b), NEW p \in 0..Len(t) - 1,
         NEW start \in 0..p, Track(s, t, b, start, p), ~ s.full, p + 1 \in Quotes(t)
  PROVE  Track(SplitQuote(s, p), t, b, start, p + 1)
<1> DEFINE q == p + 1
           d == SplitQuote(s, p)
<1>1. t \in Seq(Chars) /\ p \in 0..CharMax /\ q = p + 1
  BY EvalAssumption DEF Holds
<1>2. At(t, p, q) /\ q \in Quotes(t)
  BY <1>1, AtIs
<1> HIDE DEF q
<1>3. s.b \in Lines /\ Cut(s.b, t, b, start, p) /\ (s.mark <=> Inside(t, q))
      /\ (s.space \/ s.argv = <<>> <=> Open(t, p))
  BY <1>1 DEF Track, SplitStates
<1>4. q \notin Letters(t) /\ q \notin Starts(t)
      /\ (q \in Separators(t) <=> Inside(t, q)) /\ (Inside(t, q + 1) <=> ~ Inside(t, q))
      /\ (q \in Separators(t) => Open(t, q))
      /\ (q \notin Separators(t) => (Open(t, q) <=> Open(t, p)))
  BY <1>1, <1>2, Zenon DEF At
<1>5. CASE ~ s.mark
  <2>1. d = [s EXCEPT !.mark = TRUE]
    BY <1>5 DEF SplitQuote
  <2>2. Cut(s.b, t, b, start, q)
    BY <1>1, <1>3, <1>4, <1>5, CutNext
  <2>3. d.full = s.full /\ d.argv = s.argv /\ d.mark = TRUE /\ d.space = s.space /\ d.b = s.b
    BY <2>1 DEF SplitStates
  <2> HIDE DEF d
  <2>4. d.mark <=> Inside(t, q + 1)
    BY <1>3, <1>4, <1>5, <2>3, Zenon
  <2>5. d.space \/ d.argv = <<>> <=> Open(t, q)
    BY <1>3, <1>4, <1>5, <2>3, Zenon
  <2>6. Cut(d.b, t, b, start, q)
    BY <2>2, <2>3
  <2>7. Track(d, t, b, start, q)
    BY <1>1, <1>4, <2>3, <2>4, <2>5, <2>6, TrackNone
  <2> QED BY <2>7 DEF q, d
<1>6. CASE s.mark
  <2> DEFINE l == [s.b EXCEPT ![p] = NUL]
  <2>1. d = [s EXCEPT !.mark = FALSE, !.space = TRUE, !.b = l]
    BY <1>6 DEF SplitQuote
  <2>2. Cut(l, t, b, start, q)
    BY <1>1, <1>3, <1>4, <1>6, CutNext
  <2> HIDE DEF l
  <2>3. d.full = s.full /\ d.argv = s.argv /\ d.mark = FALSE /\ d.space = TRUE /\ d.b = l
    BY <2>1 DEF SplitStates
  <2> HIDE DEF d
  <2>4. d.mark <=> Inside(t, q + 1)
    BY <1>3, <1>4, <1>6, <2>3, Zenon
  <2>5. d.space \/ d.argv = <<>> <=> Open(t, q)
    BY <1>3, <1>4, <1>6, <2>3, Zenon
  <2>6. Track(d, t, b, start, q)
    BY <1>1, <1>4, <2>2, <2>3, <2>4, <2>5, TrackNone
  <2> QED BY <2>6 DEF q, d
<1> QED BY <1>5, <1>6

\* At another character, where an argument starts or goes on.
LEMMA TrackOther ==
  ASSUME NEW b, NEW t, Holds(b, t), NEW s \in SplitStates(b), NEW p \in 0..Len(t) - 1,
         NEW start \in 0..p, Track(s, t, b, start, p), ~ s.full, p + 1 \in Letters(t)
  PROVE  Track(SplitOther(s, p), t, b, start, p + 1)
<1> DEFINE q == p + 1
           d == SplitOther(s, p)
<1>1. t \in Seq(Chars) /\ p \in 0..CharMax /\ q = p + 1 /\ p \in Nat /\ q \in 0..Len(t)
  BY EvalAssumption DEF Holds
<1>2. At(t, p, q) /\ q \in Letters(t)
  BY <1>1, AtIs
<1> HIDE DEF q
<1>3. s.b \in Lines /\ Cut(s.b, t, b, start, p) /\ (s.mark <=> Inside(t, q))
      /\ (s.space \/ s.argv = <<>> <=> Open(t, p))
      /\ s.argv \in Seq(Nat) /\ Len(s.argv) = Count(t, p) /\ Found(s.argv, t)
      /\ ~ (Count(t, p) >= ArgsMax)
  BY <1>1 DEF Track, SplitStates
<1>4. q \notin Quotes(t) /\ q \notin Separators(t) /\ (q \in Starts(t) <=> Open(t, p))
      /\ (Inside(t, q + 1) <=> Inside(t, q)) /\ ~ Open(t, q)
  BY <1>1, <1>2, Zenon DEF At
<1>5. Cut(s.b, t, b, start, q)
  BY <1>1, <1>3, <1>4, CutNext
<1>6. CASE ~ (s.space \/ s.argv = <<>>)
  <2>1. d = s
    BY <1>6, Zenon DEF SplitOther
  <2>2. (s.mark <=> Inside(t, q + 1)) /\ (s.space \/ s.argv = <<>> <=> Open(t, q)) /\ q \notin Starts(t)
    BY <1>3, <1>4, <1>6, Zenon
  <2>3. Track(s, t, b, start, q)
    BY <1>1, <1>5, <2>2, TrackNone
  <2> QED BY <2>1, <2>3 DEF q
<1>7. CASE s.space \/ s.argv = <<>>
  <2>1. PICK a : a = Append(s.argv, p)
    OBVIOUS
  <2>2. PICK f \in BOOLEAN : f = (Len(s.argv) + 1 >= ArgsMax)
    <3>1. (Len(s.argv) + 1 >= ArgsMax) \in BOOLEAN
      OBVIOUS
    <3> QED BY <3>1, Zenon
  <2>3. d = [s EXCEPT !.argv = a, !.space = FALSE, !.full = f]
    <3>1. d = [s EXCEPT !.argv = Append(s.argv, p), !.space = FALSE,
                        !.full = Len(s.argv) + 1 >= ArgsMax]
      BY <1>7, Zenon DEF SplitOther
    <3> QED BY <2>1, <2>2, <3>1
  <2>4. q \in Starts(t)
    BY <1>3, <1>4, <1>7
  <2>5. Count(t, q) = Count(t, p) + 1 /\ Count(t, p) \in Nat
    BY <1>1, <2>4, CountIs
  <2>6. d.argv = a /\ d.space = FALSE /\ d.full = f /\ d.mark = s.mark /\ d.b = s.b
    BY <2>3 DEF SplitStates
  <2> HIDE DEF d
  <2>7. a \in Seq(Nat) /\ Len(a) = Count(t, q) /\ a # <<>>
    BY <1>1, <1>3, <2>1, <2>5
  <2>8. d.full <=> Count(t, q) >= ArgsMax
    BY <1>3, <2>2, <2>5, <2>6
  <2>9. Found(a, t)
    <3> SUFFICES ASSUME NEW n \in 1..Len(a)
                 PROVE  a[n] + 1 \in Starts(t) /\ Count(t, a[n] + 1) = n
      BY DEF Found
    <3>1. CASE n \in 1..Len(s.argv)
      <4>1. a[n] = s.argv[n]
        BY <1>3, <2>1, <3>1
      <4> QED BY <1>3, <3>1, <4>1 DEF Found
    <3>2. CASE n \notin 1..Len(s.argv)
      <4>1. n = Len(s.argv) + 1 /\ a[n] = p
        BY <1>1, <1>3, <2>1, <3>2
      <4> QED BY <1>1, <1>3, <2>4, <2>5, <4>1
    <3> QED BY <3>1, <3>2
  <2>10. (d.mark <=> Inside(t, q + 1)) /\ (d.space \/ d.argv = <<>> <=> Open(t, q))
    BY <1>3, <1>4, <2>6, <2>7, Zenon
  <2>11. Track(d, t, b, start, q)
    BY <1>5, <2>6, <2>7, <2>8, <2>9, <2>10 DEF Track
  <2> QED BY <2>11 DEF q, d
<1> QED BY <1>6, <1>7

\* At any place.
LEMMA TrackStep ==
  ASSUME NEW b, NEW t, Holds(b, t), NEW s \in SplitStates(b), NEW p \in 0..Len(t) - 1,
         NEW start \in 0..p, Track(s, t, b, start, p)
  PROVE  Track(SplitAt(s, p), t, b, start, p + 1)
<1>1. t \in Seq(Chars) /\ p \in 0..Len(t) /\ p + 1 \in 0..Len(t) /\ p + 1 \in 1..Len(t)
  BY DEF Holds
<1>2. CASE s.full
  <2>1. SplitAt(s, p) = s
    BY <1>2, Zenon DEF SplitAt
  <2>2. Count(t, p) \in Nat /\ Count(t, p + 1) \in Nat /\ Count(t, p + 1) >= Count(t, p)
    BY <1>1, CountIs
  <2>3. Count(t, p) >= ArgsMax
    BY <1>2 DEF Track
  <2>4. Count(t, p + 1) >= ArgsMax
    BY <2>2, <2>3, EvalAssumption
  <2> QED BY <1>2, <2>1, <2>4 DEF Track
<1>3. CASE ~ s.full
  <2>1. s.b \in Lines /\ Cut(s.b, t, b, start, p)
    BY <1>3 DEF Track, SplitStates
  <2>2. s.b[p] = t[p + 1] /\ (IsQuote(s.b, p) <=> p + 1 \in Quotes(t))
    BY <2>1, ReadsTyped
  <2>3. p + 1 \in Quotes(t) => t[p + 1] # SPACE
    BY <1>1, AtIs DEF At
  <2>4. p + 1 \in Letters(t) <=> t[p + 1] # SPACE /\ p + 1 \notin Quotes(t)
    BY <1>1, AtIs DEF At
  <2>5. CASE t[p + 1] = SPACE
    <3>1. SplitAt(s, p) = SplitSpace(s, p)
      BY <1>3, <2>2, <2>3, <2>5, Zenon DEF SplitAt
    <3> QED BY <1>3, <2>5, <3>1, TrackSpace
  <2>6. CASE p + 1 \in Quotes(t)
    <3>1. SplitAt(s, p) = SplitQuote(s, p)
      BY <1>3, <2>2, <2>3, <2>6, Zenon DEF SplitAt
    <3> QED BY <1>3, <2>6, <3>1, TrackQuote
  <2>7. CASE t[p + 1] # SPACE /\ p + 1 \notin Quotes(t)
    <3>1. SplitAt(s, p) = SplitOther(s, p)
      BY <1>3, <2>2, <2>7, Zenon DEF SplitAt
    <3> QED BY <1>3, <2>4, <2>7, <3>1, TrackOther
  <2> QED BY <2>5, <2>6, <2>7
<1> QED BY <1>2, <1>3

\* Where the splitter starts nothing but spaces has been typed before.
LEMMA TrackStart ==
  ASSUME NEW b, NEW t, Holds(b, t), NEW start \in 0..Len(t),
         \A n \in 0..start - 1 : t[n + 1] = SPACE, NEW s,
         s = [b |-> b, argv |-> <<>>, mark |-> FALSE, space |-> FALSE, full |-> FALSE]
  PROVE  Track(s, t, b, start, start)
<1>1. s.b = b /\ s.argv = <<>> /\ s.mark = FALSE /\ s.space = FALSE /\ s.full = FALSE
  OBVIOUS
<1>2. PICK L \in Nat : L = Len(t) /\ L \in 0..CharMax
  BY EvalAssumption DEF Holds
<1>3. \A k \in 1..L : k <= start => t[k] = SPACE
  <2> SUFFICES ASSUME NEW k \in 1..L, k <= start PROVE t[k] = SPACE
    OBVIOUS
  <2>1. k - 1 \in 0..start - 1 /\ (k - 1) + 1 = k
    BY <1>2
  <2> QED BY <2>1
<1>4. \A k \in Letters(t) : ~ (k <= start)
  BY <1>2, <1>3 DEF Letters
<1>5. \A k \in Quotes(t) : ~ (k < start + 1)
  <2> SUFFICES ASSUME NEW k \in Quotes(t), k < start + 1 PROVE FALSE
    OBVIOUS
  <2>1. k \in 1..L /\ k <= start
    BY <1>2 DEF Quotes
  <2>2. t[k] = SPACE /\ t[k] = QUOTE
    BY <1>3, <2>1 DEF Quotes
  <2> QED BY <2>2, CharsDiffer, Zenon
<1>6. Count(t, start) = 0
  <2>1. Upto(Starts(t), start) = {}
    BY <1>4, Zenon DEF Upto, Starts
  <2> QED BY <2>1, FS_EmptySet DEF Count
<1>7. ~ Inside(t, start + 1)
  <2>1. {q \in Quotes(t) : q < start + 1} = {}
    BY <1>5
  <2>2. Cardinality({}) = 0 /\ 0 % 2 # 1
    BY FS_EmptySet
  <2> QED BY <2>1, <2>2 DEF Inside
<1>8. Open(t, start)
  BY <1>4 DEF Open
<1>9. Cut(b, t, b, start, start)
  <2>1. start..start - 1 = {}
    BY <1>2
  <2> QED BY <2>1 DEF Cut
<1>10. Found(<<>>, t) /\ Len(<<>>) = 0 /\ ~ (0 >= ArgsMax)
  BY EvalAssumption DEF Found
<1> QED BY <1>1, <1>6, <1>7, <1>8, <1>9, <1>10 DEF Track

\* The line ends where it was typed to.
LEMMA LineEnds ==
  ASSUME NEW b, NEW t, Holds(b, t), NEW k \in 0..Len(t)
  PROVE  Len(String(b, k)) = Len(t) - k
<1> DEFINE X == {n \in k..CharMax : b[n] = NUL}
<1>1. PICK L \in Nat : L = Len(t) /\ L \in 0..CharMax /\ CharMax \in Nat /\ k \in 0..L
  BY EvalAssumption DEF Holds
<1>2. L \in X /\ X \in SUBSET Nat
  BY <1>1 DEF Holds
<1>3. \A n \in X : L <= n
  <2> SUFFICES ASSUME NEW n \in X, n < L PROVE FALSE
    BY <1>1, <1>2
  <2>1. n + 1 \in 1..L /\ (n + 1) - 1 = n
    BY <1>1
  <2>2. b[n] = t[n + 1]
    BY <1>1, <2>1 DEF Holds
  <2>3. t[n + 1] \in Chars
    BY <1>1, <2>1 DEF Holds
  <2>4. b[n] = NUL
    OBVIOUS
  <2> QED BY <2>2, <2>3, <2>4, EvalAssumption
<1>4. Min(X) = L
  <2> HIDE DEF X
  <2> QED BY <1>2, <1>3, MinUnique
<1>5. PICK w : w = [n \in 1..L - k |-> b[k + n - 1]]
  OBVIOUS
<1>6. String(b, k) = w
  BY <1>4, <1>5, Zenon DEF String
<1>7. PICK m \in Nat : m = L - k
  <2>1. L - k \in Nat
    BY <1>1
  <2> QED BY <2>1
<1>8. w \in [1..m -> Chars \cup {NUL}]
  <2>1. \A n \in 1..m : k + n - 1 \in 0..CharMax
    BY <1>1, <1>7
  <2>2. b \in Lines
    BY DEF Holds
  <2> QED BY <1>5, <1>7, <2>1, <2>2 DEF Lines
<1>9. Len(w) = m
  BY <1>8
<1> QED BY <1>1, <1>6, <1>7, <1>9

\* At the end of the line the splitter is behind its last place.
LEMMA TrackEnd ==
  ASSUME NEW b, NEW t, Holds(b, t)
  PROVE  \E start \in 0..Len(t) : /\ Track(Split(b), t, b, start, Len(t))
                                 /\ Split(b) \in SplitStates(b)
                                 /\ \A n \in 0..start - 1 : t[n + 1] = SPACE
<1>1. PICK start : start = CommandStart(b)
  OBVIOUS
<1>2. PICK L \in Nat : L = Len(t) /\ L \in 0..CharMax /\ CharMax \in Nat /\ b[L] = NUL /\ b \in Lines
  BY EvalAssumption DEF Holds
<1>3. start \in 0..L /\ start \in Nat
  BY <1>1, <1>2, StartIs
<1>4. \A n \in 0..start - 1 : t[n + 1] = SPACE
  <2> SUFFICES ASSUME NEW n \in 0..start - 1 PROVE t[n + 1] = SPACE
    OBVIOUS
  <2> DEFINE X == {k \in 0..CharMax : b[k] # SPACE}
  <2>1. X \in SUBSET Nat
    BY <1>2
  <2>2. start = Min(X)
    BY <1>1 DEF CommandStart
  <2>3. n \notin X
    <3>1. ~ (start <= n)
      BY <1>3
    <3> HIDE DEF X
    <3> QED BY <2>1, <2>2, <3>1, MinIs
  <2>4. n \in 0..CharMax /\ n + 1 \in 1..L /\ (n + 1) - 1 = n
    BY <1>2, <1>3
  <2>5. b[n] = SPACE
    BY <2>3, <2>4
  <2>6. b[(n + 1) - 1] = t[n + 1]
    BY <1>2, <2>4 DEF Holds
  <2> QED BY <2>4, <2>5, <2>6
<1>5. PICK m \in Nat : m = L - start /\ start + m = L
  BY <1>3
<1>6. Positions(b) = [n \in 1..m |-> start + n - 1]
  <2>1. \A x, y : x = y => [n \in 1..x |-> start + n - 1] = [n \in 1..y |-> start + n - 1]
    OBVIOUS
  <2>2. Len(String(b, start)) = m
    BY <1>2, <1>3, <1>5, LineEnds
  <2> QED BY <1>1, <2>1, <2>2 DEF Positions
<1>7. PICK s : s = Positions(b)
  OBVIOUS
<1>8. s \in [1..m -> 0..CharMax] /\ \A n \in 1..m : s[n] = start + n - 1
  BY <1>2, <1>3, <1>5, <1>6, <1>7
<1>9. PICK u : u = [b |-> b, argv |-> <<>>, mark |-> FALSE, space |-> FALSE, full |-> FALSE]
  OBVIOUS
<1>10. u \in SplitStates(b)
  BY <1>2, <1>9 DEF SplitStates
<1>11. Split(b) = Splits(u, s)
  BY <1>7, <1>9 DEF Split, Splits
<1>12. PICK g : SplitRun(g, b, u, m, s)
  BY <1>2, <1>8, <1>10, SplitTrace
<1> DEFINE P(k) == k <= m => Track(g[1..k], t, b, start, start + k)
           Q == {k \in Nat : P(k)}
<1>13. P(0)
  <2>1. start + 0 = start
    BY <1>3
  <2>2. Track(u, t, b, start, start)
    BY <1>2, <1>3, <1>4, <1>9, TrackStart
  <2> QED BY <1>12, <2>1, <2>2 DEF SplitRun
<1>14. ASSUME NEW k \in Nat, P(k) PROVE P(k + 1)
  <2> SUFFICES ASSUME k + 1 <= m PROVE Track(g[1..k + 1], t, b, start, start + (k + 1))
    OBVIOUS
  <2>1. k + 1 \in 1..m /\ (k + 1) - 1 = k /\ k \in 0..m /\ k <= m
    OBVIOUS
  <2>2. PICK p : p = start + k
    OBVIOUS
  <2>3. p \in 0..Len(t) - 1 /\ start \in 0..p /\ p + 1 = start + (k + 1) /\ p = start + (k + 1) - 1
    BY <1>2, <1>3, <1>5, <2>1, <2>2
  <2>4. g[1..k + 1] = SplitAt(g[1..k], p) /\ g[1..k] \in SplitStates(b)
    <3>1. g[1..k + 1] = SplitAt(g[1..(k + 1) - 1], s[k + 1]) /\ g[1..k] \in SplitStates(b)
      BY <1>12, <2>1 DEF SplitRun
    <3>2. s[k + 1] = p
      BY <1>8, <2>1, <2>3
    <3> QED BY <2>1, <3>1, <3>2
  <2>5. Track(g[1..k], t, b, start, p)
    BY <1>14, <2>1, <2>2
  <2>6. PICK v \in SplitStates(b) : v = g[1..k]
    BY <2>4
  <2>7. Track(SplitAt(v, p), t, b, start, p + 1)
    BY <2>3, <2>5, <2>6, TrackStep
  <2> QED BY <2>3, <2>4, <2>6, <2>7
<1> HIDE DEF P
<1>15. m \in Q
  <2>1. 0 \in Q /\ \A k \in Nat : k \in Q => k + 1 \in Q
    BY <1>13, <1>14
  <2> HIDE DEF Q
  <2> QED BY <2>1, NatSet
<1>16. Track(g[1..m], t, b, start, L)
  <2>1. P(m) /\ m <= m
    BY <1>15
  <2> QED BY <1>5, <2>1 DEF P
<1>17. m \in 0..m
  OBVIOUS
<1>18. Split(b) = g[1..m] /\ g[1..m] \in SplitStates(b)
  BY <1>11, <1>12, <1>17 DEF SplitRun
<1> QED BY <1>2, <1>3, <1>4, <1>16, <1>18

\* An argument of the splitter's is the one that starts at its place: it ends
\* at the next separator or with the line.
LEMMA SameWord ==
  ASSUME NEW b, NEW t, Holds(b, t), NEW l \in Lines, NEW start \in 0..Len(t),
         Cut(l, t, b, start, Len(t)), NEW k \in Nat, k >= start, k + 1 \in Letters(t)
  PROVE  String(l, k) = WordAt(t, k + 1)
<1> DEFINE X == {n \in k..CharMax : l[n] = NUL}
           Y == {x \in Separators(t) : x > k + 1} \cup {Len(t) + 1}
<1>1. PICK L \in Nat : L = Len(t) /\ L \in 0..CharMax /\ CharMax \in Nat /\ t \in Seq(Chars)
  BY EvalAssumption DEF Holds
<1>2. k + 1 \in 1..L /\ k \in 0..L - 1 /\ start \in Nat
  BY <1>1 DEF Letters
<1>3. Separators(t) \in SUBSET (1..L) /\ k + 1 \notin Separators(t)
  <2>1. k + 1 \notin Separators(t)
    BY DEF Letters, Separators
  <2> QED BY <1>1, <2>1 DEF Separators
<1>4. PICK e : e = Min(Y)
  OBVIOUS
<1>5. e \in Y /\ (\A y \in Y : e <= y) /\ Y \in SUBSET Nat
  <2>1. Y \in SUBSET Nat /\ Y # {}
    BY <1>1, <1>3
  <2> HIDE DEF Y
  <2> QED BY <1>4, <2>1, MinIs
<1>6. e \in k + 2..L + 1 /\ e \in Nat
  <2>1. (e \in Separators(t) /\ e > k + 1) \/ e = L + 1
    BY <1>1, <1>5
  <2> QED BY <1>1, <1>2, <1>3, <2>1
<1>7. PICK end \in Nat : end = e - 1 /\ end \in k + 1..L /\ end + 1 = e
  <2>1. e - 1 \in Nat
    BY <1>2, <1>6
  <2> QED BY <1>2, <1>6, <2>1
<1>8. ASSUME NEW n \in k..L - 1 PROVE l[n] = IF n + 1 \in Separators(t) THEN NUL ELSE t[n + 1]
  <2>1. n \in 0..CharMax /\ n \in start..L - 1 /\ n + 1 \in 1..L /\ (n + 1) - 1 = n
    BY <1>1, <1>2
  <2>2. b[(n + 1) - 1] = t[n + 1]
    BY <1>1, <2>1 DEF Holds
  <2> QED BY <1>1, <2>1, <2>2 DEF Cut
<1>9. l[L] = NUL
  <2>1. L \in 0..CharMax /\ L \notin start..L - 1
    BY <1>1
  <2>2. b[L] = NUL
    BY <1>1 DEF Holds
  <2> QED BY <1>1, <2>1, <2>2 DEF Cut
<1>10. end \in X
  <2>1. CASE end = L
    BY <1>1, <1>2, <1>9, <2>1
  <2>2. CASE end # L
    <3>1. end \in k..L - 1 /\ end + 1 \in Separators(t)
      BY <1>1, <1>2, <1>5, <1>7, <2>2
    <3>2. l[end] = NUL
      BY <1>8, <3>1
    <3> QED BY <1>1, <3>1, <3>2
  <2> QED BY <2>1, <2>2
<1>11. ASSUME NEW n \in k..L - 1, n < end
       PROVE  n + 1 \notin Separators(t) /\ l[n] = t[n + 1] /\ l[n] # NUL
  <2>1. n + 1 \notin Separators(t)
    <3> SUFFICES ASSUME n + 1 \in Separators(t) PROVE FALSE
      OBVIOUS
    <3>1. n + 1 # k + 1
      BY <1>3
    <3>2. n + 1 > k + 1
      BY <1>2, <3>1
    <3>3. e <= n + 1
      BY <1>5, <3>2
    <3> QED BY <1>2, <1>7, <1>11, <3>3
  <2>2. l[n] = t[n + 1]
    BY <1>8, <2>1
  <2>3. t[n + 1] \in Chars
    BY <1>1, <1>2
  <2> QED BY <2>1, <2>2, <2>3, EvalAssumption
<1>12. Min(X) = end
  <2>1. X \in SUBSET Nat
    BY <1>1, <1>2
  <2>2. \A n \in X : end <= n
    <3> SUFFICES ASSUME NEW n \in k..CharMax, l[n] = NUL, n < end PROVE FALSE
      BY <1>1, <1>2, <1>7
    <3>1. n \in k..L - 1
      BY <1>1, <1>2, <1>7
    <3> QED BY <1>11, <3>1
  <2> HIDE DEF X
  <2> QED BY <1>10, <2>1, <2>2, MinUnique
<1>13. String(l, k) = [n \in 1..end - k |-> l[k + n - 1]]
  BY <1>12, Zenon DEF String
<1>14. WordAt(t, k + 1) = [n \in 1..end - k |-> t[k + n]]
  <2>1. WordAt(t, k + 1) = SubSeq(t, k + 1, e - 1)
    BY <1>4, Zenon DEF WordAt
  <2>2. SubSeq(t, k + 1, end) = [n \in 1..end - k |-> t[k + n]]
    <3>1. k + 1 \in Nat /\ end \in Nat /\ \A n \in 1..end - k : k + n \in 1..L
      BY <1>1, <1>2, <1>7
    <3>2. PICK w : w = SubSeq(t, k + 1, end)
      OBVIOUS
    <3>3. Len(w) = end - k /\ w \in Seq(Chars)
      BY <1>1, <1>2, <1>7, <3>2
    <3>4. \A n \in 1..end - k : w[n] = t[k + n]
      <4> SUFFICES ASSUME NEW n \in 1..end - k PROVE w[n] = t[k + n]
        OBVIOUS
      <4>1. PICK m \in Nat : m = k + 1
        BY <1>2
      <4>2. m \in 1..L /\ end \in m..L /\ n \in 1..end - m + 1 /\ m + n - 1 = k + n
        BY <1>2, <1>7, <4>1
      <4>3. w = SubSeq(t, m, end)
        BY <3>2, <4>1
      <4>4. w[n] = t[m + n - 1]
        <5>1. m \in 1..L + 1 /\ end \in m - 1..L
          BY <4>2
        <5> QED BY <1>1, <4>2, <4>3, <5>1, SubSeqProperties
      <4> QED BY <4>2, <4>4
    <3>5. DOMAIN w = 1..end - k /\ w = [n \in DOMAIN w |-> w[n]]
      BY <3>3
    <3> QED BY <3>2, <3>4, <3>5
  <2> QED BY <1>7, <2>1, <2>2
<1>15. \A n \in 1..end - k : l[k + n - 1] = t[k + n]
  <2> SUFFICES ASSUME NEW n \in 1..end - k PROVE l[k + n - 1] = t[k + n]
    OBVIOUS
  <2>1. PICK m : m = k + n - 1
    OBVIOUS
  <2>2. m \in k..L - 1 /\ m < end /\ m + 1 = k + n
    BY <1>2, <1>7, <2>1
  <2> QED BY <1>11, <2>1, <2>2
<1> QED BY <1>13, <1>14, <1>15

-----------------------------------------------------------------------------
(* The invariant. *)

\* The console waits for a key; the line has a character for each one typed,
\* and after the first a terminator behind the last.
EvalTypes ==
  /\ con \in Steady
  /\ typed \in Seq(Chars)
  /\ Len(typed) = i
  /\ i \in 0..CharMax
  /\ buf \in Lines
  /\ i > 0 => buf[i] = NUL

\* The screen shows the prompt and the line, and the buffer has the line.
EvalInv ==
  /\ EvalTypes
  /\ Shows(con, Prompt \o typed)
  /\ \A n \in 1..i : buf[n - 1] = typed[n]

\* A new prompt, on a console that has its block nowhere but at the cursor.
LEMMA NewLineInv ==
  ASSUME NEW c \in Ready, NewLine(c), buf' \in Lines
  PROVE  EvalInv'
<1>1. con' \in Steady /\ Shows(con', Prompt)
  <2>1. ConsoleOut(c, Prompt) \in Steady /\ Shows(ConsoleOut(c, Prompt), Prompt)
    BY PromptShown
  <2> QED BY <2>1 DEF NewLine
<1>2. typed' = <<>> /\ i' = 0
  BY DEF NewLine
<1>3. EvalTypes'
  <2>1. <<>> \in Seq(Chars) /\ Len(<<>>) = 0 /\ 0 \in 0..CharMax /\ ~ (0 > 0)
    BY EvalAssumption
  <2> QED BY <1>1, <1>2, <2>1 DEF EvalTypes
<1>4. Prompt \o typed' = Prompt
  BY <1>2 DEF Prompt
<1>5. \A n \in 1..i' : buf'[n - 1] = typed'[n]
  BY <1>2
<1> QED BY <1>1, <1>3, <1>4, <1>5 DEF EvalInv

\* So it is at the start.
LEMMA EvalInit == Init => EvalInv
<1> SUFFICES ASSUME Init PROVE EvalInv
  OBVIOUS
<1>1. con \in Steady /\ Shows(con, Prompt)
  <2>1. PICK c : c = Cleared
    OBVIOUS
  <2>2. c \in Ready
    BY <2>1, ClsIs
  <2>3. ConsoleOut(c, Prompt) \in Steady /\ Shows(ConsoleOut(c, Prompt), Prompt)
    BY <2>2, PromptShown
  <2> QED BY <2>1, <2>3 DEF Init
<1>2. typed = <<>> /\ i = 0 /\ buf = [n \in 0..CharMax |-> NUL]
  BY DEF Init
<1>3. EvalTypes
  <2>1. <<>> \in Seq(Chars) /\ Len(<<>>) = 0 /\ 0 \in 0..CharMax /\ ~ (0 > 0)
    BY EvalAssumption
  <2>2. buf \in Lines
    BY <1>2 DEF Lines
  <2> QED BY <1>1, <1>2, <2>1, <2>2 DEF EvalTypes
<1>4. Prompt \o typed = Prompt
  BY <1>2 DEF Prompt
<1>5. \A n \in 1..i : buf[n - 1] = typed[n]
  BY <1>2
<1> QED BY <1>1, <1>3, <1>4, <1>5 DEF EvalInv

\* Sequences of characters, as functions, go to a console waiting for a key.
LEMMA OutSeq ==
  ASSUME NEW c \in Steady, NEW t \in Seq(Printed)
  PROVE  ConsoleOut(c, t) \in Steady
<1>1. PICK n \in Nat : n = Len(t)
  OBVIOUS
<1>2. t \in [1..n -> Printed]
  BY <1>1
<1> QED BY <1>2, OutIs

\* A typed character.
LEMMA TypeKeepsInv ==
  ASSUME EvalInv, NEW ch \in Chars, Type(ch)
  PROVE  EvalInv'
<1>1. /\ con \in Steady /\ typed \in Seq(Chars) /\ Len(typed) = i /\ i \in 0..CharMax
      /\ buf \in Lines /\ Shows(con, Prompt \o typed)
  BY DEF EvalInv, EvalTypes
<1>2. /\ i < CharMax /\ con' = ConsoleOut(con, <<ch>>) /\ i' = i + 1 /\ typed' = Append(typed, ch)
      /\ buf' = [buf EXCEPT ![i] = ch, ![i + 1] = NUL]
  BY DEF Type
<1>3. CharMax \in Nat /\ i \in Nat /\ i + 1 \in 0..CharMax
  BY <1>1, <1>2, EvalAssumption
<1>4. buf' \in Lines /\ buf'[i + 1] = NUL
  BY <1>1, <1>2, <1>3 DEF Lines
<1>5. PICK t : t = Prompt \o typed
  OBVIOUS
<1>6. t \in Seq(Chars \cup {"$"}) /\ Len(t) = i + 1
  BY <1>1, <1>5 DEF Prompt
<1>7. Prompt \o typed' = Append(t, ch)
  BY <1>1, <1>2, <1>5 DEF Prompt
<1>8. con' = Plain(con, ch)
  <2>1. con' = OutChar(con, ch)
    BY <1>2, OneChar
  <2>2. ch \notin Controls
    BY EvalAssumption
  <2> QED BY <2>1, <2>2, Zenon DEF OutChar, Controls
<1>9. Len(t) + 1 <= (Rows - 1) * Cols
  <2>1. Len(Prompt) = 1
    BY DEF Prompt
  <2>2. PICK e \in Int : e = (Rows - 1) * Cols
    BY ConsoleAssumption
  <2>3. 1 + CharMax <= e
    BY <2>1, <2>2, EvalAssumption
  <2> QED BY <1>2, <1>3, <1>6, <2>2, <2>3
<1>10. con' \in Steady /\ Shows(con', Append(t, ch))
  <2>1. ch \in Printed
    BY DEF Printed
  <2>2. Plain(con, ch) \in Steady /\ Shows(Plain(con, ch), Append(t, ch))
    BY <1>1, <1>5, <1>6, <1>9, <2>1, TypedShown
  <2> QED BY <1>8, <2>2
<1>11. typed' \in Seq(Chars) /\ Len(typed') = i'
  BY <1>1, <1>2
<1>12. EvalTypes'
  BY <1>2, <1>3, <1>4, <1>10, <1>11 DEF EvalTypes
<1>13. ASSUME NEW n \in 1..i + 1 PROVE buf'[n - 1] = typed'[n]
  <2>1. n - 1 \in 0..CharMax /\ n - 1 # i + 1
    BY <1>3, <1>13
  <2>2. CASE n = i + 1
    <3>1. n - 1 = i
      BY <1>3, <2>2
    <3>2. buf'[i] = ch
      BY <1>1, <1>2, <1>3 DEF Lines
    <3> QED BY <1>1, <1>2, <2>2, <3>1, <3>2
  <2>3. CASE n # i + 1
    <3>1. n \in 1..i /\ n - 1 # i
      BY <1>3, <2>3
    <3>2. buf'[n - 1] = buf[n - 1]
      BY <1>1, <1>2, <2>1, <3>1 DEF Lines
    <3>3. typed'[n] = typed[n]
      BY <1>1, <1>2, <3>1
    <3>4. buf[n - 1] = typed[n]
      BY <3>1 DEF EvalInv
    <3> QED BY <3>2, <3>3, <3>4
  <2> QED BY <2>2, <2>3
<1> QED BY <1>2, <1>7, <1>10, <1>12, <1>13 DEF EvalInv

\* A character taken back.
LEMMA BackKeepsInv ==
  ASSUME EvalInv, Back
  PROVE  EvalInv'
<1>1. /\ con \in Steady /\ typed \in Seq(Chars) /\ Len(typed) = i /\ i \in 0..CharMax
      /\ buf \in Lines /\ Shows(con, Prompt \o typed)
  BY DEF EvalInv, EvalTypes
<1>2. /\ i > 0 /\ con' = ConsoleOut(con, <<BACK>>) /\ i' = i - 1 /\ typed' = Front(typed)
      /\ buf' = [buf EXCEPT ![i - 1] = NUL]
  BY DEF Back
<1>3. CharMax \in Nat /\ i \in Nat /\ i - 1 \in 0..CharMax
  BY <1>1, <1>2, EvalAssumption
<1>4. buf' \in Lines /\ buf'[i - 1] = NUL
  BY <1>1, <1>2, <1>3 DEF Lines
<1>5. PICK u : u = Front(typed)
  OBVIOUS
<1>6. /\ u \in Seq(Chars) /\ Len(u) = i - 1
      /\ \A n \in 1..i - 1 : u[n] = typed[n]
  BY <1>1, <1>2, <1>5 DEF Front
<1>7. con' = BackForce(con)
  <2>1. con' = OutChar(con, BACK)
    BY <1>2, OneChar
  <2> QED BY <2>1, CharsDiffer, Zenon DEF OutChar
<1>8. con' \in Steady
  <2>1. BackForce(con) \in Steady
    BY <1>1, BackForceIs
  <2> QED BY <1>7, <2>1
<1>9. PICK t, v : t = Prompt \o typed /\ v = Prompt \o u
  OBVIOUS
<1>10. /\ t \in Seq(Chars \cup {"$"}) /\ v \in Seq(Chars \cup {"$"}) /\ t # <<>>
       /\ Len(v) = Len(t) - 1 /\ \A n \in 1..Len(v) : v[n] = t[n]
  <2>1. Len(t) = i + 1 /\ Len(v) = i /\ t \in Seq(Chars \cup {"$"}) /\ v \in Seq(Chars \cup {"$"})
    BY <1>1, <1>6, <1>9 DEF Prompt
  <2>2. \A n \in 1..i : v[n] = t[n]
    <3> SUFFICES ASSUME NEW n \in 1..i PROVE v[n] = t[n]
      OBVIOUS
    <3>1. CASE n = 1
      BY <1>1, <1>6, <1>9, <3>1 DEF Prompt
    <3>2. CASE n # 1
      <4>1. n - 1 \in 1..i - 1
        BY <1>3, <3>2
      <4>2. v[n] = u[n - 1] /\ t[n] = typed[n - 1]
        BY <1>1, <1>6, <1>9, <3>2 DEF Prompt
      <4> QED BY <1>6, <4>1, <4>2
    <3> QED BY <3>1, <3>2
  <2>3. t # <<>>
    BY <1>3, <2>1
  <2> QED BY <1>3, <2>1, <2>2, <2>3
<1>11. Shows(BackForce(con), v)
  BY <1>1, <1>9, <1>10, BackShown
<1>12. EvalTypes'
  BY <1>2, <1>3, <1>4, <1>5, <1>6, <1>8 DEF EvalTypes
<1>13. Prompt \o typed' = v
  BY <1>2, <1>5, <1>9
<1>14. ASSUME NEW n \in 1..i - 1 PROVE buf'[n - 1] = typed'[n]
  <2>1. n \in 1..i /\ n - 1 \in 0..CharMax /\ n - 1 # i - 1
    BY <1>3
  <2>2. buf'[n - 1] = buf[n - 1]
    BY <1>1, <1>2, <2>1 DEF Lines
  <2>3. buf[n - 1] = typed[n]
    BY <2>1 DEF EvalInv
  <2> QED BY <1>2, <1>5, <1>6, <2>2, <2>3
<1> QED BY <1>2, <1>7, <1>11, <1>12, <1>13, <1>14 DEF EvalInv

\* What is printed before a prompt.
LEMMA Messages ==
  /\ <<NL>> \in Seq(Printed)
  /\ <<NL>> \o Error \o <<NL>> \in Seq(Printed)
  /\ Error \o <<NL>> \in Seq(Printed)
  /\ Outputs \subseteq Seq(Printed)
  /\ Chars \cup {NUL} \subseteq Printed
  /\ \A t \in Seq(Printed) : t \o <<NL>> \in Seq(Printed)
<1>1. NL \in Printed
  BY DEF Printed, Controls
<1>2. Error \in Seq(Printed)
  BY DEF Printed, Error
<1>3. Outputs \subseteq Seq(Printed)
  <2> SUFFICES ASSUME NEW t \in Outputs PROVE t \in Seq(Printed)
    OBVIOUS
  <2>1. t \in Seq(Chars \cup Controls)
    BY EvalAssumption
  <2>2. Chars \cup Controls \subseteq Printed
    BY DEF Printed
  <2> QED BY <2>1, <2>2
<1>4. Chars \cup {NUL} \subseteq Printed
  BY DEF Printed
<1>5. <<NL>> \in Seq(Printed)
  BY <1>1
<1> QED BY <1>2, <1>3, <1>4, <1>5

\* A line that is full is dropped with a message.
LEMMA TooManyKeepsInv ==
  ASSUME EvalInv, TooManyCharacters
  PROVE  EvalInv'
<1>1. PICK c : c = ConsoleOut(con, <<NL>> \o Error \o <<NL>>)
  OBVIOUS
<1>2. con \in Steady /\ buf \in Lines
  BY DEF EvalInv, EvalTypes
<1>3. c \in Steady
  BY <1>1, <1>2, Messages, OutSeq
<1>4. c \in Ready
  BY <1>3, SteadyIs
<1>5. NewLine(c) /\ buf' = buf
  BY <1>1 DEF TooManyCharacters
<1> QED BY <1>2, <1>4, <1>5, NewLineInv

\* So is an empty one, without.
LEMMA EmptyKeepsInv ==
  ASSUME EvalInv, EmptyLine
  PROVE  EvalInv'
<1>1. PICK c : c = ConsoleOut(con, <<NL>>)
  OBVIOUS
<1>2. con \in Steady /\ buf \in Lines
  BY DEF EvalInv, EvalTypes
<1>3. c \in Steady
  BY <1>1, <1>2, Messages, OutSeq
<1>4. c \in Ready
  BY <1>3, SteadyIs
<1>5. NewLine(c) /\ buf' = buf
  BY <1>1 DEF EmptyLine
<1> QED BY <1>2, <1>4, <1>5, NewLineInv

\* A command prints or clears, and what the splitter leaves of the line is a
\* line.
LEMMA EnterKeepsInv ==
  ASSUME EvalInv, Enter
  PROVE  EvalInv'
<1>1. con \in Steady /\ buf \in Lines /\ i \in 0..CharMax /\ i > 0 /\ buf[i] = NUL
  BY DEF EvalInv, EvalTypes, Enter
<1>2. PICK c : c = ConsoleOut(con, <<NL>>)
  OBVIOUS
<1>3. c \in Steady
  BY <1>1, <1>2, Messages, OutSeq
<1>4. PICK s : s = Split(buf)
  OBVIOUS
<1>5. s \in SplitStates(buf)
  BY <1>1, <1>4, SplitIs
<1>6. s.b \in Lines /\ s.b[i] = NUL
  BY <1>1, <1>5 DEF SplitStates
<1>7. PICK word : word = String(s.b, CommandStart(buf))
  OBVIOUS
<1>8. word \in Seq(Printed)
  <2>1. PICK k : k = CommandStart(buf)
    OBVIOUS
  <2>2. k \in 0..i
    BY <1>1, <2>1, StartIs
  <2>3. k \in 0..CharMax /\ i \in k..CharMax
    BY <1>1, <2>2, EvalAssumption
  <2>4. StringAt(word, k)
    BY <1>6, <1>7, <2>1, <2>3, StringIs
  <2>5. PICK m \in Nat : word \in [1..m -> Chars \cup {NUL}]
    BY <2>4 DEF StringAt
  <2> QED BY <2>5, Messages
<1>9. PICK name : name = String(s.b, s.argv[1])
  OBVIOUS
<1>10. /\ buf' = s.b
       /\ \/ NewLine(ConsoleOut(c, Error \o <<NL>>))
          \/ NewLine(c)
          \/ NewLine(ConsoleCls(c))
          \/ \E out \in Outputs : NewLine(ConsoleOut(c, out))
          \/ NewLine(ConsoleOut(c, word \o <<NL>>))
  BY <1>2, <1>4, <1>7, <1>9, Zenon DEF Enter
<1>11. PICK d : NewLine(d) /\ d \in Ready
  <2>1. CASE NewLine(ConsoleOut(c, Error \o <<NL>>))
    <3>1. ConsoleOut(c, Error \o <<NL>>) \in Steady
      BY <1>3, Messages, OutSeq
    <3> QED BY <2>1, <3>1, SteadyIs
  <2>2. CASE NewLine(c)
    BY <1>3, <2>2, SteadyIs
  <2>3. CASE NewLine(ConsoleCls(c))
    BY <1>3, <2>3, ClsIs
  <2>4. CASE \E out \in Outputs : NewLine(ConsoleOut(c, out))
    <3>1. PICK out \in Outputs : NewLine(ConsoleOut(c, out))
      BY <2>4
    <3>2. ConsoleOut(c, out) \in Steady
      <4>1. out \in Seq(Printed)
        BY <3>1, Messages
      <4> QED BY <1>3, <4>1, OutSeq
    <3> QED BY <3>1, <3>2, SteadyIs
  <2>5. CASE NewLine(ConsoleOut(c, word \o <<NL>>))
    <3>1. ConsoleOut(c, word \o <<NL>>) \in Steady
      <4>1. word \o <<NL>> \in Seq(Printed)
        BY <1>8, Messages
      <4> QED BY <1>3, <4>1, OutSeq
    <3> QED BY <2>5, <3>1, SteadyIs
  <2> QED BY <1>10, <2>1, <2>2, <2>3, <2>4, <2>5
<1> QED BY <1>6, <1>10, <1>11, NewLineInv

\* So the invariant holds.
LEMMA EvalAlways == Spec => []EvalInv
<1>1. Init => EvalInv
  BY EvalInit
<1>2. EvalInv /\ [Next]_vars => EvalInv'
  <2> SUFFICES ASSUME EvalInv, [Next]_vars PROVE EvalInv'
    OBVIOUS
  <2>1. CASE \E ch \in Chars : Type(ch)
    BY <2>1, TypeKeepsInv
  <2>2. CASE TooManyCharacters
    BY <2>2, TooManyKeepsInv
  <2>3. CASE Back
    BY <2>3, BackKeepsInv
  <2>4. CASE EmptyLine
    BY <2>4, EmptyKeepsInv
  <2>5. CASE Enter
    BY <2>5, EnterKeepsInv
  <2>6. CASE UNCHANGED vars
    BY <2>6, Zenon DEF vars, EvalInv, EvalTypes, Shows, Cell
  <2> QED BY <2>1, <2>2, <2>3, <2>4, <2>5, <2>6 DEF Next
<1> QED BY <1>1, <1>2, PTL DEF Spec

\* OneCursor: while the shell waits for a key there is one block on the
\* screen, where the next character goes.
THEOREM OneCursorAlways == Spec => []OneCursor
<1>1. EvalInv => OneCursor
  BY DEF EvalInv, EvalTypes, Steady, OneCursor
<1> QED BY <1>1, EvalAlways, PTL

\* EchoMatches: the screen shows the prompt and the line that is typed, up to
\* the cursor.
THEOREM EchoMatchesAlways == Spec => []EchoMatches
<1>1. EvalInv => EchoMatches
  BY DEF EvalInv, Shows, EchoMatches
<1> QED BY <1>1, EvalAlways, PTL

\* SplitMatches: the splitter finds the arguments of the line that was typed,
\* refuses a line with an open quote and one with too many arguments, and
\* takes no other for those.
THEOREM SplitMatchesAlways == Spec => []SplitMatches
<1>1. EvalInv => SplitMatches
  <2> SUFFICES ASSUME EvalInv, i > 0 PROVE SplitMatches
    BY DEF SplitMatches
  <2>1. PICK b, t : b = buf /\ t = typed
    OBVIOUS
  <2>2. Holds(b, t)
    BY <2>1, EvalAssumption DEF EvalInv, EvalTypes, Holds
  <2>3. PICK s : s = Split(b)
    OBVIOUS
  <2>4. PICK start \in 0..Len(t) : /\ Track(s, t, b, start, Len(t))
                                  /\ s \in SplitStates(b)
                                  /\ \A n \in 0..start - 1 : t[n + 1] = SPACE
    BY <2>2, <2>3, TrackEnd
  <2>5. PICK L \in Nat : L = Len(t) /\ t \in Seq(Chars)
    BY <2>2 DEF Holds
  <2>6. Count(t, L) = Cardinality(Starts(t)) /\ Starts(t) \in SUBSET (1..L)
    <3>1. Starts(t) \in SUBSET (1..L)
      BY <2>5, CountIs
    <3> QED BY <3>1, UptoIs DEF Count
  <2>7. s.full <=> Cardinality(Starts(t)) >= ArgsMax
    BY <2>4, <2>5, <2>6 DEF Track
  <2>8. ASSUME ~ s.full
        PROVE  /\ s.mark <=> Inside(t, Len(t) + 1)
               /\ [n \in 1..Len(s.argv) |-> String(s.b, s.argv[n])] = Words(t)
    <3>1. /\ s.mark <=> Inside(t, Len(t) + 1)
          /\ Len(s.argv) = Cardinality(Starts(t))
          /\ Found(s.argv, t) /\ Cut(s.b, t, b, start, Len(t))
          /\ s.argv \in Seq(Nat) /\ s.b \in Lines
      BY <2>4, <2>5, <2>6, <2>8 DEF Track, SplitStates
    <3>2. ASSUME NEW n \in 1..Len(s.argv)
          PROVE  String(s.b, s.argv[n]) = WordAt(t, Nth(Starts(t), n))
      <4>1. PICK k \in Nat : k = s.argv[n]
        BY <3>1
      <4>2. PICK q : q = k + 1
        OBVIOUS
      <4>3. q \in Starts(t) /\ Count(t, q) = n
        BY <3>1, <4>1, <4>2 DEF Found
      <4>4. Nth(Starts(t), n) = q
        <5>1. Nth(Starts(t), Cardinality(Upto(Starts(t), q))) = q
          BY <2>6, <4>3, NthIs
        <5> QED BY <4>3, <5>1 DEF Count
      <4>5. q \in Letters(t)
        BY <4>3 DEF Starts
      <4>6. k >= start
        <5> SUFFICES ASSUME k < start PROVE FALSE
          BY <2>4, <2>5
        <5>1. k \in 0..start - 1
          BY <2>4, <2>5
        <5>2. t[k + 1] = SPACE
          BY <2>4, <5>1
        <5> QED BY <4>2, <4>5, <5>2 DEF Letters
      <4>7. String(s.b, k) = WordAt(t, q)
        BY <2>2, <3>1, <4>2, <4>5, <4>6, SameWord
      <4> QED BY <4>1, <4>4, <4>7
    <3> QED BY <3>1, <3>2 DEF Words
  <2> QED BY <2>1, <2>3, <2>7, <2>8 DEF SplitMatches
<1> QED BY <1>1, EvalAlways, PTL
=============================================================================
