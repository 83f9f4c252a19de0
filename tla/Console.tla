------------------------------ MODULE Console -------------------------------
(***************************************************************************)
(* console.c: the cursor, the output of characters and the scrolling of    *)
(* the console, on a record c of                                           *)
(*   x, y       console.x and console.y, counted in characters,            *)
(*   lx, ly     last_x and last_y of console_cur, where the cursor's block *)
(*              was drawn,                                                 *)
(*   scr        the character each cell shows, Cursor for the block.       *)
(***************************************************************************)
EXTENDS Integers, Sequences, SequencesExt

CONSTANTS Cols, Rows

ASSUME ConsoleAssumption == Cols \in Nat \ {0} /\ Rows \in Nat \ {0}

Blank == " "
Cursor == "cursor"
NL == "\n"
TAB == "\t"
BS == "bs"
CR == "\r"
BACK == "back"       \* CONSOLE_BACK_FORCE

Cells == 0..Cols * Rows - 1
Cell(x, y) == y * Cols + x

\* put_char; put_pixel draws nothing outside the screen.
PutChar(c, ch, x, y) ==
  IF x < Cols /\ y < Rows THEN [c EXCEPT !.scr[Cell(x, y)] = ch] ELSE c

\* Mutant: the old block stays.
ConsoleCurKeeps(c, flushOld, flushNew) ==
  LET d == [c EXCEPT !.lx = c.x, !.ly = c.y]
  IN  IF flushNew THEN PutChar(d, Cursor, c.x, c.y) ELSE d

ConsoleCur(c, flushOld, flushNew) ==
  LET old == IF flushOld THEN PutChar(c, Blank, c.lx, c.ly) ELSE c
      d == [old EXCEPT !.lx = c.x, !.ly = c.y]
  IN  IF flushNew THEN PutChar(d, Cursor, c.x, c.y) ELSE d

\* Everything moves up a line, the last one is cleared.
Scrolled(scr) ==
  [p \in Cells |-> IF p + Cols \in Cells THEN scr[p + Cols] ELSE Blank]

ConsoleRoll(c) ==
  LET d == [c EXCEPT !.x = 0, !.y = c.y + 1]
      e == ConsoleCur(d, TRUE, FALSE)
  IN  IF d.y < Rows THEN d ELSE [e EXCEPT !.scr = Scrolled(e.scr), !.y = d.y - 1]

Tab(c) ==
  LET d == [c EXCEPT !.x = c.x + 4 - (c.x % 4)]
  IN  ConsoleCur(IF d.x >= Cols THEN ConsoleRoll(ConsoleCur(d, TRUE, FALSE)) ELSE d,
                 TRUE, TRUE)

\* Mutant: a forced backspace stops at the start of a line.
BackForceInLine(c) ==
  ConsoleCur(IF c.x # 0 THEN [c EXCEPT !.x = c.x - 1] ELSE c, TRUE, TRUE)

BackForce(c) ==
  LET d == CASE c.x # 0 -> [c EXCEPT !.x = c.x - 1]
             [] c.x = 0 /\ c.y # 0 -> [c EXCEPT !.x = Cols - 1, !.y = c.y - 1]
             [] OTHER -> c
  IN  ConsoleCur(d, TRUE, TRUE)

Backspace(c) ==
  IF c.x = 0 THEN c ELSE ConsoleCur([c EXCEPT !.x = c.x - 1], TRUE, TRUE)

Plain(c, ch) ==
  LET d == [PutChar(c, ch, c.x, c.y) EXCEPT !.x = c.x + 1]
  IN  ConsoleCur(IF d.x >= Cols THEN ConsoleRoll(ConsoleCur(d, FALSE, FALSE)) ELSE d,
                 FALSE, TRUE)

OutChar(c, ch) ==
  CASE ch = NL -> ConsoleCur(ConsoleRoll(c), TRUE, TRUE)
    [] ch = TAB -> Tab(c)
    [] ch = BACK -> BackForce(c)
    [] ch = BS -> Backspace(c)
    [] ch = CR -> ConsoleCur([c EXCEPT !.x = 0], TRUE, TRUE)
    [] OTHER -> Plain(c, ch)

ConsoleOut(c, string) == FoldLeft(OutChar, c, string)

\* The block of the cursor goes with the text, last_x and last_y stay.
ConsoleCls(c) == [c EXCEPT !.scr = [p \in Cells |-> Blank], !.x = 0, !.y = 0]

\* After init_console.
Cleared == ConsoleCls([x |-> 0, y |-> 0, lx |-> 0, ly |-> 0,
                       scr |-> [p \in Cells |-> Blank]])
=============================================================================
