-------------------------------- MODULE Eval --------------------------------
(***************************************************************************)
(* eval.c: the shell edits a line, splits it into arguments and looks the  *)
(* command up, echoing to the console.  A key is one step: interrupts do   *)
(* not touch this state, and a command that prints prints before the next  *)
(* key is read.                                                            *)
(*                                                                         *)
(* Texts the shell prints are cut to a character, and two commands stand   *)
(* for all: cls, and one that prints what a file holds (popf -a).          *)
(***************************************************************************)
EXTENDS Console

CONSTANTS
  CharMax,   \* EVAL_CHAR_MAX
  ArgsMax,   \* EVAL_ARGS_MAX
  Chars,     \* printable characters that are typed
  Outputs,   \* what popf prints
  MaxKeys    \* bound on keys pressed

NUL == "nul"
SPACE == " "
QUOTE == "quote"
ESC == "backslash"
Prompt == <<"$">>
Error == <<"!">>
Controls == {NL, TAB, BS, CR, BACK}

\* The prompt and a full line fit the screen above its last row.  Characters
\* between ' ' and '~' are typed, and none looks like the block.
ASSUME EvalAssumption ==
  /\ CharMax \in Nat \ {0} /\ ArgsMax \in Nat \ {0} /\ MaxKeys \in Nat
  /\ Len(Prompt) + CharMax <= (Rows - 1) * Cols
  /\ Chars \cap (Controls \cup {NUL, Cursor}) = {}
  /\ Outputs \subseteq Seq(Chars \cup Controls)

VARIABLES
  con,       \* the console
  buf,       \* cmdline_buffer, and at CharMax the byte behind it
  i,
  typed,     \* the characters of the line, as the typist counts them
  keys       \* keys pressed

vars == <<con, buf, i, typed, keys>>

cls == <<"c">>
popf == <<"c", "c">>

\* The string at k.
String(b, k) ==
  LET end == Min({n \in k..CharMax : b[n] = NUL})
  IN  [n \in 1..end - k |-> b[k + n - 1]]

-----------------------------------------------------------------------------
(* The splitter, lines 153 to 211. *)

\* A quote at the start of the line, or after a backslash, is a character.
IsQuote(b, k) == b[k] = QUOTE /\ k > 0 /\ b[k - 1] # ESC

\* Mutant: a space within quotes ends the argument.
SplitSpaceAlways(s, k) == [s EXCEPT !.space = TRUE, !.b[k] = NUL]

SplitSpace(s, k) ==
  IF s.mark THEN s ELSE [s EXCEPT !.space = TRUE, !.b[k] = NUL]

SplitQuote(s, k) ==
  IF s.mark THEN [s EXCEPT !.mark = FALSE, !.space = TRUE, !.b[k] = NUL]
            ELSE [s EXCEPT !.mark = TRUE]

SplitOther(s, k) ==
  IF s.space \/ s.argv = <<>>
  THEN [s EXCEPT !.argv = Append(s.argv, k), !.space = FALSE,
                 !.full = Len(s.argv) + 1 >= ArgsMax]
  ELSE s

SplitAt(s, k) ==
  CASE s.full -> s
    [] ~s.full /\ s.b[k] = SPACE -> SplitSpace(s, k)
    [] ~s.full /\ IsQuote(s.b, k) -> SplitQuote(s, k)
    [] OTHER -> SplitOther(s, k)

\* cmd_start_idx.
CommandStart(b) == Min({n \in 0..CharMax : b[n] # SPACE})

\* The positions from there to the end of the line.
Positions(b) ==
  LET start == CommandStart(b)
  IN  [n \in 1..Len(String(b, start)) |-> start + n - 1]

Split(b) ==
  FoldLeft(SplitAt,
           [b |-> b, argv |-> <<>>, mark |-> FALSE, space |-> FALSE, full |-> FALSE],
           Positions(b))

-----------------------------------------------------------------------------
\* A new prompt.
NewLine(c) ==
  /\ con' = ConsoleOut(c, Prompt)
  /\ i' = 0
  /\ typed' = <<>>

Init ==
  /\ con = ConsoleOut(Cleared, Prompt)
  /\ buf = [n \in 0..CharMax |-> NUL]
  /\ i = 0
  /\ typed = <<>>
  /\ keys = 0

Pressed == keys < MaxKeys /\ keys' = keys + 1

Type(ch) ==
  /\ Pressed
  /\ i < CharMax
  /\ con' = ConsoleOut(con, <<ch>>)
  /\ buf' = [buf EXCEPT ![i] = ch, ![i + 1] = NUL]
  /\ i' = i + 1
  /\ typed' = Append(typed, ch)

\* The line is full: it is dropped with a message.
TooManyCharacters ==
  /\ Pressed
  /\ i >= CharMax
  /\ NewLine(ConsoleOut(con, <<NL>> \o Error \o <<NL>>))
  /\ UNCHANGED buf

Back ==
  /\ Pressed
  /\ i > 0
  /\ buf' = [buf EXCEPT ![i - 1] = NUL]
  /\ i' = i - 1
  /\ con' = ConsoleOut(con, <<BACK>>)
  /\ typed' = Front(typed)

EmptyLine ==
  /\ Pressed
  /\ i = 0
  /\ NewLine(ConsoleOut(con, <<NL>>))
  /\ UNCHANGED buf

\* The line goes to the splitter and, if it is one, to its command.
Enter ==
  /\ Pressed
  /\ i > 0
  /\ LET c == ConsoleOut(con, <<NL>>)
         s == Split(buf)
         name == String(s.b, s.argv[1])
     IN  /\ buf' = s.b
         /\ \/ /\ s.full \/ s.mark
               /\ NewLine(ConsoleOut(c, Error \o <<NL>>))
            \/ /\ ~s.full /\ ~s.mark
               /\ s.argv = <<>>
               /\ NewLine(c)
            \/ /\ ~s.full /\ ~s.mark
               /\ s.argv # <<>>
               /\ \/ /\ name = cls
                     /\ NewLine(ConsoleCls(c))
                  \/ /\ name = popf
                     /\ \E out \in Outputs : NewLine(ConsoleOut(c, out))
                  \/ /\ name \notin {cls, popf}
                     /\ NewLine(ConsoleOut(c, String(s.b, CommandStart(buf)) \o <<NL>>))

Next ==
  \/ \E ch \in Chars : Type(ch)
  \/ TooManyCharacters
  \/ Back
  \/ EmptyLine
  \/ Enter

Spec == Init /\ [][Next]_vars

-----------------------------------------------------------------------------
\* While the shell waits for a key there is one block on the screen, where the
\* next character goes, whatever was printed, scrolled or cleared before: the
\* places last_x and last_y of console_cur (console.c:87) never go stale.
OneCursor == {p \in Cells : con.scr[p] = Cursor} = {Cell(con.x, con.y)}

\* The line on the screen, up to the cursor and over the end of lines, is the
\* prompt and what was typed less what was taken back.
EchoMatches ==
  LET shown == Prompt \o typed
      first == Cell(con.x, con.y) - Len(shown)
  IN  first >= 0 /\ \A n \in 1..Len(shown) : con.scr[first + n - 1] = shown[n]

\* The arguments by position in the line t: a quote opens or closes by the
\* number of quotes before it, a separator is a space outside quotes or a
\* closing quote, and an argument runs from a character with no other since
\* the last separator to the next one.
Quotes(t) == {k \in 1..Len(t) : t[k] = QUOTE /\ k > 1 /\ t[k - 1] # ESC}
Inside(t, k) == Cardinality({q \in Quotes(t) : q < k}) % 2 = 1
Separators(t) ==
  {k \in 1..Len(t) : \/ t[k] = SPACE /\ ~Inside(t, k)
                     \/ k \in Quotes(t) /\ Inside(t, k)}
Letters(t) == {k \in 1..Len(t) : t[k] # SPACE} \ Quotes(t)
Starts(t) ==
  {k \in Letters(t) :
     \A j \in Letters(t) : j < k => \E s \in Separators(t) : j < s /\ s < k}
WordAt(t, k) ==
  SubSeq(t, k, Min({s \in Separators(t) : s > k} \cup {Len(t) + 1}) - 1)
Nth(S, n) == CHOOSE k \in S : Cardinality({j \in S : j <= k}) = n
Words(t) ==
  [n \in 1..Cardinality(Starts(t)) |-> WordAt(t, Nth(Starts(t), n))]

\* The splitter finds the arguments of the line that was typed, whatever an
\* earlier and longer line left in the buffer, refuses a line with an open
\* quote and one with ArgsMax arguments, and takes no other for those.
SplitMatches ==
  i > 0 =>
    LET s == Split(buf)
    IN  /\ s.full <=> Cardinality(Starts(typed)) >= ArgsMax
        /\ ~s.full => /\ s.mark <=> Inside(typed, Len(typed) + 1)
                      /\ [n \in 1..Len(s.argv) |-> String(s.b, s.argv[n])] = Words(typed)
=============================================================================
