------------------------------- MODULE Input --------------------------------
(***************************************************************************)
(* The keyboard, the interrupt controllers and the shell's loop around     *)
(* get_key (eval.c), whose commands mask and unmask lines.  Interrupts     *)
(* come between any two steps of the loop.                                 *)
(*                                                                         *)
(* Paced is what is assumed of the typist.  While the loop polls, it finds *)
(* a stroke before the next one is made: it passes the whole ring in       *)
(* microseconds.  While it is busy with a character, or runs a command,    *)
(* at most RingSize keys are pressed.                                      *)
(***************************************************************************)
EXTENDS Interrupt, Keyboard

CONSTANTS
  Devices,   \* lines that interrupt, apart from the keyboard's
  Vectors    \* vectors given to the command `interrupt'

ASSUME InputAssumption ==
  /\ Devices \subseteq Lines
  /\ Vectors \subseteq IRQ_0..IRQ_0 + 15

VARIABLES
  asked,     \* lines interrupt_enable was called for
  ahead,     \* slots the interrupt has filled from cursor_out on
  early,     \* strokes made while the loop was busy, and not yet read
  last       \* the stroke get_key returned last

vars == <<interruptVars, keyboardVars, asked, ahead, early, last>>

Timer == 0
Kbd == 1

Init ==
  /\ InterruptInit
  /\ KeyboardInit
  /\ asked = {Timer, Kbd}
  /\ ahead = 0
  /\ early = {}
  /\ last = 0

-----------------------------------------------------------------------------
(* The outside. *)

Type ==
  /\ \E k \in Keys : Press(k) \/ Release(k)
  /\ irr' = irr \cup {Kbd}
  /\ UNCHANGED <<imr, onMask, offMask, inService, asked, ahead, early, last>>

Raise(l) ==
  /\ irr' = irr \cup {l}
  /\ UNCHANGED <<imr, onMask, offMask, inService, keyboardVars, asked, ahead, early, last>>

-----------------------------------------------------------------------------
(* Interrupts. *)

\* The timer's handler and lines without a handler leave this state alone.
OtherIrq(l) ==
  /\ IrqHandler(l, {})
  /\ UNCHANGED <<keyboardVars, asked, ahead, early, last>>

\* The loop has a character in hand.
Engaged == reader.key # NO

Unread == {i \in Slot : fifo[i] # NO /\ fifo[i] # reader.key}

Paced ==
  IF Engaged THEN ahead < (IF reader.at = "use" THEN RingSize ELSE RingSize - 1)
             ELSE Unread = {}

\* The keyboard has another byte: its line is up again.
Again == IF Len(wire) > 1 THEN {Kbd} ELSE {}

KeyIrq ==
  /\ IrqHandler(Kbd, Again)
  /\ \/ /\ IsrStray \/ IsrPrefix \/ IsrBreak
        /\ UNCHANGED <<ahead, early>>
     \/ /\ Paced
        /\ IsrMake
        /\ ahead' = IF Engaged THEN ahead + 1 ELSE ahead
        /\ early' = IF Engaged /\ Head(wire).id # 0 THEN early \cup {Head(wire).id} ELSE early
  /\ UNCHANGED <<asked, last>>

-----------------------------------------------------------------------------
(* The loop. *)

Poll ==
  /\ GetRead
  /\ ahead' = IF ahead > 0 THEN ahead - 1 ELSE 0
  /\ UNCHANGED <<interruptVars, asked, early, last>>

Clear ==
  /\ GetClear
  /\ last' = IF reader.key = NO THEN last ELSE reader.key.id
  /\ early' = early \ {reader.key.id}
  /\ UNCHANGED <<interruptVars, asked, ahead>>

Use ==
  /\ Used
  /\ UNCHANGED <<interruptVars, asked, ahead, early, last>>

\* The character ends a line that holds the command `interrupt'.
Command(v) ==
  /\ Used
  /\ \/ /\ InterruptEnable(v)
        /\ asked' = asked \cup {v - IRQ_0}
     \/ /\ InterruptDisable(v)
        /\ UNCHANGED asked
  /\ UNCHANGED <<ahead, early, last>>

Next ==
  \/ Type
  \/ \E l \in Devices \cup {Kbd} : Raise(l)
  \/ \E l \in Devices : OtherIrq(l)
  \/ KeyIrq
  \/ Poll \/ Clear \/ Use
  \/ \E v \in Vectors : Command(v)

Spec == Init /\ [][Next]_vars

\* The shell's thread is scheduled again and again.
Fairness == WF_vars(Poll \/ Clear \/ Use)

FairSpec == Spec /\ Fairness

-----------------------------------------------------------------------------
\* irq_handler acknowledges before it calls the handler, at both controllers
\* where two are involved: whatever came before, no line is left in service,
\* where it would hold back the lines below it for good.
Acknowledged == inService = {}

\* A line of the first controller is let through only if interrupt_enable was
\* called for it, by the kernel or by a command, whatever calls of enable and
\* disable (interrupt.c:26, 43) came since.
NoStray == Master \ imr \subseteq asked

\* The letter in the ring is the one the keys held at its stroke call for,
\* with bytes held back, prefixes, repeats and stray interrupts in between.
Faithful ==
  \A i \in Slot : fifo[i] # NO => fifo[i].ch = meant[fifo[i].id]

\* Strokes are read at most once and in the order they were made.
KeepsOrder ==
  INSTANCE KeyQueue WITH strokes <- Len(meant), last <- last
InOrder == KeepsOrder!Spec

\* What is typed while the shell is busy is read once it polls again: neither
\* the ring's limit nor the interrupt between get_key's read and its store
\* (keyboard.c:77, 78) loses it.
TypeAheadRead == \A id \in 1..MaxKeys : id \in early ~> id \notin early
=============================================================================
