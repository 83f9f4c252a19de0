----------------------------- MODULE Interrupt -----------------------------
(***************************************************************************)
(* interrupt.c: the table of handlers, the masks of the two 8259A and the  *)
(* dispatch of interrupts.                                                 *)
(*                                                                         *)
(* A mask is the set of its bits that are 1, a line whose interrupts are   *)
(* held back.  Lines 0..7 are those of the first controller, 8..15 those   *)
(* of the second, which interrupts through line 2 of the first.            *)
(***************************************************************************)
EXTENDS Integers, FiniteSets

VARIABLES
  imr,       \* the mask registers PIC0_IMR and PIC1_IMR
  onMask,    \* the static ocw1 of interrupt_enable
  offMask,   \* the static ocw1 of interrupt_disable
  irr,       \* lines with an interrupt pending (controller)
  inService  \* lines delivered and not acknowledged (controller)

interruptVars == <<imr, onMask, offMask, irr, inService>>

IRQ_0 == 32
Lines == 0..15
Master == 0..7
Slave == 8..15
Cascade == 2

\* vector -= IRQ_0 on a uint8_t.
Line(vector) == (vector - IRQ_0) % 256

\* 1 << vector on x86, which takes the count modulo 32, cut to 16 bits.
Bit(vector) == {Line(vector) % 32} \cap Lines

\* The port the new mask goes to depends on the line.
WriteMask(vector, mask) ==
  LET port == IF Line(vector) < 8 THEN Master ELSE Slave
  IN  imr' = (imr \ port) \cup (mask \cap port)

\* init_8259a masks every line; init_keyboard and init_timer enable theirs.
InterruptInit ==
  /\ onMask = Master \ {0, 1}
  /\ imr = Lines \ {0, 1}
  /\ offMask = Master
  /\ irr = {}
  /\ inService = {}

InterruptEnable(vector) ==
  /\ onMask' = onMask \ Bit(vector)
  /\ WriteMask(vector, onMask')
  /\ UNCHANGED <<offMask, irr, inService>>

\* Mutant: disable takes its bit out of the mask, as enable does.
InterruptDisableClears(vector) ==
  /\ offMask' = offMask \ Bit(vector)
  /\ WriteMask(vector, offMask')
  /\ UNCHANGED <<onMask, irr, inService>>

InterruptDisable(vector) ==
  /\ offMask' = offMask \cup Bit(vector)
  /\ WriteMask(vector, offMask')
  /\ UNCHANGED <<onMask, irr, inService>>

-----------------------------------------------------------------------------
(* The controller, as the code relies on it. *)

\* Lines the first and the second controller let through.
Unmasked(l) == l \notin imr /\ (l \in Slave => Cascade \notin imr)

\* A line waits for every line of its controller that is in service.
Deliverable(l) ==
  /\ l \in irr
  /\ Unmasked(l)
  /\ \A s \in inService : {s, l} \subseteq Master \/ {s, l} \subseteq Slave => l < s
  /\ l \in Slave => \A s \in inService \cap Master : Cascade < s

Taken(l) == IF l \in Slave THEN {l, Cascade} ELSE {l}

\* A non-specific EOI ends the line of highest priority.
End(served, port) ==
  served \ {s \in served \cap port : \A o \in served \cap port : s <= o}

\* Mutant: only the first controller is acknowledged.
AcknowledgeFirst(l) == End(inService \cup Taken(l), Master)

\* irq_handler acknowledges, at the second controller first, and calls the
\* handler, which is the other conjunct of the step.
Acknowledge(l) ==
  LET slave == IF l + IRQ_0 >= 40 THEN End(inService \cup Taken(l), Slave)
                                  ELSE inService \cup Taken(l)
  IN  End(slave, Master)

IrqHandler(l, again) ==
  /\ Deliverable(l)
  /\ inService' = Acknowledge(l)
  /\ irr' = (irr \ {l}) \cup again
  /\ UNCHANGED <<imr, onMask, offMask>>
=============================================================================
