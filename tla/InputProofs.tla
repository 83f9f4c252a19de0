---------------------------- MODULE InputProofs -----------------------------
(***************************************************************************)
(* Theorems about Input: the interrupt controllers under its handlers and  *)
(* commands, and the keyboard under interrupts anywhere, for any devices,  *)
(* vectors, ring, keys and typist within Paced.                            *)
(***************************************************************************)
EXTENDS Input, SequenceTheorems, TLAPS

\* enable's mask lacks, of the first controller, only lines it was called for;
\* disable's has them all; the register is one of the two.
MaskInv ==
  /\ Master \ onMask \subseteq asked
  /\ Master \subseteq offMask
  /\ NoStray

-----------------------------------------------------------------------------
\* irq_handler: whatever line it is, both controllers are free again.
LEMMA EndsAll ==
  ASSUME NEW l \in Lines, inService = {}
  PROVE  Acknowledge(l) = {}
<1> DEFINE taken == inService \cup Taken(l)
<1>1. CASE l \in Master
  <2>1. ~(l + IRQ_0 >= 40) /\ taken = {l}
    BY <1>1 DEF Master, Slave, IRQ_0, Taken
  <2>2. End(taken, Master) = {}
    BY <1>1, <2>1 DEF End, Master
  <2> QED BY <2>1, <2>2 DEF Acknowledge
<1>2. CASE l \in Slave
  <2>1. l + IRQ_0 >= 40 /\ taken = {l, Cascade}
    BY <1>2 DEF Slave, IRQ_0, Taken
  <2>2. taken \cap Slave = {l}
    BY <1>2, <2>1 DEF Slave, Cascade
  <2>3. End(taken, Slave) = {Cascade}
    <3>1. {s \in taken \cap Slave : \A o \in taken \cap Slave : s <= o} = {l}
      BY <1>2, <2>2 DEF Slave
    <3> QED BY <1>2, <2>1, <3>1 DEF End, Slave, Cascade
  <2>4. End({Cascade}, Master) = {}
    BY DEF End, Master, Cascade
  <2> QED BY <2>1, <2>3, <2>4 DEF Acknowledge
<1> QED BY <1>1, <1>2 DEF Lines, Master, Slave

\* A vector of the two controllers stands for one line.
LEMMA VectorLine ==
  ASSUME NEW v \in IRQ_0..IRQ_0 + 15
  PROVE  Line(v) = v - IRQ_0 /\ Bit(v) = {v - IRQ_0} /\ v - IRQ_0 \in Lines
<1>1. v - IRQ_0 \in Lines
  BY DEF IRQ_0, Lines
<1>2. Line(v) = v - IRQ_0
  BY <1>1 DEF Line, Lines, IRQ_0
<1>3. Line(v) % 32 = v - IRQ_0
  BY <1>1, <1>2 DEF Lines, IRQ_0
<1> QED BY <1>1, <1>2, <1>3 DEF Bit

\* Writing a mask to a port leaves the other controller as it was.
LEMMA MaskWritten ==
  ASSUME NEW v \in IRQ_0..IRQ_0 + 15, NEW mask, WriteMask(v, mask)
  PROVE  \/ Master \ imr' = Master \ mask
         \/ Master \ imr' = Master \ imr
<1>1. Master \cap Slave = {}
  BY DEF Master, Slave
<1>2. CASE Line(v) < 8
  BY <1>2 DEF WriteMask
<1>3. CASE ~(Line(v) < 8)
  BY <1>1, <1>3 DEF WriteMask
<1> QED BY <1>2, <1>3

-----------------------------------------------------------------------------
\* Every step keeps what it found: only irq_handler touches the lines in
\* service, only the command `interrupt' the masks.
LEMMA Steps ==
  ASSUME MaskInv, Acknowledged, [Next]_vars
  PROVE  MaskInv' /\ Acknowledged'
<1> USE DEF interruptVars
<1> DEFINE Masks == UNCHANGED <<imr, onMask, offMask, asked>>
<1>1. ASSUME Masks PROVE MaskInv'
  BY <1>1 DEF MaskInv, NoStray
<1>2. ASSUME UNCHANGED inService PROVE Acknowledged'
  BY <1>2 DEF Acknowledged
<1>3. ASSUME NEW l \in Lines, NEW again, IrqHandler(l, again) PROVE Acknowledged'
  BY <1>3, EndsAll DEF IrqHandler, Acknowledged
<1>4. CASE Type
  BY <1>4, <1>1, <1>2 DEF Type
<1>5. ASSUME NEW l \in Devices \cup {Kbd}, Raise(l) PROVE MaskInv' /\ Acknowledged'
  BY <1>5, <1>1, <1>2 DEF Raise
<1>6. ASSUME NEW l \in Devices, OtherIrq(l) PROVE MaskInv' /\ Acknowledged'
  <2>1. l \in Lines /\ IrqHandler(l, {}) /\ Masks
    BY <1>6, InputAssumption DEF OtherIrq, IrqHandler
  <2> QED BY <2>1, <1>1, <1>3
<1>7. CASE KeyIrq
  <2>1. Kbd \in Lines /\ IrqHandler(Kbd, Again) /\ Masks
    BY <1>7 DEF KeyIrq, IrqHandler, Kbd, Lines
  <2> QED BY <2>1, <1>1, <1>3
<1>8. CASE Poll
  BY <1>8, <1>1, <1>2 DEF Poll
<1>9. CASE Clear
  BY <1>9, <1>1, <1>2 DEF Clear
<1>10. CASE Use
  BY <1>10, <1>1, <1>2 DEF Use
<1>11. ASSUME NEW v \in Vectors, Command(v) PROVE MaskInv' /\ Acknowledged'
  <2>1. v \in IRQ_0..IRQ_0 + 15
    BY InputAssumption
  <2>2. CASE InterruptEnable(v) /\ asked' = asked \cup {v - IRQ_0}
    <3>1. Master \ onMask' \subseteq asked'
      BY <2>1, <2>2, VectorLine DEF InterruptEnable, MaskInv
    <3>2. NoStray'
      BY <2>1, <2>2, <3>1, MaskWritten DEF InterruptEnable, MaskInv, NoStray
    <3> QED BY <2>2, <3>1, <3>2, <1>2 DEF InterruptEnable, MaskInv
  <2>3. CASE InterruptDisable(v) /\ UNCHANGED asked
    <3>1. Master \subseteq offMask'
      BY <2>3 DEF InterruptDisable, MaskInv
    <3>2. NoStray'
      BY <2>1, <2>3, <3>1, MaskWritten DEF InterruptDisable, MaskInv, NoStray
    <3> QED BY <2>3, <3>1, <3>2, <1>2 DEF InterruptDisable, MaskInv
  <2> QED BY <1>11, <2>2, <2>3 DEF Command
<1>12. CASE UNCHANGED vars
  BY <1>12, <1>1, <1>2 DEF vars
<1> QED
  BY <1>4, <1>5, <1>6, <1>7, <1>8, <1>9, <1>10, <1>11, <1>12 DEF Next

LEMMA Begins == Init => MaskInv /\ Acknowledged
  BY DEF Init, InterruptInit, MaskInv, NoStray, Acknowledged, Lines, Master, Timer, Kbd

\* For any devices, keys and sequence of commands, irq_handler leaves no line
\* in service, where it would hold back lines of lower priority.
THEOREM EveryLineAcknowledged == Spec => []Acknowledged
<1>1. Init => MaskInv /\ Acknowledged BY Begins
<1>2. MaskInv /\ Acknowledged /\ [Next]_vars => MaskInv' /\ Acknowledged' BY Steps
<1> QED BY <1>1, <1>2, PTL DEF Spec

\* However interrupt_enable and interrupt_disable are mixed, a line of the first
\* controller that nobody asked for stays masked.
THEOREM NoStrayLine == Spec => []NoStray
<1>1. Init => MaskInv /\ Acknowledged BY Begins
<1>2. MaskInv /\ Acknowledged /\ [Next]_vars => MaskInv' /\ Acknowledged' BY Steps
<1>3. MaskInv => NoStray BY DEF MaskInv
<1> QED BY <1>1, <1>2, <1>3, PTL DEF Spec

-----------------------------------------------------------------------------
(***************************************************************************)
(* The keyboard under interrupts anywhere, for any ring, keys and typist   *)
(* within Paced: strokes are read in order, and letters are what was       *)
(* typed.                                                                  *)
(***************************************************************************)

-----------------------------------------------------------------------------
(***************************************************************************)
(* The bytes on the wire.                                                  *)
(***************************************************************************)
\* What keyboard_isr makes of a byte when its static shift is F.
Data(F, b) == IF "E0ESC" \in F THEN b + 128 ELSE b
Make(F, b) == Toggle((F \ {"E0ESC"}) \cup shiftcode(Data(F, b)), togglecode(Data(F, b)))
Break(F, b) == F \ (shiftcode(IF "E0ESC" \in F THEN b ELSE b % 128) \cup {"E0ESC"})
After(F, b) ==
  IF b = E0 THEN F \cup {"E0ESC"} ELSE IF b < 128 THEN Make(F, b) ELSE Break(F, b)
Char(F, b) == Caps(Make(F, b), charcode(Make(F, b), Data(F, b)))

\* Two keys that share a flag of keymap.h undo each other's effect.
Code(k) == IF k.ext THEN k.code + 128 ELSE k.code
OneKeyPerFlag ==
  \A k, l \in Keys : (\E codes \in {SHIFT, CTL} : Code(k) \in codes /\ Code(l) \in codes) => k = l

\* The flags are those of the keys that are held.
Agrees(F) ==
  /\ "E0ESC" \notin F
  /\ OneKeyPerFlag => /\ "SHIFT" \in F <=> Holds(SHIFT)
                      /\ "CTL" \in F <=> Holds(CTL)
                      /\ "CAPSLOCK" \in F <=> capsOn

Sound(id, c) == id \in 1..Len(meant) /\ (OneKeyPerFlag => c = meant[id])

\* H[i] is what shift will be when the bytes before wire[i] have been taken.
Course(H) ==
  /\ H[1] = shift
  /\ \A i \in 1..Len(wire) : H[i + 1] = After(H[i], wire[i].byte)
  /\ Agrees(H[Len(wire) + 1])
  /\ \A i \in 1..Len(wire) :
       \/ wire[i].id = 0 /\ (wire[i].byte < 128 => Char(H[i], wire[i].byte) = "NO")
       \/ /\ wire[i].byte < 128 /\ Char(H[i], wire[i].byte) # "NO"
          /\ Sound(wire[i].id, Char(H[i], wire[i].byte))

Ascending ==
  \A i, j \in 1..Len(wire) : i < j /\ wire[i].id # 0 /\ wire[j].id # 0 => wire[i].id < wire[j].id

WireInv == (\E H : Course(H)) /\ Ascending

-----------------------------------------------------------------------------
(***************************************************************************)
(* The ring.                                                               *)
(***************************************************************************)
Chars == {"NO", "lower", "upper", "control"}
Key == [id : Nat, ch : Chars]
Byte == [byte : 1..255, id : Nat]

Types ==
  /\ wire \in Seq(Byte)
  /\ held \subseteq Keys /\ capsOn \in BOOLEAN
  /\ meant \in Seq(Chars)
  /\ fifo \in [Slot -> Key]
  /\ cursorIn \in Slot /\ cursorOut \in 0..RingSize
  /\ reader \in [at : {"poll", "clear", "use"}, key : Key]
  /\ reader.at = "clear" => cursorOut \in Slot
  /\ reader.at = "poll" => reader.key = NO
  /\ reader.at = "use" => reader.key # NO
  /\ ahead \in Nat /\ last \in Nat

\* The slots with keys that nobody has read; get_key has read the slot it is
\* about to clear.
Waiting == {i \in Slot : fifo[i] # NO /\ ~ (reader.at = "clear" /\ Engaged /\ i = cursorOut)}

\* The slot get_key reads next, and how far behind it a slot is.
Base == LET b == IF reader.at = "clear" THEN cursorOut + 1 ELSE cursorOut
        IN  IF b = RingSize THEN 0 ELSE b
Behind(i) == IF i >= Base THEN i - Base ELSE i - Base + RingSize

\* The last f slots keyboard_isr filled are the f slots get_key reads next.
InStep(f) ==
  /\ f \in 0..RingSize /\ f <= ahead
  /\ Behind(cursorIn) = IF f = RingSize THEN 0 ELSE f
  /\ \A i \in Waiting : Behind(i) < f
  /\ \A i, j \in Waiting : Behind(i) < Behind(j) => fifo[i].id < fifo[j].id

\* A key that was found before the next was made: it is alone in the ring.
Alone == \A i \in Waiting : cursorIn = IF i + 1 = RingSize THEN 0 ELSE i + 1

RingInv ==
  IF Engaged
  THEN \E f \in 0..RingSize : InStep(f) /\ (reader.at = "clear" => f < RingSize)
  ELSE Alone \/ \E f \in 0..RingSize : InStep(f)

\* The numbers of the strokes, from the last one read to the wire.
OrderInv ==
  /\ last <= Len(meant)
  /\ \A i \in Slot : fifo[i] # NO => Sound(fifo[i].id, fifo[i].ch)
  /\ \A i \in Waiting : last < fifo[i].id /\ (Engaged => reader.key.id < fifo[i].id)
  /\ Engaged => reader.key.id \in 1..Len(meant)
  /\ Engaged /\ reader.at = "clear" => last < reader.key.id
  /\ \A i \in 1..Len(wire) : wire[i].id # 0 =>
       /\ last < wire[i].id
       /\ Engaged => reader.key.id < wire[i].id
       /\ \A j \in Slot : fifo[j] # NO => fifo[j].id < wire[i].id

KeyInv == Types /\ WireInv /\ RingInv /\ OrderInv

-----------------------------------------------------------------------------
(***************************************************************************)
(* Flags and characters.                                                   *)
(***************************************************************************)
\* The tables of keymap.h, flag by flag.
LEMMA CodeFlags ==
  ASSUME NEW d
  PROVE  /\ "SHIFT" \in shiftcode(d) <=> d \in SHIFT
         /\ "CTL" \in shiftcode(d) <=> d \in CTL
         /\ "CAPSLOCK" \notin shiftcode(d) /\ "E0ESC" \notin shiftcode(d)
         /\ "SHIFT" \notin togglecode(d) /\ "CTL" \notin togglecode(d) /\ "E0ESC" \notin togglecode(d)
         /\ "CAPSLOCK" \in togglecode(d) <=> d = 58
  BY DEF shiftcode, togglecode

\* What the press of a key does to the flags.
LEMMA MakeFlags ==
  ASSUME NEW F, NEW b
  PROVE  /\ "E0ESC" \notin Make(F, b)
         /\ "SHIFT" \in Make(F, b) <=> "SHIFT" \in F \/ Data(F, b) \in SHIFT
         /\ "CTL" \in Make(F, b) <=> "CTL" \in F \/ Data(F, b) \in CTL
         /\ "CAPSLOCK" \in Make(F, b) <=> ~ ("CAPSLOCK" \in F <=> Data(F, b) = 58)
<1> DEFINE d == Data(F, b)
<1> HIDE DEF d
<1>1. Make(F, b) = Toggle((F \ {"E0ESC"}) \cup shiftcode(d), togglecode(d))
  BY DEF Make, d
<1> QED BY <1>1, CodeFlags DEF Toggle, d

\* What its release does.
LEMMA BreakFlags ==
  ASSUME NEW F, NEW k \in Keys, "E0ESC" \in F <=> k.ext
  PROVE  /\ "E0ESC" \notin Break(F, k.code + 128)
         /\ "SHIFT" \in Break(F, k.code + 128) <=> "SHIFT" \in F /\ Code(k) \notin SHIFT
         /\ "CTL" \in Break(F, k.code + 128) <=> "CTL" \in F /\ Code(k) \notin CTL
         /\ "CAPSLOCK" \in Break(F, k.code + 128) <=> "CAPSLOCK" \in F
<1>1. k.code \in 1..127 /\ k.ext \in BOOLEAN
  BY KeyboardAssumption
<1>2. (k.code + 128) % 128 = k.code
  BY <1>1
<1>3. Break(F, k.code + 128) = F \ (shiftcode(Code(k)) \cup {"E0ESC"})
  BY <1>1, <1>2 DEF Break, Code
<1> QED BY <1>3, CodeFlags

\* A letter's character is what the flags before it call for; other keys, and
\* keys with a prefix, have none.
LEMMA CharOf ==
  ASSUME NEW F, NEW k \in Keys, "E0ESC" \in F <=> k.ext
  PROVE  /\ Char(F, k.code) \in Chars
         /\ Char(F, k.code) # "NO" <=> k.code \in Letters /\ ~ k.ext
         /\ k.code \in Letters /\ ~ k.ext =>
              Char(F, k.code) = IF "CTL" \in F THEN "control"
                                ELSE IF "SHIFT" \in F <=> "CAPSLOCK" \in F THEN "lower" ELSE "upper"
<1>1. k.code \in 1..127 /\ k.ext \in BOOLEAN /\ Letters \subseteq 1..127
  BY KeyboardAssumption
<1>2. Data(F, k.code) = Code(k)
  BY DEF Data, Code
<1>3. Code(k) \in Letters <=> k.code \in Letters /\ ~ k.ext
  BY <1>1 DEF Code
<1> DEFINE G == Make(F, k.code)
<1>4. /\ "SHIFT" \in G <=> "SHIFT" \in F \/ Code(k) \in SHIFT
      /\ "CTL" \in G <=> "CTL" \in F \/ Code(k) \in CTL
      /\ "CAPSLOCK" \in G <=> ~ ("CAPSLOCK" \in F <=> Code(k) = 58)
  BY <1>2, MakeFlags
<1> HIDE DEF G
<1>5. Char(F, k.code) = Caps(G, charcode(G, Code(k)))
  BY <1>2 DEF Char, G
<1>6. CASE Code(k) \notin Letters
  BY <1>3, <1>5, <1>6 DEF charcode, Caps, Chars
<1>7. CASE Code(k) \in Letters
  <2>1. /\ "SHIFT" \in G <=> "SHIFT" \in F
        /\ "CTL" \in G <=> "CTL" \in F
        /\ "CAPSLOCK" \in G <=> "CAPSLOCK" \in F
    BY <1>4, <1>7, KeyboardAssumption
  <2>2. charcode(G, Code(k)) = IF "CTL" \in F THEN "control" ELSE IF "SHIFT" \in F THEN "upper" ELSE "lower"
    BY <1>7, <2>1 DEF charcode
  <2>3. Char(F, k.code) = IF "CTL" \in F THEN "control"
                          ELSE IF "SHIFT" \in F <=> "CAPSLOCK" \in F THEN "lower" ELSE "upper"
    <3>1. CASE "CTL" \in F
      BY <1>5, <2>2, <3>1 DEF Caps
    <3>2. CASE "CTL" \notin F /\ "SHIFT" \in F
      BY <1>5, <2>1, <2>2, <3>2 DEF Caps
    <3>3. CASE "CTL" \notin F /\ "SHIFT" \notin F
      BY <1>5, <2>1, <2>2, <3>3 DEF Caps
    <3> QED BY <3>1, <3>2, <3>3
  <2> QED BY <1>3, <1>7, <2>3 DEF Chars
<1> QED BY <1>6, <1>7

\* ... and that is what the typist means.
LEMMA CharWanted ==
  ASSUME Types, NEW F, Agrees(F), OneKeyPerFlag, NEW k \in Keys, k.code \in Letters, ~ k.ext
  PROVE  Char(F, k.code) = Wanted
<1>1. /\ "SHIFT" \in F <=> Holds(SHIFT)
      /\ "CTL" \in F <=> Holds(CTL)
      /\ "CAPSLOCK" \in F <=> capsOn
      /\ "E0ESC" \notin F /\ capsOn \in BOOLEAN /\ Holds(SHIFT) \in BOOLEAN
  BY DEF Agrees, Types, Holds
<1>2. Char(F, k.code) = IF "CTL" \in F THEN "control"
                        ELSE IF "SHIFT" \in F <=> "CAPSLOCK" \in F THEN "lower" ELSE "upper"
  BY <1>1, CharOf
<1>3. Wanted = IF Holds(CTL) THEN "control" ELSE IF Holds(SHIFT) = capsOn THEN "lower" ELSE "upper"
  BY DEF Wanted
<1>4. (Holds(SHIFT) = capsOn) <=> ("SHIFT" \in F <=> "CAPSLOCK" \in F)
  BY <1>1
<1> QED BY <1>1, <1>2, <1>3, <1>4

-----------------------------------------------------------------------------
(***************************************************************************)
(* What comes onto the wire, and what is taken from it.                    *)
(***************************************************************************)
\* keyboard_isr takes the first byte.
LEMMA Taking ==
  ASSUME Types, WireInv, wire # <<>>
  PROVE  LET b == wire[1].byte
             id == wire[1].id
         IN  /\ Head(wire) = wire[1] /\ 1 \in 1..Len(wire) /\ b \in 1..255 /\ id \in Nat
             /\ \/ id = 0 /\ (b < 128 => Char(shift, b) = "NO")
                \/ b < 128 /\ Char(shift, b) # "NO" /\ Sound(id, Char(shift, b))
             /\ id # 0 => \A i \in 1..Len(wire) : wire[i].id = id \/ wire[i].id = 0 \/ id < wire[i].id
             /\ (wire' = Tail(wire) /\ shift' = After(shift, b) /\ UNCHANGED <<held, capsOn, meant>>) => WireInv'
<1>1. /\ Len(wire) \in Nat /\ Len(wire) > 0 /\ Head(wire) = wire[1] /\ wire[1] \in Byte
      /\ Tail(wire) \in Seq(Byte)
      /\ Len(Tail(wire)) = Len(wire) - 1
      /\ \A i \in 1..Len(Tail(wire)) : Tail(wire)[i] = wire[i + 1]
  <2>1. wire \in Seq(Byte)
    BY DEF Types
  <2>2. Len(wire) \in Nat /\ Len(wire) > 0 /\ Head(wire) = wire[1] /\ wire[1] \in Byte
    BY <2>1
  <2> QED BY <2>1, <2>2, HeadTailProperties
<1>2. PICK H : Course(H)
  BY DEF WireInv
<1>3. H[1] = shift /\ 1 \in 1..Len(wire)
  BY <1>1, <1>2 DEF Course
<1>4. \/ wire[1].id = 0 /\ (wire[1].byte < 128 => Char(shift, wire[1].byte) = "NO")
      \/ wire[1].byte < 128 /\ Char(shift, wire[1].byte) # "NO" /\ Sound(wire[1].id, Char(shift, wire[1].byte))
  BY <1>2, <1>3 DEF Course
<1>5. wire[1].id # 0 => \A i \in 1..Len(wire) : wire[i].id = wire[1].id \/ wire[i].id = 0 \/ wire[1].id < wire[i].id
  BY <1>1 DEF WireInv, Ascending
<1>6. ASSUME wire' = Tail(wire), shift' = After(shift, wire[1].byte), UNCHANGED <<held, capsOn, meant>>
      PROVE  WireInv'
  <2>1. PICK n \in Nat : n = Len(wire)
    BY <1>1
  <2>2. PICK G : G = [i \in 1..n |-> H[i + 1]]
    OBVIOUS
  <2>3. \A i \in 1..n : G[i] = H[i + 1]
    BY <2>2
  <2>4. Len(wire') = n - 1 /\ n > 0 /\ \A i \in 1..n - 1 : wire'[i] = wire[i + 1] /\ i \in 1..n /\ i + 1 \in 1..n
    BY <1>1, <1>6, <2>1
  <2>5. G[1] = shift'
    BY <1>2, <1>3, <1>6, <2>1, <2>3 DEF Course
  <2>6. \A i \in 1..Len(wire') : G[i + 1] = After(G[i], wire'[i].byte)
    BY <1>2, <2>1, <2>3, <2>4 DEF Course
  <2>7. Agrees(G[n])'
    <3>1. Agrees(H[n + 1]) /\ G[n] = H[n + 1]
      BY <1>2, <2>1, <2>3, <2>4 DEF Course
    <3> QED BY <1>6, <3>1 DEF Agrees, Holds
  <2>8. \A i \in 1..Len(wire') :
          \/ wire'[i].id = 0 /\ (wire'[i].byte < 128 => Char(G[i], wire'[i].byte) = "NO")
          \/ /\ wire'[i].byte < 128 /\ Char(G[i], wire'[i].byte) # "NO"
             /\ Sound(wire'[i].id, Char(G[i], wire'[i].byte))
    BY <1>2, <2>1, <2>3, <2>4 DEF Course
  <2>9. \A id, c : Sound(id, c)' <=> Sound(id, c)
    BY <1>6 DEF Sound
  <2>10. Course(G)'
    <3>1. Len(wire') + 1 = n
      BY <2>1, <2>4
    <3> QED BY <2>5, <2>6, <2>7, <2>8, <2>9, <3>1 DEF Course, Sound
  <2>11. Ascending'
    BY <2>1, <2>4 DEF WireInv, Ascending
  <2> QED BY <2>10, <2>11 DEF WireInv
<1>7. wire[1].byte \in 1..255 /\ wire[1].id \in Nat /\ 1 \in 1..Len(wire)
  BY <1>1 DEF Byte
<1>8. (wire' = Tail(wire) /\ shift' = After(shift, wire[1].byte) /\ UNCHANGED <<held, capsOn, meant>>) => WireInv'
  BY <1>6
<1> QED BY <1>1, <1>4, <1>5, <1>7, <1>8

\* The wire after a key has sent its byte, with a prefix or without.
LEMMA Appended ==
  ASSUME NEW T, NEW s \in Seq(T), NEW e \in T, NEW x \in T
  PROVE  /\ Len(s \o <<>> \o <<x>>) = Len(s) + 1 /\ Len(s \o <<e>> \o <<x>>) = Len(s) + 2
         /\ s \o <<>> \o <<x>> \in Seq(T) /\ s \o <<e>> \o <<x>> \in Seq(T)
         /\ \A i \in 1..Len(s) : (s \o <<>> \o <<x>>)[i] = s[i] /\ (s \o <<e>> \o <<x>>)[i] = s[i]
         /\ (s \o <<>> \o <<x>>)[Len(s) + 1] = x
         /\ (s \o <<e>> \o <<x>>)[Len(s) + 1] = e /\ (s \o <<e>> \o <<x>>)[Len(s) + 2] = x
<1>1. <<>> \in Seq(T) /\ <<e>> \in Seq(T) /\ <<x>> \in Seq(T)
  OBVIOUS
<1>2. s \o <<>> = s
  BY <1>1
<1>3. /\ s \o <<e>> \in Seq(T) /\ Len(s \o <<e>>) = Len(s) + 1
      /\ \A i \in 1..Len(s) : (s \o <<e>>)[i] = s[i]
      /\ (s \o <<e>>)[Len(s) + 1] = e
  BY <1>1
<1>4. ASSUME NEW t \in Seq(T)
      PROVE  /\ t \o <<x>> \in Seq(T) /\ Len(t \o <<x>>) = Len(t) + 1
             /\ \A i \in 1..Len(t) : (t \o <<x>>)[i] = t[i]
             /\ (t \o <<x>>)[Len(t) + 1] = x
  BY <1>1
<1>5. Len(s) \in Nat
  OBVIOUS
<1> QED BY <1>2, <1>3, <1>4, <1>5

\* A byte that is sent continues the course, if the flags after it agree with
\* the keys that are then held.
With(F, k) == IF k.ext THEN F \cup {"E0ESC"} ELSE F

Send(k, b, id) ==
  /\ wire' = wire \o Prefix(k) \o <<[byte |-> b, id |-> id]>>
  /\ shift' = shift

Continues(k, b, id) ==
  \A F : Agrees(F) =>
    /\ Agrees(After(With(F, k), b))'
    /\ \/ id = 0 /\ (b < 128 => Char(With(F, k), b) = "NO")
       \/ b < 128 /\ Char(With(F, k), b) # "NO" /\ Sound(id, Char(With(F, k), b))'

StaySound == \A id, c : Sound(id, c) => Sound(id, c)'

Later(id) == id # 0 => \A i \in 1..Len(wire) : wire[i].id < id

LEMMA Sending ==
  ASSUME Types, WireInv, NEW k \in Keys, NEW b \in {k.code, k.code + 128}, NEW id \in Nat,
         Send(k, b, id), Continues(k, b, id), StaySound, Later(id)
  PROVE  /\ WireInv' /\ wire' \in Seq(Byte)
         /\ \A i \in 1..Len(wire') : \/ i \in 1..Len(wire) /\ wire'[i] = wire[i]
                                     \/ wire'[i].id \in {0, id}
<1> DEFINE e == [byte |-> E0, id |-> 0]
           x == [byte |-> b, id |-> id]
<1>0. k.code \in 1..127 /\ k.ext \in BOOLEAN /\ k.code # 96
  BY KeyboardAssumption
<1>1. e \in Byte /\ x \in Byte /\ wire \in Seq(Byte) /\ b \in 1..255 /\ b # E0
  <2>1. b \in 1..255 /\ b # E0 /\ E0 \in 1..255
    BY <1>0 DEF E0
  <2>2. e \in Byte /\ x \in Byte
    BY <2>1 DEF Byte
  <2> QED BY <2>1, <2>2 DEF Types
<1>2. PICK H : Course(H)
  BY DEF WireInv
<1>3. PICK n \in Nat : n = Len(wire)
  BY DEF Types
<1>4. Agrees(H[n + 1])
  BY <1>2, <1>3 DEF Course
<1>5. CASE ~ k.ext
  <2>1. wire' = wire \o <<>> \o <<x>>
    BY <1>5 DEF Prefix, Send
  <2> HIDE DEF e, x
  <2>2. Len(wire') = n + 1 /\ wire' \in Seq(Byte) /\ (\A i \in 1..n : wire'[i] = wire[i]) /\ wire'[n + 1] = x
    BY <1>1, <1>3, <2>1, Appended
  <2>3. PICK G : G = [i \in 1..n + 2 |-> IF i = n + 2 THEN After(H[n + 1], b) ELSE H[i]]
    OBVIOUS
  <2>4. (\A i \in 1..n + 1 : G[i] = H[i]) /\ G[n + 2] = After(H[n + 1], b)
    BY <2>3
  <2>5. With(H[n + 1], k) = H[n + 1]
    BY <1>5 DEF With
  <2>6. wire'[n + 1].byte = b /\ wire'[n + 1].id = id
    BY <2>2 DEF x
  <2>7. Agrees(G[n + 2])'
    BY <1>4, <2>4, <2>5 DEF Continues
  <2>8. \A i \in 1..n + 1 : G[i + 1] = After(G[i], wire'[i].byte)
    <3>1. \A i \in 1..n : G[i + 1] = After(G[i], wire'[i].byte)
      BY <1>2, <1>3, <2>2, <2>4 DEF Course
    <3> QED BY <2>4, <2>6, <3>1
  <2>9. \A i \in 1..n + 1 :
          \/ wire'[i].id = 0 /\ (wire'[i].byte < 128 => Char(G[i], wire'[i].byte) = "NO")
          \/ /\ wire'[i].byte < 128 /\ Char(G[i], wire'[i].byte) # "NO"
             /\ Sound(wire[i].id, Char(G[i], wire[i].byte))'
    <3>1. ASSUME NEW i \in 1..n
          PROVE  \/ wire'[i].id = 0 /\ (wire'[i].byte < 128 => Char(G[i], wire'[i].byte) = "NO")
                 \/ /\ wire'[i].byte < 128 /\ Char(G[i], wire'[i].byte) # "NO"
                    /\ Sound(wire[i].id, Char(G[i], wire[i].byte))
      BY <1>2, <1>3, <2>2, <2>4 DEF Course
    <3>2. \A i \in 1..n : Sound(wire[i].id, Char(G[i], wire[i].byte)) => Sound(wire[i].id, Char(G[i], wire[i].byte))'
      BY <2>2 DEF StaySound, Sound
    <3>3. \/ id = 0 /\ (b < 128 => Char(G[n + 1], b) = "NO")
          \/ b < 128 /\ Char(G[n + 1], b) # "NO" /\ Sound(id, Char(G[n + 1], b))'
      BY <1>4, <2>4, <2>5 DEF Continues
    <3>4. Sound(wire[n + 1].id, Char(G[n + 1], wire[n + 1].byte))' <=> Sound(id, Char(G[n + 1], b))'
      BY <2>6 DEF Sound
    <3> QED BY <2>6, <3>1, <3>2, <3>3, <3>4
  <2>10. Course(G)'
    <3>1. Len(wire') + 1 = n + 2 /\ Len(wire') = n + 1
      BY <2>2
    <3>2. G[1] = shift'
      BY <1>2, <2>4 DEF Course, Send
    <3> QED BY <2>7, <2>8, <2>9, <3>1, <3>2 DEF Course
  <2>11. Ascending'
    <3>1. \A i, j \in 1..n : i < j /\ wire[i].id # 0 /\ wire[j].id # 0 => wire[i].id < wire[j].id
      BY <1>3 DEF WireInv, Ascending
    <3>2. id # 0 => \A i \in 1..n : wire[i].id < id
      BY <1>3 DEF Later
    <3>3. ASSUME NEW i \in 1..n + 1, NEW j \in 1..n + 1, i < j, wire'[i].id # 0, wire'[j].id # 0
          PROVE  wire'[i].id < wire'[j].id
      <4>1. i \in 1..n /\ (j \in 1..n \/ j = n + 1)
        BY <3>3
      <4> QED BY <2>2, <2>6, <3>1, <3>2, <3>3, <4>1
    <3> QED BY <2>2, <3>3 DEF Ascending
  <2> QED BY <1>3, <2>2, <2>6, <2>10, <2>11 DEF WireInv
<1>6. CASE k.ext
  <2>1. wire' = wire \o <<e>> \o <<x>>
    BY <1>6 DEF Prefix, Send
  <2> HIDE DEF e, x
  <2>2. /\ Len(wire') = n + 2 /\ wire' \in Seq(Byte) /\ (\A i \in 1..n : wire'[i] = wire[i])
        /\ wire'[n + 1] = e /\ wire'[n + 2] = x
    BY <1>1, <1>3, <2>1, Appended
  <2>3. PICK G : G = [i \in 1..n + 3 |-> IF i = n + 3 THEN After(H[n + 1] \cup {"E0ESC"}, b)
                                        ELSE IF i = n + 2 THEN H[n + 1] \cup {"E0ESC"} ELSE H[i]]
    OBVIOUS
  <2>4. /\ \A i \in 1..n + 1 : G[i] = H[i]
        /\ G[n + 2] = H[n + 1] \cup {"E0ESC"} /\ G[n + 3] = After(H[n + 1] \cup {"E0ESC"}, b)
    BY <2>3
  <2>5. With(H[n + 1], k) = H[n + 1] \cup {"E0ESC"}
    BY <1>6 DEF With
  <2>6. wire'[n + 2].byte = b /\ wire'[n + 2].id = id /\ wire'[n + 1].byte = E0 /\ wire'[n + 1].id = 0
    BY <2>2 DEF x, e
  <2>7. Agrees(G[n + 3])'
    BY <1>4, <2>4, <2>5 DEF Continues
  <2>8. \A i \in 1..n + 2 : G[i + 1] = After(G[i], wire'[i].byte)
    <3>1. \A i \in 1..n : G[i + 1] = After(G[i], wire'[i].byte)
      BY <1>2, <1>3, <2>2, <2>4 DEF Course
    <3>2. G[n + 2] = After(G[n + 1], wire'[n + 1].byte)
      BY <2>4, <2>6 DEF After
    <3>3. G[n + 3] = After(G[n + 2], wire'[n + 2].byte)
      BY <2>4, <2>6
    <3>4. \A i \in 1..n + 2 : i \in 1..n \/ i = n + 1 \/ i = n + 2
      OBVIOUS
    <3>5. n + 1 + 1 = n + 2 /\ n + 2 + 1 = n + 3
      OBVIOUS
    <3> QED BY <3>1, <3>2, <3>3, <3>4, <3>5
  <2>9. \A i \in 1..n + 2 :
          \/ wire'[i].id = 0 /\ (wire'[i].byte < 128 => Char(G[i], wire'[i].byte) = "NO")
          \/ /\ wire'[i].byte < 128 /\ Char(G[i], wire'[i].byte) # "NO"
             /\ Sound(wire[i].id, Char(G[i], wire[i].byte))'
    <3>1. ASSUME NEW i \in 1..n
          PROVE  \/ wire'[i].id = 0 /\ (wire'[i].byte < 128 => Char(G[i], wire'[i].byte) = "NO")
                 \/ /\ wire'[i].byte < 128 /\ Char(G[i], wire'[i].byte) # "NO"
                    /\ Sound(wire[i].id, Char(G[i], wire[i].byte))
      BY <1>2, <1>3, <2>2, <2>4 DEF Course
    <3>2. ~ (E0 < 128)
      BY DEF E0
    <3>3. \A i \in 1..n : Sound(wire[i].id, Char(G[i], wire[i].byte)) => Sound(wire[i].id, Char(G[i], wire[i].byte))'
      BY <2>2 DEF StaySound, Sound
    <3>4. \/ id = 0 /\ (b < 128 => Char(G[n + 2], b) = "NO")
          \/ b < 128 /\ Char(G[n + 2], b) # "NO" /\ Sound(id, Char(G[n + 2], b))'
      BY <1>4, <2>4, <2>5 DEF Continues
    <3>5. Sound(wire[n + 2].id, Char(G[n + 2], wire[n + 2].byte))' <=> Sound(id, Char(G[n + 2], b))'
      BY <2>6 DEF Sound
    <3>6. \A i \in 1..n + 2 : i \in 1..n \/ i = n + 1 \/ i = n + 2
      OBVIOUS
    <3> QED BY <2>6, <3>1, <3>2, <3>3, <3>4, <3>5, <3>6
  <2>10. Course(G)'
    <3>1. Len(wire') + 1 = n + 3
      BY <2>2
    <3>2. G[1] = shift' /\ Len(wire') = n + 2
      BY <1>2, <2>2, <2>4 DEF Course, Send
    <3> QED BY <2>7, <2>8, <2>9, <3>1, <3>2 DEF Course
  <2>11. Ascending'
    <3>1. \A i, j \in 1..n : i < j /\ wire[i].id # 0 /\ wire[j].id # 0 => wire[i].id < wire[j].id
      BY <1>3 DEF WireInv, Ascending
    <3>2. id # 0 => \A i \in 1..n : wire[i].id < id
      BY <1>3 DEF Later
    <3>3. ASSUME NEW i \in 1..n + 2, NEW j \in 1..n + 2, i < j, wire'[i].id # 0, wire'[j].id # 0
          PROVE  wire'[i].id < wire'[j].id
      <4>1. i \in 1..n /\ (j \in 1..n \/ j = n + 2)
        BY <2>6, <3>3
      <4> QED BY <2>2, <2>6, <3>1, <3>2, <3>3, <4>1
    <3> QED BY <2>2, <3>3 DEF Ascending
  <2> QED BY <1>3, <2>2, <2>6, <2>10, <2>11 DEF WireInv
<1> QED BY <1>0, <1>5, <1>6

\* The byte after a prefix is read as that of a key with a prefix.
LEMMA WithPrefix ==
  ASSUME NEW F, NEW k \in Keys, "E0ESC" \notin F
  PROVE  /\ "E0ESC" \in With(F, k) <=> k.ext
         /\ "SHIFT" \in With(F, k) <=> "SHIFT" \in F
         /\ "CTL" \in With(F, k) <=> "CTL" \in F
         /\ "CAPSLOCK" \in With(F, k) <=> "CAPSLOCK" \in F
         /\ Data(With(F, k), k.code) = Code(k)
         /\ k.code \in 1..127 /\ k.ext \in BOOLEAN /\ k.code # 96
         /\ Code(k) = 58 <=> k.code = 58
<1>1. k.code \in 1..127 /\ k.ext \in BOOLEAN /\ k.code # 96 /\ (k.code = 58 => ~ k.ext)
  BY KeyboardAssumption
<1>2. CASE k.ext
  BY <1>1, <1>2 DEF With, Data, Code
<1>3. CASE ~ k.ext
  BY <1>1, <1>3 DEF With, Data, Code
<1> QED BY <1>1, <1>2, <1>3

\* A key goes down or repeats.
LEMMA Pressing ==
  ASSUME Types, WireInv, NEW k \in Keys, Press(k)
  PROVE  /\ WireInv' /\ wire' \in Seq(Byte) /\ meant' \in Seq(Chars)
         /\ \/ UNCHANGED meant
            \/ Len(meant') = Len(meant) + 1
         /\ StaySound
         /\ \A i \in 1..Len(wire') : \/ i \in 1..Len(wire) /\ wire'[i] = wire[i]
                                     \/ wire'[i].id = 0
                                     \/ wire'[i].id > Len(meant)
<1> DEFINE letter == k.code \in Letters /\ ~ k.ext
<1>0. PICK id : id = IF letter THEN Len(meant) + 1 ELSE 0
  OBVIOUS
<1>1. /\ Send(k, k.code, id) /\ held' = held \cup {k}
      /\ capsOn' = IF k.code = 58 THEN ~capsOn ELSE capsOn
      /\ meant' = IF letter THEN Append(meant, Wanted) ELSE meant
  BY <1>0 DEF Press, Send
<1>2. Len(meant) \in Nat /\ id \in Nat /\ meant \in Seq(Chars) /\ capsOn \in BOOLEAN
  BY <1>0 DEF Types
<1>3. Wanted \in Chars
  BY DEF Wanted, Chars
<1>4. letter => /\ Len(meant') = Len(meant) + 1 /\ meant'[id] = Wanted
                /\ \A i \in 1..Len(meant) : meant'[i] = meant[i]
                /\ meant' \in Seq(Chars)
  BY <1>0, <1>1, <1>2, <1>3
<1>5. StaySound
  <2>1. CASE letter
    BY <1>2, <1>4, <2>1 DEF StaySound, Sound
  <2>2. CASE ~ letter
    BY <1>1, <2>2 DEF StaySound, Sound
  <2> QED BY <2>1, <2>2
<1>6. Later(id)
  <2>1. PICK H : Course(H)
    BY DEF WireInv
  <2>2. \A i \in 1..Len(wire) : wire[i].id \in 0..Len(meant)
    BY <1>2, <2>1 DEF Course, Sound
  <2> QED BY <1>0, <1>2, <2>2 DEF Later
<1>7. ASSUME NEW F, Agrees(F) PROVE Agrees(After(With(F, k), k.code))'
  <2>1. "E0ESC" \notin F
    BY <1>7 DEF Agrees
  <2>2. /\ Data(With(F, k), k.code) = Code(k) /\ k.code \in 1..127 /\ (Code(k) = 58 <=> k.code = 58)
        /\ "SHIFT" \in With(F, k) <=> "SHIFT" \in F
        /\ "CTL" \in With(F, k) <=> "CTL" \in F
        /\ "CAPSLOCK" \in With(F, k) <=> "CAPSLOCK" \in F
    BY <2>1, WithPrefix
  <2>3. After(With(F, k), k.code) = Make(With(F, k), k.code)
    BY <2>2 DEF After, E0
  <2>4. PICK G : G = Make(With(F, k), k.code)
    OBVIOUS
  <2>5. /\ "E0ESC" \notin G
        /\ "SHIFT" \in G <=> "SHIFT" \in F \/ Code(k) \in SHIFT
        /\ "CTL" \in G <=> "CTL" \in F \/ Code(k) \in CTL
        /\ "CAPSLOCK" \in G <=> ~ ("CAPSLOCK" \in F <=> k.code = 58)
    BY <2>2, <2>4, MakeFlags
  <2>6. \A codes : Holds(codes)' <=> Holds(codes) \/ Code(k) \in codes
    BY <1>1 DEF Holds, Code
  <2>7. capsOn' <=> ~ (capsOn <=> k.code = 58)
    BY <1>1, <1>2
  <2>8. Agrees(G)'
    BY <1>7, <2>5, <2>6, <2>7 DEF Agrees
  <2> QED BY <2>3, <2>4, <2>8
<1>8. ASSUME NEW F, Agrees(F)
      PROVE  \/ id = 0 /\ (k.code < 128 => Char(With(F, k), k.code) = "NO")
             \/ k.code < 128 /\ Char(With(F, k), k.code) # "NO" /\ Sound(id, Char(With(F, k), k.code))'
  <2>1. "E0ESC" \notin F
    BY <1>8 DEF Agrees
  <2>2. k.code < 128 /\ ("E0ESC" \in With(F, k) <=> k.ext)
    BY <2>1, WithPrefix
  <2>3. Char(With(F, k), k.code) # "NO" <=> letter
    BY <2>2, CharOf
  <2>4. ASSUME letter PROVE Sound(id, Char(With(F, k), k.code))'
    <3>1. With(F, k) = F
      BY <2>4 DEF With
    <3>2. OneKeyPerFlag => Char(F, k.code) = Wanted
      BY <1>8, <2>4, CharWanted
    <3>3. id \in 1..Len(meant') /\ meant'[id] = Wanted
      BY <1>0, <1>2, <1>4, <2>4
    <3> QED BY <3>1, <3>2, <3>3 DEF Sound
  <2> QED BY <1>0, <2>2, <2>3, <2>4
<1>9. Continues(k, k.code, id)
  BY <1>7, <1>8 DEF Continues
<1>10. /\ WireInv' /\ wire' \in Seq(Byte)
       /\ \A i \in 1..Len(wire') : (i \in 1..Len(wire) /\ wire'[i] = wire[i]) \/ wire'[i].id \in {0, id}
  BY <1>1, <1>2, <1>5, <1>6, <1>9, Sending
<1>11. id = 0 \/ id > Len(meant)
  BY <1>0, <1>2
<1>12. meant' \in Seq(Chars) /\ (UNCHANGED meant \/ Len(meant') = Len(meant) + 1)
  BY <1>1, <1>2, <1>4
<1> QED BY <1>5, <1>10, <1>11, <1>12

\* A key is released.
LEMMA Releasing ==
  ASSUME Types, WireInv, NEW k \in Keys, Release(k)
  PROVE  /\ WireInv' /\ wire' \in Seq(Byte)
         /\ \A i \in 1..Len(wire') : \/ i \in 1..Len(wire) /\ wire'[i] = wire[i]
                                     \/ wire'[i].id = 0
<1>1. /\ Send(k, k.code + 128, 0) /\ held' = held \ {k} /\ UNCHANGED <<capsOn, meant>>
      /\ held \subseteq Keys /\ k \in held
  BY DEF Release, Send, Types
<1>2. StaySound /\ Later(0)
  BY <1>1 DEF StaySound, Later, Sound
<1>3. ASSUME NEW F, Agrees(F) PROVE Agrees(After(With(F, k), k.code + 128))'
  <2>1. "E0ESC" \notin F
    BY <1>3 DEF Agrees
  <2>2. /\ k.code \in 1..127 /\ k.code # 96 /\ ("E0ESC" \in With(F, k) <=> k.ext)
        /\ "SHIFT" \in With(F, k) <=> "SHIFT" \in F
        /\ "CTL" \in With(F, k) <=> "CTL" \in F
        /\ "CAPSLOCK" \in With(F, k) <=> "CAPSLOCK" \in F
    BY <2>1, WithPrefix
  <2>3. After(With(F, k), k.code + 128) = Break(With(F, k), k.code + 128)
    BY <2>2 DEF After, E0
  <2>4. PICK G : G = Break(With(F, k), k.code + 128)
    OBVIOUS
  <2>5. /\ "E0ESC" \notin G
        /\ "SHIFT" \in G <=> "SHIFT" \in F /\ Code(k) \notin SHIFT
        /\ "CTL" \in G <=> "CTL" \in F /\ Code(k) \notin CTL
        /\ "CAPSLOCK" \in G <=> "CAPSLOCK" \in F
    BY <2>2, <2>4, BreakFlags
  <2>6. ASSUME OneKeyPerFlag, NEW codes \in {SHIFT, CTL}
        PROVE  Holds(codes)' <=> Holds(codes) /\ Code(k) \notin codes
    <3>1. Holds(codes)' <=> \E l \in held \ {k} : Code(l) \in codes
      BY <1>1 DEF Holds, Code
    <3>2. Holds(codes) <=> \E l \in held : Code(l) \in codes
      BY DEF Holds, Code
    <3> QED BY <1>1, <2>6, <3>1, <3>2 DEF OneKeyPerFlag
  <2>7. Agrees(G)'
    BY <1>1, <1>3, <2>5, <2>6 DEF Agrees
  <2> QED BY <2>3, <2>4, <2>7
<1>4. k.code + 128 \in Nat /\ ~ (k.code + 128 < 128)
  BY KeyboardAssumption
<1>5. Continues(k, k.code + 128, 0)
  BY <1>3, <1>4 DEF Continues
<1> QED BY <1>1, <1>2, <1>5, Sending

-----------------------------------------------------------------------------
(***************************************************************************)
(* The steps.                                                              *)
(***************************************************************************)
\* The cursors go round.
LEMMA Around ==
  ASSUME NEW R \in Nat \ {0}, NEW c \in 0..R
  PROVE  c % R = IF c = R THEN 0 ELSE c
<1>1. CASE c = R
  BY <1>1
<1>2. CASE c # R
  BY <1>2
<1> QED BY <1>1, <1>2

\* Steps that leave the ring alone.
LEMMA RingSame ==
  ASSUME UNCHANGED <<fifo, cursorIn, cursorOut, reader, ahead>>
  PROVE  /\ (RingInv => RingInv') /\ Waiting' = Waiting /\ Engaged' = Engaged
<1>1. Waiting' = Waiting /\ Engaged' = Engaged
  BY DEF Waiting, Engaged
<1>2. \A i : Behind(i)' = Behind(i)
  BY DEF Behind, Base
<1>3. \A f : InStep(f) => InStep(f)'
  BY <1>1, <1>2 DEF InStep
<1>4. Alone => Alone'
  BY <1>1 DEF Alone
<1> QED BY <1>1, <1>3, <1>4 DEF RingInv

\* Steps that leave the wire alone.
LEMMA WireSame ==
  ASSUME WireInv, UNCHANGED <<wire, held, capsOn, meant, shift>>
  PROVE  WireInv'
<1>1. PICK H : Course(H)
  BY DEF WireInv
<1>2. Agrees(H[Len(wire) + 1])'
  <2>1. \A codes : Holds(codes)' <=> Holds(codes)
    BY DEF Holds
  <2>2. Agrees(H[Len(wire) + 1])
    BY <1>1 DEF Course
  <2> QED BY <2>1, <2>2 DEF Agrees
<1>3. Course(H)'
  BY <1>1, <1>2 DEF Course, Sound
<1> QED BY <1>3 DEF WireInv, Ascending

\* The typist.
LEMMA TypeStep ==
  ASSUME KeyInv, Type
  PROVE  KeyInv'
<1>1. PICK k \in Keys : Press(k) \/ Release(k)
  BY DEF Type
<1>2. UNCHANGED <<ahead, last, fifo, cursorIn, cursorOut, reader>>
  BY <1>1 DEF Type, Press, Release
<1>3. Types /\ WireInv /\ RingInv /\ OrderInv
  BY DEF KeyInv
<1>4. /\ WireInv' /\ wire' \in Seq(Byte) /\ meant' \in Seq(Chars) /\ StaySound
      /\ UNCHANGED meant \/ Len(meant') = Len(meant) + 1
      /\ \A i \in 1..Len(wire') : \/ i \in 1..Len(wire) /\ wire'[i] = wire[i]
                                  \/ wire'[i].id = 0
                                  \/ wire'[i].id > Len(meant)
  <2>1. CASE Press(k)
    BY <1>3, <2>1, Pressing
  <2>2. CASE Release(k)
    <3>1. UNCHANGED meant
      BY <2>2 DEF Release
    <3> QED BY <1>3, <2>2, <3>1, Releasing DEF Types, StaySound, Sound
  <2> QED BY <1>1, <2>1, <2>2
<1>5. held' \subseteq Keys /\ capsOn' \in BOOLEAN
  BY <1>1, <1>3 DEF Press, Release, Types
<1>6. Types'
  BY <1>2, <1>3, <1>4, <1>5 DEF Types
<1>7. RingInv' /\ Waiting' = Waiting /\ Engaged' = Engaged
  BY <1>2, <1>3, RingSame
<1>8. Len(meant) \in Nat /\ Len(meant') \in Nat /\ Len(meant) <= Len(meant')
  BY <1>3, <1>4 DEF Types
<1>9. /\ \A i \in Slot : fifo[i] # NO => fifo[i].id \in 1..Len(meant)
      /\ \A i \in Slot : fifo[i] # NO => Sound(fifo[i].id, fifo[i].ch)'
  <2>1. \A i \in Slot : fifo[i] # NO => Sound(fifo[i].id, fifo[i].ch)
    BY <1>3 DEF OrderInv
  <2>2. \A i \in Slot : Sound(fifo[i].id, fifo[i].ch) => Sound(fifo[i].id, fifo[i].ch)'
    BY <1>2, <1>4 DEF StaySound, Sound
  <2> QED BY <2>1, <2>2 DEF Sound
<1>10. ASSUME NEW i \in 1..Len(wire'), wire'[i].id # 0
       PROVE  /\ last < wire'[i].id
              /\ Engaged => reader.key.id < wire'[i].id
              /\ \A j \in Slot : fifo[j] # NO => fifo[j].id < wire'[i].id
  <2>1. CASE i \in 1..Len(wire) /\ wire'[i] = wire[i]
    BY <1>3, <1>10, <2>1 DEF OrderInv
  <2>2. CASE wire'[i].id > Len(meant)
    <3>1. wire'[i].id \in Nat /\ last \in Nat
      <4>1. wire'[i] \in Byte
        BY <1>4
      <4> QED BY <1>3, <4>1 DEF Byte, Types
    <3>2. last <= Len(meant) /\ (Engaged => reader.key.id \in 1..Len(meant))
      BY <1>3 DEF OrderInv
    <3> QED BY <1>8, <1>9, <2>2, <3>1, <3>2
  <2> QED BY <1>4, <1>10, <2>1, <2>2
<1>11. last <= Len(meant') /\ (Engaged => reader.key.id \in 1..Len(meant'))
  BY <1>3, <1>8 DEF OrderInv, Types
<1>12. OrderInv'
  BY <1>2, <1>3, <1>7, <1>9, <1>10, <1>11 DEF OrderInv
<1> QED BY <1>4, <1>6, <1>7, <1>12 DEF KeyInv

\* keyboard_isr takes a prefix or the release of a key.
LEMMA IsrStep ==
  ASSUME KeyInv, IsrPrefix \/ IsrBreak, UNCHANGED <<ahead, last>>
  PROVE  KeyInv'
<1>1. Types /\ WireInv /\ RingInv /\ OrderInv
  BY DEF KeyInv
<1>2. /\ wire # <<>> /\ wire' = Tail(wire)
      /\ UNCHANGED <<held, capsOn, meant, cursorOut, reader, fifo, cursorIn>>
  BY DEF IsrPrefix, IsrBreak, TakeByte
<1>3. Head(wire) = wire[1] /\ wire[1].byte \in 1..255
  BY <1>1, <1>2, Taking
<1>4. shift' = After(shift, wire[1].byte)
  <2>1. CASE IsrPrefix
    BY <1>3, <2>1 DEF IsrPrefix, After
  <2>2. CASE IsrBreak
    <3>1. wire[1].byte \in 128..255 /\ wire[1].byte # E0 /\ ~ (wire[1].byte < 128)
      <4>1. wire[1].byte \in 128..255 /\ wire[1].byte # E0
        BY <1>3, <2>2 DEF IsrBreak
      <4> QED BY <4>1
    <3>2. shift' = Break(shift, wire[1].byte)
      BY <1>3, <2>2 DEF IsrBreak, Break, Released
    <3> QED BY <3>1, <3>2 DEF After
  <2> QED BY <2>1, <2>2
<1>5. WireInv'
  BY <1>1, <1>2, <1>4, Taking
<1>6. /\ wire' \in Seq(Byte) /\ Len(wire') = Len(wire) - 1 /\ Len(wire) \in Nat
      /\ \A i \in 1..Len(wire') : wire'[i] = wire[i + 1]
  BY <1>1, <1>2, HeadTailProperties DEF Types
<1>7. Types'
  BY <1>1, <1>2, <1>6 DEF Types
<1>8. RingInv' /\ Waiting' = Waiting /\ Engaged' = Engaged
  BY <1>1, <1>2, RingSame
<1>9. OrderInv'
  <2>1. \A id, c : Sound(id, c)' <=> Sound(id, c)
    BY <1>2 DEF Sound
  <2>2. \A i \in 1..Len(wire') : i + 1 \in 1..Len(wire)
    BY <1>6
  <2> QED BY <1>1, <1>2, <1>6, <1>8, <2>1, <2>2 DEF OrderInv, Sound
<1> QED BY <1>5, <1>7, <1>8, <1>9 DEF KeyInv

\* keyboard_isr takes the press of a key and fills a slot.
LEMMA MakeStep ==
  ASSUME KeyInv, Paced, IsrMake, UNCHANGED last, ahead' = IF Engaged THEN ahead + 1 ELSE ahead
  PROVE  KeyInv'
<1>1. Types /\ WireInv /\ RingInv /\ OrderInv /\ RingSize \in Nat \ {0}
  BY KeyboardAssumption DEF KeyInv
<1>2. /\ wire # <<>> /\ wire' = Tail(wire) /\ Head(wire).byte < 128
      /\ UNCHANGED <<held, capsOn, meant, cursorOut, reader>>
  BY DEF IsrMake, TakeByte
<1>3. PICK b \in 1..255, id \in Nat :
        /\ Head(wire) = wire[1] /\ wire[1].byte = b /\ wire[1].id = id /\ 1 \in 1..Len(wire) /\ b < 128
        /\ \/ id = 0 /\ Char(shift, b) = "NO"
           \/ Char(shift, b) # "NO" /\ Sound(id, Char(shift, b))
        /\ id # 0 => \A i \in 1..Len(wire) : wire[i].id = id \/ wire[i].id = 0 \/ id < wire[i].id
  BY <1>1, <1>2, Taking
<1>4. PICK key : key = IF Char(shift, b) = "NO" THEN NO ELSE [id |-> id, ch |-> Char(shift, b)]
  OBVIOUS
<1>5. /\ shift' = Make(shift, b) /\ fifo' = [fifo EXCEPT ![cursorIn] = key]
      /\ cursorIn' = (cursorIn + 1) % RingSize
  <2>1. shift' = Make(shift, b)
    BY <1>3 DEF IsrMake, Make, Data
  <2>2. Store(IF Char(shift, b) = "NO" THEN NO ELSE [id |-> id, ch |-> Char(shift, b)])
    <3>1. wire[1].byte = b /\ wire[1].id = id /\ Head(wire) = wire[1]
      BY <1>3
    <3>2. Store(IF Char(shift, Head(wire).byte) = "NO" THEN NO
                ELSE [id |-> Head(wire).id, ch |-> Char(shift, Head(wire).byte)])
      BY DEF IsrMake, Make, Data, Char
    <3> QED BY <3>1, <3>2
  <2> QED BY <1>4, <2>1, <2>2 DEF Store
<1>6. WireInv'
  <2>1. shift' = After(shift, b)
    BY <1>3, <1>5 DEF After, E0
  <2> QED BY <1>1, <1>2, <1>3, <2>1, Taking
<1>7. /\ wire' \in Seq(Byte) /\ Len(wire') = Len(wire) - 1 /\ Len(wire) \in Nat
      /\ \A i \in 1..Len(wire') : wire'[i] = wire[i + 1]
  BY <1>1, <1>2, HeadTailProperties DEF Types
<1>8. key \in Key /\ (key # NO => Sound(id, key.ch) /\ key.id = id /\ id # 0)
  <2>1. CASE Char(shift, b) = "NO"
    BY <1>4, <2>1 DEF NO, Key, Chars
  <2>2. CASE Char(shift, b) # "NO"
    <3>1. Char(shift, b) \in Chars
      BY <2>2 DEF Char, Caps, charcode, Chars
    <3> QED BY <1>3, <1>4, <2>2, <3>1 DEF Key, Sound
  <2> QED BY <2>1, <2>2
<1>9. cursorIn \in Slot /\ cursorIn' \in Slot /\ cursorIn' = IF cursorIn + 1 = RingSize THEN 0 ELSE cursorIn + 1
  <2>1. cursorIn \in 0..RingSize - 1
    BY <1>1 DEF Types, Slot
  <2>2. cursorIn + 1 \in 0..RingSize
    BY <1>1, <2>1
  <2>3. cursorIn' = IF cursorIn + 1 = RingSize THEN 0 ELSE cursorIn + 1
    BY <1>1, <1>5, <2>2, Around
  <2> QED BY <1>1, <2>1, <2>3 DEF Slot
<1>10. Types'
  <2>1. fifo' \in [Slot -> Key] /\ ahead' \in Nat
    BY <1>1, <1>5, <1>8 DEF Types
  <2> QED BY <1>1, <1>2, <1>7, <1>9, <2>1 DEF Types
<1>11. Engaged' = Engaged /\ \A i : Behind(i)' = Behind(i)
  BY <1>2 DEF Engaged, Behind, Base
<1>12. \A i \in Slot : fifo'[i] = IF i = cursorIn THEN key ELSE fifo[i]
  BY <1>1, <1>5 DEF Types
<1>13. Waiting' \subseteq Waiting \cup {cursorIn} /\ (cursorIn \in Waiting' => key # NO)
  BY <1>2, <1>9, <1>11, <1>12 DEF Waiting
<1>14. id # 0 => /\ last < id /\ (Engaged => reader.key.id < id)
                 /\ \A j \in Slot : fifo[j] # NO => fifo[j].id < id
  BY <1>1, <1>3 DEF OrderInv
<1>15. RingInv'
  <2>1. CASE Engaged
    <3>1. PICK f \in 0..RingSize : InStep(f) /\ (reader.at = "clear" => f < RingSize)
      BY <1>1, <2>1 DEF RingInv
    <3>2. /\ f <= ahead /\ ahead \in Nat /\ reader.at \in {"clear", "use"}
          /\ ahead < (IF reader.at = "use" THEN RingSize ELSE RingSize - 1)
      BY <1>1, <2>1, <3>1 DEF InStep, Paced, Types, Engaged
    <3>3. f < RingSize /\ f + 1 \in 0..RingSize /\ (reader.at = "clear" => f + 1 < RingSize)
      BY <1>1, <3>2
    <3>4. Behind(cursorIn) = f
      BY <3>1, <3>3 DEF InStep
    <3>5. Base \in Slot
      BY <1>1 DEF Base, Types, Slot
    <3>6. Behind(cursorIn') = IF f + 1 = RingSize THEN 0 ELSE f + 1
      BY <1>1, <1>9, <3>4, <3>5 DEF Behind, Slot
    <3>7. \A i \in Slot : Behind(i) \in 0..RingSize - 1 /\ (Behind(i) = f => i = cursorIn)
      BY <1>1, <1>9, <3>4, <3>5 DEF Behind, Slot
    <3>8. \A i \in Waiting' : i \in Slot /\ Behind(i) < f + 1 /\ (i # cursorIn => i \in Waiting /\ Behind(i) < f)
      <4>1. \A i \in Waiting : Behind(i) < f
        BY <3>1 DEF InStep
      <4>2. Waiting' \subseteq Slot
        BY DEF Waiting
      <4> QED BY <1>13, <3>3, <3>4, <3>7, <4>1, <4>2
    <3>9. ASSUME NEW i \in Waiting', NEW j \in Waiting', Behind(i) < Behind(j) PROVE fifo'[i].id < fifo'[j].id
      <4>1. CASE j = cursorIn
        <5>1. i # cursorIn /\ i \in Waiting /\ i \in Slot /\ key # NO
          BY <1>13, <3>4, <3>8, <3>9, <4>1
        <5>2. fifo[i] # NO
          BY <5>1 DEF Waiting
        <5> QED BY <1>8, <1>9, <1>12, <1>14, <4>1, <5>1, <5>2
      <4>2. CASE j # cursorIn /\ i = cursorIn
        <5>1. Behind(j) < f /\ j \in Slot
          BY <3>8, <4>2
        <5> QED BY <3>3, <3>4, <3>7, <3>9, <4>2, <5>1
      <4>3. CASE j # cursorIn /\ i # cursorIn
        BY <1>12, <3>1, <3>8, <3>9, <4>3 DEF InStep
      <4> QED BY <4>1, <4>2, <4>3
    <3>10. InStep(f + 1)'
      <4>1. f + 1 <= ahead'
        BY <2>1, <3>2
      <4>2. Behind(cursorIn)' = Behind(cursorIn')
        BY <1>2 DEF Behind, Base
      <4> QED BY <1>11, <3>3, <3>6, <3>8, <3>9, <4>1, <4>2 DEF InStep
    <3> QED BY <1>2, <1>11, <2>1, <3>3, <3>10 DEF RingInv
  <2>2. CASE ~ Engaged
    <3>1. Unread = {} /\ reader.key = NO
      BY <2>2 DEF Paced, Engaged
    <3>2. Waiting = {}
      BY <3>1 DEF Waiting, Unread
    <3>3. Alone'
      BY <1>9, <1>13, <3>2 DEF Alone
    <3> QED BY <1>11, <2>2, <3>3 DEF RingInv
  <2> QED BY <2>1, <2>2
<1>16. OrderInv'
  <2>1. \A j, c : Sound(j, c)' <=> Sound(j, c)
    BY <1>2 DEF Sound
  <2>2. \A i \in 1..Len(wire') : i + 1 \in 1..Len(wire)
    BY <1>7
  <2>3. \A i \in Slot : fifo'[i] # NO => Sound(fifo'[i].id, fifo'[i].ch)
    <3>1. \A i \in Slot : fifo[i] # NO => Sound(fifo[i].id, fifo[i].ch)
      BY <1>1 DEF OrderInv
    <3> QED BY <1>8, <1>12, <3>1
  <2>4. \A i \in Waiting' : last < fifo'[i].id /\ (Engaged => reader.key.id < fifo'[i].id)
    <3>1. \A i \in Waiting : i \in Slot /\ last < fifo[i].id /\ (Engaged => reader.key.id < fifo[i].id)
      BY <1>1 DEF OrderInv, Waiting
    <3> QED BY <1>8, <1>9, <1>12, <1>13, <1>14, <3>1
  <2>5. ASSUME NEW i \in 1..Len(wire'), wire'[i].id # 0
        PROVE  /\ last < wire'[i].id /\ (Engaged => reader.key.id < wire'[i].id)
               /\ \A j \in Slot : fifo'[j] # NO => fifo'[j].id < wire'[i].id
    <3>1. wire'[i] = wire[i + 1] /\ i + 1 \in 1..Len(wire) /\ 1 < i + 1
      BY <1>7, <2>2
    <3>2. /\ last < wire'[i].id /\ (Engaged => reader.key.id < wire'[i].id)
          /\ \A j \in Slot : fifo[j] # NO => fifo[j].id < wire'[i].id
      BY <1>1, <2>5, <3>1 DEF OrderInv
    <3>3. id # 0 => id < wire'[i].id
      BY <1>1, <1>3, <2>5, <3>1 DEF WireInv, Ascending
    <3> QED BY <1>8, <1>12, <3>2, <3>3
  <2>6. /\ last <= Len(meant) /\ (Engaged => reader.key.id \in 1..Len(meant))
        /\ Engaged /\ reader.at = "clear" => last < reader.key.id
    BY <1>1 DEF OrderInv
  <2>7. \A i \in Slot : fifo'[i] # NO => Sound(fifo[i].id, fifo[i].ch)'
    BY <1>2, <2>3 DEF Sound
  <2> QED BY <1>2, <1>11, <2>4, <2>5, <2>6, <2>7 DEF OrderInv
<1> QED BY <1>6, <1>10, <1>15, <1>16 DEF KeyInv

\* get_key reads a slot: the one that was next, which is then the last.
LEMMA PollStep ==
  ASSUME KeyInv, GetRead, UNCHANGED last, ahead' = IF ahead > 0 THEN ahead - 1 ELSE 0
  PROVE  KeyInv'
<1>1. Types /\ WireInv /\ RingInv /\ OrderInv /\ RingSize \in Nat \ {0}
  BY KeyboardAssumption DEF KeyInv
<1>2. /\ reader.at = "poll" /\ UNCHANGED <<wire, held, capsOn, meant, shift, fifo, cursorIn>>
      /\ reader' = [at |-> "clear", key |-> fifo[cursorOut % RingSize]]
      /\ cursorOut' = cursorOut % RingSize
  BY DEF GetRead
<1>3. cursorOut \in 0..RingSize /\ cursorIn \in Slot /\ ahead \in Nat /\ reader.key = NO /\ ~ Engaged
  BY <1>1, <1>2 DEF Types, Engaged
<1>4. PICK B : B = IF cursorOut = RingSize THEN 0 ELSE cursorOut
  OBVIOUS
<1>5. B \in Slot /\ cursorOut % RingSize = B
  <2>1. B \in 0..RingSize - 1
    BY <1>1, <1>3, <1>4
  <2>2. cursorOut % RingSize = B
    BY <1>1, <1>3, <1>4, Around
  <2> QED BY <2>1, <2>2 DEF Slot
<1>6. cursorOut' = B /\ reader'.at = "clear" /\ reader'.key = fifo[B] /\ Base = B
  BY <1>2, <1>4, <1>5 DEF Base
<1>7. fifo[B] \in Key /\ (Engaged' <=> fifo[B] # NO)
  BY <1>1, <1>5, <1>6 DEF Types, Engaged
<1>8. Base' = IF B + 1 = RingSize THEN 0 ELSE B + 1
  BY <1>6 DEF Base
<1>9. Waiting' = Waiting \ {B} /\ (B \in Waiting <=> fifo[B] # NO) /\ Waiting \subseteq Slot
  BY <1>2, <1>3, <1>5, <1>6, <1>7 DEF Waiting
<1>10. \A i \in Slot : /\ Behind(i) \in 0..RingSize - 1 /\ (Behind(i) = 0 <=> i = B)
                       /\ Behind(i)' = IF i = B THEN RingSize - 1 ELSE Behind(i) - 1
  <2>1. \A i \in Slot : Behind(i) = IF i >= B THEN i - B ELSE i - B + RingSize
    BY <1>6 DEF Behind
  <2>2. \A i \in Slot : Behind(i)' = IF i >= Base' THEN i - Base' ELSE i - Base' + RingSize
    BY DEF Behind
  <2>3. CASE B + 1 = RingSize
    BY <1>1, <1>5, <1>8, <2>1, <2>2, <2>3 DEF Slot
  <2>4. CASE B + 1 # RingSize
    BY <1>1, <1>5, <1>8, <2>1, <2>2, <2>4 DEF Slot
  <2> QED BY <2>3, <2>4
<1>11. Behind(cursorIn)' = IF cursorIn = B THEN RingSize - 1 ELSE Behind(cursorIn) - 1
  <2>1. PICK c \in Slot : c = cursorIn
    BY <1>3
  <2>2. Behind(cursorIn)' = Behind(c)'
    BY <1>2, <2>1 DEF Behind, Base
  <2> QED BY <1>10, <2>1, <2>2
<1>12. ASSUME \E f \in 0..RingSize : InStep(f)
       PROVE  RingInv' /\ (fifo[B] # NO => \A i \in Waiting' : fifo[B].id < fifo[i].id)
  <2>1. PICK f \in 0..RingSize : InStep(f)
    BY <1>12
  <2>2. /\ f <= ahead /\ Behind(cursorIn) = IF f = RingSize THEN 0 ELSE f
        /\ \A i \in Waiting : Behind(i) < f
        /\ \A i, j \in Waiting : Behind(i) < Behind(j) => fifo[i].id < fifo[j].id
    BY <2>1 DEF InStep
  <2>3. fifo[B] # NO => \A i \in Waiting' : fifo[B].id < fifo[i].id
    BY <1>5, <1>9, <1>10, <2>2
  <2>4. CASE f = 0
    <3>1. Waiting = {}
      BY <1>9, <1>10, <2>2, <2>4
    <3>2. ~ Engaged' /\ Alone'
      BY <1>7, <1>9, <3>1 DEF Alone
    <3> QED BY <2>3, <3>2 DEF RingInv
  <2>5. CASE f # 0
    <3>1. f - 1 \in 0..RingSize /\ f - 1 < RingSize /\ f - 1 <= ahead'
      BY <1>1, <1>3, <2>2, <2>5
    <3>2. Behind(cursorIn)' = f - 1
      BY <1>1, <1>3, <1>10, <1>11, <2>2, <2>5
    <3>3. \A i \in Waiting' : Behind(i)' < f - 1 /\ Behind(i)' = Behind(i) - 1 /\ i \in Waiting
      BY <1>9, <1>10, <2>2
    <3>4. \A i, j \in Waiting' : Behind(i)' < Behind(j)' => fifo'[i].id < fifo'[j].id
      BY <1>2, <1>9, <1>10, <2>2, <3>3
    <3>5. InStep(f - 1)'
      BY <3>1, <3>2, <3>3, <3>4 DEF InStep
    <3> QED BY <2>3, <3>1, <3>5 DEF RingInv
  <2> QED BY <1>1, <2>4, <2>5
<1>13. ASSUME Alone
       PROVE  RingInv' /\ (fifo[B] # NO => \A i \in Waiting' : fifo[B].id < fifo[i].id)
  <2>1. CASE fifo[B] # NO
    <3>1. cursorIn = IF B + 1 = RingSize THEN 0 ELSE B + 1
      BY <1>9, <1>13, <2>1 DEF Alone
    <3>2. Waiting' = {}
      BY <1>1, <1>5, <1>9, <1>13, <3>1 DEF Alone, Slot
    <3>3. Behind(cursorIn)' = 0
      BY <1>1, <1>2, <1>5, <1>8, <3>1 DEF Behind, Slot
    <3>4. 0 \in 0..RingSize /\ 0 < RingSize /\ 0 <= ahead' /\ 0 # RingSize
      BY <1>1, <1>3
    <3>5. InStep(0)'
      BY <3>2, <3>3, <3>4 DEF InStep
    <3> QED BY <3>2, <3>4, <3>5 DEF RingInv
  <2>2. CASE fifo[B] = NO
    <3>1. Alone'
      BY <1>2, <1>9, <1>13 DEF Alone
    <3> QED BY <1>7, <2>2, <3>1 DEF RingInv
  <2> QED BY <2>1, <2>2
<1>14. RingInv' /\ (fifo[B] # NO => \A i \in Waiting' : fifo[B].id < fifo[i].id)
  <2>1. Alone \/ \E f \in 0..RingSize : InStep(f)
    BY <1>1, <1>3 DEF RingInv
  <2>2. CASE \E f \in 0..RingSize : InStep(f)
    BY <1>12, <2>2
  <2>3. CASE Alone
    BY <1>13, <2>3
  <2> QED BY <2>1, <2>2, <2>3
<1>15. Types'
  <2>1. reader' \in [at : {"poll", "clear", "use"}, key : Key] /\ ahead' \in Nat /\ cursorOut' \in 0..RingSize
    BY <1>1, <1>2, <1>3, <1>5, <1>7 DEF Slot
  <2> QED BY <1>1, <1>2, <1>5, <1>6, <2>1 DEF Types
<1>16. WireInv'
  BY <1>1, <1>2, WireSame
<1>17. OrderInv'
  <2>1. \A i \in Slot : fifo[i] # NO => Sound(fifo[i].id, fifo[i].ch) /\ Sound(fifo[i].id, fifo[i].ch)'
    BY <1>1, <1>2 DEF OrderInv, Sound
  <2>2. last <= Len(meant) /\ \A i \in Waiting : last < fifo[i].id
    BY <1>1 DEF OrderInv
  <2>3. \A i \in 1..Len(wire) : wire[i].id # 0 =>
          last < wire[i].id /\ \A j \in Slot : fifo[j] # NO => fifo[j].id < wire[i].id
    BY <1>1 DEF OrderInv
  <2>4. Engaged' => /\ last < reader'.key.id /\ reader'.key.id \in 1..Len(meant)
                    /\ \A i \in Waiting' : reader'.key.id < fifo[i].id
                    /\ \A i \in 1..Len(wire) : wire[i].id # 0 => reader'.key.id < wire[i].id
    BY <1>5, <1>6, <1>7, <1>9, <1>14, <2>1, <2>2, <2>3 DEF Sound
  <2> QED BY <1>2, <1>9, <2>1, <2>2, <2>3, <2>4 DEF OrderInv
<1> QED BY <1>14, <1>15, <1>16, <1>17 DEF KeyInv

\* get_key clears the slot it has read, and the next slot stays the next.
LEMMA ClearStep ==
  ASSUME KeyInv, GetClear, UNCHANGED ahead, last' = IF reader.key = NO THEN last ELSE reader.key.id
  PROVE  KeyInv'
<1>1. Types /\ WireInv /\ RingInv /\ OrderInv /\ RingSize \in Nat \ {0}
  BY KeyboardAssumption DEF KeyInv
<1>2. /\ reader.at = "clear" /\ UNCHANGED <<wire, held, capsOn, meant, shift, cursorIn>>
      /\ fifo' = [fifo EXCEPT ![cursorOut] = NO] /\ cursorOut' = cursorOut + 1
      /\ reader' = [reader EXCEPT !.at = IF reader.key = NO THEN "poll" ELSE "use"]
  BY DEF GetClear
<1>3. /\ cursorOut \in Slot /\ cursorIn \in Slot /\ reader.key \in Key /\ fifo \in [Slot -> Key]
      /\ reader \in [at : {"poll", "clear", "use"}, key : Key]
  BY <1>1, <1>2 DEF Types
<1>4. /\ reader'.key = reader.key /\ reader'.at = (IF reader.key = NO THEN "poll" ELSE "use")
      /\ reader' \in [at : {"poll", "clear", "use"}, key : Key]
  BY <1>2, <1>3
<1>5. Engaged' = Engaged /\ reader'.at # "clear"
  BY <1>4 DEF Engaged
<1>6. \A i \in Slot : fifo'[i] = IF i = cursorOut THEN NO ELSE fifo[i]
  BY <1>2, <1>3
<1>7. Waiting' \subseteq Waiting /\ \A i \in Waiting' : fifo'[i] = fifo[i]
  BY <1>5, <1>6 DEF Waiting
<1>8. \A i : Behind(i)' = Behind(i)
  <2>1. Base' = Base
    BY <1>2, <1>5 DEF Base
  <2> QED BY <2>1 DEF Behind
<1>9. RingInv'
  <2>1. \A f : InStep(f) => InStep(f)'
    <3>1. Behind(cursorIn)' = Behind(cursorIn)
      BY <1>2, <1>8 DEF Behind
    <3> QED BY <1>7, <1>8, <3>1 DEF InStep
  <2>2. Alone => Alone'
    BY <1>2, <1>7 DEF Alone
  <2> QED BY <1>1, <1>5, <2>1, <2>2 DEF RingInv
<1>10. last' \in Nat /\ last' <= Len(meant)
  BY <1>1 DEF OrderInv, Types, Engaged
<1>11. Types'
  <2>1. fifo' \in [Slot -> Key]
    BY <1>2, <1>3 DEF NO, Key, Chars
  <2>2. cursorOut' \in 0..RingSize
    BY <1>1, <1>2, <1>3 DEF Slot
  <2>3. (reader'.at = "poll" => reader'.key = NO) /\ (reader'.at = "use" => reader'.key # NO)
    BY <1>4
  <2> QED BY <1>1, <1>2, <1>4, <1>5, <1>10, <2>1, <2>2, <2>3 DEF Types
<1>12. WireInv'
  BY <1>1, <1>2, WireSame
<1>13. OrderInv'
  <2>1. \A i \in Slot : fifo'[i] # NO => fifo'[i] = fifo[i] /\ fifo[i] # NO
    BY <1>6
  <2>2. \A i \in Slot : fifo'[i] # NO => Sound(fifo[i].id, fifo[i].ch)'
    BY <1>1, <1>2, <2>1 DEF OrderInv, Sound
  <2>3. \A i \in Waiting' : last' < fifo'[i].id /\ (Engaged => reader.key.id < fifo'[i].id)
    BY <1>1, <1>7 DEF OrderInv, Engaged
  <2>4. \A i \in 1..Len(wire) : wire[i].id # 0 =>
          /\ last' < wire[i].id /\ (Engaged => reader.key.id < wire[i].id)
          /\ \A j \in Slot : fifo'[j] # NO => fifo'[j].id < wire[i].id
    BY <1>1, <2>1 DEF OrderInv, Engaged
  <2>5. Engaged => reader.key.id \in 1..Len(meant)
    BY <1>1 DEF OrderInv
  <2> QED BY <1>2, <1>4, <1>5, <1>10, <2>2, <2>3, <2>4, <2>5 DEF OrderInv
<1> QED BY <1>9, <1>11, <1>12, <1>13 DEF KeyInv

\* The caller polls again.
LEMMA UseStep ==
  ASSUME KeyInv, Used, UNCHANGED <<ahead, last>>
  PROVE  KeyInv'
<1>1. Types /\ WireInv /\ RingInv /\ OrderInv
  BY DEF KeyInv
<1>2. /\ reader.at = "use" /\ UNCHANGED <<wire, held, capsOn, meant, shift, fifo, cursorIn, cursorOut>>
      /\ reader' = [at |-> "poll", key |-> NO]
  BY DEF Used
<1>3. reader'.at = "poll" /\ reader'.key = NO /\ ~ Engaged' /\ Engaged
  BY <1>1, <1>2 DEF Engaged, Types
<1>4. Waiting' = Waiting /\ \A i : Behind(i)' = Behind(i)
  BY <1>2, <1>3 DEF Waiting, Behind, Base
<1>5. RingInv'
  <2>1. \A f : InStep(f) => InStep(f)'
    <3>1. Behind(cursorIn)' = Behind(cursorIn)
      BY <1>2, <1>4 DEF Behind
    <3> QED BY <1>2, <1>4, <3>1 DEF InStep
  <2> QED BY <1>1, <1>3, <2>1 DEF RingInv
<1>6. Types'
  <2>1. reader' \in [at : {"poll", "clear", "use"}, key : Key]
    BY <1>2 DEF NO, Key, Chars
  <2> QED BY <1>1, <1>2, <1>3, <2>1 DEF Types
<1>7. WireInv'
  BY <1>1, <1>2, WireSame
<1>8. OrderInv'
  BY <1>1, <1>2, <1>3, <1>4 DEF OrderInv, Sound
<1> QED BY <1>5, <1>6, <1>7, <1>8 DEF KeyInv

\* Steps of the controllers, and steps of nobody.
LEMMA QuietStep ==
  ASSUME KeyInv, UNCHANGED <<wire, held, capsOn, meant, shift, fifo, cursorIn, cursorOut, reader, ahead, last>>
  PROVE  KeyInv'
<1>1. Types /\ WireInv /\ RingInv /\ OrderInv
  BY DEF KeyInv
<1>2. Types'
  BY <1>1 DEF Types
<1>3. WireInv'
  BY <1>1, WireSame
<1>4. RingInv' /\ Waiting' = Waiting /\ Engaged' = Engaged
  BY <1>1, RingSame
<1>5. OrderInv'
  BY <1>1, <1>4 DEF OrderInv, Sound
<1> QED BY <1>2, <1>3, <1>4, <1>5 DEF KeyInv

\* Nothing typed, nothing held, an empty ring.
LEMMA KeyInit ==
  ASSUME Init
  PROVE  KeyInv
<1>1. /\ wire = <<>> /\ held = {} /\ capsOn = FALSE /\ meant = <<>> /\ shift = {}
      /\ fifo = [i \in Slot |-> NO] /\ cursorIn = 0 /\ cursorOut = 1
      /\ reader = [at |-> "poll", key |-> NO] /\ ahead = 0 /\ last = 0 /\ RingSize \in Nat \ {0}
  BY KeyboardAssumption DEF Init, KeyboardInit
<1>2. NO \in Key /\ Len(wire) = 0 /\ Len(meant) = 0
  BY <1>1 DEF NO, Key, Chars
<1>3. Types
  <2>1. wire \in Seq(Byte) /\ meant \in Seq(Chars)
    BY <1>1
  <2>2. fifo \in [Slot -> Key] /\ reader \in [at : {"poll", "clear", "use"}, key : Key]
    BY <1>1, <1>2
  <2>3. cursorIn \in Slot /\ cursorOut \in 0..RingSize
    BY <1>1 DEF Slot
  <2> QED BY <1>1, <2>1, <2>2, <2>3 DEF Types
<1>4. WireInv
  <2>1. PICK H : H = [i \in {1} |-> {}]
    OBVIOUS
  <2>2. H[1] = {}
    BY <2>1
  <2>3. Agrees({})
    BY <1>1 DEF Agrees, Holds
  <2>4. Course(H)
    <3>1. Agrees(H[Len(wire) + 1]) /\ H[1] = shift
      <4>1. Len(wire) + 1 = 1
        BY <1>2
      <4> QED BY <1>1, <2>2, <2>3, <4>1
    <3>2. \A i \in 1..Len(wire) : FALSE
      BY <1>2
    <3> QED BY <3>1, <3>2 DEF Course
  <2> QED BY <1>2, <2>4 DEF WireInv, Ascending
<1>5. (\A i \in Slot : fifo[i] = NO) /\ Waiting = {} /\ ~ Engaged
  BY <1>1 DEF Waiting, Engaged
<1>6. RingInv
  BY <1>5 DEF RingInv, Alone
<1>7. OrderInv
  BY <1>1, <1>2, <1>5 DEF OrderInv
<1> QED BY <1>3, <1>4, <1>6, <1>7 DEF KeyInv

\* One step per action.
LEMMA KeyStep ==
  ASSUME KeyInv, [Next]_vars
  PROVE  KeyInv'
<1>1. CASE Type
  BY <1>1, TypeStep
<1>2. CASE \E l \in Devices \cup {Kbd} : Raise(l)
  BY <1>2, QuietStep DEF Raise, keyboardVars
<1>3. CASE \E l \in Devices : OtherIrq(l)
  BY <1>3, QuietStep DEF OtherIrq, keyboardVars
<1>4. CASE KeyIrq
  <2>1. CASE IsrStray /\ UNCHANGED <<ahead, last>>
    BY <2>1, QuietStep DEF IsrStray, keyboardVars
  <2>2. CASE (IsrPrefix \/ IsrBreak) /\ UNCHANGED <<ahead, last>>
    BY <2>2, IsrStep
  <2>3. CASE Paced /\ IsrMake /\ (ahead' = IF Engaged THEN ahead + 1 ELSE ahead) /\ UNCHANGED last
    BY <2>3, MakeStep
  <2> QED BY <1>4, <2>1, <2>2, <2>3 DEF KeyIrq
<1>5. CASE Poll
  BY <1>5, PollStep DEF Poll
<1>6. CASE Clear
  BY <1>6, ClearStep DEF Clear
<1>7. CASE Use
  BY <1>7, UseStep DEF Use
<1>8. CASE \E v \in Vectors : Command(v)
  BY <1>8, UseStep DEF Command
<1>9. CASE UNCHANGED vars
  BY <1>9, QuietStep DEF vars, keyboardVars
<1> QED BY <1>1, <1>2, <1>3, <1>4, <1>5, <1>6, <1>7, <1>8, <1>9 DEF Next

\* KeyInv holds throughout.
LEMMA KeyAlways == Spec => []KeyInv
<1>1. Init => KeyInv
  BY KeyInit
<1>2. KeyInv /\ [Next]_vars => KeyInv'
  BY KeyStep
<1> QED BY <1>1, <1>2, PTL DEF Spec

-----------------------------------------------------------------------------
(***************************************************************************)
(* The theorems.                                                           *)
(***************************************************************************)
\* keyboard_isr and get_key, interrupted anywhere, implement the queue of
\* strokes: each stroke is read at most once and in the order it was made,
\* for every ring, every set of keys and every typist within Paced.
THEOREM KeysInOrder == Spec => InOrder
<1>1. Init => KeepsOrder!Init
  BY DEF Init, KeyboardInit, KeepsOrder!Init
<1>2. KeyInv /\ [Next]_vars => [KeepsOrder!Next]_<<Len(meant), last>>
  <2> SUFFICES ASSUME KeyInv, [Next]_vars PROVE [KeepsOrder!Next]_<<Len(meant), last>>
    OBVIOUS
  <2>1. Types /\ WireInv /\ OrderInv /\ Len(meant) \in Nat /\ last \in Nat
    BY DEF KeyInv, Types
  <2>2. CASE Type
    <3>1. PICK k \in Keys : Press(k) \/ Release(k)
      BY <2>2 DEF Type
    <3>2. UNCHANGED meant \/ Len(meant') = Len(meant) + 1
      <4>1. CASE Press(k)
        BY <2>1, <4>1, Pressing
      <4>2. CASE Release(k)
        BY <4>2 DEF Release
      <4> QED BY <3>1, <4>1, <4>2
    <3>3. last' = last
      BY <2>2 DEF Type
    <3> QED BY <3>2, <3>3 DEF KeepsOrder!Next, KeepsOrder!Stroke
  <2>3. CASE Clear
    <3>1. UNCHANGED meant /\ reader.at = "clear" /\ last' = IF reader.key = NO THEN last ELSE reader.key.id
      BY <2>3 DEF Clear, GetClear
    <3>2. CASE Engaged
      <4>1. last' \in last + 1 .. Len(meant)
        BY <2>1, <3>1, <3>2 DEF OrderInv, Engaged
      <4> QED BY <3>1, <4>1 DEF KeepsOrder!Next, KeepsOrder!Read
    <3> QED BY <3>1, <3>2 DEF Engaged
  <2>4. CASE KeyIrq
    BY <2>4 DEF KeyIrq, IsrStray, IsrPrefix, IsrBreak, IsrMake, TakeByte, keyboardVars
  <2>5. CASE \/ \E l \in Devices \cup {Kbd} : Raise(l)
             \/ \E l \in Devices : OtherIrq(l)
    BY <2>5 DEF Raise, OtherIrq, keyboardVars
  <2>6. CASE Poll \/ Use \/ \E v \in Vectors : Command(v)
    BY <2>6 DEF Poll, Use, Command, GetRead, Used
  <2>7. CASE UNCHANGED vars
    BY <2>7 DEF vars, keyboardVars
  <2> QED BY <2>2, <2>3, <2>4, <2>5, <2>6, <2>7 DEF Next
<1> QED BY <1>1, <1>2, KeyAlways, PTL DEF Spec, InOrder, KeepsOrder!Spec

\* If no two keys share a flag of keymap.h (with two shift keys the release
\* of one ends the other's effect), a letter in the ring is the one the keys
\* held at its stroke call for, with any bytes held back, prefixes, repeats
\* and interrupts in between.
THEOREM LettersFaithful == OneKeyPerFlag => (Spec => []Faithful)
<1> SUFFICES ASSUME OneKeyPerFlag PROVE Spec => []Faithful
  OBVIOUS
<1>1. KeyInv => Faithful
  BY DEF KeyInv, OrderInv, Sound, Faithful
<1> QED BY <1>1, KeyAlways, PTL
=============================================================================
