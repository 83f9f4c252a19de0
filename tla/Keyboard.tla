------------------------------ MODULE Keyboard ------------------------------
(***************************************************************************)
(* keyboard.c: keyboard_isr turns the bytes of the keyboard into           *)
(* characters and puts them into a ring; get_key takes one slot of it per  *)
(* call, whether there is a character in it or not, and may be interrupted *)
(* between its read of the slot and the store that clears it.              *)
(*                                                                         *)
(* Every character carries the number of the key stroke it comes from,     *)
(* which the code does not have and the properties need; meant[id] is the  *)
(* character the keys held at the time of that stroke call for.            *)
(***************************************************************************)
EXTENDS Integers, Sequences, FiniteSets

CONSTANTS
  RingSize,  \* KEY_BUF_SIZE
  Keys,      \* the keys that are pressed: records with fields code, ext
  Letters,   \* scan codes with a letter in keymap.h
  MaxKeys,   \* bound on key strokes that give a character
  MaxWire    \* bytes the keyboard can hold back

VARIABLES
  wire,       \* bytes on their way, with the number of their stroke (keyboard)
  held,       \* keys held down (typist)
  capsOn,     \* what the typist makes of CAPSLOCK
  meant,      \* the character of each stroke
  shift,      \* the static shift of keyboard_isr
  fifo, cursorIn, cursorOut,
  reader      \* get_key and its caller: where it is and the slot's content

keyboardVars == <<wire, held, capsOn, meant, shift, fifo, cursorIn, cursorOut, reader>>

NO == [id |-> 0, ch |-> "NO"]
Slot == 0..RingSize - 1
E0 == 224

SHIFT == {42, 54}
CTL == {29, 157}
ALT == {56, 184}

\* Scan codes have 7 bits; 96 (0x60) is no key's, as its release would read as
\* the prefix.  Letters shift nothing, and CAPSLOCK has no prefix.
ASSUME KeyboardAssumption ==
  /\ RingSize \in Nat \ {0}
  /\ Keys \subseteq [code : 1..127 \ {96}, ext : BOOLEAN]
  /\ \A k \in Keys : k.code = 58 => ~k.ext
  /\ Letters \subseteq 1..127 \ (SHIFT \cup CTL \cup ALT \cup {58, 69, 70})

\* Mutant: the table lacks the keys with a prefix.
shiftcodeLeft(data) ==
  {f \in {"SHIFT", "CTL", "ALT"} :
     data \in CASE f = "SHIFT" -> SHIFT [] f = "CTL" -> {29} [] OTHER -> {56}}

\* shiftcode and togglecode of keymap.h.
shiftcode(data) ==
  {f \in {"SHIFT", "CTL", "ALT"} :
     data \in CASE f = "SHIFT" -> SHIFT [] f = "CTL" -> CTL [] OTHER -> ALT}
togglecode(data) ==
  {f \in {"CAPSLOCK", "NUMLOCK", "SCROLLLOCK"} :
     data = CASE f = "CAPSLOCK" -> 58 [] f = "NUMLOCK" -> 69 [] OTHER -> 70}

Toggle(s, t) == (s \ t) \cup (t \ s)

\* normalmap, shiftmap and ctlmap: other keys than letters have no character.
charcode(flags, data) ==
  CASE data \notin Letters -> "NO"
    [] data \in Letters /\ "CTL" \in flags -> "control"
    [] data \in Letters /\ "CTL" \notin flags ->
         IF "SHIFT" \in flags THEN "upper" ELSE "lower"

Caps(flags, c) ==
  CASE "CAPSLOCK" \in flags /\ c = "lower" -> "upper"
    [] "CAPSLOCK" \in flags /\ c = "upper" -> "lower"
    [] OTHER -> c

KeyboardInit ==
  /\ wire = <<>>
  /\ held = {}
  /\ capsOn = FALSE
  /\ meant = <<>>
  /\ shift = {}
  /\ fifo = [i \in Slot |-> NO]
  /\ cursorIn = 0
  /\ cursorOut = 1
  /\ reader = [at |-> "poll", key |-> NO]

-----------------------------------------------------------------------------
(* The keyboard and the typist. *)

Prefix(k) == IF k.ext THEN <<[byte |-> E0, id |-> 0]>> ELSE <<>>
Holds(codes) == \E k \in held : (IF k.ext THEN k.code + 128 ELSE k.code) \in codes

\* What a letter pressed now should give.
Wanted ==
  CASE Holds(CTL) -> "control"
    [] ~Holds(CTL) -> IF Holds(SHIFT) = capsOn THEN "lower" ELSE "upper"

\* A key goes down, or repeats while it is held (CAPSLOCK does not).
Press(k) ==
  LET letter == k.code \in Letters /\ ~k.ext
      id == IF letter THEN Len(meant) + 1 ELSE 0
  IN  /\ Len(wire) + Len(Prefix(k)) < MaxWire
      /\ letter => Len(meant) < MaxKeys
      /\ k \in held => letter
      /\ held' = held \cup {k}
      /\ capsOn' = IF k.code = 58 THEN ~capsOn ELSE capsOn
      /\ meant' = IF letter THEN Append(meant, Wanted) ELSE meant
      /\ wire' = wire \o Prefix(k) \o <<[byte |-> k.code, id |-> id]>>
      /\ UNCHANGED <<shift, fifo, cursorIn, cursorOut, reader>>

Release(k) ==
  /\ k \in held
  /\ Len(wire) + Len(Prefix(k)) < MaxWire
  /\ held' = held \ {k}
  /\ wire' = wire \o Prefix(k) \o <<[byte |-> k.code + 128, id |-> 0]>>
  /\ UNCHANGED <<capsOn, meant, shift, fifo, cursorIn, cursorOut, reader>>

-----------------------------------------------------------------------------
(* keyboard_isr, by the kind of the byte. *)

\* Nothing in the controller's buffer: a stray interrupt.
IsrStray ==
  /\ wire = <<>>
  /\ UNCHANGED keyboardVars

TakeByte ==
  /\ wire # <<>>
  /\ wire' = Tail(wire)
  /\ UNCHANGED <<held, capsOn, meant, cursorOut, reader>>

IsrPrefix ==
  /\ wire # <<>> /\ Head(wire).byte = E0
  /\ TakeByte
  /\ shift' = shift \cup {"E0ESC"}
  /\ UNCHANGED <<fifo, cursorIn>>

Released(data) == IF "E0ESC" \in shift THEN data ELSE data % 128

IsrBreak ==
  /\ wire # <<>> /\ Head(wire).byte \in 128..255 \ {E0}
  /\ TakeByte
  /\ shift' = shift \ (shiftcode(Released(Head(wire).byte)) \cup {"E0ESC"})
  /\ UNCHANGED <<fifo, cursorIn>>

Store(key) ==
  /\ fifo' = [fifo EXCEPT ![cursorIn] = key]
  /\ cursorIn' = (cursorIn + 1) % RingSize

\* The character goes into the ring, also the NO of a key that has none.
IsrMake ==
  /\ wire # <<>> /\ Head(wire).byte < 128
  /\ TakeByte
  /\ LET ext == "E0ESC" \in shift
         data == IF ext THEN Head(wire).byte + 128 ELSE Head(wire).byte
         flags == Toggle((shift \ {"E0ESC"}) \cup shiftcode(data), togglecode(data))
         c == Caps(flags, charcode(flags, data))
     IN  /\ shift' = flags
         /\ Store(IF c = "NO" THEN NO ELSE [id |-> Head(wire).id, ch |-> c])

-----------------------------------------------------------------------------
(* get_key and its caller. *)

GetRead ==
  /\ reader.at = "poll"
  /\ reader' = [at |-> "clear", key |-> fifo[cursorOut % RingSize]]
  /\ cursorOut' = cursorOut % RingSize
  /\ UNCHANGED <<wire, held, capsOn, meant, shift, fifo, cursorIn>>

\* Mutant: the slot is not cleared.
GetClearNot ==
  /\ reader.at = "clear"
  /\ cursorOut' = cursorOut + 1
  /\ reader' = [reader EXCEPT !.at = IF reader.key = NO THEN "poll" ELSE "use"]
  /\ UNCHANGED <<wire, held, capsOn, meant, shift, fifo, cursorIn>>

\* Mutant: the cursor stays where it is.
GetClearStay ==
  /\ reader.at = "clear"
  /\ fifo' = [fifo EXCEPT ![cursorOut] = NO]
  /\ reader' = [reader EXCEPT !.at = IF reader.key = NO THEN "poll" ELSE "use"]
  /\ UNCHANGED <<wire, held, capsOn, meant, shift, cursorIn, cursorOut>>

\* With a character the caller goes on to use it, without one it calls again.
GetClear ==
  /\ reader.at = "clear"
  /\ fifo' = [fifo EXCEPT ![cursorOut] = NO]
  /\ cursorOut' = cursorOut + 1
  /\ reader' = [reader EXCEPT !.at = IF reader.key = NO THEN "poll" ELSE "use"]
  /\ UNCHANGED <<wire, held, capsOn, meant, shift, cursorIn>>

\* The caller is done with the character and polls again.
Used ==
  /\ reader.at = "use"
  /\ reader' = [at |-> "poll", key |-> NO]
  /\ UNCHANGED <<wire, held, capsOn, meant, shift, fifo, cursorIn, cursorOut>>
=============================================================================
