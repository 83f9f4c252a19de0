-------------------------------- MODULE Text --------------------------------
(***************************************************************************)
(* text.c: numbers as digits, for numbers without a sign (printk passes    *)
(* none for %d, %x, %o and %b).                                            *)
(***************************************************************************)
EXTENDS Integers, Sequences, SequencesExt

\* The loop that all four functions share: the lowest digit first, then the
\* text is turned round.
Digits(base, number) ==
  LET digits[n \in Nat] ==
        IF n = 0 THEN <<>> ELSE Append(digits[n \div base], n % base)
  IN  digits[number]

\* Mutant: 0 has no digit, as in base8_string and base2_string.
base10_string_plain(number) == Digits(10, number)

base10_string(number) ==
  IF Digits(10, number) = <<>> THEN <<0>> ELSE Digits(10, number)

\* What a reader makes of digits.
Value(base, digits) ==
  LET Shift(v, d) == v * base + d IN FoldLeft(Shift, 0, digits)

IsNumeral(digits) == digits # <<>> /\ (digits[1] = 0 => Len(digits) = 1)
=============================================================================
