-------------------------------- MODULE Rtc ---------------------------------
(***************************************************************************)
(* rtc.c: read_rtc and get_timestamp against a clock that goes on while    *)
(* they read.  The clock updates its registers once a second, one after    *)
(* the other, with the update flag set from some time before the first     *)
(* changes until the last has changed.  The reader is a thread and may be  *)
(* held up anywhere.                                                       *)
(*                                                                         *)
(* A time is a tuple of second, minute, hour, day, month, year; the        *)
(* registers are those six, the year without its century, and the century. *)
(***************************************************************************)
EXTENDS Text

CONSTANTS
  Starts,      \* pairs of the bits set in register B ({}, {4}, {2} or {2, 4})
               \* and a time at which the clock may start
  MaxTicks     \* bound on the updates of the clock

ASSUME RtcAssumption ==
  /\ \A start \in Starts : start[1] \subseteq {2, 4} /\ start[2] \in [1..6 -> Nat]
  /\ MaxTicks \in Nat

VARIABLES
  mode,        \* register B (clock)
  now,         \* the time (clock)
  reg,         \* the seven registers (clock)
  uip,         \* the flag of register A (clock)
  left,        \* registers the update has not changed yet (clock)
  ticks,       \* updates so far (clock)
  pc,          \* where read_rtc is
  got,         \* time and century as read so far
  previous,    \* last_second to last_century
  called,      \* the time when read_rtc was called
  stamp        \* what get_timestamp returned

vars == <<mode, now, reg, uip, left, ticks, pc, got, previous, called, stamp>>

Reg == 1..7

-----------------------------------------------------------------------------
(* The clock. *)

Leap(y) == (y % 4 = 0 /\ y % 100 # 0) \/ y % 400 = 0
MonthDays(y, m) ==
  CASE m = 2 -> IF Leap(y) THEN 29 ELSE 28
    [] m \in {4, 6, 9, 11} -> 30
    [] OTHER -> 31

\* A second later: fields up to the first that does not overflow change.
Later(t) ==
  LET days == MonthDays(t[6], t[5])
      max == <<59, 59, 23, days, 12>>
      min == <<0, 0, 0, 1, 1>>
      stop == CHOOSE k \in 1..6 : /\ \A j \in 1..k - 1 : t[j] = max[j]
                                  /\ k < 6 => t[k] # max[k]
  IN  [k \in 1..6 |-> CASE k < stop -> min[k] [] k = stop -> t[k] + 1 [] OTHER -> t[k]]

ToBcd(v) == (v \div 10) * 16 + (v % 10)

\* 4: binary, 2: hours to 24.
Code(v) == IF 4 \in mode THEN v ELSE ToBcd(v)
HourCode(h) ==
  IF 2 \in mode THEN Code(h)
  ELSE Code(IF h % 12 = 0 THEN 12 ELSE h % 12) + (IF h >= 12 THEN 128 ELSE 0)

Registers(t) ==
  <<Code(t[1]), Code(t[2]), HourCode(t[3]), Code(t[4]), Code(t[5]),
    Code(t[6] % 100), Code(t[6] \div 100)>>

readerVars == <<pc, got, previous, called, stamp>>

BeginUpdate ==
  /\ ~uip
  /\ ticks < MaxTicks
  /\ uip' = TRUE
  /\ ticks' = ticks + 1
  /\ now' = Later(now)
  /\ left' = {k \in Reg : Registers(now)[k] # Registers(Later(now))[k]}
  /\ UNCHANGED <<mode, reg, readerVars>>

ChangeRegister ==
  /\ uip /\ left # {}
  /\ LET k == Min(left)
     IN  /\ reg' = [reg EXCEPT ![k] = Registers(now)[k]]
         /\ left' = left \ {k}
  /\ UNCHANGED <<mode, now, uip, ticks, readerVars>>

EndUpdate ==
  /\ uip /\ left = {}
  /\ uip' = FALSE
  /\ UNCHANGED <<mode, now, reg, left, ticks, readerVars>>

-----------------------------------------------------------------------------
(* read_rtc. *)

clockVars == <<mode, now, reg, uip, left, ticks>>

Call ==
  /\ pc = "idle"
  /\ pc' = "wait"
  /\ previous' = <<>>
  /\ called' = now
  /\ UNCHANGED <<clockVars, got, stamp>>

\* The loop around get_update_in_progress_flag, before either reading.
Wait ==
  /\ pc = "wait"
  /\ ~uip
  /\ pc' = "read"
  /\ got' = <<>>
  /\ UNCHANGED <<clockVars, previous, called, stamp>>

Read ==
  /\ pc = "read"
  /\ Len(got) < 7
  /\ got' = Append(got, reg[Len(got) + 1])
  /\ UNCHANGED <<clockVars, pc, previous, called, stamp>>

\* Conversion from BCD, and from hours to 12 with the PM bit.
FromBcd(v) == (v % 16) + (v \div 16) * 10
HourFromBcd(v) == (v % 16) + ((v % 128) \div 16) * 10 + (v \div 128) * 128
To24(h) == IF 2 \notin mode /\ h >= 128 THEN ((h % 128) + 12) % 24 ELSE h

TimeOf(r) ==
  LET b == IF 4 \in mode THEN r
           ELSE [k \in Reg |-> IF k = 3 THEN HourFromBcd(r[k]) ELSE FromBcd(r[k])]
  IN  <<b[1], b[2], To24(b[3]), b[4], b[5], b[6] + b[7] * 100>>

to_timestamp(t) ==
  LET early == t[5] <= 2
      month == IF early THEN t[5] + 10 ELSE t[5] - 2
      year == IF early THEN t[6] - 1 ELSE t[6]
      days == (year \div 4) - (year \div 100) + (year \div 400)
                + ((367 * month) \div 12) + t[4] + year * 365 - 719499
  IN  ((days * 24 + t[3]) * 60 + t[2]) * 60 + t[1]

\* Mutant: one reading is enough.
CompareOnce ==
  /\ pc = "read"
  /\ Len(got) = 7
  /\ pc' = "idle"
  /\ stamp' = to_timestamp(TimeOf(got))
  /\ UNCHANGED <<clockVars, got, previous, called>>

\* The second of two equal readings counts.
Compare ==
  /\ pc = "read"
  /\ Len(got) = 7
  /\ IF got = previous
     THEN /\ pc' = "idle"
          /\ stamp' = to_timestamp(TimeOf(got))
          /\ UNCHANGED previous
     ELSE /\ pc' = "wait"
          /\ previous' = got
          /\ UNCHANGED stamp
  /\ UNCHANGED <<clockVars, got, called>>

Reader == Call \/ Wait \/ Read \/ Compare

Init ==
  /\ \E start \in Starts : mode = start[1] /\ now = start[2]
  /\ reg = Registers(now)
  /\ uip = FALSE
  /\ left = {}
  /\ ticks = 0
  /\ pc = "idle"
  /\ got = <<>>
  /\ previous = <<>>
  /\ called = now
  /\ stamp = -1

Next == Reader \/ BeginUpdate \/ ChangeRegister \/ EndUpdate

Spec == Init /\ [][Next]_vars

-----------------------------------------------------------------------------
\* Seconds since 1970, year by year and month by month.
YearDays(y) == IF Leap(y) THEN 366 ELSE 365
Total(s) == FoldLeft(+, 0, s)
YearsBefore(y) == Total([n \in 1..y - 1970 |-> YearDays(1969 + n)])
MonthsBefore(y, m) == Total([n \in 1..m - 1 |-> MonthDays(y, n)])
Seconds(t) ==
  (((YearsBefore(t[6]) + MonthsBefore(t[6], t[5]) + t[4] - 1) * 24 + t[3]) * 60 + t[2]) * 60 + t[1]

\* A timestamp is a time between the call and the return, counted by the
\* calendar: neither an update between two register reads nor one between the
\* two readings yields a time that never was.
TimeWas ==
  stamp # -1 /\ pc = "idle" => stamp \in Seconds(called)..Seconds(now)

\* The command rtc prints each part of the time so that it reads back.
Printed ==
  pc = "idle" /\ got # <<>> =>
    \A k \in 1..6 : LET text == base10_string(TimeOf(got)[k])
                    IN  IsNumeral(text) /\ Value(10, text) = TimeOf(got)[k]
=============================================================================
