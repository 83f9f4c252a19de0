------------------------------- MODULE MCRtc --------------------------------
(* Instances of Rtc for TLC. *)
EXTENDS Rtc

\* The last second of every month.
MonthEnds == {<<59, 59, 23, MonthDays(y, m), m, y>> :
                y \in {1970, 1999, 2000, 2024, 2036}, m \in 1..12}

\* The last second of every hour that neither is 12 o'clock nor comes before it.
HourEnds == {<<59, 59, h, 9, 10, 2024>> : h \in {k \in 0..23 : k % 12 \notin {0, 11}}}

\* A clock that counts hours to 12 is started away from 12 o'clock, which
\* read_rtc converts wrongly.
SomeStarts == ({{2}, {2, 4}} \X MonthEnds) \cup ({{}, {4}} \X HourEnds)
=============================================================================
