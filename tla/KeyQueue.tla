------------------------------ MODULE KeyQueue ------------------------------
(***************************************************************************)
(* What a reader of the keyboard may rely on: strokes are numbered as they *)
(* are made, each is read at most once and in that order, and one may be   *)
(* missed.                                                                 *)
(***************************************************************************)
EXTENDS Naturals

VARIABLES strokes, last

Init == strokes = 0 /\ last = 0

Stroke == strokes' = strokes + 1 /\ UNCHANGED last

Read == UNCHANGED strokes /\ last' \in last + 1 .. strokes

Next == Stroke \/ Read

Spec == Init /\ [][Next]_<<strokes, last>>
=============================================================================
