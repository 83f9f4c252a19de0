------------------------------ MODULE MCInput -------------------------------
(* Instances of Input for TLC. *)
EXTENDS Input

Letter == [code |-> 30, ext |-> FALSE]
RightCtl == [code |-> 29, ext |-> TRUE]

SomeKeys == {Letter, RightCtl}
=============================================================================
