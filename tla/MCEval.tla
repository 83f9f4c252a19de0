------------------------------- MODULE MCEval -------------------------------
(* Instances of Eval for TLC. *)
EXTENDS Eval

SomeChars == {"c", SPACE, QUOTE, ESC}

SomeOutputs == {<<TAB, "c">>, <<"c", BS, BS>>, <<"c", CR>>, <<BACK, BACK, BACK>>}
=============================================================================
