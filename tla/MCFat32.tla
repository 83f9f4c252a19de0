------------------------------ MODULE MCFat32 -------------------------------
(* Instances of Fat32 for TLC. *)
EXTENDS Fat32, TLC

Two == {<<"a">>, <<"b", "a">>}
\* The second text takes two clusters of two units.
Long == {<<"a">>, <<"b", "a", "c">>}
RootJunk == {0, Root}
Symmetry == Permutations(Name)
=============================================================================
