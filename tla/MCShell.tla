------------------------------ MODULE MCShell -------------------------------
(* Instances of Shell for TLC. *)
EXTENDS Shell, TLC

\* Two directories, one in the other, and a file without a cluster.
SomeImage == <<"s">> :> "dir" @@ <<"s", "t">> :> "dir" @@ <<"t">> :> "empty"
=============================================================================
