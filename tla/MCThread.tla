------------------------------ MODULE MCThread ------------------------------
(***************************************************************************)
(* Instances of Thread for TLC.  entry() gives start_thread the list       *)
(* {sleeper polling, eval}; BootTwo adds a second client thread.           *)
(***************************************************************************)
EXTENDS Thread, TLC

CONSTANTS eval, t3, t4

BootEntry == <<Sleeper, eval>>
BootTwo == <<Sleeper, eval, t3>>
BootThree == <<Sleeper, eval, t3, t4>>

\* The blocks malloc may return are alike.
Spare == Permutations(Node \ ({Cleaner} \cup Booted))
=============================================================================
