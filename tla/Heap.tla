-------------------------------- MODULE Heap --------------------------------
(***************************************************************************)
(* What malloc and free promise their callers: a block that malloc returns *)
(* lies in the heap and shares no page with a block that is still in use;  *)
(* until its owner frees it, nothing moves it.                             *)
(***************************************************************************)
EXTENDS Integers

CONSTANTS
    HeapPages,  \* the pages the heap has
    Names       \* what tells two blocks with the same pages apart

VARIABLE owned  \* the blocks in use

HeapInit == owned = {}

Alloc ==
    \E n \in Names, P \in SUBSET HeapPages :
        /\ P # {} /\ \A c \in owned : P \cap c.pages = {}
        /\ owned' = owned \cup {[name |-> n, pages |-> P]}

Release == \E b \in owned : owned' = owned \ {b}

HeapSpec == HeapInit /\ [][Alloc \/ Release]_owned
=============================================================================
