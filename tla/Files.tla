------------------------------- MODULE Files --------------------------------
(***************************************************************************)
(* What the file commands promise their user: a file is a sequence of      *)
(* data; `pushf >>' adds to its end and `pushf >' replaces it, all or      *)
(* nothing, and neither changes another file.  A power failure may cut off *)
(* an append, but never takes away what the file held before.  Nothing is  *)
(* promised of files that are lost, up to the next format.                 *)
(***************************************************************************)
EXTENDS SequencesExt

CONSTANTS
    FileName,   \* the names of files
    Texts       \* what is written to them

VARIABLES
    content,    \* of each file; Missing for one that does not exist
    up,         \* whether the machine is running
    lost        \* whether the system has lost a file

Missing == <<"missing">>
Held(file) == IF file = Missing THEN <<>> ELSE file

FilesInit == content = [n \in FileName |-> Missing] /\ up = TRUE /\ lost = FALSE

\* The steps of one file, from was to now.
Push(was, now) ==
    \/ was = Missing /\ now = <<>>      \* created, but no space
    \/ \E s \in Texts : now = Held(was) \o s \/ now = s
CutOff(was, now) == now # Missing /\ IsPrefix(Held(was), now)

Changes(was, now) ==
    \E n \in FileName :
        /\ now = [was EXCEPT ![n] = now[n]]
        /\ \/ up' /\ Push(was[n], now[n])
           \/ ~up' /\ CutOff(was[n], now[n])

Command == up /\ ~lost /\ ~lost' /\ Changes(content, content')
Power == (up # up') /\ UNCHANGED <<content, lost>>
Lost == up /\ lost'
Format == up /\ up' /\ ~lost' /\ content' = [n \in FileName |-> Missing]

FilesNext == Command \/ Power \/ Lost \/ Format

FilesSpec == FilesInit /\ [][FilesNext]_<<content, up, lost>>
=============================================================================
