------------------------------- MODULE Fat32 --------------------------------
(***************************************************************************)
(* The FAT32 file system of TEST-OS (fat32.c) under the shell's commands   *)
(* (cmds.c): pushf, popf and disk -f.  The shell is one thread and the     *)
(* only one that uses a disk, so a command is one action; but a device     *)
(* access in the middle of it may fail, or the power may.  A command is a  *)
(* function from the state before it to the state after it: a record m     *)
(* goes from one call of the code to the next, m.ret is what a call        *)
(* returned (-1 stands for every error number).                            *)
(*                                                                         *)
(* A unit is the 32 bytes of a directory entry; sizes and offsets count    *)
(* units.  Data need not be a whole unit in the code; read as an entry, a  *)
(* unit of data is an entry with an odd name.                              *)
(***************************************************************************)
EXTENDS Integers, Sequences, FiniteSets

CONSTANTS
    Name,       \* files' names, of those that short_fn_to_string gives back
    Sub,        \* the name of a directory in the root
    Text,       \* what pushf writes: sequences of units of data
    Free,       \* the name in a zeroed entry
    N,          \* clusters of the data area
    U,          \* units in a cluster
    P,          \* entries in a sector of a FAT
    FatSectors, \* sectors of a FAT
    Dirs,       \* where the shell may be: "root", Sub
    Junk,       \* what a slot of a block list may hold before it is assigned
    Faults      \* what may happen in a command: "error", "crash"

Root == 2               \* rootdir_cluster
Cluster == 2 .. N + 1
EOC == N + 2            \* 0x0fffffff
Slots == 0 .. FatSectors * P - 1
Cells == 0 .. U - 1

\* The last sector of a FAT has no cluster's entry, as with any disk of at
\* least 8.4 MB that fat32_format made; cluster numbers fit first_cluster.
ASSUME FatAssumption ==
    /\ N \in Nat /\ N >= 2 /\ N + 1 < (FatSectors - 1) * P /\ N + 1 < 65536
    /\ U \in Nat \ {0} /\ P \in Nat \ {0}
    /\ Dirs \subseteq {"root", Sub}
    /\ Faults \subseteq {"error", "crash"} /\ Junk \subseteq {0} \cup Cluster
    /\ \A s \in Text : Len(s) > 0

VARIABLES
    fat,        \* the two copies of the FAT on the disk
    data,       \* the clusters on the disk
    buf,        \* fat32_buf: whose (fs), which sector, its entries, changed
    up,         \* the machine is running
    cwd,        \* the shell's directory; cd is not modelled
    damage,     \* what has gone wrong since the last format (see Done)
    content     \* what a reader would find in each file, from fat, data, buf

vars == <<fat, data, buf, up, cwd, damage, content>>

Entry(name, first, size) == [name |-> name, first |-> first, size |-> size]
Blank == Entry(Free, 0, 0)
Datum(d) == Entry(d, 0, 0)
Zeros == [k \in Cells |-> Blank]

NoBuf == [fs |-> "none", sector |-> 0, val |-> <<>>, changed |-> FALSE]

NumClustersDown(size) == size \div U       \* mutant: rounds down

NumClusters(size) == (size + U - 1) \div U

\* if ((ret = ...) < 0) return ret;
IfOk(m, Op(_)) == IF m.ret < 0 THEN m ELSE Op(m)
\* Goes on from m, whatever it returned.
Then(m, Op(_)) == Op(m)
Return(m, r) == [m EXCEPT !.ret = r]

-----------------------------------------------------------------------------
(***************************************************************************)
(* The device.  m.left counts down to the access that fails, the last of   *)
(* them at 1; from 0 on it counts the accesses of a command without fault. *)
(* When it is the power that fails, so do all later ones.                  *)
(***************************************************************************)
Access(m) ==
    [m EXCEPT !.left = @ - 1,
              !.off  = @ \/ (m.left = 1 /\ m.fault = "crash"),
              !.harm = IF m.left = 1 THEN @ \cup {m.fault} ELSE @,
              !.ret  = IF m.off \/ m.left = 1 THEN -1 ELSE 0]

WriteCluster(m, c, units) == IfOk(Access(m), LAMBDA a : [a EXCEPT !.data[c] = units])

-----------------------------------------------------------------------------
(***************************************************************************)
(* The FAT and its buffer of two sectors.                                  *)
(***************************************************************************)
Sector(c) == c \div P
Window(s) == (s * P .. (s + 2) * P - 1) \cap Slots

WriteFat(m, i) ==
    IfOk(Access(m), LAMBDA a : [a EXCEPT !.fat[i] =
        [c \in Slots |-> IF c \in DOMAIN m.buf.val THEN m.buf.val[c] ELSE @[c]]])

\* Mutant: the second copy is forgotten.
CommitFirst(m) == IfOk(WriteFat(m, 1), LAMBDA a : [a EXCEPT !.buf.changed = FALSE])

\* commit_fat32_buffer, of the file system that owns the buffer.
Commit(m) ==
    IfOk(IfOk(WriteFat(m, 1), LAMBDA a : WriteFat(a, 2)),
         LAMBDA a : [a EXCEPT !.buf.changed = FALSE])

\* commit_fat32_buffer(disk, disk->fs)
CommitThis(m) == IF m.buf.fs = "this" THEN Commit(m) ELSE Return(m, 0)

Flush(m) == IF m.buf.changed /\ m.buf.fs # "none" THEN Commit(m) ELSE Return(m, 0)

GetBuffer(m, s) ==
    IF m.buf.fs = "this" /\ m.buf.sector = s THEN Return(m, 0)
    ELSE Then(IfOk(Flush(m), Access), LAMBDA a :
           [a EXCEPT !.buf = IF a.ret < 0 THEN NoBuf
                             ELSE [fs |-> "this", sector |-> s, changed |-> FALSE,
                                   val |-> [c \in Window(s) |-> a.fat[1][c]]]])

\* get_next_cluster_fat32: an error reads like a free cluster.
GetNext(m, c) ==
    Then(GetBuffer(m, Sector(c)), LAMBDA a :
      [a EXCEPT !.val = IF a.ret < 0 THEN 0 ELSE a.buf.val[c]])

SetNext(m, c, next) ==
    IfOk(GetBuffer(m, Sector(c)),
         LAMBDA a : [a EXCEPT !.buf.val[c] = next, !.buf.changed = TRUE])

\* The FAT as the file system sees it.
Fat(m, c) == IF m.buf.fs = "this" /\ c \in DOMAIN m.buf.val THEN m.buf.val[c] ELSE m.fat[1][c]

\* The clusters of a chain in order, up to its end or one too many.
RECURSIVE ChainFrom(_, _, _)
ChainFrom(m, c, i) ==
    IF c \notin Cluster \/ i > N THEN <<>> ELSE <<c>> \o ChainFrom(m, Fat(m, c), i + 1)
Chain(m, c) == ChainFrom(m, c, 0)

-----------------------------------------------------------------------------
(***************************************************************************)
(* Open files: m.f, with its block list bl and where its entry is.         *)
(***************************************************************************)
Handle(name, first, size, parent, idx, isdir) ==
    [name |-> name, first |-> first, size |-> size, parent |-> parent,
     idx |-> idx, isdir |-> isdir, bl |-> <<>>]

DirHandle(first) == Handle(Free, first, 0, 0, 0, TRUE)

Fresh(m, k) == [i \in 1 .. k |-> m.junk]    \* k slots just allocated

\* The loop that reads the chain, i blocks of which are in bl.  A chain that
\* runs in a circle would never end.
RECURSIVE Follow(_, _, _)
Follow(m, bl, i) ==
    LET room == IF Len(bl) <= i THEN bl \o Fresh(m, Len(bl)) ELSE bl
    IN  Then(GetNext(m, bl[i]), LAMBDA a :
          IF a.val = 0 \/ i > N THEN Return(a, -1)
          ELSE IF a.val = EOC
          THEN [a EXCEPT !.ret = 0, !.f.bl = bl, !.f.size = IF @ = 0 THEN i * U ELSE @]
          ELSE Follow(a, [room EXCEPT ![i + 1] = a.val], i + 1))

\* fat32_file_open_by_dir_entry
OpenEntry(m, f) ==
    LET k == IF f.size > 0 THEN NumClusters(f.size) ELSE 1
        a == [m EXCEPT !.f = f, !.ret = 0]
    IN  IF f.first = 0 THEN a ELSE Follow(a, <<f.first>> \o Fresh(m, k - 1), 1)

\* The list of m.f has slots behind the chain's end that nothing was assigned
\* to: it was doubled for a chain longer than the size it began with.  Who
\* takes such a slot for a cluster harms whatever has that cluster ("lost").
Loose(m) == Len(m.f.bl) > Len(Chain(m, m.f.first))
Lose(m) == [m EXCEPT !.harm = @ \cup {"lost"}]

\* file_get_cluster
ClusterOf(f, k) == IF k >= Len(f.bl) THEN 0 ELSE f.bl[k + 1]

\* fat32_file_rw, writing the units s from offset off: whole clusters are
\* written, the others are read, changed and written.
RECURSIVE WriteUnits(_, _, _)
WriteUnits(m, off, s) ==
    LET c == ClusterOf(m.f, off \div U)
        at == off % U
        n == IF Len(s) < U - at THEN Len(s) ELSE U - at
        new == [k \in Cells |-> IF k \in at .. at + n - 1 THEN s[k - at + 1]
                                ELSE m.data[c][k]]
        ready == IF n = U THEN Return(m, 0) ELSE Access(m)
    IN  IF s = <<>> THEN Return(m, 0)
        ELSE IF c = 0 THEN Return(m, -1)
        ELSE IfOk(IfOk(ready, LAMBDA a : WriteCluster(a, c, new)),
                  LAMBDA a : WriteUnits(a, off + n, SubSeq(s, n + 1, Len(s))))

\* fat32_file_rw, reading a whole directory into m.dir.
RECURSIVE ReadUnits(_, _)
ReadUnits(m, k) ==
    LET c == ClusterOf(m.f, k)
    IN  IF k * U >= m.f.size THEN Return(m, 0)
        ELSE IF c = 0 THEN Return(m, -1)
        ELSE IfOk(Access(m),
                  LAMBDA a : ReadUnits([a EXCEPT !.dir = @ \o [i \in 1 .. U |-> m.data[c][i - 1]]],
                                       k + 1))

-----------------------------------------------------------------------------
(***************************************************************************)
(* Files that grow and shrink.                                             *)
(***************************************************************************)
\* Mutant: one cluster too many.
RECURSIVE ScanPastEnd(_, _)
ScanPastEnd(m, j) ==
    IF j > N + 2 THEN [m EXCEPT !.val = 0]
    ELSE Then(GetNext(m, j), LAMBDA a :
           IF a.val = 0 THEN [a EXCEPT !.val = j] ELSE ScanPastEnd(a, j + 1))

\* The next free cluster from j on is m.val; 0 when there is none.
RECURSIVE Scan(_, _)
Scan(m, j) ==
    IF j > N + 1 THEN [m EXCEPT !.val = 0]
    ELSE Then(GetNext(m, j), LAMBDA a :
           IF a.val = 0 THEN [a EXCEPT !.val = j] ELSE Scan(a, j + 1))

\* Block i of m.f becomes the cluster j: zeroed, ended, linked.
Attach(m, i, j) ==
    LET zeroed == WriteCluster(m, j, Zeros)
        ended == IfOk(zeroed, LAMBDA a : SetNext([a EXCEPT !.f.bl[i] = j], j, EOC))
    IN  IfOk(ended, LAMBDA a : IF i = 1 THEN [a EXCEPT !.f.first = j]
                               ELSE SetNext(a, a.f.bl[i - 1], j))

\* No cluster is left; those just linked stay so, and are not written.
NoSpace(m, from) ==
    [m EXCEPT !.ret = -1, !.harm = IF from > 2 THEN @ \cup {"space"} ELSE @]

RECURSIVE Allocate(_, _, _)
Allocate(m, i, from) ==
    IF i > Len(m.f.bl) THEN CommitThis(m)
    ELSE Then(Scan(m, from), LAMBDA a :
           IF a.val = 0 THEN NoSpace(a, from)
           ELSE IfOk(Attach(a, i, a.val), LAMBDA b : Allocate(b, i + 1, a.val + 1)))

\* fat32_extend_file up to the size; what a file's size means for its entry
\* is up to the caller.
Extend(m, size) ==
    LET old == Len(m.f.bl)
        k == NumClusters(size)
        start == IF Loose(m) /\ k > Len(Chain(m, m.f.first)) THEN Lose(m) ELSE m
        grown == Allocate([start EXCEPT !.f.bl = @ \o Fresh(m, k - old)], old + 1, 2)
    IN  IfOk(IF k > old THEN grown ELSE Return(start, 0), LAMBDA a : [a EXCEPT !.f.size = size])

\* fat32_dir_update_entry: the entry of m.f is written to its directory,
\* which is opened, and grows if it must, for the purpose.
UpdateEntry(m) ==
    LET f == m.f
        opened == OpenEntry(m, DirHandle(IF f.parent = 0 THEN Root ELSE f.parent))
        found == IfOk(opened, LAMBDA a : IF f.idx < a.f.size THEN Access(a)
                                         ELSE Extend(a, f.idx + 1))
        put == IfOk(found, LAMBDA a :
                 WriteUnits(a, f.idx, <<Entry(f.name, f.first, f.size)>>))
    IN  [put EXCEPT !.f = f]

\* fat32_file_write
FileWrite(m, off, s) ==
    IfOk(IF off + Len(s) > m.f.size
         THEN IfOk(Extend(m, off + Len(s)), LAMBDA a : IF a.f.isdir THEN a ELSE UpdateEntry(a))
         ELSE Return(m, 0),
         LAMBDA a : WriteUnits(a, off, s))

FreeNone(m, i) == Return(m, 0)          \* mutant: the loop is missing

\* The blocks of m.f from the i-th on are given back.
RECURSIVE FreeFrom(_, _)
FreeFrom(m, i) ==
    IF i > Len(m.f.bl) THEN Return(m, 0)
    ELSE IfOk(IF m.f.bl[i] >= 2 THEN SetNext(m, m.f.bl[i], 0) ELSE Return(m, 0),
              LAMBDA a : FreeFrom(a, i + 1))

TruncateNot(m, size) == Return(m, 0)    \* mutant: does nothing

\* fat32_truncate_file, to a size above 0.
Truncate(m, size) ==
    LET k == NumClusters(size)
        freed == FreeFrom(IF Loose(m) THEN Lose(m) ELSE m, k + 1)
        ended == IfOk(freed, LAMBDA a : SetNext(a, a.f.bl[k], EOC))
        cut == IF k < Len(m.f.bl)
               THEN IfOk(ended, LAMBDA a : [a EXCEPT !.f.bl = SubSeq(@, 1, k)])
               ELSE Return(m, 0)
        done == IF m.f.bl = <<>> THEN Return(m, 0) ELSE IfOk(cut, CommitThis)
    IN  IF size >= m.f.size THEN Return(m, 0)
        ELSE IfOk(done, LAMBDA a :
               LET b == [a EXCEPT !.f.size = size]
               IN  IF b.f.isdir THEN b ELSE UpdateEntry(b))

-----------------------------------------------------------------------------
(***************************************************************************)
(* Directories: m.dir holds the entries of the one that is open, m.cluster *)
(* its first cluster, 0 for the root.                                      *)
(***************************************************************************)
ReadDir(m, first) ==
    LET opened == OpenEntry(m, DirHandle(first))
    IN  IfOk(opened, LAMBDA a : ReadUnits([a EXCEPT !.dir = <<>>], 0))

\* The first valid entry of a name; 0 if there is none.
Find(dir, name) ==
    LET S == {i \in 1 .. Len(dir) : dir[i].name = name}
    IN  IF S = {} THEN 0 ELSE CHOOSE i \in S : \A j \in S : i <= j

\* fat32_subdir_open, in the open directory.
SubdirOpen(m, name) ==
    LET i == Find(m.dir, name)
    IN  IF i = 0 THEN Return(m, -1)
        ELSE [ReadDir(m, m.dir[i].first) EXCEPT !.cluster = m.dir[i].first]

\* fat32_dir_open of the shell's directory.
DirOpen(m) ==
    IfOk([ReadDir(m, Root) EXCEPT !.cluster = 0],
         LAMBDA a : IF cwd = "root" THEN a ELSE SubdirOpen(a, Sub))

\* fat32_file_open
FileOpen(m, name) ==
    IfOk(DirOpen(m), LAMBDA a :
      LET i == Find(a.dir, name)
          e == a.dir[i]
      IN  IF i = 0 THEN Return(a, -1)
          ELSE OpenEntry(a, Handle(name, e.first, e.size, a.cluster, i - 1, FALSE)))

\* fat32_dir_create_entry: in the first free entry, or behind the last one
\* unless the directory is the root.
CreateEntry(m, name) ==
    LET i == Find(m.dir, Free)
        idx == IF i = 0 THEN Len(m.dir) ELSE i - 1
    IN  IF i = 0 /\ m.cluster = 0 THEN Return(m, -1)
        ELSE UpdateEntry([m EXCEPT !.f = Handle(name, 0, 0, m.cluster, idx, FALSE)])

-----------------------------------------------------------------------------
(***************************************************************************)
(* What is on the disk, given its state m.                                 *)
(***************************************************************************)
Members(chain) == {chain[i] : i \in 1 .. Len(chain)}

\* The units of a chain.
Units(m, chain) == [i \in 1 .. Len(chain) * U |-> m.data[chain[(i - 1) \div U + 1]][(i - 1) % U]]

\* The shell's directory, which begins at the cluster Here, and its entries.
Here(m) ==
    LET dir == Units(m, Chain(m, Root))
        i == Find(dir, Sub)
    IN  IF cwd = "root" THEN Root ELSE IF i = 0 THEN 0 ELSE dir[i].first
Listing(m) == Units(m, Chain(m, Here(m)))
Entries(m) == {e \in {Listing(m)[i] : i \in DOMAIN Listing(m)} : e.name # Free}

\* The chains that are in use: the directories' and the files'.
Chains(m) == {Chain(m, Root), Chain(m, Here(m))} \cup {Chain(m, e.first) : e \in Entries(m)}

\* The units of each file, as many as its entry says.
ContentOf(m, name) ==
    LET dir == Listing(m)
        i == Find(dir, name)
        units == Units(m, Chain(m, dir[i].first))
    IN  IF i = 0 THEN <<"missing">>
        ELSE [k \in 1 .. dir[i].size |-> IF k \in DOMAIN units THEN units[k].name ELSE Free]
Content(m) == [n \in Name |-> ContentOf(m, n)]

-----------------------------------------------------------------------------
(***************************************************************************)
(* The commands.                                                           *)
(***************************************************************************)
\* A command starts: fault.kind will happen at the access fault.at.
Start(fault, junk) ==
    [fat |-> fat, data |-> data, buf |-> buf, fault |-> fault.kind, left |-> fault.at,
     off |-> FALSE, junk |-> junk, ret |-> 0, val |-> 0, f |-> DirHandle(0),
     dir |-> <<>>, cluster |-> 0, harm |-> {}]

NoFault == [kind |-> "none", at |-> 0]

\* The command is over, or the power is off.
Become(m) ==
    LET end == [m EXCEPT !.buf = IF m.off THEN NoBuf ELSE @]
    IN  /\ fat' = end.fat /\ data' = end.data /\ buf' = end.buf
        /\ up' = ~end.off /\ content' = Content(end) /\ UNCHANGED cwd

\* An access that failed ("error") or the power that did ("crash") in the
\* command, and an extension that came to the end of the disk half-way
\* ("space"), leave their mark on the disk until it is formatted.
Done(m) == Become(m) /\ damage' = damage \cup m.harm

OpenOrCreate(m, name) ==
    Then(FileOpen(m, name), LAMBDA a :
      IF a.ret >= 0 THEN a
      ELSE IfOk(IfOk(DirOpen(a), LAMBDA b : CreateEntry(b, name)),
                LAMBDA b : FileOpen(b, name)))

\* The file is cut to the text even if writing it has failed.
WriteText(m, op, s) ==
    Then(FileWrite(m, IF op = ">>" THEN m.f.size ELSE 0, s), LAMBDA a :
      IF op = ">>" THEN a ELSE Truncate(a, Len(s)))

PushfCommand(m, name, op, s) ==
    IfOk(OpenOrCreate(m, name),
         LAMBDA a : WriteText(a, op, [i \in 1 .. Len(s) |-> Datum(s[i])]))

\* How the command may end: with no fault, or with one at any access it makes.
Outcomes(name, op, s, junk) ==
    LET whole == PushfCommand(Start(NoFault, junk), name, op, s)
    IN  {whole} \cup {PushfCommand(Start([kind |-> kind, at |-> at], junk), name, op, s) :
                        kind \in Faults, at \in 1 .. -whole.left}

\* A `pushf >' that the power cuts off may have given back clusters of a file
\* whose entry keeps them ("lost", too).  What the commands do to a disk that
\* has lost something is not modelled, up to a format.
CutOff(op, m) == IF op = ">" /\ m.off THEN Lose(m) ELSE m
Working == up /\ "lost" \notin damage

Pushf ==
    \E op \in {">", ">>"}, name \in Name, s \in Text, junk \in Junk :
        /\ Working
        /\ \E m \in Outcomes(name, op, s, junk) : Done(CutOff(op, m))

Popf ==
    \E name \in Name, junk \in Junk :
        \E m \in {FileOpen(Start(NoFault, junk), name)} : Working /\ Done(m)

\* disk -f: fat32_format writes the FATs past the buffer; the fs the buffer
\* belongs to is freed and another allocated, at another address as the heap
\* does not give out a page again before it has been through all the others.
Formatted(c) == IF c <= Root THEN EOC ELSE 0
Cleared == {c \in Slots : Sector(c) <= 1 \/ Sector(c) <= FatSectors \div 2}

FormatCommand(m) ==
    [m EXCEPT !.fat = [i \in 1 .. 2 |-> [c \in Slots |->
                         IF i = 2 \/ c \in Cleared THEN Formatted(c) ELSE @[i][c]]],
              !.data[Root] = Zeros,
              !.buf.fs = IF @ = "none" THEN @ ELSE "old"]

\* What a format leaves of the past: a changed buffer, which the next access
\* to a FAT writes over the new one ("space", as before), and entries in the
\* sectors of the first copy that it does not write ("format").
DiskFormat ==
    /\ up
    /\ Become(FormatCommand(Start(NoFault, 0)))
    /\ damage' = (IF buf.changed THEN {"space"} ELSE {})
                  \cup (IF \E c \in Slots \ Cleared : fat[1][c] # 0 THEN {"format"} ELSE {})

PowerOff == up /\ Become([Start(NoFault, 0) EXCEPT !.off = TRUE]) /\ UNCHANGED damage
Boot == ~up /\ up' = TRUE /\ UNCHANGED <<fat, data, buf, cwd, damage, content>>

\* A formatted disk, with the directory Sub on it if the shell may be there.
Init ==
    LET used == IF Sub \in Dirs THEN {3} ELSE {}
    IN  /\ cwd \in Dirs
        /\ fat = [i \in 1 .. 2 |-> [c \in Slots |-> IF c \in used THEN EOC ELSE Formatted(c)]]
        /\ data = [c \in Cluster |-> IF c = Root /\ used # {}
                                      THEN [Zeros EXCEPT ![0] = Entry(Sub, 3, 0)] ELSE Zeros]
        /\ buf = NoBuf /\ up = TRUE /\ damage = {}
        /\ content = [n \in Name |-> <<"missing">>]

Next == Pushf \/ Popf \/ DiskFormat \/ PowerOff \/ Boot

Spec == Init /\ [][Next]_vars

-----------------------------------------------------------------------------
(***************************************************************************)
(* Properties.                                                             *)
(***************************************************************************)

Disk == [fat |-> fat, data |-> data, buf |-> buf]

\* The types of the disk's and the driver's state.
TypeOK ==
    /\ fat \in [1 .. 2 -> [Slots -> 0 .. EOC]]
    /\ DOMAIN data = Cluster
    /\ \A c \in Cluster, k \in Cells :
        data[c][k].first \in {0} \cup Cluster /\ data[c][k].size \in 0 .. N * U
    /\ buf.fs \in {"none", "this", "old"} /\ buf.changed \in BOOLEAN
    /\ up \in BOOLEAN /\ damage \subseteq {"error", "crash", "space", "lost", "format"}
    /\ cwd \in Dirs /\ DOMAIN content = Name

\* Whatever was written and whenever the power failed in an append, no cluster
\* is in two chains or twice in one, and each file has the clusters its size
\* needs; until something is lost: a `pushf >' was cut off, or a command used a
\* slot of a block list that nothing was assigned to.
ChainsSound ==
    LET cs == Chains(Disk)
        es == Entries(Disk)
    IN  "lost" \notin damage =>
        /\ \A x \in cs : Len(x) <= N /\ Cardinality(Members(x)) = Len(x)
        /\ \A x, y \in cs : x # y => Members(x) \cap Members(y) = {}
        /\ \A e, f \in es : e # f => e.first # f.first \/ e.first = 0
        /\ \A e \in es : e.size <= U * Len(Chain(Disk, e.first))

\* On a disk with no damage every cluster that is not free belongs to a file or
\* directory: pushf frees what it cuts off.  (Damage: no access and no power
\* failed in a command; no file that needed two clusters found only one; no
\* cluster was in use, when the disk was formatted, that has its entry in the
\* half of the first FAT that fat32_format does not clear.)
NoLeak ==
    damage = {} =>
        {c \in Cluster : Fat(Disk, c) # 0} = UNION {Members(x) : x \in Chains(Disk)}

\* On a disk with no damage a command that has returned has written both copies
\* of the FAT: nothing is only in the buffer.
FatsAgree ==
    damage = {} => fat[1] = fat[2] /\ \A c \in Slots : Fat(Disk, c) = fat[1][c]

\* The commands keep the promise of the file system, on a full disk and with
\* the power failing at any access, until something is lost (see ChainsSound).
Promise == INSTANCE Files WITH FileName <- Name, Texts <- Text, lost <- "lost" \in damage
KeepsFiles == Promise!FilesSpec
=============================================================================
