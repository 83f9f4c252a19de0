-------------------------------- MODULE Shell -------------------------------
(***************************************************************************)
(* The shell's current path (eval.c) and its file commands (cmds.c) over   *)
(* the disk layer.  Only the shell uses disks, so a command is one step.   *)
(* Devices do not fail and are not full here; Fat32 is about those.        *)
(*                                                                         *)
(* What pushf writes to a directory, opened as a file, are the bytes of    *)
(* its entries from then on: entries with names, clusters and sizes made   *)
(* of text.  The same holds of a file that is opened as a directory and    *)
(* has text for an entry, 32 bytes.  The model ends there (overwritten).   *)
(***************************************************************************)
EXTENDS Disk

CONSTANTS
  Names,      \* names that are typed
  Image,      \* the entries a disk comes with, as a tree of Disk
  MaxDepth    \* bound on the names of the current path

VARIABLES
  mounted,    \* disks whose file system operations are set
  tree,       \* the entries of each disk
  path,       \* current_path
  ref,        \* ref of each disk
  left,       \* blocks the last command left allocated
  halted,     \* an ASSERT failed, which stops the kernel
  last,       \* the last command, and whether an open of a directory failed
  stale,      \* the path's disk was formatted since the path was set
  overwritten \* text stands where fat32.c reads entries

vars == <<mounted, tree, path, ref, left, halted, last, stale, overwritten>>

NullPath == [disk |-> NoDisk, names |-> <<>>]    \* "(NULL)"
RootOf(d) == [disk |-> d, names |-> <<>>]

Opens(p) ==
  /\ p.disk \in mounted
  /\ \A n \in 1..Len(p.names) : HasClusters(EntriesTo(tree[p.disk], p.names)[n])

\* What a path names.
Kind(p) == IF p.disk \in Disks THEN EntryAt(tree[p.disk], p.names) ELSE "none"

Call == [ref |-> ref, live |-> {}, halt |-> FALSE, ret |-> 0]

Done(m, command, failed) ==
  /\ ref' = m.ref
  /\ left' = m.live
  /\ halted' = (halted \/ m.halt)
  /\ last' = [command |-> command, failed |-> failed]

-----------------------------------------------------------------------------
\* Mutant: the path is not restored.
CheckRootPathForgets(start, end, old) ==
  LET ok == {d \in start..end : Opens(RootOf(d))}
  IN  IF ok = {} THEN RootOf(end) ELSE RootOf(Min(ok))

\* check_root_path: the first disk that opens, or the path as it was.
CheckRootPath(start, end, old) ==
  LET ok == {d \in start..end : Opens(RootOf(d))}
  IN  IF ok = {} THEN old ELSE RootOf(Min(ok))

\* init_disk checks every disk and sets the operations of those it knows.
InitDisk ==
  /\ mounted \in SUBSET Disks
  /\ tree = [d \in Disks |-> IF d \in mounted THEN Image ELSE <<>>]
  /\ ref = Registered

Init ==
  /\ InitDisk
  /\ path = CheckRootPath(START, START + 25, NullPath)
  /\ left = {}
  /\ halted = FALSE
  /\ last = [command |-> "boot", failed |-> FALSE]
  /\ stale = FALSE
  /\ overwritten = FALSE

\* set_eval_path within the disk: a path that does not open is not set.
SetEvalPath(p, command) ==
  LET m == disk_dir_open(Call, mounted, tree, p)
  IN  IF m.ret = 0
      THEN /\ path' = p
           /\ stale' = FALSE
           /\ Done(disk_dir_close(m, p.disk), command, FALSE)
      ELSE /\ UNCHANGED <<path, stale>>
           /\ Done(m, command, TRUE)

\* A file may have text for an entry, or not.
CdName(name) ==
  LET p == [path EXCEPT !.names = Append(@, name)]
  IN  /\ Len(path.names) < MaxDepth
      /\ SetEvalPath(p, IF Kind(p) = "empty" THEN "cd empty" ELSE "cd")
      /\ overwritten' \in (IF Kind(p) = "text" THEN BOOLEAN ELSE {FALSE})
      /\ UNCHANGED <<mounted, tree>>

\* Mutant: only the slash at the end goes.
UpSlash(p) == p

\* The path above; above the root and above "(NULL)" there is none.
Up(p) == IF p.names = <<>> THEN NullPath ELSE [p EXCEPT !.names = Front(@)]

CdUp ==
  /\ SetEvalPath(Up(path), "cd")
  /\ UNCHANGED <<mounted, tree, overwritten>>

\* A disk's id leads to its root, the one of the current disk nowhere.
CdDisk(d) ==
  /\ d # path.disk
  /\ LET m == disk_dir_open(Call, mounted, tree, RootOf(d))
     IN  /\ path' = CheckRootPath(d, d, path)
         /\ stale' = IF m.ret = 0 THEN FALSE ELSE stale
         /\ Done(IF m.ret = 0 THEN disk_dir_close(m, d) ELSE m, "cd", m.ret < 0)
  /\ UNCHANGED <<mounted, tree, overwritten>>

Dir ==
  /\ LET m == disk_dir_open(Call, mounted, tree, path)
         read == disk_fs_request(Transfer(m, path.disk), mounted, path.disk, "size")
     IN  Done(IF m.ret < 0 THEN m ELSE disk_dir_close(read, path.disk), "dir", m.ret < 0)
  /\ UNCHANGED <<mounted, tree, path, stale, overwritten>>

\* disk_dir_create wants a place for the entry, md gives none: it fails.  With
\* the path "(NULL)" md closes a struct dir that was never set; nothing is said
\* of that call.
Md ==
  /\ path # NullPath
  /\ Done(disk_dir_close(disk_dir_open(Call, mounted, tree, path), path.disk), "md", ~Opens(path))
  /\ UNCHANGED <<mounted, tree, path, stale, overwritten>>

\* A request for a file and, as it is refused, one for a directory.
DelOrRename ==
  /\ \E type \in {"delete", "rename"} :
       LET file == disk_fs_request(Call, mounted, path.disk, type)
           dir == disk_fs_request(file, mounted, path.disk, type)
       IN  Done(IF file.ret = 0 THEN file ELSE dir, type, FALSE)
  /\ UNCHANGED <<mounted, tree, path, stale, overwritten>>

\* pushf opens the file, or creates and opens it, writes and closes.  An entry
\* made in a file, where there is no text for one, is not found afterwards.
Pushf(name) ==
  LET p == [path EXCEPT !.names = Append(@, name)]
      m == disk_file_open(Call, mounted, tree, p)
      dir == disk_dir_open(m, mounted, tree, path)
      made == disk_dir_close(disk_dir_create_entry(dir, path.disk), path.disk)
      grown == IF Kind(path) = "text" THEN tree
               ELSE [tree EXCEPT ![p.disk] = WithEntry(@, p.names, "empty")]
      again == disk_file_open(made, mounted, grown, p)
      Written(file) == Done(disk_file_close(disk_file_write(file, p.disk), p.disk), "pushf", FALSE)
      Filled == tree' = [tree EXCEPT ![p.disk] = WithEntry(@, p.names, "text")]
  IN  /\ Len(path.names) < MaxDepth
      /\ \/ /\ m.ret = 0 /\ Kind(p) = "dir" /\ Written(m)
            /\ overwritten' = TRUE /\ UNCHANGED tree
         \/ /\ m.ret = 0 /\ Kind(p) # "dir" /\ Written(m)
            /\ Filled /\ UNCHANGED overwritten
         \/ /\ m.ret < 0 /\ dir.ret < 0 /\ Done(dir, "pushf", TRUE)
            /\ UNCHANGED <<tree, overwritten>>
         \/ /\ m.ret < 0 /\ dir.ret = 0 /\ again.ret = 0 /\ Written(again)
            /\ Filled /\ UNCHANGED overwritten
         \/ /\ m.ret < 0 /\ dir.ret = 0 /\ again.ret < 0 /\ Done(again, "pushf", FALSE)
            /\ UNCHANGED <<tree, overwritten>>
      /\ UNCHANGED <<mounted, path, stale>>

Popf(name) ==
  /\ LET p == [path EXCEPT !.names = Append(@, name)]
         m == disk_file_open(Call, mounted, tree, p)
     IN  Done(IF m.ret < 0 THEN m ELSE disk_file_close(Transfer(m, p.disk), p.disk),
              "popf", FALSE)
  /\ UNCHANGED <<mounted, tree, path, stale, overwritten>>

\* disk -f; a disk in use is refused, which changes nothing.
DiskFormat(d) ==
  /\ ref[d] = 0
  /\ mounted' = mounted \cup {d}
  /\ tree' = [tree EXCEPT ![d] = <<>>]
  /\ stale' = (stale \/ path.disk = d)
  /\ Done(Reformat(Call, d \in mounted), "format", FALSE)
  /\ UNCHANGED <<path, overwritten>>

Next ==
  /\ ~halted /\ ~overwritten
  /\ \/ \E name \in Names : CdName(name) \/ Pushf(name) \/ Popf(name)
     \/ CdUp \/ Dir \/ Md \/ DelOrRename
     \/ \E d \in Disks : CdDisk(d) \/ DiskFormat(d)

Spec == Init /\ [][Next]_vars

-----------------------------------------------------------------------------
\* The current path is "(NULL)", or opens, or its disk was formatted since it
\* was set: no cd that fails half way, at a disk or at a directory, leaves the
\* shell where it cannot open its own directory.  Nothing is said of a disk
\* with text for entries.
PathKept ==
  \/ overwritten
  \/ path = NullPath
  \/ Opens(path)
  \/ stale /\ path.disk \in mounted

\* After a format of the disk it is on the shell can go on: some cd leads to a
\* directory that opens.  (Two levels down and with no other disk it cannot:
\* the directory above is gone too and the id of its own disk does nothing.)
WayBack ==
  \/ overwritten
  \/ path = NullPath \/ Opens(path)
  \/ Opens(Up(path))
  \/ \E d \in mounted : d # path.disk
  \/ Len(path.names) > 1

\* A command gives back every block of memory and every reference to a disk,
\* and frees none twice, but for a cd into a file without a cluster, which may
\* halt the kernel (fat32.c:985).  It leaves a block only where disk.c and
\* fat32.c leave one: after an open of a directory that fails (fat32.c:1204)
\* and a format.
Released ==
  /\ \A d \in Disks : ref[d] = 0
  /\ halted => last.command = "cd empty"
  /\ left # {} => last.failed \/ last.command = "format"
  /\ left \subseteq {"fs_dir", "first fs"}
=============================================================================
