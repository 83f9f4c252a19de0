-------------------------------- MODULE Disk --------------------------------
(***************************************************************************)
(* disk.c: the registered disks and the calls forwarded to their file      *)
(* system, with the blocks of memory that fat32.c allocates and frees when *)
(* it opens and closes files and directories.                              *)
(*                                                                         *)
(* A call is an operator on a record m of                                  *)
(*   ref    the ref of every disk,                                         *)
(*   live   the blocks allocated so far, by the variable that points at    *)
(*          them,                                                          *)
(*   halt   bitmap_free found a block that was free and its ASSERT failed, *)
(*   ret    what the last call returned.                                   *)
(* tree gives the kind of each entry of a disk by its path, a sequence of  *)
(* names: "dir", "text" (a file), or "empty" (a file without a cluster).   *)
(* fat32.c does not look at the attribute when it opens an entry: a file   *)
(* opens as a directory, and a directory as a file.                        *)
(***************************************************************************)
EXTENDS Integers, Sequences, SequencesExt

CONSTANT Disks    \* ids of the registered disks, numbers from START on

START == 1        \* KERNEL_DISK_ID_START, "a:"
NoDisk == 0

ASSUME DiskAssumption == Disks = START..Len(SetToSeq(Disks))

\* disk_register: the disks get consecutive ids and nobody uses them.
Registered == [d \in Disks |-> 0]

\* find_disk_by_id finds the disk and its operations are set.
Found(mounted, d) == d \in mounted

\* Memory does not run out here.
Malloc(m, block) == [m EXCEPT !.live = m.live \cup {block}]

Free(m, block) ==
  IF block \in m.live THEN [m EXCEPT !.live = m.live \ {block}]
                      ELSE [m EXCEPT !.halt = TRUE]

Return(m, ret) == [m EXCEPT !.ret = ret]

\* ++(disk->ref) and --(disk->ref) around the call of the file system.
Hold(m, d) == [m EXCEPT !.ref[d] = @ + 1]

Drop(m, d) == [m EXCEPT !.ref[d] = @ - 1]

-----------------------------------------------------------------------------
(* Entries. *)

EntryAt(tree, names) == IF names \in DOMAIN tree THEN tree[names] ELSE "none"

WithEntry(tree, names, kind) ==
  [q \in DOMAIN tree \cup {names} |-> IF q = names THEN kind ELSE tree[q]]

\* The entries on the way to a path.
EntriesTo(tree, names) ==
  [n \in 1..Len(names) |-> EntryAt(tree, SubSeq(names, 1, n))]

HasClusters(kind) == kind \notin {"none", "empty"}

-----------------------------------------------------------------------------
(* Memory in fat32.c. *)

\* fat32_file_open_by_dir_entry, fat32_file_read and fat32_file_close of a
\* directory, whose entries stay in memory.  Without a cluster it has no list
\* of blocks, and fs_file is freed where that is found out and at fail.
LoadEntries(m, block, kind) ==
  LET opened == Malloc(Malloc(m, "fs_file"), "dir.blocklist")
      read == Malloc(opened, block)
  IN  IF kind = "empty"
      THEN Return(Free(Free(Malloc(m, "fs_file"), "fs_file"), "fs_file"), -1)
      ELSE Return(Free(Free(read, "dir.blocklist"), "fs_file"), 0)

fat32_dir_close(m) ==
  IF "entries" \in m.live THEN Free(m, "entries") ELSE m

\* A step of the loop of fat32_dir_open: the subdirectory takes the place of
\* the directory, which is closed whether there was one or not.
SubdirOpen(m, kind) ==
  LET loaded == LoadEntries(m, "subdir.entries", kind)
      closed == fat32_dir_close(loaded)
  IN  IF m.ret < 0 THEN m
      ELSE IF kind = "none" THEN Return(fat32_dir_close(m), -1)
      ELSE IF loaded.ret < 0 THEN closed
      ELSE [closed EXCEPT !.live = (@ \ {"subdir.entries"}) \cup {"entries"}]

\* fs_dir stays allocated when the directory is not found.
fat32_dir_open(m, tree, names) ==
  FoldLeft(SubdirOpen, LoadEntries(Malloc(m, "fs_dir"), "entries", "dir"),
           EntriesTo(tree, names))

\* names are the directory's and the file's.
fat32_file_open(m, tree, names) ==
  LET begun == Malloc(Malloc(m, "fs_dir_entry"), "file")
      dir == fat32_dir_open(begun, tree, Front(names))
      closed == IF dir.ret < 0 THEN dir ELSE fat32_dir_close(dir)
      kind == EntryAt(tree, names)
      opened == IF dir.ret < 0 \/ kind = "none" THEN Return(Free(closed, "file"), -1)
                ELSE Return(IF kind = "empty" THEN closed ELSE Malloc(closed, "blocklist"), 0)
  IN  Free(Free(opened, "fs_dir"), "fs_dir_entry")

fat32_file_close(m) == IF "blocklist" \in m.live THEN Free(m, "blocklist") ELSE m

\* fat32_dir_create_entry writes the new entry through a file of its own.
fat32_dir_create_entry(m) ==
  LET opened == Malloc(Malloc(m, "fs_dir_file"), "dir.blocklist")
  IN  Return(Free(Free(opened, "dir.blocklist"), "fs_dir_file"), 0)

\* Only sizes are known, not FS_FILE_DELETE and the like.
fat32_request(m, type) == Return(m, IF type = "size" THEN 0 ELSE -1)

-----------------------------------------------------------------------------
(* The forwarders.  mounted is the set of disks with a file system; a path *)
(* is a record of a disk and names.                                        *)

\* Mutant: the handle stays allocated.
disk_dir_close_keeps(m, d) == Drop(Return(fat32_dir_close(Hold(m, d)), 0), d)

disk_dir_close(m, d) ==
  LET closed == Drop(Return(fat32_dir_close(Hold(m, d)), 0), d)
  IN  Free(closed, "fs_dir")

disk_dir_open(m, mounted, tree, path) ==
  IF Found(mounted, path.disk)
  THEN Drop(fat32_dir_open(Hold(m, path.disk), tree[path.disk], path.names), path.disk)
  ELSE Return(m, -1)

disk_file_open(m, mounted, tree, path) ==
  IF Found(mounted, path.disk)
  THEN Drop(fat32_file_open(Hold(m, path.disk), tree[path.disk], path.names), path.disk)
  ELSE Return(m, -1)

disk_file_close(m, d) ==
  LET closed == Drop(Return(fat32_file_close(Hold(m, d)), 0), d)
  IN  Free(closed, "file")

\* disk_file_read and disk_dir_read: no block is allocated that is not freed.
Transfer(m, d) == Drop(Return(Hold(m, d), 0), d)

\* The file has a list of blocks then: realloc of NULL allocates it.
disk_file_write(m, d) == Malloc(Transfer(m, d), "blocklist")

disk_dir_create_entry(m, d) == Drop(fat32_dir_create_entry(Hold(m, d)), d)

disk_fs_request(m, mounted, d, type) ==
  IF Found(mounted, d) THEN Drop(fat32_request(Hold(m, d), type), d) ELSE Return(m, -1)

\* fat32_format frees the old file system and ends with fat32_check, which
\* allocates the new one; disk_format checks again and the first is lost.
Reformat(m, wasMounted) ==
  LET gone == IF wasMounted THEN Free(Malloc(m, "fs"), "fs") ELSE m
  IN  Return(Malloc(gone, "first fs"), 0)
=============================================================================
