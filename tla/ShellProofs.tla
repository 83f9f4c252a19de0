----------------------------- MODULE ShellProofs ----------------------------
(***************************************************************************)
(* What is proved of Shell, for any number of disks, any names, any image  *)
(* and paths of any depth.                                                 *)
(***************************************************************************)
EXTENDS Shell, FoldLemmas

\* The record of a call, by its parts.
Made(r, l, h, v) == [ref |-> r, live |-> l, halt |-> h, ret |-> v]

\* A disk is held, and dropped.
Plus(r, d) == [r EXCEPT ![d] = @ + 1]
Minus(r, d) == [r EXCEPT ![d] = @ - 1]

\* What the steps of disk.c and fat32.c do to the parts.
LEMMA Steps ==
  ASSUME NEW r, NEW l, NEW h, NEW v
  PROVE  /\ \A b : Malloc(Made(r, l, h, v), b) = Made(r, l \cup {b}, h, v)
         /\ \A b : b \in l => Free(Made(r, l, h, v), b) = Made(r, l \ {b}, h, v)
         /\ \A w : Return(Made(r, l, h, v), w) = Made(r, l, h, w)
         /\ \A d : Hold(Made(r, l, h, v), d) = Made(Plus(r, d), l, h, v)
         /\ \A d : Drop(Made(r, l, h, v), d) = Made(Minus(r, d), l, h, v)
         /\ Made(r, l, h, v).ref = r /\ Made(r, l, h, v).live = l
         /\ Made(r, l, h, v).halt = h /\ Made(r, l, h, v).ret = v
BY DEF Made, Malloc, Free, Return, Hold, Drop, Plus, Minus

\* A disk that was held and dropped is as it was.
LEMMA HeldDropped ==
  ASSUME NEW r \in [Disks -> Int], NEW d \in Disks
  PROVE  Minus(Plus(r, d), d) = r
<1> DEFINE q == [[r EXCEPT ![d] = @ + 1] EXCEPT ![d] = @ - 1]
<1>1. DOMAIN q = Disks /\ DOMAIN r = Disks /\ q = [e \in Disks |-> q[e]] /\ r = [e \in Disks |-> r[e]]
  OBVIOUS
<1>2. \A e \in Disks : q[e] = r[e]
  OBVIOUS
<1> HIDE DEF q
<1>3. q = r
  BY <1>1, <1>2
<1> QED BY <1>3 DEF q, Plus, Minus

\* Loading a directory leaves the block of its entries and no other.
LEMMA Loaded ==
  ASSUME NEW r, NEW l, NEW h, NEW v, NEW b, NEW kind, kind # "empty",
         {"fs_file", "dir.blocklist"} \cap (l \cup {b}) = {}
  PROVE  LoadEntries(Made(r, l, h, v), b, kind) = Made(r, l \cup {b}, h, 0)
<1> DEFINE l1 == l \cup {"fs_file"}
           l2 == l1 \cup {"dir.blocklist"}
           l3 == l2 \cup {b}
           l4 == l3 \ {"dir.blocklist"}
           l5 == l4 \ {"fs_file"}
<1>1. "dir.blocklist" \in l3 /\ "fs_file" \in l4 /\ l5 = l \cup {b}
  OBVIOUS
<1> HIDE DEF l1, l2, l3, l4, l5
<1>2. Malloc(Malloc(Made(r, l, h, v), "fs_file"), "dir.blocklist") = Made(r, l2, h, v)
  <2>1. Malloc(Made(r, l, h, v), "fs_file") = Made(r, l1, h, v)
    BY Steps DEF l1
  <2>2. Malloc(Made(r, l1, h, v), "dir.blocklist") = Made(r, l2, h, v)
    BY Steps DEF l2
  <2> QED BY <2>1, <2>2
<1>3. Malloc(Made(r, l2, h, v), b) = Made(r, l3, h, v)
  BY Steps DEF l3
<1>4. Free(Made(r, l3, h, v), "dir.blocklist") = Made(r, l4, h, v)
  BY <1>1, Steps DEF l4
<1>5. Free(Made(r, l4, h, v), "fs_file") = Made(r, l5, h, v)
  BY <1>1, Steps DEF l5
<1>6. Return(Made(r, l5, h, v), 0) = Made(r, l5, h, 0)
  BY Steps
<1> QED BY <1>1, <1>2, <1>3, <1>4, <1>5, <1>6 DEF LoadEntries

\* Without a cluster it fails the ASSERT of bitmap_free.
LEMMA NotLoaded ==
  ASSUME NEW r, NEW l, NEW h, NEW v, NEW b, "fs_file" \notin l
  PROVE  LoadEntries(Made(r, l, h, v), b, "empty") = Made(r, l, TRUE, -1)
<1> DEFINE l1 == l \cup {"fs_file"}
<1>1. "fs_file" \in l1 /\ l1 \ {"fs_file"} = l
  OBVIOUS
<1> HIDE DEF l1
<1>2. Malloc(Made(r, l, h, v), "fs_file") = Made(r, l1, h, v)
  BY Steps DEF l1
<1>3. Free(Made(r, l1, h, v), "fs_file") = Made(r, l, h, v)
  BY <1>1, Steps
<1>4. PICK h1 : h1 = TRUE
  OBVIOUS
<1>5. Free(Made(r, l, h, v), "fs_file") = Made(r, l, h1, v)
  <2>1. Made(r, l, h, v).live = l
    BY Steps
  <2>2. [Made(r, l, h, v) EXCEPT !.halt = h1] = Made(r, l, h1, v)
    BY DEF Made
  <2>3. Free(Made(r, l, h, v), "fs_file") = [Made(r, l, h, v) EXCEPT !.halt = h1]
    BY <1>4, <2>1, Zenon DEF Free
  <2> QED BY <2>2, <2>3
<1>6. Return(Made(r, l, h1, v), -1) = Made(r, l, h1, -1)
  BY Steps
<1>7. LoadEntries(Made(r, l, h, v), b, "empty") = Made(r, l, h1, -1)
  BY <1>2, <1>3, <1>5, <1>6 DEF LoadEntries
<1> QED BY <1>4, <1>7

\* fat32_dir_close frees the entries, if there are any.
LEMMA DirClosed ==
  ASSUME NEW r, NEW l, NEW h, NEW v
  PROVE  fat32_dir_close(Made(r, l, h, v)) = Made(r, l \ {"entries"}, h, v)
<1>1. CASE "entries" \in l
  BY <1>1, Steps DEF fat32_dir_close
<1>2. CASE "entries" \notin l
  <2>1. l \ {"entries"} = l
    BY <1>2
  <2>2. Made(r, l, h, v).live = l
    BY Steps
  <2> QED BY <1>2, <2>1, <2>2 DEF fat32_dir_close
<1> QED BY <1>1, <1>2

\* The two states of the loop of fat32_dir_open: found so far, or not.
Opening(r, l, h, ok) ==
  Made(r, IF ok THEN l \cup {"entries"} ELSE l, h, IF ok THEN 0 ELSE -1)

DirBlocks == {"fs_file", "dir.blocklist", "subdir.entries", "entries"}

\* A step of the loop goes from one to the other; an entry without a cluster
\* halts.
LEMMA SubdirStep ==
  ASSUME NEW r, NEW l, NEW h \in BOOLEAN, NEW ok \in BOOLEAN, NEW kind,
         l \cap DirBlocks = {}
  PROVE  SubdirOpen(Opening(r, l, h, ok), kind)
           = Opening(r, l, h \/ (ok /\ kind = "empty"), ok /\ HasClusters(kind))
<1> DEFINE le == l \cup {"entries"}
           ls == le \cup {"subdir.entries"}
           h1 == h \/ (ok /\ kind = "empty")
           ok1 == ok /\ HasClusters(kind)
<1>1. /\ {"fs_file", "dir.blocklist"} \cap (le \cup {"subdir.entries"}) = {}
      /\ "fs_file" \notin le
      /\ ((ls \ {"entries"}) \ {"subdir.entries"}) \cup {"entries"} = le
      /\ le \ {"entries"} = l
  BY DEF DirBlocks
<1> HIDE DEF le, ls
<1>2. CASE ~ ok
  <2>1. h1 = h /\ ok1 = FALSE /\ ok = FALSE
    BY <1>2
  <2> HIDE DEF h1, ok1
  <2>2. Opening(r, l, h, ok) = Made(r, l, h, -1) /\ Opening(r, l, h1, ok1) = Made(r, l, h, -1)
    BY <2>1 DEF Opening
  <2>3. Made(r, l, h, -1).ret < 0
    BY Steps
  <2>4. SubdirOpen(Opening(r, l, h, ok), kind) = Opening(r, l, h1, ok1)
    BY <2>2, <2>3 DEF SubdirOpen
  <2> QED BY <2>4 DEF h1, ok1
<1>3. CASE ok /\ HasClusters(kind)
  <2>1. h1 = h /\ ok1 = TRUE /\ ok = TRUE /\ kind # "none" /\ kind # "empty"
    BY <1>3 DEF HasClusters
  <2> HIDE DEF h1, ok1
  <2>2. Opening(r, l, h, ok) = Made(r, le, h, 0) /\ Opening(r, l, h1, ok1) = Made(r, le, h, 0)
    BY <2>1 DEF Opening, le
  <2>3. ~ (Made(r, le, h, 0).ret < 0) /\ ~ (Made(r, ls, h, 0).ret < 0)
    BY Steps
  <2>4. LoadEntries(Made(r, le, h, 0), "subdir.entries", kind) = Made(r, ls, h, 0)
    BY <1>1, <2>1, Loaded DEF ls
  <2>5. fat32_dir_close(Made(r, ls, h, 0)) = Made(r, ls \ {"entries"}, h, 0)
    BY DirClosed
  <2>6. [Made(r, ls \ {"entries"}, h, 0) EXCEPT !.live = (@ \ {"subdir.entries"}) \cup {"entries"}]
          = Made(r, le, h, 0)
    BY <1>1 DEF Made
  <2>7. SubdirOpen(Opening(r, l, h, ok), kind) = Opening(r, l, h1, ok1)
    BY <2>1, <2>2, <2>3, <2>4, <2>5, <2>6 DEF SubdirOpen
  <2> QED BY <2>7 DEF h1, ok1
<1>4. CASE ok /\ kind = "none"
  <2>1. h1 = h /\ ok1 = FALSE /\ ok = TRUE
    BY <1>4 DEF HasClusters
  <2> HIDE DEF h1, ok1
  <2>2. Opening(r, l, h, ok) = Made(r, le, h, 0) /\ Opening(r, l, h1, ok1) = Made(r, l, h, -1)
    BY <2>1 DEF Opening, le
  <2>3. ~ (Made(r, le, h, 0).ret < 0)
    BY Steps
  <2>4. fat32_dir_close(Made(r, le, h, 0)) = Made(r, l, h, 0)
    BY <1>1, DirClosed
  <2>5. Return(Made(r, l, h, 0), -1) = Made(r, l, h, -1)
    BY Steps
  <2>6. SubdirOpen(Opening(r, l, h, ok), kind) = Opening(r, l, h1, ok1)
    BY <1>4, <2>2, <2>3, <2>4, <2>5 DEF SubdirOpen
  <2> QED BY <2>6 DEF h1, ok1
<1>5. CASE ok /\ kind = "empty"
  <2>1. h1 = TRUE /\ ok1 = FALSE /\ ok = TRUE
    BY <1>5 DEF HasClusters
  <2> HIDE DEF h1, ok1
  <2>2. Opening(r, l, h, ok) = Made(r, le, h, 0) /\ Opening(r, l, h1, ok1) = Made(r, l, h1, -1)
    BY <2>1 DEF Opening, le
  <2>3. ~ (Made(r, le, h, 0).ret < 0) /\ Made(r, le, h1, -1).ret < 0
    BY Steps
  <2>4. LoadEntries(Made(r, le, h, 0), "subdir.entries", "empty") = Made(r, le, h1, -1)
    BY <1>1, <2>1, NotLoaded
  <2>5. fat32_dir_close(Made(r, le, h1, -1)) = Made(r, l, h1, -1)
    BY <1>1, DirClosed
  <2>6. kind # "none"
    BY <1>5
  <2>7. SubdirOpen(Opening(r, l, h, ok), kind) = Opening(r, l, h1, ok1)
    BY <1>5, <2>2, <2>3, <2>4, <2>5, <2>6 DEF SubdirOpen
  <2> QED BY <2>7 DEF h1, ok1
<1>6. ok => HasClusters(kind) \/ kind = "none" \/ kind = "empty"
  BY DEF HasClusters
<1> QED BY <1>2, <1>3, <1>4, <1>5, <1>6

Subdirs(b, s) == FoldLeft(SubdirOpen, b, s)

\* The fold of SubdirOpen, from b over s, at a set of positions.
SubdirEqn(f, b, s) ==
  f = [X \in SUBSET DOMAIN s |->
         IF X = {} THEN b ELSE SubdirOpen(f[X \ {Max(X)}], s[Max(X)])]

\* g has, at 1..k, the call after k steps of the loop.
SubdirRun(g, b, n, s) ==
  /\ g[1..0] = b
  /\ \A k \in 1..n : g[1..k] = SubdirOpen(g[1..k - 1], s[k])
  /\ Subdirs(b, s) = g[1..n]

\* The loop is a trace of its steps, where they stay within some set T.
LEMMA SubdirTrace ==
  ASSUME NEW T, NEW K, NEW b \in T, NEW n \in Nat, NEW s \in [1..n -> K],
         \A t \in T, x \in K : SubdirOpen(t, x) \in T
  PROVE  \E g : SubdirRun(g, b, n, s)
<1> DEFINE h == [p \in T \X K |-> SubdirOpen(p[1], p[2])]
<1>1. h \in [T \X K -> T]
  OBVIOUS
<1>2. \A t \in T, x \in K : h[<<t, x>>] = SubdirOpen(t, x)
  OBVIOUS
<1>3. DOMAIN s = 1..n
  OBVIOUS
<1> HIDE DEF h
<1>4. PICK f \in [SUBSET (1..n) -> T] : FoldEqn(f, h, b, n, s)
  BY <1>1, FoldExists
<1>5. SubdirEqn(f, b, s)
  <2>1. ASSUME NEW X \in SUBSET (1..n), X # {}
        PROVE  SubdirOpen(f[X \ {Max(X)}], s[Max(X)]) = h[<<f[X \ {Max(X)}], s[Max(X)]>>]
    <3>1. Max(X) \in 1..n /\ X \ {Max(X)} \in SUBSET (1..n)
      BY <2>1, MaxIs
    <3> QED BY <1>2, <3>1
  <2> QED BY <1>3, <1>4, <2>1 DEF FoldEqn, SubdirEqn
<1>6. PICK g : g = CHOOSE q : SubdirEqn(q, b, s)
  OBVIOUS
<1>7. SubdirEqn(g, b, s)
  BY <1>5, <1>6, Zenon
<1>8. Subdirs(b, s) = g[1..n]
  <2>1. g = CHOOSE q : q = [X \in SUBSET DOMAIN s |->
              IF X = {} THEN b ELSE SubdirOpen(q[X \ {Max(X)}], s[Max(X)])]
    BY <1>6 DEF SubdirEqn
  <2> QED BY <1>3, <2>1 DEF Subdirs, FoldLeft, MapThenFoldSet
<1>9. g[1..0] = b
  <2>1. 1..0 = {} /\ {} \in SUBSET (1..n)
    OBVIOUS
  <2> QED BY <1>3, <1>7, <2>1 DEF SubdirEqn
<1>10. ASSUME NEW k \in 1..n PROVE g[1..k] = SubdirOpen(g[1..k - 1], s[k])
  <2>1. 1..k \in SUBSET (1..n) /\ k \in 1..k
    OBVIOUS
  <2>2. Max(1..k) = k
    <3>1. \A y \in 1..k : k >= y
      OBVIOUS
    <3> QED BY <2>1, <3>1, MaxUnique
  <2>3. (1..k) \ {k} = 1..k - 1
    OBVIOUS
  <2> QED BY <1>3, <1>7, <2>1, <2>2, <2>3 DEF SubdirEqn
<1> QED BY <1>8, <1>9, <1>10 DEF SubdirRun

\* Every entry on the way has clusters.
Way(X, names) == \A n \in 1..Len(names) : HasClusters(EntriesTo(X, names)[n])

\* The way leads to an entry that has none.
Hits(X, names) ==
  \E n \in 1..Len(names) :
    /\ EntriesTo(X, names)[n] = "empty"
    /\ \A j \in 1..n - 1 : HasClusters(EntriesTo(X, names)[j])

\* fat32_dir_open returns 0, with the entries of the directory in memory, if
\* all entries on the way have clusters, and otherwise -1, and halts where one
\* has none.  Its fs_dir stays allocated either way, and no other block does.
LEMMA DirOpened ==
  ASSUME NEW r, NEW l, NEW h \in BOOLEAN, NEW v, NEW X, NEW A, NEW names \in Seq(A),
         l \cap DirBlocks = {},
         NEW halts \in BOOLEAN, halts <=> h \/ Hits(X, names),
         NEW found \in BOOLEAN, found <=> Way(X, names)
  PROVE  fat32_dir_open(Made(r, l, h, v), X, names)
           = Opening(r, l \cup {"fs_dir"}, halts, found)
<1> DEFINE L == l \cup {"fs_dir"}
           T == {Opening(r, L, TRUE, TRUE), Opening(r, L, TRUE, FALSE),
                  Opening(r, L, FALSE, TRUE), Opening(r, L, FALSE, FALSE)}
           s == EntriesTo(X, names)
           ok(k) == \A j \in 1..k : HasClusters(s[j])
           hit(k) == h \/ \E n \in 1..k : s[n] = "empty" /\ ok(n - 1)
           K == {s[n] : n \in 1..Len(names)}
<1>1. L \cap DirBlocks = {}
  BY DEF DirBlocks
<1>2. PICK N \in Nat : N = Len(names)
  OBVIOUS
<1>3. s \in [1..N -> K]
  <2>1. s = [n \in 1..N |-> EntryAt(X, SubSeq(names, 1, n))]
    BY <1>2 DEF EntriesTo
  <2> HIDE DEF s
  <2> QED BY <1>2, <2>1
<1>a. ASSUME NEW b \in BOOLEAN, NEW o \in BOOLEAN PROVE Opening(r, L, b, o) \in T
  <2> HIDE DEF L
  <2> QED OBVIOUS
<1>4. \A t \in T, x \in K : SubdirOpen(t, x) \in T
  <2>1. ASSUME NEW b \in BOOLEAN, NEW o \in BOOLEAN, NEW x \in K
        PROVE  SubdirOpen(Opening(r, L, b, o), x) \in T
    <3>1. PICK b1, o1 : b1 = (b \/ (o /\ x = "empty")) /\ o1 = (o /\ HasClusters(x))
      OBVIOUS
    <3>2. b1 \in BOOLEAN /\ o1 \in BOOLEAN
      BY <3>1
    <3>3. SubdirOpen(Opening(r, L, b, o), x) = Opening(r, L, b1, o1)
      <4>1. SubdirOpen(Opening(r, L, b, o), x)
              = Opening(r, L, b \/ (o /\ x = "empty"), o /\ HasClusters(x))
        BY <1>1, SubdirStep
      <4> QED BY <3>1, <4>1, Zenon
    <3> HIDE DEF T
    <3> QED BY <1>a, <3>2, <3>3
  <2>2. TRUE \in BOOLEAN /\ FALSE \in BOOLEAN
    OBVIOUS
  <2> HIDE DEF L, K
  <2> QED BY <2>1, <2>2, Zenon
<1>5. LoadEntries(Malloc(Made(r, l, h, v), "fs_dir"), "entries", "dir") = Opening(r, L, h, TRUE)
  <2>1. Malloc(Made(r, l, h, v), "fs_dir") = Made(r, L, h, v)
    BY Steps
  <2>2. {"fs_file", "dir.blocklist"} \cap (L \cup {"entries"}) = {}
    BY <1>1 DEF DirBlocks
  <2>3. LoadEntries(Made(r, L, h, v), "entries", "dir") = Made(r, L \cup {"entries"}, h, 0)
    BY <2>2, Loaded
  <2> QED BY <2>1, <2>3 DEF Opening
<1> HIDE DEF L, s, K
<1>6. PICK g : SubdirRun(g, Opening(r, L, h, TRUE), N, s)
  <2>1. Opening(r, L, h, TRUE) \in T
    BY <1>a
  <2> HIDE DEF T
  <2> QED BY <1>3, <1>4, <2>1, SubdirTrace
<1> DEFINE P(k) == k <= N => g[1..k] = Opening(r, L, hit(k), ok(k))
           Q == {k \in Nat : P(k)}
<1>7. P(0)
  <2>1. 1..0 = {}
    OBVIOUS
  <2>2. ok(0) /\ (hit(0) <=> h)
    BY <2>1
  <2>3. ok(0) \in BOOLEAN /\ hit(0) \in BOOLEAN
    BY Zenon
  <2> HIDE DEF ok, hit
  <2>4. ok(0) = TRUE /\ hit(0) = h
    BY <2>2, <2>3
  <2>5. g[1..0] = Opening(r, L, h, TRUE)
    BY <1>6 DEF SubdirRun
  <2> QED BY <2>4, <2>5, Zenon
<1>8. ASSUME NEW k \in Nat, P(k) PROVE P(k + 1)
  <2>b. hit(k) \in BOOLEAN /\ ok(k) \in BOOLEAN /\ ok(k + 1) \in BOOLEAN /\ hit(k + 1) \in BOOLEAN
    BY Zenon
  <2>a. 1..k + 1 = (1..k) \cup {k + 1} /\ (k + 1) - 1 = k
    OBVIOUS
  <2>c. (ok(k) /\ HasClusters(s[k + 1])) <=> ok(k + 1)
    BY <2>a, Zenon
  <2>d. (hit(k) \/ (ok(k) /\ s[k + 1] = "empty")) <=> hit(k + 1)
    <3> HIDE DEF ok
    <3> QED BY <2>a, Zenon
  <2> HIDE DEF ok, hit
  <2> SUFFICES ASSUME k + 1 <= N PROVE g[1..k + 1] = Opening(r, L, hit(k + 1), ok(k + 1))
    OBVIOUS
  <2>1. k + 1 \in 1..N /\ (k + 1) - 1 = k /\ g[1..k] = Opening(r, L, hit(k), ok(k))
    BY <1>8
  <2>2. g[1..k + 1] = SubdirOpen(Opening(r, L, hit(k), ok(k)), s[k + 1])
    BY <1>6, <2>1 DEF SubdirRun
  <2>3. (ok(k) /\ HasClusters(s[k + 1])) = ok(k + 1)
    BY <2>b, <2>c, Zenon
  <2>4. (hit(k) \/ (ok(k) /\ s[k + 1] = "empty")) = hit(k + 1)
    BY <2>b, <2>d, Zenon
  <2> QED BY <1>1, <2>b, <2>2, <2>3, <2>4, SubdirStep
<1> HIDE DEF P
<1>9. P(N)
  <2>1. 0 \in Q /\ \A k \in Nat : k \in Q => k + 1 \in Q
    BY <1>7, <1>8
  <2>2. N \in Q
    <3> HIDE DEF Q
    <3> QED BY <2>1, NatSet
  <2> QED BY <2>2
<1>10. g[1..N] = Opening(r, L, hit(N), ok(N))
  <2> HIDE DEF ok, hit
  <2>1. N <= N
    OBVIOUS
  <2> QED BY <1>9, <2>1 DEF P
<1>11. ok(N) = found /\ hit(N) = halts
  <2>1. (ok(N) <=> found) /\ (hit(N) <=> halts)
    BY <1>2, Zenon DEF s, Way, Hits
  <2>2. ok(N) \in BOOLEAN /\ hit(N) \in BOOLEAN
    BY Zenon
  <2> HIDE DEF ok, hit
  <2> QED BY <2>1, <2>2, Zenon
<1>12. fat32_dir_open(Made(r, l, h, v), X, names) = g[1..N]
  BY <1>5, <1>6 DEF SubdirRun, fat32_dir_open, Subdirs, s
<1> HIDE DEF ok, hit
<1> QED BY <1>10, <1>11, <1>12 DEF L

\* Where all entries on the way have clusters, none has none.
LEMMA WayHitsNone ==
  ASSUME NEW X, NEW names, Way(X, names)
  PROVE  ~ Hits(X, names)
BY DEF Way, Hits, HasClusters

-----------------------------------------------------------------------------
(* The forwarders of disk.c, from a call with no reference left behind.    *)

\* What Opens says, of any set of mounted disks and any trees.
OpensIn(M, t, d, names) ==
  d \in M /\ Way(t[d], names)

\* disk_dir_open.
LEMMA DiskDirOpened ==
  ASSUME NEW r \in [Disks -> Int], NEW h \in BOOLEAN, NEW v, NEW M \in SUBSET Disks, NEW t,
         NEW d, NEW A, NEW names \in Seq(A),
         NEW halts \in BOOLEAN, halts <=> h \/ Hits(t[d], names)
  PROVE  disk_dir_open(Made(r, {}, h, v), M, t, [disk |-> d, names |-> names]) =
           IF OpensIn(M, t, d, names) THEN Made(r, {"fs_dir", "entries"}, h, 0)
           ELSE IF d \in M THEN Made(r, {"fs_dir"}, halts, -1)
           ELSE Made(r, {}, h, -1)
<1>1. CASE d \in M
  <2> DEFINE q == Plus(r, d)
             ok == Way(t[d], names)
             h1 == h \/ Hits(t[d], names)
             l == IF ok THEN {"fs_dir", "entries"} ELSE {"fs_dir"}
             w == IF ok THEN 0 ELSE -1
  <2>1. Hold(Made(r, {}, h, v), d) = Made(q, {}, h, v)
    BY Steps
  <2>2. Minus(q, d) = r
    BY <1>1, HeldDropped
  <2>h. ok => h1 = h
    BY WayHitsNone
  <2> HIDE DEF q
  <2>3. fat32_dir_open(Made(q, {}, h, v), t[d], names) = Made(q, l, h1, w)
    <3>1. fat32_dir_open(Made(q, {}, h, v), t[d], names) = Opening(q, {} \cup {"fs_dir"}, h1, ok)
      <4>1. PICK e, X : e = {} /\ X = t[d]
        OBVIOUS
      <4>2. e \cap DirBlocks = {}
        BY <4>1
      <4>3. PICK hh \in BOOLEAN, o \in BOOLEAN : (hh <=> h \/ Hits(X, names)) /\ (o <=> Way(X, names))
        OBVIOUS
      <4>4. fat32_dir_open(Made(q, e, h, v), X, names) = Opening(q, e \cup {"fs_dir"}, hh, o)
        BY <4>2, <4>3, DirOpened
      <4>5. hh = h1 /\ o = ok
        <5>1. h1 \in BOOLEAN /\ ok \in BOOLEAN
          BY Zenon DEF Way
        <5> QED BY <4>1, <4>3, <5>1, Zenon
      <4> QED BY <4>1, <4>4, <4>5
    <3>2. {} \cup {"fs_dir"} = {"fs_dir"} /\ {"fs_dir"} \cup {"entries"} = {"fs_dir", "entries"}
      OBVIOUS
    <3> HIDE DEF ok, h1
    <3>3. CASE ok
      BY <3>1, <3>2, <3>3, Zenon DEF Opening
    <3>4. CASE ~ ok
      BY <3>1, <3>2, <3>4, Zenon DEF Opening
    <3> QED BY <3>3, <3>4
  <2>4. Drop(Made(q, l, h1, w), d) = Made(r, l, h1, w)
    <3> HIDE DEF l, w, h1
    <3> QED BY <2>2, Steps
  <2>5. disk_dir_open(Made(r, {}, h, v), M, t, [disk |-> d, names |-> names]) = Made(r, l, h1, w)
    <3> HIDE DEF l, w, h1
    <3> QED BY <1>1, <2>1, <2>3, <2>4 DEF disk_dir_open, Found
  <2>6. OpensIn(M, t, d, names) <=> ok
    BY <1>1 DEF OpensIn
  <2>i. h1 = halts
    BY Zenon
  <2> HIDE DEF ok, h1
  <2>7. CASE ok
    BY <1>1, <2>h, <2>5, <2>6, <2>7
  <2>8. CASE ~ ok
    BY <1>1, <2>i, <2>5, <2>6, <2>8
  <2> QED BY <2>7, <2>8
<1>2. CASE d \notin M
  BY <1>2, Steps DEF disk_dir_open, Found, OpensIn
<1> QED BY <1>1, <1>2

\* disk_dir_close.
LEMMA DiskDirClosed ==
  ASSUME NEW r \in [Disks -> Int], NEW l, NEW h, NEW v, NEW d \in Disks, "fs_dir" \in l
  PROVE  disk_dir_close(Made(r, l, h, v), d) = Made(r, (l \ {"entries"}) \ {"fs_dir"}, h, 0)
<1> DEFINE q == Plus(r, d)
           k == l \ {"entries"}
<1>1. Hold(Made(r, l, h, v), d) = Made(q, l, h, v)
  BY Steps
<1>2. Minus(q, d) = r
  BY HeldDropped
<1>3. "fs_dir" \in k
  OBVIOUS
<1>4. fat32_dir_close(Made(q, l, h, v)) = Made(q, k, h, v)
  BY DirClosed
<1> HIDE DEF q, k
<1>5. Return(Made(q, k, h, v), 0) = Made(q, k, h, 0)
  BY Steps
<1>6. Drop(Made(q, k, h, 0), d) = Made(r, k, h, 0)
  BY <1>2, Steps
<1>7. Free(Made(r, k, h, 0), "fs_dir") = Made(r, k \ {"fs_dir"}, h, 0)
  BY <1>3, Steps
<1> QED BY <1>1, <1>4, <1>5, <1>6, <1>7 DEF disk_dir_close, k

\* The transfers, disk_fs_request and fat32_dir_create_entry keep what is
\* allocated.
LEMMA DiskKept ==
  ASSUME NEW r \in [Disks -> Int], NEW l, NEW h, NEW v, NEW d \in Disks,
         "fs_dir_file" \notin l, "dir.blocklist" \notin l
  PROVE  /\ Transfer(Made(r, l, h, v), d) = Made(r, l, h, 0)
         /\ disk_dir_create_entry(Made(r, l, h, v), d) = Made(r, l, h, 0)
<1> DEFINE q == Plus(r, d)
           l1 == l \cup {"fs_dir_file"}
           l2 == l1 \cup {"dir.blocklist"}
           l3 == l2 \ {"dir.blocklist"}
           l4 == l3 \ {"fs_dir_file"}
<1>1. Hold(Made(r, l, h, v), d) = Made(q, l, h, v)
  BY Steps
<1>2. Minus(q, d) = r
  BY HeldDropped
<1>3. "dir.blocklist" \in l2 /\ "fs_dir_file" \in l3 /\ l4 = l
  OBVIOUS
<1> HIDE DEF q, l1, l2, l3, l4
<1>4. Drop(Made(q, l, h, 0), d) = Made(r, l, h, 0)
  BY <1>2, Steps
<1>5. Return(Made(q, l, h, v), 0) = Made(q, l, h, 0)
  BY Steps
<1>6. Malloc(Made(q, l, h, v), "fs_dir_file") = Made(q, l1, h, v)
  BY Steps DEF l1
<1>7. Malloc(Made(q, l1, h, v), "dir.blocklist") = Made(q, l2, h, v)
  BY Steps DEF l2
<1>8. Free(Made(q, l2, h, v), "dir.blocklist") = Made(q, l3, h, v)
  BY <1>3, Steps DEF l3
<1>9. Free(Made(q, l3, h, v), "fs_dir_file") = Made(q, l, h, v)
  BY <1>3, Steps DEF l4
<1>10. fat32_dir_create_entry(Made(q, l, h, v)) = Made(q, l, h, 0)
  BY <1>5, <1>6, <1>7, <1>8, <1>9 DEF fat32_dir_create_entry
<1>11. Transfer(Made(r, l, h, v), d) = Made(r, l, h, 0)
  BY <1>1, <1>4, <1>5 DEF Transfer
<1>12. disk_dir_create_entry(Made(r, l, h, v), d) = Made(r, l, h, 0)
  BY <1>1, <1>4, <1>10 DEF disk_dir_create_entry
<1> QED BY <1>11, <1>12

\* A request changes nothing but what is returned.
LEMMA Requested ==
  ASSUME NEW r \in [Disks -> Int], NEW l, NEW h, NEW v, NEW d,
         NEW M \in SUBSET Disks, NEW type
  PROVE  disk_fs_request(Made(r, l, h, v), M, d, type)
           = Made(r, l, h, IF d \in M /\ type = "size" THEN 0 ELSE -1)
<1> DEFINE q == Plus(r, d)
           w == IF type = "size" THEN 0 ELSE -1
<1>1. CASE d \in M
  <2>1. Hold(Made(r, l, h, v), d) = Made(q, l, h, v)
    BY Steps
  <2>2. Minus(q, d) = r
    BY <1>1, HeldDropped
  <2> HIDE DEF q
  <2>3. fat32_request(Made(q, l, h, v), type) = Made(q, l, h, w)
    BY Steps DEF fat32_request
  <2>4. Drop(Made(q, l, h, w), d) = Made(r, l, h, w)
    <3> HIDE DEF w
    <3> QED BY <2>2, Steps
  <2>5. w = IF d \in M /\ type = "size" THEN 0 ELSE -1
    BY <1>1
  <2> HIDE DEF w
  <2> QED BY <1>1, <2>1, <2>3, <2>4, <2>5 DEF disk_fs_request, Found
<1>2. CASE d \notin M
  BY <1>2, Steps DEF disk_fs_request, Found
<1> QED BY <1>1, <1>2

\* What an open file holds; without a cluster it has no list of blocks.
FileBlocks(kind) == IF kind = "empty" THEN {"file"} ELSE {"file", "blocklist"}

\* What disk_file_open may return, in the directory names.
FileOpening(r, h, v, M, t, d, names, full) ==
  LET m == disk_file_open(Made(r, {}, h, v), M, t, [disk |-> d, names |-> full])
      good == OpensIn(M, t, d, names) /\ EntryAt(t[d], full) # "none"
  IN  /\ good => m = Made(r, FileBlocks(EntryAt(t[d], full)), h, 0)
      /\ ~ good => m = Made(r, {}, h, -1)

\* disk_file_open leaves the file and its list of blocks, or nothing.
LEMMA DiskFileOpened ==
  ASSUME NEW r \in [Disks -> Int], NEW h \in BOOLEAN, NEW v, NEW M \in SUBSET Disks, NEW t,
         NEW d, NEW A, NEW names \in Seq(A), NEW full, Front(full) = names,
         d \in M => ~ Hits(t[d], names)
  PROVE  FileOpening(r, h, v, M, t, d, names, full)
<1>1. Front(full) = names
  OBVIOUS
<1>2. CASE d \in M
  <2>a. PICK X : X = t[d] /\ ~ Hits(X, names)
    BY <1>2
  <2>b. PICK ok \in BOOLEAN : ok <=> Way(X, names)
    BY Zenon
  <2>0. X = t[d] /\ (ok <=> Way(X, names)) /\ ~ Hits(X, names)
    BY <2>a, <2>b
  <2> DEFINE q == Plus(r, d)
             l == {"fs_dir_entry", "file"}
             kind == EntryAt(X, full)
             begun == Malloc(Malloc(Made(q, {}, h, v), "fs_dir_entry"), "file")
             dir == fat32_dir_open(begun, X, names)
             closed == IF dir.ret < 0 THEN dir ELSE fat32_dir_close(dir)
             opened == IF dir.ret < 0 \/ kind = "none"
                       THEN Return(Free(closed, "file"), -1)
                       ELSE Return(IF kind = "empty" THEN closed
                                   ELSE Malloc(closed, "blocklist"), 0)
  <2>1. Hold(Made(r, {}, h, v), d) = Made(q, {}, h, v)
    BY Steps
  <2>2. Minus(q, d) = r
    BY <1>2, HeldDropped
  <2> HIDE DEF q
  <2>3. begun = Made(q, l, h, v)
    <3>1. Malloc(Made(q, {}, h, v), "fs_dir_entry") = Made(q, {"fs_dir_entry"}, h, v)
      <4>1. {} \cup {"fs_dir_entry"} = {"fs_dir_entry"}
        OBVIOUS
      <4> QED BY <4>1, Steps
    <3>2. Malloc(Made(q, {"fs_dir_entry"}, h, v), "file") = Made(q, l, h, v)
      <4>1. {"fs_dir_entry"} \cup {"file"} = l
        OBVIOUS
      <4> HIDE DEF l
      <4> QED BY <4>1, Steps
    <3> QED BY <3>1, <3>2
  <2>4. dir = Opening(q, l \cup {"fs_dir"}, h, ok)
    <3>1. l \cap DirBlocks = {}
      BY DEF DirBlocks
    <3>2. h <=> h \/ Hits(X, names)
      BY <2>0
    <3> HIDE DEF l, begun
    <3> QED BY <2>0, <2>3, <3>1, <3>2, DirOpened
  <2>5. closed = Made(q, l \cup {"fs_dir"}, h, IF ok THEN 0 ELSE -1) /\ (dir.ret < 0 <=> ~ ok)
    <3> DEFINE lf == l \cup {"fs_dir"}
               le == lf \cup {"entries"}
    <3>1. le \ {"entries"} = lf
      OBVIOUS
    <3> HIDE DEF lf, l, dir
    <3>2. CASE ok
      <4>1. dir = Made(q, le, h, 0)
        BY <2>4, <3>2 DEF Opening, lf
      <4>2. dir.ret = 0
        BY <4>1, Steps
      <4>3. fat32_dir_close(dir) = Made(q, lf, h, 0)
        BY <3>1, <4>1, DirClosed
      <4> QED BY <3>2, <4>2, <4>3 DEF lf
    <3>3. CASE ~ ok
      <4>1. dir = Made(q, lf, h, -1)
        BY <2>4, <3>3 DEF Opening, lf
      <4>2. dir.ret = -1
        BY <4>1, Steps
      <4> QED BY <3>3, <4>1, <4>2 DEF lf
    <3> QED BY <3>2, <3>3
  <2> DEFINE good == ok /\ kind # "none"
             end == IF good THEN FileBlocks(kind) ELSE {}
             lo == end \cup {"fs_dir_entry", "fs_dir"}
             w == IF good THEN 0 ELSE -1
  <2>6. opened = Made(q, lo, h, w)
    <3> DEFINE lf == l \cup {"fs_dir"}
               v1 == IF ok THEN 0 ELSE -1
    <3>1. /\ lf \cup {"blocklist"} = {"file", "blocklist"} \cup {"fs_dir_entry", "fs_dir"}
          /\ lf = {"file"} \cup {"fs_dir_entry", "fs_dir"}
          /\ lf \ {"file"} = {} \cup {"fs_dir_entry", "fs_dir"} /\ "file" \in lf
      OBVIOUS
    <3>2. closed = Made(q, lf, h, v1) /\ (dir.ret < 0 <=> ~ ok)
      BY <2>5
    <3> HIDE DEF lf, v1, kind, closed, dir
    <3>3. CASE good /\ kind # "empty"
      <4>1. lo = lf \cup {"blocklist"} /\ w = 0
        BY <3>1, <3>3 DEF FileBlocks
      <4>2. Malloc(Made(q, lf, h, v1), "blocklist") = Made(q, lf \cup {"blocklist"}, h, v1)
        BY Steps
      <4>3. Return(Made(q, lf \cup {"blocklist"}, h, v1), 0) = Made(q, lf \cup {"blocklist"}, h, 0)
        BY Steps
      <4> HIDE DEF lo, w
      <4> QED BY <3>2, <3>3, <4>1, <4>2, <4>3
    <3>4. CASE good /\ kind = "empty"
      <4>1. lo = lf /\ w = 0
        BY <3>1, <3>4 DEF FileBlocks
      <4>2. Return(Made(q, lf, h, v1), 0) = Made(q, lf, h, 0)
        BY Steps
      <4> HIDE DEF lo, w
      <4> QED BY <3>2, <3>4, <4>1, <4>2
    <3>5. CASE ~ good
      <4>1. lo = lf \ {"file"} /\ w = -1
        <5>1. end = {} /\ w = -1
          BY <3>5
        <5> HIDE DEF end, w
        <5> QED BY <3>1, <5>1
      <4>2. Free(Made(q, lf, h, v1), "file") = Made(q, lf \ {"file"}, h, v1)
        <5>1. "file" \in lf
          BY <3>1
        <5> QED BY <5>1, Steps
      <4>3. Return(Made(q, lf \ {"file"}, h, v1), -1) = Made(q, lf \ {"file"}, h, -1)
        BY Steps
      <4> HIDE DEF lo, w
      <4> QED BY <3>2, <3>5, <4>1, <4>2, <4>3
    <3> QED BY <3>3, <3>4, <3>5
  <2>7. /\ "fs_dir" \in lo /\ "fs_dir_entry" \in lo \ {"fs_dir"}
        /\ (lo \ {"fs_dir"}) \ {"fs_dir_entry"} = end
    <3>1. end \subseteq {"file", "blocklist"}
      BY DEF FileBlocks
    <3> HIDE DEF end
    <3> QED BY <3>1
  <2> HIDE DEF lo, w, end
  <2>8. Free(Made(q, lo, h, w), "fs_dir") = Made(q, lo \ {"fs_dir"}, h, w)
    BY <2>7, Steps
  <2>9. Free(Made(q, lo \ {"fs_dir"}, h, w), "fs_dir_entry") = Made(q, end, h, w)
    <3>1. PICK l1 : l1 = lo \ {"fs_dir"} /\ "fs_dir_entry" \in l1
      BY <2>7
    <3>2. Free(Made(q, l1, h, w), "fs_dir_entry") = Made(q, l1 \ {"fs_dir_entry"}, h, w)
      <4>1. "fs_dir_entry" \in l1
        BY <3>1
      <4> HIDE DEF dir, closed, opened, begun
      <4> QED BY <4>1, Steps
    <3> QED BY <2>7, <3>1, <3>2
  <2>10. fat32_file_open(Made(q, {}, h, v), X, full) = Made(q, end, h, w)
    <3>1. fat32_file_open(Made(q, {}, h, v), X, full) = Free(Free(opened, "fs_dir"), "fs_dir_entry")
      BY <1>1 DEF fat32_file_open
    <3> HIDE DEF opened
    <3> QED BY <2>6, <2>8, <2>9, <3>1
  <2>11. Drop(Made(q, end, h, w), d) = Made(r, end, h, w)
    BY <2>2, Steps
  <2>12. disk_file_open(Made(r, {}, h, v), M, t, [disk |-> d, names |-> full]) = Made(r, end, h, w)
    BY <1>2, <2>0, <2>1, <2>10, <2>11 DEF disk_file_open, Found
  <2>13. good <=> OpensIn(M, t, d, names) /\ EntryAt(t[d], full) # "none"
    BY <1>2, <2>0 DEF OpensIn
  <2>14. kind = EntryAt(t[d], full)
    BY <2>0
  <2> HIDE DEF good, kind
  <2>15. CASE good
    BY <2>12, <2>13, <2>14, <2>15 DEF end, w, FileOpening
  <2>16. CASE ~ good
    BY <2>12, <2>13, <2>16 DEF end, w, FileOpening
  <2> QED BY <2>15, <2>16
<1>3. CASE d \notin M
  BY <1>3, Steps DEF disk_file_open, Found, OpensIn, FileOpening
<1> QED BY <1>2, <1>3

\* disk_file_close gives back what disk_file_open left.
LEMMA DiskFileClosed ==
  ASSUME NEW r \in [Disks -> Int], NEW h, NEW v, NEW d \in Disks, NEW kind
  PROVE  disk_file_close(Made(r, FileBlocks(kind), h, v), d) = Made(r, {}, h, 0)
<1> DEFINE q == Plus(r, d)
           l == FileBlocks(kind)
<1>1. Hold(Made(r, l, h, v), d) = Made(q, l, h, v)
  BY Steps
<1>2. Minus(q, d) = r
  BY HeldDropped
<1>3. l \ {"blocklist"} = {"file"} /\ "file" \in {"file"} /\ {"file"} \ {"file"} = {}
  BY DEF FileBlocks
<1> HIDE DEF q, l
<1>4. fat32_file_close(Made(q, l, h, v)) = Made(q, {"file"}, h, v)
  <2>1. Made(q, l, h, v).live = l
    BY Steps
  <2>2. CASE "blocklist" \in l
    <3>1. Free(Made(q, l, h, v), "blocklist") = Made(q, {"file"}, h, v)
      BY <1>3, <2>2, Steps
    <3> QED BY <2>1, <2>2, <3>1 DEF fat32_file_close
  <2>3. CASE "blocklist" \notin l
    <3>1. l = {"file"}
      BY <1>3, <2>3
    <3> QED BY <2>1, <2>3, <3>1 DEF fat32_file_close
  <2> QED BY <2>2, <2>3
<1>5. Return(Made(q, {"file"}, h, v), 0) = Made(q, {"file"}, h, 0)
  BY Steps
<1>6. Drop(Made(q, {"file"}, h, 0), d) = Made(r, {"file"}, h, 0)
  BY <1>2, Steps
<1>7. Free(Made(r, {"file"}, h, 0), "file") = Made(r, {}, h, 0)
  BY <1>3, Steps
<1>8. disk_file_close(Made(r, l, h, v), d) = Made(r, {}, h, 0)
  BY <1>1, <1>4, <1>5, <1>6, <1>7 DEF disk_file_close
<1> QED BY <1>8 DEF l

\* A format leaves the file system that fat32_check allocated first.
LEMMA Reformatted ==
  ASSUME NEW r, NEW h, NEW v, NEW was
  PROVE  Reformat(Made(r, {}, h, v), was) = Made(r, {"first fs"}, h, 0)
<1>1. PICK b : b = "first fs"
  OBVIOUS
<1> DEFINE l1 == {} \cup {"fs"}
           l2 == {} \cup {b}
<1>2. "fs" \in l1 /\ l1 \ {"fs"} = {} /\ l2 = {b}
  OBVIOUS
<1> HIDE DEF l1, l2
<1>3. Malloc(Made(r, {}, h, v), "fs") = Made(r, l1, h, v)
  BY Steps DEF l1
<1>4. Free(Made(r, l1, h, v), "fs") = Made(r, {}, h, v)
  BY <1>2, Steps
<1>5. Malloc(Made(r, {}, h, v), b) = Made(r, l2, h, v)
  BY Steps DEF l2
<1>6. Return(Made(r, l2, h, v), 0) = Made(r, l2, h, 0)
  BY Steps
<1>7. Return(Malloc(Made(r, {}, h, v), b), 0) = Made(r, {b}, h, 0)
  BY <1>2, <1>5, <1>6
<1>8. (IF was THEN Free(Malloc(Made(r, {}, h, v), "fs"), "fs") ELSE Made(r, {}, h, v))
        = Made(r, {}, h, v)
  BY <1>3, <1>4
<1> QED BY <1>1, <1>7, <1>8, Zenon DEF Reformat

-----------------------------------------------------------------------------
(* The inductive invariant. *)

Paths == [disk : Disks \cup {NoDisk}, names : Seq(Names)]

ShellTypes ==
  /\ mounted \in SUBSET Disks
  /\ DOMAIN tree = Disks
  /\ path \in Paths
  /\ stale \in BOOLEAN

\* The path's disk was formatted, and nothing on it is without a cluster: a
\* pushf writes what it creates.
StaleClean ==
  stale => path.disk \in mounted /\ \A q : EntryAt(tree[path.disk], q) # "empty"

Kept == path = NullPath \/ Opens(path) \/ stale

\* What a command may leave allocated, and after which command.
LeftFor(l, command, failed) ==
  /\ l # {} => failed \/ command = "format"
  /\ l \subseteq {"fs_dir", "first fs"}

Returned ==
  /\ ref = Registered
  /\ halted => last.command = "cd empty"
  /\ LeftFor(left, last.command, last.failed)

ShellInv == ShellTypes /\ Kept /\ StaleClean /\ Returned

\* No disk has the id of none.
LEMMA NoDiskIsNone == NoDisk \notin Disks /\ Disks \subseteq Nat
<1>1. \A d \in Disks : d \in START..Len(SetToSeq(Disks))
  BY DiskAssumption
<1>2. \A d \in Disks : d \in Int /\ d >= 1
  BY <1>1 DEF START
<1> QED BY <1>2 DEF NoDisk

\* No disk is in use at the start.
LEMMA RegisteredIs == Registered \in [Disks -> Int]
BY DEF Registered

\* A command that leaves nothing, one that fails and leaves its fs_dir, and a
\* format end as they may.
LEMMA LeftCases ==
  /\ \A c, f : LeftFor({}, c, f)
  /\ \A c : LeftFor({"fs_dir"}, c, TRUE)
  /\ \A f : LeftFor({"first fs"}, "format", f)
<1>1. \A c, f : LeftFor({}, c, f)
  BY Zenon DEF LeftFor
<1>2. \A c : LeftFor({"fs_dir"}, c, TRUE)
  BY Zenon DEF LeftFor
<1>3. \A f : LeftFor({"first fs"}, "format", f)
  BY Zenon DEF LeftFor
<1> QED BY <1>1, <1>2, <1>3, Zenon

\* The record of a call that holds no disk and failed no ASSERT.
Quiet(l, v) == Made(Registered, l, FALSE, v)

\* The end of a command, which may have halted if it is "cd empty".
LEMMA DoneHalts ==
  ASSUME ~ halted, NEW l, NEW v, NEW c, NEW f, NEW b \in BOOLEAN, b => c = "cd empty",
         LeftFor(l, c, f), Done(Made(Registered, l, b, v), c, f)
  PROVE  Returned'
<1> DEFINE m == Made(Registered, l, b, v)
<1>1. m.ref = Registered /\ m.live = l /\ m.halt = b
  BY DEF Made
<1> HIDE DEF m
<1>2. /\ ref' = m.ref /\ left' = m.live /\ halted' = (halted \/ m.halt)
      /\ last' = [command |-> c, failed |-> f]
  BY DEF Done, m
<1>3. ref' = Registered /\ left' = l
  BY <1>1, <1>2
<1>4. halted' = (halted \/ b)
  BY <1>1, <1>2
<1>5. last'.command = c /\ last'.failed = f
  BY <1>2
<1>6. LeftFor(left', last'.command, last'.failed)
  BY <1>3, <1>5
<1>7. Registered' = Registered
  BY DEF Registered
<1>8. halted' => last'.command = "cd empty"
  BY <1>4, <1>5
<1> QED BY <1>3, <1>6, <1>7, <1>8 DEF Returned, LeftFor

\* The end of any other.
LEMMA DoneReturns ==
  ASSUME ~ halted, NEW l, NEW v, NEW c, NEW f, LeftFor(l, c, f), Done(Quiet(l, v), c, f)
  PROVE  Returned'
<1>1. PICK b \in BOOLEAN : b = FALSE
  OBVIOUS
<1>2. Done(Made(Registered, l, b, v), c, f)
  BY <1>1 DEF Quiet
<1>3. b => c = "cd empty"
  BY <1>1
<1> QED BY <1>2, <1>3, DoneHalts

\* The record a command starts with.
LEMMA CallIs == ASSUME Returned PROVE Call = Quiet({}, 0)
BY DEF Returned, Call, Quiet, Made

\* Opens, by the parts of the path.
LEMMA OpensIs ==
  ASSUME NEW p, p = [disk |-> p.disk, names |-> p.names]
  PROVE  Opens(p) <=> OpensIn(mounted, tree, p.disk, p.names)
BY DEF Opens, OpensIn, Way

\* A path is its disk and its names.
LEMMA PathParts ==
  ASSUME NEW p \in Paths
  PROVE  /\ p = [disk |-> p.disk, names |-> p.names]
         /\ p.disk \in Disks \cup {NoDisk} /\ p.names \in Seq(Names)
BY DEF Paths

\* The way to a path leads to an entry without a cluster.
Stops(p) == p.disk \in mounted /\ Hits(tree[p.disk], p.names)

\* Opening the directory of a path, from a command's start.
LEMMA OpenAny ==
  ASSUME ShellInv, NEW p \in Paths, NEW v, NEW b \in BOOLEAN, b <=> Stops(p)
  PROVE  disk_dir_open(Quiet({}, v), mounted, tree, p) =
           IF Opens(p) THEN Quiet({"fs_dir", "entries"}, 0)
           ELSE IF p.disk \in mounted THEN Made(Registered, {"fs_dir"}, b, -1)
           ELSE Quiet({}, -1)
<1>1. PICK d, ns : d = p.disk /\ ns = p.names
  OBVIOUS
<1>2. ns \in Seq(Names) /\ p = [disk |-> d, names |-> ns]
  BY <1>1, PathParts
<1>3. mounted \in SUBSET Disks /\ Registered \in [Disks -> Int]
  BY RegisteredIs DEF ShellInv, ShellTypes
<1>4. disk_dir_open(Quiet({}, v), mounted, tree, [disk |-> d, names |-> ns]) =
           IF OpensIn(mounted, tree, d, ns) THEN Quiet({"fs_dir", "entries"}, 0)
           ELSE IF d \in mounted THEN Made(Registered, {"fs_dir"}, b, -1)
           ELSE Quiet({}, -1)
  <2>1. PICK h \in BOOLEAN : h = FALSE
    OBVIOUS
  <2>2. \A l, w : Quiet(l, w) = Made(Registered, l, h, w)
    BY <2>1 DEF Quiet
  <2>3. PICK b1 \in BOOLEAN : b1 <=> h \/ Hits(tree[d], ns)
    BY Zenon
  <2>4. disk_dir_open(Made(Registered, {}, h, v), mounted, tree, [disk |-> d, names |-> ns]) =
             IF OpensIn(mounted, tree, d, ns) THEN Made(Registered, {"fs_dir", "entries"}, h, 0)
             ELSE IF d \in mounted THEN Made(Registered, {"fs_dir"}, b1, -1)
             ELSE Made(Registered, {}, h, -1)
    BY <1>2, <1>3, <2>3, DiskDirOpened
  <2>5. d \in mounted => b1 = b
    <3>1. d \in mounted => (b1 <=> b)
      BY <1>1, <2>1, <2>3, Zenon DEF Stops
    <3> QED BY <3>1, Zenon
  <2> QED BY <2>2, <2>4, <2>5
<1>5. Opens(p) <=> OpensIn(mounted, tree, d, ns)
  BY <1>1, <1>2, OpensIs
<1> QED BY <1>1, <1>2, <1>4, <1>5

\* And of a path that leads to none.
LEMMA OpenCall ==
  ASSUME ShellInv, NEW p \in Paths, NEW v, ~ Stops(p)
  PROVE  disk_dir_open(Quiet({}, v), mounted, tree, p) =
           IF Opens(p) THEN Quiet({"fs_dir", "entries"}, 0)
           ELSE IF p.disk \in mounted THEN Quiet({"fs_dir"}, -1)
           ELSE Quiet({}, -1)
<1>1. PICK b \in BOOLEAN : b = FALSE
  OBVIOUS
<1>2. b <=> Stops(p)
  BY <1>1
<1>3. Quiet({"fs_dir"}, -1) = Made(Registered, {"fs_dir"}, b, -1)
  BY <1>1 DEF Quiet
<1> QED BY <1>2, <1>3, OpenAny

\* The way to a name goes by the way to its directory.
LEMMA WayOfName ==
  ASSUME NEW X, NEW A, NEW ns \in Seq(A), NEW name \in A
  PROVE  /\ Len(Append(ns, name)) = Len(ns) + 1
         /\ \A n \in 1..Len(ns) :
              EntriesTo(X, Append(ns, name))[n] = EntriesTo(X, ns)[n]
         /\ EntriesTo(X, Append(ns, name))[Len(ns) + 1] = EntryAt(X, Append(ns, name))
<1> DEFINE full == Append(ns, name)
<1>1. Len(full) = Len(ns) + 1 /\ Len(ns) \in Nat /\ full \in Seq(A)
  OBVIOUS
<1>2. ASSUME NEW n \in 1..Len(ns) PROVE SubSeq(full, 1, n) = SubSeq(ns, 1, n)
  OBVIOUS
<1>3. SubSeq(full, 1, Len(full)) = full
  OBVIOUS
<1>4. ASSUME NEW n \in 1..Len(ns)
      PROVE  EntriesTo(X, full)[n] = EntriesTo(X, ns)[n]
  <2>1. n \in 1..Len(full)
    BY <1>1
  <2> HIDE DEF full
  <2> QED BY <1>2, <2>1 DEF EntriesTo
<1>5. EntriesTo(X, full)[Len(ns) + 1] = EntryAt(X, full)
  <2>1. Len(full) \in 1..Len(full)
    BY <1>1
  <2> HIDE DEF full
  <2> QED BY <1>1, <1>3, <2>1 DEF EntriesTo
<1> QED BY <1>1, <1>4, <1>5

\* Where it leads to an entry without a cluster, that is the name's, or on the
\* way to the directory.
LEMMA HitsOfName ==
  ASSUME NEW X, NEW A, NEW ns \in Seq(A), NEW name \in A
  PROVE  /\ Hits(X, ns) => Hits(X, Append(ns, name))
         /\ Hits(X, Append(ns, name)) =>
              Hits(X, ns) \/ EntryAt(X, Append(ns, name)) = "empty"
<1>1. PICK full : full = Append(ns, name)
  OBVIOUS
<1>2. PICK e, f : e = EntriesTo(X, ns) /\ f = EntriesTo(X, full)
  OBVIOUS
<1>3. PICK N \in Nat : N = Len(ns)
  OBVIOUS
<1>4. /\ Len(full) = N + 1 /\ \A n \in 1..N : f[n] = e[n]
      /\ f[N + 1] = EntryAt(X, full)
  BY <1>1, <1>2, <1>3, WayOfName
<1>5. Hits(X, ns) <=> \E n \in 1..N : e[n] = "empty" /\ \A j \in 1..n - 1 : HasClusters(e[j])
  BY <1>2, <1>3, Zenon DEF Hits
<1>6. Hits(X, full) <=> \E n \in 1..N + 1 : f[n] = "empty" /\ \A j \in 1..n - 1 : HasClusters(f[j])
  BY <1>2, <1>4, Zenon DEF Hits
<1>7. ASSUME NEW n \in 1..N
      PROVE  n \in 1..N + 1 /\ \A j \in 1..n - 1 : j \in 1..N
  OBVIOUS
<1>8. ASSUME NEW n \in 1..N + 1 PROVE n \in 1..N \/ n = N + 1
  OBVIOUS
<1>9. Hits(X, ns) => Hits(X, full)
  BY <1>4, <1>5, <1>6, <1>7, Zenon
<1>10. Hits(X, full) => Hits(X, ns) \/ EntryAt(X, full) = "empty"
  BY <1>4, <1>5, <1>6, <1>7, <1>8, Zenon
<1> QED BY <1>1, <1>9, <1>10

\* The current path leads to none.
LEMMA PathStopsNot == ASSUME ShellInv PROVE ~ Stops(path)
<1>1. CASE path = NullPath
  BY <1>1, NoDiskIsNone DEF Stops, NullPath, ShellInv, ShellTypes
<1>2. CASE Opens(path)
  BY <1>2, WayHitsNone DEF Stops, Opens, Way
<1>3. CASE stale
  <2>1. \A q : EntryAt(tree[path.disk], q) # "empty"
    BY <1>3 DEF ShellInv, StaleClean
  <2>2. \A n \in 1..Len(path.names) : EntriesTo(tree[path.disk], path.names)[n] # "empty"
    BY <2>1 DEF EntriesTo
  <2> QED BY <2>2, Zenon DEF Stops, Hits
<1> QED BY <1>1, <1>2, <1>3 DEF ShellInv, Kept

\* Closing it leaves nothing, found or not.
LEMMA CloseCall ==
  ASSUME NEW d \in Disks, NEW v
  PROVE  /\ disk_dir_close(Quiet({"fs_dir", "entries"}, v), d)
              = Quiet({}, 0)
         /\ disk_dir_close(Quiet({"fs_dir"}, v), d)
              = Quiet({}, 0)
<1>1. /\ ({"fs_dir", "entries"} \ {"entries"}) \ {"fs_dir"} = {}
      /\ ({"fs_dir"} \ {"entries"}) \ {"fs_dir"} = {}
      /\ "fs_dir" \in {"fs_dir", "entries"} /\ "fs_dir" \in {"fs_dir"}
  OBVIOUS
<1>2. PICK l1, l2 : l1 = {"fs_dir", "entries"} /\ l2 = {"fs_dir"}
  OBVIOUS
<1>3. ASSUME NEW l, "fs_dir" \in l
      PROVE  disk_dir_close(Quiet(l, v), d) = Quiet((l \ {"entries"}) \ {"fs_dir"}, 0)
  <2>1. PICK h : h = FALSE
    OBVIOUS
  <2>2. disk_dir_close(Made(Registered, l, h, v), d)
          = Made(Registered, (l \ {"entries"}) \ {"fs_dir"}, h, 0)
    BY <1>3, RegisteredIs, DiskDirClosed
  <2> QED BY <2>1, <2>2 DEF Quiet
<1>4. disk_dir_close(Quiet(l1, v), d) = Quiet((l1 \ {"entries"}) \ {"fs_dir"}, 0)
  BY <1>1, <1>2, <1>3
<1>5. disk_dir_close(Quiet(l2, v), d) = Quiet((l2 \ {"entries"}) \ {"fs_dir"}, 0)
  BY <1>1, <1>2, <1>3
<1> QED BY <1>1, <1>2, <1>4, <1>5

\* Reading and describing an open directory, and adding an entry to it.
LEMMA DirCalls ==
  ASSUME ShellInv, NEW d \in Disks, NEW v
  PROVE  /\ Transfer(Quiet({"fs_dir", "entries"}, v), d) = Quiet({"fs_dir", "entries"}, 0)
         /\ disk_dir_create_entry(Quiet({"fs_dir", "entries"}, v), d)
              = Quiet({"fs_dir", "entries"}, 0)
<1>1. PICK h : h = FALSE
  OBVIOUS
<1>2. PICK l : l = {"fs_dir", "entries"}
  OBVIOUS
<1>3. "fs_dir_file" \notin l /\ "dir.blocklist" \notin l
  BY <1>2
<1>4. /\ Transfer(Made(Registered, l, h, v), d) = Made(Registered, l, h, 0)
      /\ disk_dir_create_entry(Made(Registered, l, h, v), d) = Made(Registered, l, h, 0)
  BY <1>3, RegisteredIs, DiskKept
<1> QED BY <1>1, <1>2, <1>4 DEF Quiet

\* A request, on a disk or on none.
LEMMA RequestCall ==
  ASSUME ShellInv, NEW l, NEW v, NEW d, NEW type
  PROVE  \E w : disk_fs_request(Quiet(l, v), mounted, d, type) = Quiet(l, w)
<1>1. PICK h : h = FALSE
  OBVIOUS
<1>2. mounted \in SUBSET Disks
  BY DEF ShellInv, ShellTypes
<1>3. PICK w : w = IF d \in mounted /\ type = "size" THEN 0 ELSE -1
  OBVIOUS
<1>4. disk_fs_request(Made(Registered, l, h, v), mounted, d, type) = Made(Registered, l, h, w)
  BY <1>2, <1>3, RegisteredIs, Requested
<1> QED BY <1>1, <1>4 DEF Quiet

\* Opening a file, in a directory on the way to which all have clusters.
LEMMA FileCall ==
  ASSUME ShellInv, NEW v, NEW t, NEW d, NEW ns \in Seq(Names),
         NEW full, Front(full) = ns, d \in mounted => ~ Hits(t[d], ns)
  PROVE  LET m == disk_file_open(Quiet({}, v), mounted, t, [disk |-> d, names |-> full])
         IN  \/ d \in mounted /\ \E kind : m = Quiet(FileBlocks(kind), 0)
             \/ m = Quiet({}, -1)
<1>1. PICK h \in BOOLEAN : h = FALSE
  OBVIOUS
<1>2. mounted \in SUBSET Disks
  BY DEF ShellInv, ShellTypes
<1> DEFINE m == disk_file_open(Made(Registered, {}, h, v), mounted, t, [disk |-> d, names |-> full])
           good == OpensIn(mounted, t, d, ns) /\ EntryAt(t[d], full) # "none"
<1>3. FileOpening(Registered, h, v, mounted, t, d, ns, full)
  BY <1>2, RegisteredIs, DiskFileOpened
<1>4. PICK k : k = EntryAt(t[d], full)
  OBVIOUS
<1>5. /\ good => m = Made(Registered, FileBlocks(k), h, 0)
      /\ ~ good => m = Made(Registered, {}, h, -1)
  BY <1>3, <1>4 DEF FileOpening
<1>6. good => d \in mounted
  BY DEF OpensIn
<1> HIDE DEF good
<1> QED BY <1>1, <1>5, <1>6 DEF Quiet

\* Reading or writing it, and closing it.
LEMMA FileEnd ==
  ASSUME NEW d \in Disks, NEW v, NEW kind
  PROVE  /\ disk_file_close(Transfer(Quiet(FileBlocks(kind), v), d), d) = Quiet({}, 0)
         /\ disk_file_close(disk_file_write(Quiet(FileBlocks(kind), v), d), d) = Quiet({}, 0)
<1>1. PICK h : h = FALSE
  OBVIOUS
<1>2. PICK l : l = FileBlocks(kind)
  OBVIOUS
<1>3. "fs_dir_file" \notin l /\ "dir.blocklist" \notin l
  BY <1>2 DEF FileBlocks
<1>4. Transfer(Made(Registered, l, h, v), d) = Made(Registered, l, h, 0)
  BY <1>3, RegisteredIs, DiskKept
<1>5. \A k : disk_file_close(Made(Registered, FileBlocks(k), h, 0), d) = Made(Registered, {}, h, 0)
  BY RegisteredIs, DiskFileClosed
<1>6. disk_file_write(Made(Registered, l, h, v), d) = Made(Registered, FileBlocks("text"), h, 0)
  <2>1. l \cup {"blocklist"} = FileBlocks("text")
    BY <1>2 DEF FileBlocks
  <2>2. Malloc(Made(Registered, l, h, 0), "blocklist") = Made(Registered, l \cup {"blocklist"}, h, 0)
    BY Steps
  <2> QED BY <1>4, <2>1, <2>2 DEF disk_file_write
<1> QED BY <1>1, <1>2, <1>4, <1>5, <1>6 DEF Quiet

\* What a call returned.
LEMMA QuietRet == \A l, v : Quiet(l, v).ret = v
BY DEF Quiet, Made

-----------------------------------------------------------------------------
(* The commands, one by one. *)

\* A command that changes neither the disks nor the path.
LEMMA PathStays ==
  ASSUME ShellInv, UNCHANGED <<mounted, tree, path, stale>>
  PROVE  ShellTypes' /\ Kept' /\ StaleClean'
BY DEF ShellInv, ShellTypes, Paths, Kept, StaleClean, Opens, NullPath, NoDisk

LEMMA FailureIsNot0 == -1 # 0
OBVIOUS

\* A cd to a path, which opens or does not.
LEMMA SetPathKeeps ==
  ASSUME ShellInv, ~ halted, NEW p \in Paths, NEW c, Stops(p) => c = "cd empty",
         SetEvalPath(p, c), UNCHANGED <<mounted, tree>>
  PROVE  ShellInv'
<1> DEFINE m == disk_dir_open(Call, mounted, tree, p)
<1>1. m = disk_dir_open(Quiet({}, 0), mounted, tree, p)
  BY CallIs DEF ShellInv
<1>2. Returned /\ path \in Paths /\ stale \in BOOLEAN
  BY DEF ShellInv, ShellTypes
<1>3. SetEvalPath(p, c) <=>
        IF m.ret = 0
        THEN /\ path' = p
             /\ stale' = FALSE
             /\ Done(disk_dir_close(m, p.disk), c, FALSE)
        ELSE /\ UNCHANGED <<path, stale>>
             /\ Done(m, c, TRUE)
  BY DEF SetEvalPath
<1> HIDE DEF m
<1>b. PICK b \in BOOLEAN : b <=> Stops(p)
  BY Zenon
<1>4. CASE Opens(p)
  <2>1. m = Quiet({"fs_dir", "entries"}, 0) /\ m.ret = 0
    BY <1>1, <1>b, <1>4, OpenAny, QuietRet
  <2>2. p.disk \in Disks
    BY <1>4 DEF Opens, ShellInv, ShellTypes
  <2>3. disk_dir_close(m, p.disk) = Quiet({}, 0)
    BY <2>1, <2>2, CloseCall
  <2>4. path' = p /\ stale' = FALSE /\ Done(Quiet({}, 0), c, FALSE)
    BY <1>3, <2>1, <2>3
  <2>5. LeftFor({}, c, FALSE)
    BY LeftCases, Zenon
  <2>6. Returned'
    BY <2>4, <2>5, DoneReturns
  <2>7. Opens(p)'
    BY <1>4, <2>4 DEF Opens
  <2>8. Kept' /\ StaleClean'
    BY <2>4, <2>7 DEF Kept, StaleClean, Opens
  <2>9. ShellTypes'
    BY <2>4 DEF ShellInv, ShellTypes, Paths
  <2> QED BY <2>6, <2>8, <2>9 DEF ShellInv
<1>5. CASE ~ Opens(p)
  <2>1. m.ret = -1 /\ (m = Made(Registered, {"fs_dir"}, b, -1) \/ m = Quiet({}, -1))
    <3>1. m = Made(Registered, {"fs_dir"}, b, -1) \/ m = Quiet({}, -1)
      BY <1>1, <1>b, <1>5, OpenAny
    <3>2. Made(Registered, {"fs_dir"}, b, -1).ret = -1
      BY DEF Made
    <3>3. Quiet({}, -1).ret = -1
      BY QuietRet
    <3> QED BY <3>1, <3>2, <3>3, Zenon
  <2>2. UNCHANGED <<path, stale>> /\ Done(m, c, TRUE)
    <3>a. m.ret = -1
      BY <2>1, Zenon
    <3>1. m.ret # 0
      BY <3>a, FailureIsNot0, Zenon
    <3> QED BY <1>3, <3>1, Zenon
  <2>3. LeftFor({}, c, TRUE) /\ LeftFor({"fs_dir"}, c, TRUE)
    BY LeftCases, Zenon
  <2>4. Returned'
    <3>1. CASE m = Made(Registered, {"fs_dir"}, b, -1)
      BY <1>b, <2>2, <2>3, <3>1, DoneHalts
    <3>2. CASE m = Quiet({}, -1)
      BY <2>2, <2>3, <3>2, DoneReturns
    <3> QED BY <2>1, <3>1, <3>2
  <2>5. UNCHANGED <<mounted, tree, path, stale>>
    BY <2>2
  <2> QED BY <2>4, <2>5, PathStays DEF ShellInv
<1> QED BY <1>4, <1>5

\* The path of a name in the directory of a path.
LEMMA NamedPath ==
  ASSUME NEW p \in Paths, NEW name \in Names
  PROVE  /\ [p EXCEPT !.names = Append(@, name)] \in Paths
         /\ [p EXCEPT !.names = Append(@, name)]
              = [disk |-> p.disk, names |-> Append(p.names, name)]
<1>1. PICK d, ns : d = p.disk /\ ns = p.names
  OBVIOUS
<1>2. p = [disk |-> d, names |-> ns] /\ d \in Disks \cup {NoDisk} /\ ns \in Seq(Names)
  BY <1>1, PathParts
<1>3. Append(ns, name) \in Seq(Names)
  BY <1>2
<1>4. PICK full : full = Append(ns, name)
  OBVIOUS
<1>5. [p EXCEPT !.names = full] = [disk |-> d, names |-> full]
  BY <1>2
<1> QED BY <1>1, <1>2, <1>3, <1>4, <1>5 DEF Paths

\* cd with a name.
LEMMA CdNameKeeps ==
  ASSUME ShellInv, ~ halted, NEW name \in Names, CdName(name)
  PROVE  ShellInv'
<1>1. PICK p : p = [path EXCEPT !.names = Append(@, name)]
  OBVIOUS
<1>2. p \in Paths /\ p = [disk |-> path.disk, names |-> Append(path.names, name)]
  BY <1>1, NamedPath DEF ShellInv, ShellTypes
<1>3. PICK c : c = IF Kind(p) = "empty" THEN "cd empty" ELSE "cd"
  OBVIOUS
<1>4. SetEvalPath(p, c) /\ UNCHANGED <<mounted, tree>>
  BY <1>1, <1>3 DEF CdName
<1>5. ASSUME Stops(p) PROVE c = "cd empty"
  <2>1. PICK d, ns, X : d = path.disk /\ ns = path.names /\ X = tree[d]
    OBVIOUS
  <2>2. ns \in Seq(Names) /\ p.disk = d /\ p.names = Append(ns, name)
    BY <1>2, <2>1, PathParts DEF ShellInv, ShellTypes
  <2>3. d \in mounted /\ Hits(X, Append(ns, name))
    BY <1>5, <2>1, <2>2 DEF Stops
  <2>4. ~ Hits(X, ns)
    BY <2>1, <2>3, PathStopsNot DEF Stops
  <2>5. EntryAt(X, Append(ns, name)) = "empty"
    BY <2>2, <2>3, <2>4, HitsOfName
  <2>6. d \in Disks
    BY <2>3 DEF ShellInv, ShellTypes
  <2>7. Kind(p) = "empty"
    BY <2>1, <2>2, <2>5, <2>6 DEF Kind
  <2> QED BY <1>3, <2>7
<1> QED BY <1>2, <1>4, <1>5, SetPathKeeps

\* cd to the directory above.
LEMMA CdUpKeeps ==
  ASSUME ShellInv, ~ halted, CdUp
  PROVE  ShellInv'
<1>1. path \in Paths /\ path.names \in Seq(Names)
  BY PathParts DEF ShellInv, ShellTypes
<1>2. PICK p : p = Up(path)
  OBVIOUS
<1>3. p \in Paths /\ ~ Stops(p)
  <2>1. CASE path.names = <<>>
    <3>1. p = NullPath
      BY <1>2, <2>1 DEF Up
    <3>2. p = [disk |-> NoDisk, names |-> <<>>] /\ p.disk = NoDisk
      BY <3>1 DEF NullPath
    <3>3. p \in Paths
      BY <3>2 DEF Paths
    <3>4. NoDisk \notin mounted
      BY NoDiskIsNone DEF ShellInv, ShellTypes
    <3> QED BY <3>2, <3>3, <3>4 DEF Stops
  <2>2. CASE path.names # <<>>
    <3>1. PICK d, ns, fs, name : /\ d = path.disk /\ ns = path.names
                                 /\ fs = Front(ns) /\ name = ns[Len(ns)]
      OBVIOUS
    <3>2. fs \in Seq(Names) /\ name \in Names /\ ns = Append(fs, name)
      BY <1>1, <2>2, <3>1 DEF Front
    <3>3. p = [path EXCEPT !.names = fs]
      BY <1>2, <2>2, <3>1 DEF Up
    <3>4. p \in Paths /\ p.disk = d /\ p.names = fs
      BY <1>1, <3>1, <3>2, <3>3 DEF Paths
    <3>5. ASSUME Stops(p) PROVE FALSE
      <4>1. PICK X : X = tree[d]
        OBVIOUS
      <4>2. d \in mounted /\ Hits(X, fs)
        BY <3>4, <3>5, <4>1 DEF Stops
      <4>3. Hits(X, ns)
        BY <3>2, <4>2, HitsOfName
      <4>4. Stops(path)
        BY <3>1, <4>1, <4>2, <4>3 DEF Stops
      <4> QED BY <4>4, PathStopsNot
    <3> QED BY <3>4, <3>5
  <2> QED BY <2>1, <2>2
<1>4. SetEvalPath(p, "cd") /\ UNCHANGED <<mounted, tree>>
  BY <1>2 DEF CdUp
<1> QED BY <1>3, <1>4, SetPathKeeps

\* cd with the id of a disk.
LEMMA CdDiskKeeps ==
  ASSUME ShellInv, ~ halted, NEW d \in Disks, CdDisk(d)
  PROVE  ShellInv'
<1>1. PICK p : p = RootOf(d)
  OBVIOUS
<1>2. p \in Paths /\ p.disk = d /\ p.names = <<>>
  BY <1>1 DEF RootOf, Paths
<1>n. ~ Stops(p)
  <2>1. 1..Len(p.names) = {}
    BY <1>2
  <2> QED BY <2>1, Zenon DEF Stops, Hits
<1> DEFINE m == disk_dir_open(Call, mounted, tree, p)
<1>3. m = disk_dir_open(Quiet({}, 0), mounted, tree, p)
  BY CallIs DEF ShellInv
<1>4. Returned /\ path \in Paths /\ stale \in BOOLEAN
  BY DEF ShellInv, ShellTypes
<1>5. /\ path' = CheckRootPath(d, d, path)
      /\ stale' = IF m.ret = 0 THEN FALSE ELSE stale
      /\ Done(IF m.ret = 0 THEN disk_dir_close(m, d) ELSE m, "cd", m.ret < 0)
      /\ UNCHANGED <<mounted, tree>>
  BY <1>1 DEF CdDisk
<1> HIDE DEF m
<1>6. CheckRootPath(d, d, path) = IF Opens(p) THEN p ELSE path
  <2> DEFINE ok == {e \in d..d : Opens(RootOf(e))}
  <2>1. d \in Nat
    BY NoDiskIsNone
  <2>2. d..d = {d}
    BY <2>1
  <2>3. CASE Opens(p)
    <3>1. ok = {d}
      BY <1>1, <2>2, <2>3
    <3>2. Min({d}) = d
      BY <2>1, MinUnique
    <3>3. ok # {} /\ Min(ok) = d
      BY <3>1, <3>2
    <3> QED BY <1>1, <2>3, <3>3 DEF CheckRootPath
  <2>4. CASE ~ Opens(p)
    <3>1. ok = {}
      BY <1>1, <2>2, <2>4
    <3> QED BY <2>4, <3>1 DEF CheckRootPath
  <2> QED BY <2>3, <2>4
<1>7. CASE Opens(p)
  <2>1. m = Quiet({"fs_dir", "entries"}, 0) /\ m.ret = 0
    BY <1>2, <1>n, <1>3, <1>7, OpenCall, QuietRet
  <2>2. disk_dir_close(m, d) = Quiet({}, 0)
    BY <2>1, CloseCall
  <2>3. path' = p /\ stale' = FALSE
    BY <1>5, <1>6, <1>7, <2>1
  <2>4. PICK f : f = (m.ret < 0)
    OBVIOUS
  <2>5. Done(Quiet({}, 0), "cd", f)
    BY <1>5, <2>1, <2>2, <2>4
  <2>6. LeftFor({}, "cd", f)
    BY LeftCases, Zenon
  <2>7. Returned'
    BY <2>5, <2>6, DoneReturns
  <2>8. Kept' /\ StaleClean'
    BY <1>5, <1>7, <2>3 DEF Kept, StaleClean, Opens
  <2>9. ShellTypes'
    BY <1>2, <1>5, <2>3 DEF ShellInv, ShellTypes, Paths
  <2> QED BY <2>7, <2>8, <2>9 DEF ShellInv
<1>8. CASE ~ Opens(p)
  <2>1. m.ret = -1 /\ (m = Quiet({"fs_dir"}, -1) \/ m = Quiet({}, -1))
    BY <1>2, <1>n, <1>3, <1>8, OpenCall, QuietRet
  <2>2. m.ret # 0 /\ (m.ret < 0) = TRUE
    BY <2>1
  <2>3. UNCHANGED <<mounted, tree, path, stale>>
    BY <1>5, <1>6, <1>8, <2>2
  <2>4. Done(m, "cd", TRUE)
    BY <1>5, <2>2, Zenon
  <2>5. LeftFor({}, "cd", TRUE) /\ LeftFor({"fs_dir"}, "cd", TRUE)
    BY LeftCases, Zenon
  <2>6. Returned'
    <3>1. CASE m = Quiet({"fs_dir"}, -1)
      BY <2>4, <2>5, <3>1, DoneReturns
    <3>2. CASE m = Quiet({}, -1)
      BY <2>4, <2>5, <3>2, DoneReturns
    <3> QED BY <2>1, <3>1, <3>2
  <2> QED BY <2>3, <2>6, PathStays DEF ShellInv
<1> QED BY <1>7, <1>8

\* dir opens the directory of the path, reads it and closes it.
LEMMA DirKeeps ==
  ASSUME ShellInv, ~ halted, Dir
  PROVE  ShellInv'
<1> DEFINE m == disk_dir_open(Call, mounted, tree, path)
           read == disk_fs_request(Transfer(m, path.disk), mounted, path.disk, "size")
<1>1. m = disk_dir_open(Quiet({}, 0), mounted, tree, path)
  BY CallIs DEF ShellInv
<1>2. path \in Paths /\ ~ Stops(path)
  BY PathStopsNot DEF ShellInv, ShellTypes
<1>3. /\ Done(IF m.ret < 0 THEN m ELSE disk_dir_close(read, path.disk), "dir", m.ret < 0)
      /\ UNCHANGED <<mounted, tree, path, stale>>
  BY DEF Dir
<1> HIDE DEF m
<1>4. CASE Opens(path)
  <2>1. m = Quiet({"fs_dir", "entries"}, 0) /\ m.ret = 0
    BY <1>1, <1>2, <1>4, OpenCall, QuietRet
  <2>2. PICK d \in Disks : d = path.disk
    BY <1>4 DEF Opens, ShellInv, ShellTypes
  <2>3. Transfer(m, d) = Quiet({"fs_dir", "entries"}, 0)
    BY <2>1, DirCalls
  <2>4. PICK w : read = Quiet({"fs_dir", "entries"}, w)
    BY <2>2, <2>3, RequestCall
  <2>5. disk_dir_close(read, d) = Quiet({}, 0)
    BY <2>4, CloseCall
  <2>6. PICK f : f = (m.ret < 0)
    OBVIOUS
  <2> HIDE DEF read
  <2>7. Done(Quiet({}, 0), "dir", f)
    BY <1>3, <2>1, <2>2, <2>5, <2>6
  <2>8. LeftFor({}, "dir", f)
    BY LeftCases, Zenon
  <2>9. Returned'
    BY <2>7, <2>8, DoneReturns
  <2> QED BY <1>3, <2>9, PathStays DEF ShellInv
<1>5. CASE ~ Opens(path)
  <2>1. m.ret = -1 /\ (m = Quiet({"fs_dir"}, -1) \/ m = Quiet({}, -1))
    BY <1>1, <1>2, <1>5, OpenCall, QuietRet
  <2>2. m.ret < 0 /\ (m.ret < 0) = TRUE
    BY <2>1
  <2>3. Done(m, "dir", TRUE)
    BY <1>3, <2>2, Zenon
  <2>4. LeftFor({}, "dir", TRUE) /\ LeftFor({"fs_dir"}, "dir", TRUE)
    BY LeftCases, Zenon
  <2>5. Returned'
    <3>1. CASE m = Quiet({"fs_dir"}, -1)
      BY <2>3, <2>4, <3>1, DoneReturns
    <3>2. CASE m = Quiet({}, -1)
      BY <2>3, <2>4, <3>2, DoneReturns
    <3> QED BY <2>1, <3>1, <3>2
  <2> QED BY <1>3, <2>5, PathStays DEF ShellInv
<1> QED BY <1>4, <1>5

\* md closes the directory whether it opened or not; by Kept its disk has
\* a file system, so that there is a handle to free.
LEMMA MdKeeps ==
  ASSUME ShellInv, ~ halted, Md
  PROVE  ShellInv'
<1> DEFINE m == disk_dir_open(Call, mounted, tree, path)
<1>1. m = disk_dir_open(Quiet({}, 0), mounted, tree, path)
  BY CallIs DEF ShellInv
<1>2. path \in Paths /\ ~ Stops(path)
  BY PathStopsNot DEF ShellInv, ShellTypes
<1>3. PICK f : f = ~Opens(path)
  OBVIOUS
<1>4. /\ Done(disk_dir_close(m, path.disk), "md", f)
      /\ UNCHANGED <<mounted, tree, path, stale>>
  BY <1>3 DEF Md
<1> HIDE DEF m
<1>5. PICK d \in Disks : d = path.disk /\ d \in mounted
  BY DEF Md, ShellInv, Kept, StaleClean, Opens, ShellTypes
<1>6. disk_dir_close(m, d) = Quiet({}, 0)
  <2>1. CASE Opens(path)
    BY <1>1, <1>2, <2>1, OpenCall, CloseCall
  <2>2. CASE ~ Opens(path)
    BY <1>1, <1>2, <1>5, <2>2, OpenCall, CloseCall
  <2> QED BY <2>1, <2>2
<1>7. LeftFor({}, "md", f)
  BY LeftCases, Zenon
<1>8. Returned'
  BY <1>4, <1>5, <1>6, <1>7, DoneReturns
<1> QED BY <1>4, <1>8, PathStays DEF ShellInv

\* del and rename are two requests.
LEMMA DelOrRenameKeeps ==
  ASSUME ShellInv, ~ halted, DelOrRename
  PROVE  ShellInv'
<1>1. PICK type \in {"delete", "rename"} :
        LET file == disk_fs_request(Call, mounted, path.disk, type)
            dir == disk_fs_request(file, mounted, path.disk, type)
        IN  Done(IF file.ret = 0 THEN file ELSE dir, type, FALSE)
  BY DEF DelOrRename
<1> DEFINE file == disk_fs_request(Call, mounted, path.disk, type)
           dir == disk_fs_request(file, mounted, path.disk, type)
<1>2. Returned
  BY DEF ShellInv
<1>3. PICK v : file = Quiet({}, v)
  BY <1>2, CallIs, RequestCall
<1>4. PICK w : dir = Quiet({}, w)
  BY <1>3, RequestCall
<1>5. Done(IF file.ret = 0 THEN file ELSE dir, type, FALSE)
  BY <1>1
<1> HIDE DEF file, dir
<1>6. PICK u : Done(Quiet({}, u), type, FALSE)
  BY <1>3, <1>4, <1>5
<1>7. LeftFor({}, type, FALSE)
  BY LeftCases, Zenon
<1>8. Returned'
  BY <1>6, <1>7, DoneReturns
<1>9. UNCHANGED <<mounted, tree, path, stale>>
  BY DEF DelOrRename
<1> QED BY <1>8, <1>9, PathStays DEF ShellInv

\* The directory of an appended name.
LEMMA FrontAppend ==
  ASSUME NEW A, NEW ns \in Seq(A), NEW name \in A
  PROVE  Front(Append(ns, name)) = ns
BY DEF Front

\* popf opens the file, reads and closes it, or finds none.
LEMMA PopfKeeps ==
  ASSUME ShellInv, ~ halted, NEW name \in Names, Popf(name)
  PROVE  ShellInv'
<1>1. Returned /\ path \in Paths /\ mounted \in SUBSET Disks
  BY DEF ShellInv, ShellTypes
<1>2. PICK d, ns, full : d = path.disk /\ ns = path.names /\ full = Append(ns, name)
  OBVIOUS
<1>3. PICK p : p = [path EXCEPT !.names = Append(@, name)]
  OBVIOUS
<1>4. p = [disk |-> d, names |-> full] /\ p.disk = d /\ ns \in Seq(Names)
  <2>1. p = [disk |-> d, names |-> full] /\ ns \in Seq(Names)
    BY <1>1, <1>2, <1>3, NamedPath, PathParts
  <2> QED BY <2>1
<1> DEFINE m == disk_file_open(Call, mounted, tree, p)
<1>5. m = disk_file_open(Quiet({}, 0), mounted, tree, [disk |-> d, names |-> full])
  BY <1>1, <1>4, CallIs
<1>6. /\ Done(IF m.ret < 0 THEN m ELSE disk_file_close(Transfer(m, p.disk), p.disk), "popf", FALSE)
      /\ UNCHANGED <<mounted, tree, path, stale>>
  BY <1>3 DEF Popf
<1>7. Front(full) = ns
  BY <1>2, <1>4, FrontAppend
<1> HIDE DEF m
<1>8. \/ d \in mounted /\ \E kind : m = Quiet(FileBlocks(kind), 0)
      \/ m = Quiet({}, -1)
  <2>1. PICK T : T = tree
    OBVIOUS
  <2>2. d \in mounted => ~ Hits(T[d], ns)
    BY <1>2, <2>1, PathStopsNot DEF Stops
  <2> QED BY <1>4, <1>5, <1>7, <2>1, <2>2, FileCall
<1>9. PICK v : Done(Quiet({}, v), "popf", FALSE)
  <2>1. ASSUME d \in mounted, NEW kind, m = Quiet(FileBlocks(kind), 0)
        PROVE  Done(Quiet({}, 0), "popf", FALSE)
    <3>1. d \in Disks
      BY <1>1, <2>1
    <3>2. m.ret = 0
      BY <2>1, QuietRet
    <3>3. disk_file_close(Transfer(m, d), d) = Quiet({}, 0)
      BY <2>1, <3>1, FileEnd
    <3>4. ~ (m.ret < 0)
      BY <3>2
    <3>5. Done(disk_file_close(Transfer(m, p.disk), p.disk), "popf", FALSE)
      BY <1>6, <3>4, Zenon
    <3> QED BY <1>4, <3>3, <3>5
  <2>2. CASE m = Quiet({}, -1)
    <3>1. m.ret < 0
      BY <2>2, QuietRet
    <3> QED BY <1>6, <2>2, <3>1
  <2> QED BY <1>8, <2>1, <2>2, Zenon
<1>10. LeftFor({}, "popf", FALSE)
  BY LeftCases, Zenon
<1>11. Returned'
  BY <1>9, <1>10, DoneReturns
<1> QED BY <1>6, <1>11, PathStays DEF ShellInv

\* disk -f: the path may not open any more, and then it is stale.
LEMMA FormatKeeps ==
  ASSUME ShellInv, ~ halted, NEW d \in Disks, DiskFormat(d)
  PROVE  ShellInv'
<1>1. /\ mounted' = mounted \cup {d}
      /\ tree' = [tree EXCEPT ![d] = <<>>]
      /\ stale' = (stale \/ path.disk = d)
      /\ path' = path
      /\ Done(Reformat(Call, d \in mounted), "format", FALSE)
  BY DEF DiskFormat
<1>2. Returned
  BY DEF ShellInv
<1>3. Reformat(Call, d \in mounted) = Quiet({"first fs"}, 0)
  <2>1. PICK h : h = FALSE
    OBVIOUS
  <2>2. PICK was : was = (d \in mounted)
    OBVIOUS
  <2>3. PICK c : c = Call
    OBVIOUS
  <2>4. c = Made(Registered, {}, h, 0)
    BY <1>2, <2>1, <2>3, CallIs DEF Quiet
  <2>5. Reformat(Made(Registered, {}, h, 0), was) = Made(Registered, {"first fs"}, h, 0)
    BY Reformatted, Zenon
  <2> QED BY <2>1, <2>2, <2>3, <2>4, <2>5, Zenon DEF Quiet
<1>4. Returned'
  <2>1. PICK l : l = {"first fs"}
    BY Zenon
  <2>2. LeftFor(l, "format", FALSE)
    BY <2>1, LeftCases, Zenon
  <2>3. Done(Quiet(l, 0), "format", FALSE)
    BY <1>1, <1>3, <2>1, Zenon
  <2> QED BY <2>2, <2>3, DoneReturns
<1>5. ShellTypes'
  BY <1>1 DEF ShellInv, ShellTypes, Paths
<1>6. Kept' /\ StaleClean'
  <2>1. CASE path.disk = d
    <3>1. \A q : EntryAt(tree'[d], q) # "empty"
      <4>1. tree'[d] = <<>>
        BY <1>1 DEF ShellInv, ShellTypes
      <4> QED BY <4>1 DEF EntryAt
    <3> QED BY <1>1, <2>1, <3>1 DEF Kept, StaleClean
  <2>2. CASE path.disk # d
    <3>1. path.disk \in mounted => tree'[path.disk] = tree[path.disk]
      BY <1>1, <2>2 DEF ShellInv, ShellTypes
    <3>2. stale' = stale
      BY <1>1, <2>2 DEF ShellInv, ShellTypes
    <3>3. StaleClean'
      BY <1>1, <3>1, <3>2 DEF ShellInv, StaleClean
    <3>4. ASSUME Opens(path) PROVE Opens(path)'
      <4>1. path.disk \in mounted /\ tree'[path.disk] = tree[path.disk]
        BY <3>1, <3>4 DEF Opens
      <4>2. path.disk \in mounted'
        BY <1>1, <4>1
      <4> QED BY <1>1, <3>4, <4>1, <4>2 DEF Opens
    <3>5. CASE path = NullPath
      BY <1>1, <3>3, <3>5 DEF Kept, NullPath, NoDisk
    <3>6. CASE Opens(path)
      <4>1. Opens(path)' /\ path' = path
        BY <1>1, <3>4, <3>6
      <4> QED BY <3>3, <4>1 DEF Kept, Opens
    <3>7. CASE stale
      BY <3>2, <3>3, <3>7 DEF Kept
    <3> QED BY <3>3, <3>5, <3>6, <3>7 DEF ShellInv, Kept
  <2> QED BY <2>1, <2>2
<1> QED BY <1>4, <1>5, <1>6 DEF ShellInv

\* An entry that is made or written leaves all others.
LEMMA OthersStay ==
  ASSUME NEW X, NEW full, NEW kind, NEW q
  PROVE  EntryAt(WithEntry(X, full, kind), q) = IF q = full THEN kind ELSE EntryAt(X, q)
<1>1. DOMAIN WithEntry(X, full, kind) = DOMAIN X \cup {full}
  BY DEF WithEntry
<1>2. CASE q = full
  BY <1>1, <1>2 DEF EntryAt, WithEntry
<1>3. CASE q # full
  <2>1. CASE q \in DOMAIN X
    BY <1>1, <1>3, <2>1 DEF EntryAt, WithEntry
  <2>2. CASE q \notin DOMAIN X
    BY <1>1, <1>3, <2>2 DEF EntryAt
  <2> QED BY <2>1, <2>2
<1> QED BY <1>2, <1>3

\* So the way to its directory is as it was.
LEMMA WayStays ==
  ASSUME NEW X, NEW A, NEW ns \in Seq(A), NEW name \in A, NEW kind
  PROVE  /\ EntriesTo(WithEntry(X, Append(ns, name), kind), ns) = EntriesTo(X, ns)
         /\ Way(X, ns) => Way(WithEntry(X, Append(ns, name), kind), ns)
<1>1. PICK Y, full : full = Append(ns, name) /\ Y = WithEntry(X, full, kind)
  OBVIOUS
<1>2. ASSUME NEW n \in 1..Len(ns)
      PROVE  EntryAt(Y, SubSeq(ns, 1, n)) = EntryAt(X, SubSeq(ns, 1, n))
  <2>1. Len(SubSeq(ns, 1, n)) = n /\ Len(full) = Len(ns) + 1
    BY <1>1
  <2>2. SubSeq(ns, 1, n) # full
    BY <2>1
  <2>3. PICK q : q = SubSeq(ns, 1, n)
    OBVIOUS
  <2>4. EntryAt(WithEntry(X, full, kind), q) = IF q = full THEN kind ELSE EntryAt(X, q)
    BY OthersStay
  <2>5. EntryAt(WithEntry(X, full, kind), q) = EntryAt(X, q)
    BY <2>2, <2>3, <2>4, Zenon
  <2> QED BY <1>1, <2>3, <2>5, Zenon
<1>3. EntriesTo(Y, ns) = EntriesTo(X, ns)
  BY <1>2, Zenon DEF EntriesTo
<1>4. Way(X, ns) => Way(Y, ns)
  BY <1>3, Zenon DEF Way
<1> QED BY <1>1, <1>3, <1>4

\* The file is created or written: the path is as it was.
LEMMA WayKept ==
  ASSUME ShellInv, NEW d \in Disks, d = path.disk, NEW name \in Names,
         tree' = [tree EXCEPT ![d] = WithEntry(tree[d], Append(path.names, name), "text")],
         UNCHANGED <<mounted, path, stale>>
  PROVE  ShellTypes' /\ Kept' /\ StaleClean'
<1>1. PICK ns, X, Y : /\ ns = path.names /\ X = tree[d]
                      /\ Y = WithEntry(X, Append(ns, name), "text")
  OBVIOUS
<1>2. ns \in Seq(Names)
  BY <1>1, PathParts DEF ShellInv, ShellTypes
<1>3. tree'[d] = Y /\ DOMAIN tree' = Disks
  BY <1>1 DEF ShellInv, ShellTypes
<1>4. ShellTypes'
  BY <1>3 DEF ShellInv, ShellTypes, Paths
<1>5. StaleClean'
  <2>1. ASSUME stale, NEW q PROVE EntryAt(Y, q) # "empty"
    <3>1. EntryAt(X, q) # "empty"
      BY <1>1, <2>1 DEF ShellInv, StaleClean
    <3> QED BY <1>1, <3>1, OthersStay
  <2> QED BY <1>3, <2>1 DEF ShellInv, StaleClean
<1>6. ASSUME Opens(path) PROVE Opens(path)'
  <2>1. d \in mounted /\ Way(X, ns)
    BY <1>1, <1>6 DEF Opens, Way
  <2>2. Way(Y, ns)
    BY <1>1, <1>2, <2>1, WayStays
  <2> QED BY <1>1, <1>3, <2>1, <2>2 DEF Opens, Way
<1>7. CASE path = NullPath
  BY <1>4, <1>5, <1>7 DEF Kept, NullPath, NoDisk
<1>8. CASE Opens(path)
  <2>1. Opens(path)' /\ path' = path
    BY <1>6, <1>8
  <2> QED BY <1>4, <1>5, <2>1 DEF Kept, Opens
<1>9. CASE stale
  BY <1>4, <1>5, <1>9 DEF Kept
<1> QED BY <1>7, <1>8, <1>9 DEF ShellInv, Kept

\* pushf opens the file, or creates it and opens it then, and closes it.
LEMMA PushfKeeps ==
  ASSUME ShellInv, ~ halted, NEW name \in Names, Pushf(name)
  PROVE  ShellInv'
<1>1. Returned /\ path \in Paths /\ mounted \in SUBSET Disks
  BY DEF ShellInv, ShellTypes
<1>2. PICK d, ns, full : d = path.disk /\ ns = path.names /\ full = Append(ns, name)
  OBVIOUS
<1>3. PICK p : p = [path EXCEPT !.names = Append(@, name)]
  OBVIOUS
<1>4. /\ p = [disk |-> d, names |-> full] /\ p.disk = d /\ p.names = full
      /\ ns \in Seq(Names)
  <2>1. p = [disk |-> d, names |-> full] /\ ns \in Seq(Names)
    BY <1>1, <1>2, <1>3, NamedPath, PathParts
  <2>2. p.disk = d /\ p.names = full
    BY <2>1
  <2> QED BY <2>1, <2>2
<1>5. Front(full) = ns
  BY <1>2, <1>4, FrontAppend
<1> DEFINE m == disk_file_open(Call, mounted, tree, p)
           dir == disk_dir_open(m, mounted, tree, path)
           made == disk_dir_close(disk_dir_create_entry(dir, path.disk), path.disk)
           grown == IF Kind(path) = "text" THEN tree
                    ELSE [tree EXCEPT ![p.disk] = WithEntry(@, p.names, "empty")]
           again == disk_file_open(made, mounted, grown, p)
           Written(file) ==
             Done(disk_file_close(disk_file_write(file, p.disk), p.disk), "pushf", FALSE)
           Filled == tree' = [tree EXCEPT ![p.disk] = WithEntry(@, p.names, "text")]
<1>6. /\ \/ m.ret = 0 /\ Written(m) /\ (UNCHANGED tree \/ Filled)
         \/ m.ret < 0 /\ dir.ret < 0 /\ Done(dir, "pushf", TRUE) /\ UNCHANGED tree
         \/ m.ret < 0 /\ dir.ret = 0 /\ again.ret = 0 /\ Written(again) /\ Filled
         \/ m.ret < 0 /\ dir.ret = 0 /\ again.ret < 0 /\ Done(again, "pushf", FALSE)
            /\ UNCHANGED tree
      /\ UNCHANGED <<mounted, path, stale>>
  BY <1>3, Zenon DEF Pushf
<1>7. m = disk_file_open(Quiet({}, 0), mounted, tree, [disk |-> d, names |-> full])
  BY <1>1, <1>4, CallIs
<1>8. ~ Stops(path) /\ (d \in mounted => ~ Hits(tree[d], ns))
  BY <1>2, PathStopsNot DEF Stops
<1>9. \A c, f : LeftFor({}, c, f)
  BY LeftCases, Zenon
<1> HIDE DEF m
<1>10. \/ d \in mounted /\ \E kind : m = Quiet(FileBlocks(kind), 0)
       \/ m = Quiet({}, -1)
  <2>1. PICK T : T = tree
    OBVIOUS
  <2> QED BY <1>4, <1>5, <1>7, <1>8, <2>1, FileCall
<1>11. ASSUME NEW file, d \in mounted, NEW kind, file = Quiet(FileBlocks(kind), 0), Written(file)
       PROVE  Returned'
  <2>1. d \in Disks
    BY <1>1, <1>11
  <2>2. disk_file_close(disk_file_write(file, d), d) = Quiet({}, 0)
    BY <1>11, <2>1, FileEnd
  <2>3. Done(Quiet({}, 0), "pushf", FALSE)
    BY <1>4, <1>11, <2>2
  <2> QED BY <1>9, <2>3, DoneReturns
<1>12. ASSUME d \in Disks, Filled PROVE ShellTypes' /\ Kept' /\ StaleClean'
  BY <1>2, <1>4, <1>6, <1>12, WayKept
<1>13. ASSUME UNCHANGED tree PROVE ShellTypes' /\ Kept' /\ StaleClean'
  BY <1>6, <1>13, PathStays
<1> HIDE DEF Written, Filled, grown, made
<1>14. CASE m.ret = 0 /\ Written(m) /\ (UNCHANGED tree \/ Filled)
  <2>1. m # Quiet({}, -1)
    BY <1>14, QuietRet
  <2>2. d \in mounted /\ d \in Disks
    BY <1>1, <1>10, <2>1
  <2>3. PICK kind : m = Quiet(FileBlocks(kind), 0)
    BY <1>10, <2>1
  <2>4. Returned'
    BY <1>11, <1>14, <2>2, <2>3
  <2>5. ShellTypes' /\ Kept' /\ StaleClean'
    BY <1>12, <1>13, <1>14, <2>2
  <2> QED BY <2>4, <2>5 DEF ShellInv
<1>15. ASSUME m.ret < 0
       PROVE  \/ Opens(path) /\ dir = Quiet({"fs_dir", "entries"}, 0)
              \/ dir.ret = -1 /\ (dir = Quiet({"fs_dir"}, -1) \/ dir = Quiet({}, -1))
  <2>1. m = Quiet({}, -1)
    <3>1. \A kind : Quiet(FileBlocks(kind), 0).ret = 0
      BY QuietRet
    <3>2. ~ (0 < 0)
      OBVIOUS
    <3> QED BY <1>10, <1>15, <3>1, <3>2, Zenon
  <2>2. dir = disk_dir_open(Quiet({}, -1), mounted, tree, path)
    BY <2>1
  <2> HIDE DEF dir
  <2> QED BY <1>1, <1>8, <2>2, OpenCall, QuietRet
<1>16. ASSUME m.ret < 0, dir.ret = 0
       PROVE  /\ d \in mounted /\ d \in Disks
              /\ (\E kind : again = Quiet(FileBlocks(kind), 0)) \/ again = Quiet({}, -1)
  <2>1. Opens(path) /\ dir = Quiet({"fs_dir", "entries"}, 0)
    <3>1. dir.ret # -1
      BY <1>16
    <3> QED BY <1>15, <1>16, <3>1, Zenon
  <2>2. d \in mounted /\ d \in Disks
    BY <1>1, <1>2, <2>1 DEF Opens
  <2>3. made = Quiet({}, 0)
    <3>1. disk_dir_create_entry(dir, d) = Quiet({"fs_dir", "entries"}, 0)
      BY <2>1, <2>2, DirCalls
    <3> QED BY <1>2, <2>2, <3>1, CloseCall DEF made
  <2>4. ~ Hits(grown[d], ns)
    <3>1. PICK X : X = tree[d]
      OBVIOUS
    <3>2. Way(X, ns)
      BY <1>2, <2>1, <3>1 DEF Opens, Way
    <3>3. grown[d] = X \/ grown[d] = WithEntry(X, full, "empty")
      BY <1>4, <2>2, <3>1 DEF grown, ShellInv, ShellTypes
    <3>4. Way(grown[d], ns)
      BY <1>2, <1>4, <3>2, <3>3, WayStays
    <3> QED BY <3>4, WayHitsNone
  <2>5. again = disk_file_open(Quiet({}, 0), mounted, grown, [disk |-> d, names |-> full])
    BY <1>4, <2>3
  <2>6. PICK T : T = grown
    OBVIOUS
  <2> HIDE DEF again
  <2>7. \/ d \in mounted /\ \E kind : again = Quiet(FileBlocks(kind), 0)
        \/ again = Quiet({}, -1)
    BY <1>4, <1>5, <2>4, <2>5, <2>6, FileCall
  <2> QED BY <2>2, <2>7, Zenon
<1> HIDE DEF dir, again
<1>17. CASE m.ret < 0 /\ dir.ret < 0 /\ Done(dir, "pushf", TRUE) /\ UNCHANGED tree
  <2>1. dir = Quiet({"fs_dir"}, -1) \/ dir = Quiet({}, -1)
    <3>1. Quiet({"fs_dir", "entries"}, 0).ret = 0 /\ ~ (0 < 0)
      BY QuietRet
    <3> QED BY <1>15, <1>17, <3>1, Zenon
  <2>2. LeftFor({"fs_dir"}, "pushf", TRUE)
    BY LeftCases, Zenon
  <2>3. Returned'
    <3>1. CASE dir = Quiet({"fs_dir"}, -1)
      BY <1>17, <2>2, <3>1, DoneReturns
    <3>2. CASE dir = Quiet({}, -1)
      BY <1>9, <1>17, <3>2, DoneReturns
    <3> QED BY <2>1, <3>1, <3>2
  <2> QED BY <1>13, <1>17, <2>3 DEF ShellInv
<1>18. CASE m.ret < 0 /\ dir.ret = 0 /\ again.ret = 0 /\ Written(again) /\ Filled
  <2>1. d \in mounted /\ d \in Disks
    BY <1>16, <1>18
  <2>2. again # Quiet({}, -1)
    BY <1>18, QuietRet
  <2>3. PICK kind : again = Quiet(FileBlocks(kind), 0)
    BY <1>16, <1>18, <2>2, Zenon
  <2>4. Returned'
    BY <1>11, <1>18, <2>1, <2>3
  <2> QED BY <1>12, <1>18, <2>1, <2>4 DEF ShellInv
<1>19. CASE m.ret < 0 /\ dir.ret = 0 /\ again.ret < 0 /\ Done(again, "pushf", FALSE)
            /\ UNCHANGED tree
  <2>1. again = Quiet({}, -1)
    <3>1. \A kind : Quiet(FileBlocks(kind), 0).ret = 0
      BY QuietRet
    <3>2. ~ (0 < 0)
      OBVIOUS
    <3> QED BY <1>16, <1>19, <3>1, <3>2, Zenon
  <2>2. Returned'
    BY <1>9, <1>19, <2>1, DoneReturns
  <2> QED BY <1>13, <1>19, <2>2 DEF ShellInv
<1> QED BY <1>6, <1>14, <1>17, <1>18, <1>19, Zenon

-----------------------------------------------------------------------------
\* After init_disk and the first check_root_path.
LEMMA ShellInit == Init => ShellInv
<1> SUFFICES ASSUME Init PROVE ShellInv
  OBVIOUS
<1>1. mounted \in SUBSET Disks /\ DOMAIN tree = Disks
  BY DEF Init, InitDisk
<1>2. Returned
  <2>1. ref = Registered /\ halted = FALSE /\ left = {}
    BY DEF Init, InitDisk
  <2>2. LeftFor({}, last.command, last.failed)
    BY LeftCases, Zenon
  <2> QED BY <2>1, <2>2 DEF Returned
<1>3. path \in Paths /\ (path = NullPath \/ Opens(path))
  <2> DEFINE ok == {d \in START..START + 25 : Opens(RootOf(d))}
  <2>1. path = IF ok = {} THEN NullPath ELSE RootOf(Min(ok))
    BY DEF Init, CheckRootPath
  <2>2. ok \in SUBSET Nat
    BY DEF START
  <2>3. CASE ok = {}
    <3>1. path = NullPath
      BY <2>1, <2>3
    <3> QED BY <3>1 DEF NullPath, Paths
  <2>4. CASE ok # {}
    <3>1. PICK d : d = Min(ok)
      OBVIOUS
    <3>2. d \in ok
      <4> HIDE DEF ok
      <4> QED BY <2>2, <2>4, <3>1, MinIs
    <3>3. path = RootOf(d) /\ Opens(RootOf(d))
      BY <2>1, <2>4, <3>1, <3>2
    <3>4. d \in Disks
      BY <1>1, <3>3 DEF Opens, RootOf
    <3> QED BY <3>3, <3>4 DEF RootOf, Paths
  <2> QED BY <2>3, <2>4
<1>4. stale \in BOOLEAN /\ ~ stale
  BY DEF Init
<1> QED BY <1>1, <1>2, <1>3, <1>4 DEF ShellInv, ShellTypes, Kept, StaleClean

\* Every command keeps the invariant.
LEMMA ShellStep == ShellInv /\ [Next]_vars => ShellInv'
<1> SUFFICES ASSUME ShellInv, [Next]_vars PROVE ShellInv'
  OBVIOUS
<1>1. CASE UNCHANGED vars
  <2>1. ShellTypes' /\ Kept' /\ StaleClean'
    BY <1>1, PathStays DEF vars
  <2>2. Returned'
    <3>1. ref' = ref /\ halted' = halted /\ left' = left /\ last' = last
      BY <1>1 DEF vars
    <3>2. LeftFor(left, last.command, last.failed)' = LeftFor(left', last'.command, last'.failed)
      BY Zenon DEF LeftFor
    <3>3. LeftFor(left', last'.command, last'.failed)
      BY <3>1 DEF ShellInv, Returned
    <3>4. Registered' = Registered
      BY DEF Registered
    <3> QED BY <3>1, <3>2, <3>3, <3>4 DEF ShellInv, Returned
  <2> QED BY <2>1, <2>2 DEF ShellInv
<1>2. CASE Next
  <2>0. ~ halted
    BY <1>2 DEF Next
  <2>1. ASSUME NEW name \in Names, CdName(name) PROVE ShellInv'
    BY <2>0, <2>1, CdNameKeeps
  <2>2. ASSUME NEW name \in Names, Pushf(name) PROVE ShellInv'
    BY <2>0, <2>2, PushfKeeps
  <2>3. ASSUME NEW name \in Names, Popf(name) PROVE ShellInv'
    BY <2>0, <2>3, PopfKeeps
  <2>4. CASE CdUp
    BY <2>0, <2>4, CdUpKeeps
  <2>5. CASE Dir
    BY <2>0, <2>5, DirKeeps
  <2>6. CASE Md
    BY <2>0, <2>6, MdKeeps
  <2>7. CASE DelOrRename
    BY <2>0, <2>7, DelOrRenameKeeps
  <2>8. ASSUME NEW d \in Disks, CdDisk(d) PROVE ShellInv'
    BY <2>0, <2>8, CdDiskKeeps
  <2>9. ASSUME NEW d \in Disks, DiskFormat(d) PROVE ShellInv'
    BY <2>0, <2>9, FormatKeeps
  <2> QED BY <1>2, <2>1, <2>2, <2>3, <2>4, <2>5, <2>6, <2>7, <2>8, <2>9 DEF Next
<1> QED BY <1>1, <1>2

\* The invariant holds.
LEMMA ShellAlways == Spec => []ShellInv
BY ShellInit, ShellStep, PTL DEF Spec

\* The path is kept.
LEMMA PathIsKept == ASSUME ShellInv PROVE PathKept
BY DEF ShellInv, Kept, StaleClean, PathKept

\* However a cd fails (set_eval_path, check_root_path), with any disks and at
\* any depth, the shell's current path opens, is "(NULL)" or was formatted
\* away, until text stands where fat32.c reads entries.
THEOREM PathKeptAlways == Spec => []PathKept
<1>1. ShellInv => PathKept
  BY PathIsKept
<1> QED BY <1>1, ShellAlways, PTL

\* Until then, from every current path but one two levels below the root of the
\* only disk with a file system, some cd leads to a directory that opens.
THEOREM WayBackAlways == Spec => []WayBack
<1>1. ShellInv => WayBack
  <2> SUFFICES ASSUME ShellInv, path # NullPath, Len(path.names) <= 1, path.disk \in mounted
               PROVE  Opens(path) \/ Opens(Up(path))
    <3>1. ASSUME ShellInv PROVE Len(path.names) <= 1 \/ Len(path.names) > 1
      <4>1. path.names \in Seq(Names)
        BY <3>1, PathParts DEF ShellInv, ShellTypes
      <4>2. Len(path.names) \in Nat
        BY <4>1
      <4> QED BY <4>2
    <3> QED BY <3>1, PathIsKept DEF PathKept, WayBack
  <2>1. PICK d, ns : d = path.disk /\ ns = path.names
    OBVIOUS
  <2>2. path = [disk |-> d, names |-> ns] /\ ns \in Seq(Names)
    BY <2>1, PathParts DEF ShellInv, ShellTypes
  <2>3. CASE ns = <<>>
    <3>1. 1..Len(ns) = {}
      BY <2>3
    <3> QED BY <2>1, <3>1 DEF Opens
  <2>4. CASE ns # <<>>
    <3>1. Len(ns) = 1
      <4>1. Len(ns) \in Nat /\ Len(ns) # 0
        BY <2>2, <2>4
      <4>2. Len(ns) <= 1
        BY <2>1
      <4> QED BY <4>1, <4>2
    <3>2. Front(ns) = <<>>
      BY <2>2, <3>1 DEF Front
    <3>3. PICK p : p = [path EXCEPT !.names = Front(@)]
      OBVIOUS
    <3>4. p.disk = d /\ p.names = <<>>
      BY <2>2, <3>2, <3>3
    <3>5. 1..Len(p.names) = {}
      BY <3>4
    <3>6. Opens(p)
      BY <2>1, <3>4, <3>5 DEF Opens
    <3> QED BY <2>1, <2>4, <3>3, <3>6 DEF Up
  <2> QED BY <2>3, <2>4
<1> QED BY <1>1, ShellAlways, PTL

\* No command of cmds.c, with any path and whatever opens or does not, keeps a
\* disk referenced, frees a block twice but in a cd into a file without a
\* cluster, or leaves a block behind but the fs_dir of a failed open
\* (fat32.c:1204) and the first fs of a format.
THEOREM ReleasedAlways == Spec => []Released
<1>1. ShellInv => Released
  <2> SUFFICES ASSUME ShellInv PROVE Released
    OBVIOUS
  <2>1. /\ ref = Registered /\ (halted => last.command = "cd empty")
        /\ LeftFor(left, last.command, last.failed)
    BY DEF ShellInv, Returned
  <2>2. \A d \in Disks : ref[d] = 0
    BY <2>1 DEF Registered
  <2>3. /\ left # {} => last.failed \/ last.command = "format"
        /\ left \subseteq {"fs_dir", "first fs"}
    BY <2>1, Zenon DEF LeftFor
  <2> QED BY <2>1, <2>2, <2>3, Zenon DEF Released
<1> QED BY <1>1, ShellAlways, PTL
=============================================================================
