------------------------------- MODULE Bitmap -------------------------------
(***************************************************************************)
(* The kernel heap of TEST-OS (bitmap.c): a next-fit allocator of pages.   *)
(* Every operation runs under bitmap_lock, so each is one action, but      *)
(* realloc takes the lock once to allocate and once more to free.          *)
(*                                                                         *)
(* A page is named by its index from bits_start, an address by the index   *)
(* of the page the block's header is in.                                   *)
(*                                                                         *)
(* A search can run out of the heap (see Malloc).  It then writes a header *)
(* into the bitmap or the kernel, or marks bits behind the bitmap, which   *)
(* are the header of page 0: nothing can be said of what follows, and the  *)
(* model stops there, with spoilt set.                                     *)
(***************************************************************************)
EXTENDS Integers, FiniteSets

CONSTANTS
    MapBytes,   \* map_size
    Bits,       \* bits in a byte of the map: 8
    Tail,       \* whole pages between the last one in the map and bits_end
    PageSize,   \* 4 * KB
    Requests    \* the sizes, in bytes, that malloc and realloc are called with

N == MapBytes * Bits
Header == 8     \* the magic and the block's size

ASSUME BitmapAssumption ==
    /\ MapBytes \in Nat \ {0} /\ Bits \in Nat \ {0}
    /\ Tail \in 0 .. Bits
    /\ PageSize \in Nat /\ PageSize > Header
    /\ Requests \subseteq Nat

VARIABLES
    map,        \* the pages whose bit is 1
    ptr,        \* bits_ptr, as a page index
    blocks,     \* the blocks in use: first page, pages, bytes asked for, and
                \* copy = 1 if just that block was in use when it was handed out
    moved,      \* old blocks of a realloc that has yet to free them
    nulls,      \* how many calls of malloc in a row returned NULL: 0, 1 or more
    spoilt      \* whether malloc has taken what is not the heap's

vars == <<map, ptr, blocks, moved, nulls, spoilt>>

Pages(b) == b.page .. b.page + b.pages - 1
Free == (0 .. N - 1) \ map

\* Mutant: the size is not rounded up.
PagesForDown(size) == ((IF size = 0 THEN 1 ELSE size) + Header) \div PageSize

\* The pages a request of size bytes takes, its header included.
PagesFor(size) ==
    LET bytes == (IF size = 0 THEN 1 ELSE size) + Header
    IN  (bytes + PageSize - 1) \div PageSize

\* Some k free pages in a row.
Fits(k) == \E p \in Free : p .. p + k - 1 \subseteq Free

-----------------------------------------------------------------------------
(***************************************************************************)
(* The search.  `found' counts free pages in a row; a pass that scans the  *)
(* pages from .. to - 1 with `found' = carry at its start stops at the     *)
(* first page e where it reaches k.                                        *)
(***************************************************************************)
\* Mutant: the pass scans one page more.
HitsPastEnd(from, to, carry, k) ==
    {e \in from .. to :
        \/ from <= e - k + 1 /\ (e - k + 1 .. e) \cap map = {}
        \/ (from .. e) \cap map = {} /\ carry + (e - from + 1) = k}

Hits(from, to, carry, k) ==
    {e \in from .. to - 1 :
        \/ from <= e - k + 1 /\ (e - k + 1 .. e) \cap map = {}
        \/ (from .. e) \cap map = {} /\ carry + (e - from + 1) = k}

FirstHit(S) == CHOOSE e \in S : \A x \in S : e <= x

\* `found' at the end of a pass that fails.
Carry(from, to) == Cardinality({e \in from .. to - 1 : (e .. to - 1) \cap map = {}})

\* The bytes of the map that the second pass scans.  The subtraction is
\* unsigned: from the start of the heap it yields a huge number, here -1.
Len == IF N - ptr + Tail < N THEN MapBytes - (N - ptr + Tail) \div Bits - 1 ELSE -1

Block(e, k, size) ==
    [page |-> e - k + 1, pages |-> k, asked |-> size,
     copy |-> IF \E c \in blocks : c.page = e - k + 1 /\ c.pages = k THEN 1 ELSE 0]

\* Mutant: the block is not marked.
TakeUnmarked(e, k, size) ==
    /\ nulls' = 0
    /\ blocks' = blocks \cup {Block(e, k, size)}
    /\ ptr' = e + 1
    /\ UNCHANGED <<map, spoilt>>

\* Mutant: the next search starts before the block instead of behind it.
TakePtrBack(e, k, size) ==
    /\ nulls' = 0
    /\ blocks' = blocks \cup {Block(e, k, size)}
    /\ map' = map \cup (e - k + 1 .. e)
    /\ ptr' = e - k
    /\ UNCHANGED spoilt

\* malloc returns the block of k pages that ends at page e.
Take(e, k, size) ==
    /\ nulls' = 0
    /\ blocks' = blocks \cup {Block(e, k, size)}
    /\ map' = map \cup (e - k + 1 .. e)
    /\ ptr' = e + 1
    /\ UNCHANGED spoilt

\* malloc has left the heap.
Spoil == spoilt' = TRUE /\ UNCHANGED <<map, ptr, blocks, nulls>>

\* The search ends at page e; free pages that were counted on from the end
\* of the map to its start make a block that begins before the heap.
EndAt(e, k, size) ==
    \/ e - k + 1 .. e \subseteq 0 .. N - 1 /\ Take(e, k, size)
    \/ ~(e - k + 1 .. e \subseteq 0 .. N - 1) /\ Spoil

\* Mutant: a search that fails leaves bits_ptr where it was.
FailKeepsPtr ==
    /\ nulls' = (IF nulls = 0 THEN 1 ELSE 2)
    /\ UNCHANGED <<map, blocks, ptr, spoilt>>

\* malloc returns NULL; bits_ptr is back at the start of the heap.
Fail ==
    /\ nulls' = (IF nulls = 0 THEN 1 ELSE 2)
    /\ ptr' = 0
    /\ UNCHANGED <<map, blocks, spoilt>>

Malloc(size) ==
    LET k == PagesFor(size)
        first == Hits(ptr, N, 0, k)
        carry == Carry(ptr, N)
        second == Hits(0, IF Len < 0 THEN N ELSE Len * Bits, carry, k)
    IN  /\ ~spoilt
        /\ \/ first # {} /\ EndAt(FirstHit(first), k, size)
           \/ first = {} /\ second # {} /\ EndAt(FirstHit(second), k, size)
           \/ first = {} /\ second = {} /\ Len >= 0 /\ Fail
           \* Nothing ends the second pass at the end of the map.
           \/ first = {} /\ second = {} /\ Len < 0 /\ Spoil

\* Mutant: free clears one bit more than the block has.
ClearOneMore(b) == map' = map \ (Pages(b) \cup {b.page + b.pages})

\* Mutant: free leaves the last page of the block marked.
ClearOneLess(b) == map' = map \ (Pages(b) \ {b.page + b.pages - 1})

\* free clears the bits of the block.
Clear(b) == map' = map \ Pages(b)

-----------------------------------------------------------------------------
Init ==
    /\ map = {} /\ ptr = 0 /\ blocks = {} /\ moved = {}
    /\ nulls = 0 /\ spoilt = FALSE

MallocCall == \E size \in Requests : Malloc(size) /\ UNCHANGED moved

FreeCall ==
    /\ ~spoilt
    /\ \E b \in blocks \ moved :
         /\ Clear(b)
         /\ blocks' = blocks \ {b}
    /\ UNCHANGED <<ptr, moved, nulls, spoilt>>

\* realloc with a size of 0 is free, and of a null address is malloc.
ReallocInPlace ==
    /\ ~spoilt
    /\ \E b \in blocks \ moved, size \in Requests \ {0} :
         /\ b.pages * PageSize >= size
         /\ blocks' = (blocks \ {b}) \cup {[b EXCEPT !.asked = size]}
    /\ UNCHANGED <<map, ptr, moved, nulls, spoilt>>

ReallocMove ==
    \E b \in blocks \ moved, size \in Requests \ {0} :
        /\ b.pages * PageSize < size
        /\ Malloc(size)
        /\ moved' = IF nulls' > 0 THEN moved ELSE moved \cup {b}

ReallocFree ==
    /\ ~spoilt
    /\ \E b \in moved :
         /\ Clear(b)
         /\ blocks' = blocks \ {b}
         /\ moved' = moved \ {b}
    /\ UNCHANGED <<ptr, nulls, spoilt>>

Next == MallocCall \/ FreeCall \/ ReallocInPlace \/ ReallocMove \/ ReallocFree

Spec == Init /\ [][Next]_vars

-----------------------------------------------------------------------------
(***************************************************************************)
(* Properties.                                                             *)
(***************************************************************************)

\* The types of the allocator's state.
TypeOK ==
    /\ map \subseteq 0 .. N - 1
    /\ ptr \in 0 .. N
    /\ blocks \subseteq [page : Nat, pages : Nat \ {0}, asked : Nat, copy : 0 .. 1]
    /\ moved \subseteq blocks
    /\ nulls \in 0 .. 2
    /\ spoilt \in BOOLEAN

\* Until malloc leaves the heap no page ever belongs to two blocks, whatever
\* sizes are asked for and freed, with the heap full or fragmented, and while
\* a realloc holds both its blocks.
Disjoint ==
    spoilt \/ \A b, c \in blocks : b # c => Pages(b) \cap Pages(c) = {}

\* Until then the bitmap and the blocks agree, through any sequence of calls:
\* no page of a block is marked free, and none is lost.
Exact == spoilt \/ map = UNION {Pages(b) : b \in blocks}

\* A request of at most a page made while a page is free never leaves the
\* heap, whatever was asked for and freed before: neither the free pages
\* counted on from the end of the map nor the second pass without an end
\* reach it.
InHeap ==
    [][\A size \in Requests :
         PagesFor(size) = 1 /\ Free # {} /\ Malloc(size) => ~spoilt']_vars

\* When malloc has returned NULL although the pages are there (the second
\* pass leaves out the last ones), a request that fits some hole is served
\* when it is made again, though not when it is made first.
RetrySucceeds ==
    [][\A size \in Requests :
         nulls = 1 /\ Fits(PagesFor(size)) /\ Malloc(size) => nulls' = 0]_vars

\* The block has room for the bytes its owner asked for, behind its header.
Holds(b) == b.asked + Header <= b.pages * PageSize

\* A block that malloc has just taken, for itself or for realloc, is as large
\* as asked for.
MallocHolds ==
    [][\A size \in Requests : Malloc(size) => \A b \in blocks' \ blocks : Holds(b)]_vars

\* A block in use is as large as its owner asked for last, be it by realloc.
Capacity == \A b \in blocks : Holds(b)

\* A block as its owner sees it.
Granted(b) == [name |-> b.copy, pages |-> Pages(b)]

\* The allocator keeps the promise of malloc and free until it leaves the heap.
Promise == INSTANCE Heap WITH
             HeapPages <- 0 .. N - 1,
             Names <- 0 .. 1,
             owned <- {Granted(b) : b \in blocks}
KeepsPromise == Promise!HeapSpec
=============================================================================
