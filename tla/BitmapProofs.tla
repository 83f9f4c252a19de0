---------------------------- MODULE BitmapProofs ----------------------------
(***************************************************************************)
(* Proofs about the heap of Bitmap, for every size of heap, every set of   *)
(* requests and every number of stray pages behind the map, as long as     *)
(* malloc stays in the heap.                                               *)
(***************************************************************************)
EXTENDS Bitmap, FiniteSetTheorems, WellFoundedInduction, TLAPS

\* N, the number of pages in the map, is a positive number.
LEMMA NType == N \in Nat \ {0}
  BY BitmapAssumption DEF N

\* A quotient is a natural number, and positive if the divisor fits.
LEMMA DivType ==
    ASSUME NEW a \in Nat, NEW b \in Nat \ {0}
    PROVE  a \div b \in Nat /\ (a >= b => a \div b > 0)
  OBVIOUS

\* Every request, of no bytes too, takes at least one page.
LEMMA PagesForType ==
    ASSUME NEW size \in Nat
    PROVE  PagesFor(size) \in Nat \ {0}
<1> DEFINE bytes == (IF size = 0 THEN 1 ELSE size) + Header
<1>1. bytes \in Nat /\ bytes > 0
  BY DEF Header
<1>2. PageSize \in Nat \ {0}
  BY BitmapAssumption DEF Header
<1>3. bytes + PageSize - 1 \in Nat /\ bytes + PageSize - 1 >= PageSize
  BY <1>1, <1>2
<1>4. (bytes + PageSize - 1) \div PageSize \in Nat \ {0}
  <2> HIDE DEF bytes
  <2> QED BY <1>2, <1>3, DivType
<1> QED BY <1>4 DEF PagesFor

\* The first hit of a pass that has one is a hit.
LEMMA FirstHitIsHit ==
    ASSUME NEW S \in SUBSET Nat, S # {}
    PROVE  FirstHit(S) \in S
<1>1. IsWellFoundedOn(OpToRel(<, Nat), Nat)
  BY NatLessThanWellFounded
<1>2. PICK e \in S : \A y \in S : ~ (<<y, e>> \in OpToRel(<, Nat))
  BY <1>1, WFMin
<1>3. ASSUME NEW y \in S PROVE e <= y
  <2>1. y < e => <<y, e>> \in OpToRel(<, Nat)
    BY Zenon DEF OpToRel
  <2>2. ~ (y < e)
    BY <1>2, <2>1, Zenon
  <2> QED BY <2>2
<1> QED BY <1>2, <1>3 DEF FirstHit

-----------------------------------------------------------------------------
(***************************************************************************)
(* The inductive invariant.  Disjoint alone is not inductive: the search   *)
(* only looks at the map, so the map has to be the blocks.                 *)
(***************************************************************************)
Marked == map = UNION {Pages(b) : b \in blocks}

Apart == \A b, c \in blocks : b # c => Pages(b) \cap Pages(c) = {}

IInv == TypeOK /\ Marked /\ Apart

\* Where a pass of the search ends, the block that would be taken overlaps
\* nothing that is marked: the pages that a carried `found' adds lie before
\* the heap.
LEMMA HitIsFree ==
    ASSUME TypeOK, NEW from \in Nat, NEW to \in Int, NEW carry, NEW k \in Nat \ {0},
           from = 0 \/ carry = 0,
           NEW e \in Hits(from, to, carry, k)
    PROVE  e \in Nat /\ (e - k + 1 .. e) \cap map = {}
<1>1. e \in Nat /\ e \in Int
  BY DEF Hits
<1>2. CASE from <= e - k + 1 /\ (e - k + 1 .. e) \cap map = {}
  BY <1>1, <1>2
<1>3. CASE (from .. e) \cap map = {} /\ carry + (e - from + 1) = k
  <2>1. CASE from = 0
    <3>1. (e - k + 1 .. e) \cap (0 .. N - 1) \subseteq 0 .. e
      BY <1>1, NType
    <3> QED BY <1>1, <1>3, <2>1, <3>1 DEF TypeOK
  <2>2. CASE carry = 0
    <3>1. e - k + 1 = from
      BY <1>1, <1>3, <2>2
    <3> QED BY <1>1, <1>3, <3>1
  <2> QED BY <2>1, <2>2
<1> QED BY <1>2, <1>3 DEF Hits

\* The bounds of the two passes are integers, and the second pass ends inside
\* the map.
LEMMA Bounds ==
    ASSUME TypeOK
    PROVE  /\ ptr \in Nat /\ N \in Nat /\ Len \in Int
           /\ Len >= 0 => Len * Bits \in Int /\ Len * Bits <= N
<1>1. /\ ptr \in Nat /\ N \in Nat /\ Bits \in Nat \ {0} /\ Tail \in Nat
      /\ MapBytes \in Nat /\ ptr <= N
  BY NType, BitmapAssumption DEF TypeOK
<1> DEFINE left == N - ptr + Tail
<1>2. left \in Nat
  BY <1>1
<1>3. left \div Bits \in Nat
  <2> HIDE DEF left
  <2> QED BY <1>1, <1>2, DivType
<1>4. Len \in Int /\ (Len >= 0 => Len \in Nat /\ Len <= MapBytes)
  BY <1>1, <1>3 DEF Len
<1>5. \A a \in Nat : a <= MapBytes => a * Bits \in Int /\ a * Bits <= MapBytes * Bits
  BY <1>1
<1> QED BY <1>1, <1>4, <1>5 DEF N

\* What one call of malloc does: it takes a block of unmarked pages of the
\* heap, fails, or leaves the heap.
LEMMA MallocCases ==
    ASSUME TypeOK, NEW size \in Requests, Malloc(size)
    PROVE  \/ \E e \in Nat : /\ e - PagesFor(size) + 1 .. e \subseteq 0 .. N - 1
                             /\ (e - PagesFor(size) + 1 .. e) \cap map = {}
                             /\ Take(e, PagesFor(size), size)
           \/ Fail
           \/ Spoil
<1> DEFINE k == PagesFor(size)
           first == Hits(ptr, N, 0, k)
           to == IF Len < 0 THEN N ELSE Len * Bits
           second == Hits(0, to, Carry(ptr, N), k)
<1>1. size \in Nat /\ k \in Nat \ {0}
  BY PagesForType, BitmapAssumption
<1>2. ptr \in Nat /\ N \in Int /\ to \in Int
  BY Bounds
<1>3. ASSUME NEW from \in Nat, NEW to_ \in Int, NEW carry, from = 0 \/ carry = 0,
             Hits(from, to_, carry, k) # {},
             EndAt(FirstHit(Hits(from, to_, carry, k)), k, size)
      PROVE  \/ \E e \in Nat : /\ e - k + 1 .. e \subseteq 0 .. N - 1
                               /\ (e - k + 1 .. e) \cap map = {}
                               /\ Take(e, k, size)
             \/ Spoil
  <2> DEFINE e == FirstHit(Hits(from, to_, carry, k))
  <2>1. Hits(from, to_, carry, k) \subseteq Nat
    BY DEF Hits
  <2>2. e \in Hits(from, to_, carry, k)
    BY <1>3, <2>1, FirstHitIsHit
  <2> HIDE DEF k
  <2>3. e \in Nat /\ (e - k + 1 .. e) \cap map = {}
    <3> HIDE DEF e
    <3> QED BY <1>1, <1>3, <2>2, HitIsFree
  <2>4. EndAt(e, k, size)
    BY <1>3
  <2> HIDE DEF e
  <2> QED BY <2>3, <2>4 DEF EndAt
<1>4. \/ first # {} /\ EndAt(FirstHit(first), k, size)
      \/ second # {} /\ EndAt(FirstHit(second), k, size)
      \/ Fail
      \/ Spoil
  BY DEF Malloc
<1>5. CASE first # {} /\ EndAt(FirstHit(first), k, size)
  <2> HIDE DEF k
  <2> QED BY <1>2, <1>3, <1>5 DEF k
<1>6. CASE second # {} /\ EndAt(FirstHit(second), k, size)
  <2> HIDE DEF to, k
  <2> QED BY <1>2, <1>3, <1>6 DEF k
<1> HIDE DEF first, second
<1> QED BY <1>4, <1>5, <1>6

\* Taking a block of unmarked pages keeps the invariant.
LEMMA TakeKeeps ==
    ASSUME IInv, NEW e \in Nat, NEW k \in Nat \ {0}, NEW size \in Nat,
           e - k + 1 .. e \subseteq 0 .. N - 1, (e - k + 1 .. e) \cap map = {},
           Take(e, k, size), moved' \subseteq blocks
    PROVE  IInv'
<1> DEFINE new == Block(e, k, size)
<1>1. e \in 0 .. N - 1 /\ e - k + 1 \in 0 .. N - 1 /\ e - k + 1 \in Nat
  <2>1. e \in e - k + 1 .. e /\ e - k + 1 \in e - k + 1 .. e
    OBVIOUS
  <2>2. e \in 0 .. N - 1 /\ e - k + 1 \in 0 .. N - 1
    BY <2>1, Zenon
  <2> QED BY <2>2, NType
<1>2. new \in [page : Nat, pages : Nat \ {0}, asked : Nat, copy : 0 .. 1]
  BY <1>1 DEF Block
<1>3. Pages(new) = e - k + 1 .. e
  BY DEF Pages, Block
<1>4. blocks' = blocks \cup {new} /\ map' = map \cup Pages(new)
  BY <1>3 DEF Take
<1>5. TypeOK'
  <2>1. map' \subseteq 0 .. N - 1
    <3>1. map \subseteq 0 .. N - 1
      BY DEF IInv, TypeOK
    <3> QED BY <1>3, <1>4, <3>1, Zenon
  <2>2. blocks' \subseteq [page : Nat, pages : Nat \ {0}, asked : Nat, copy : 0 .. 1]
    BY <1>2, <1>4 DEF IInv, TypeOK
  <2>3. ptr' \in 0 .. N /\ nulls' \in 0 .. 2 /\ spoilt' \in BOOLEAN
    BY <1>1, NType DEF Take, IInv, TypeOK
  <2>4. moved' \subseteq blocks'
    BY <1>4
  <2> QED BY <2>1, <2>2, <2>3, <2>4 DEF TypeOK
<1>6. \A b \in blocks : Pages(b) \subseteq map
  BY DEF IInv, Marked
<1>7. \A b \in blocks : Pages(b) \cap Pages(new) = {}
  BY <1>3, <1>6, Zenon
<1> HIDE DEF new
<1>8. Marked'
  BY <1>4 DEF IInv, Marked, Pages
<1>9. Apart'
  BY <1>4, <1>7 DEF IInv, Apart, Pages
<1> QED BY <1>5, <1>8, <1>9 DEF IInv

\* malloc keeps the invariant.
LEMMA MallocKeeps ==
    ASSUME IInv, NEW size \in Requests, Malloc(size), moved' \subseteq blocks
    PROVE  IInv'
<1>1. size \in Nat /\ PagesFor(size) \in Nat \ {0} /\ TypeOK
  BY PagesForType, BitmapAssumption DEF IInv
<1>2. CASE Fail
  <2>1. TypeOK'
    BY <1>2, NType DEF Fail, IInv, TypeOK
  <2> QED BY <1>2, <2>1 DEF Fail, IInv, Marked, Apart, Pages
<1>3. CASE Spoil
  <2>1. TypeOK'
    BY <1>3 DEF Spoil, IInv, TypeOK
  <2> QED BY <1>3, <2>1 DEF Spoil, IInv, Marked, Apart, Pages
<1>4. ASSUME NEW e \in Nat, e - PagesFor(size) + 1 .. e \subseteq 0 .. N - 1,
             (e - PagesFor(size) + 1 .. e) \cap map = {}, Take(e, PagesFor(size), size)
      PROVE  IInv'
  BY <1>1, <1>4, TakeKeeps
<1> QED BY <1>1, <1>2, <1>3, <1>4, MallocCases

\* Freeing a block unmarks its pages and no page of another one.
LEMMA ClearKeeps ==
    ASSUME IInv, NEW b \in blocks, Clear(b), blocks' = blocks \ {b},
           moved' \subseteq blocks', UNCHANGED <<ptr, nulls, spoilt>>
    PROVE  IInv'
<1>1. map' = map \ Pages(b)
  BY DEF Clear
<1>2. TypeOK'
  BY <1>1 DEF IInv, TypeOK
<1>3. Marked'
  <2>1. \A c \in blocks : c # b => Pages(c) \cap Pages(b) = {}
    BY DEF IInv, Apart
  <2> QED BY <1>1, <2>1 DEF IInv, Marked, Pages
<1>4. Apart'
  BY DEF IInv, Apart, Pages
<1> QED BY <1>2, <1>3, <1>4 DEF IInv

\* The invariant holds of the empty heap and every operation keeps it.
LEMMA Invariance == Spec => []IInv
<1>1. Init => IInv
  <2> SUFFICES ASSUME Init PROVE IInv
    OBVIOUS
  <2>1. TypeOK /\ Apart
    <3>1. 0 \in 0 .. N
      BY NType
    <3>2. spoilt \in BOOLEAN
      BY Zenon DEF Init
    <3>3. map \subseteq 0 .. N - 1 /\ moved \subseteq blocks /\ Apart
      BY Zenon DEF Init, Apart
    <3>4. blocks = {} /\ ptr = 0 /\ nulls = 0
      BY DEF Init
    <3> QED BY <3>1, <3>2, <3>3, <3>4 DEF TypeOK
  <2>2. Marked
    BY Zenon DEF Init, Marked
  <2> QED BY <2>1, <2>2 DEF IInv
<1>2. IInv /\ [Next]_vars => IInv'
  <2> SUFFICES ASSUME IInv, [Next]_vars PROVE IInv'
    OBVIOUS
  <2>1. CASE MallocCall
    BY <2>1, MallocKeeps DEF MallocCall, IInv, TypeOK
  <2>2. CASE FreeCall
    <3>1. PICK b \in blocks \ moved : Clear(b) /\ blocks' = blocks \ {b}
                                      /\ UNCHANGED <<ptr, moved, nulls, spoilt>>
      BY <2>2 DEF FreeCall
    <3>2. moved' \subseteq blocks'
      BY <3>1 DEF IInv, TypeOK
    <3> QED BY <3>1, <3>2, ClearKeeps
  <2>3. CASE ReallocInPlace
    <3>1. PICK b \in blocks \ moved, size \in Requests \ {0} :
             /\ blocks' = (blocks \ {b}) \cup {[b EXCEPT !.asked = size]}
             /\ UNCHANGED <<map, ptr, moved, nulls, spoilt>>
      BY <2>3 DEF ReallocInPlace
    <3> DEFINE new == [b EXCEPT !.asked = size]
    <3>2. /\ new \in [page : Nat, pages : Nat \ {0}, asked : Nat, copy : 0 .. 1]
          /\ Pages(new) = Pages(b)
      BY <3>1, BitmapAssumption DEF IInv, TypeOK, Pages
    <3>3. blocks' = (blocks \ {b}) \cup {new}
      BY <3>1
    <3> HIDE DEF new
    <3>4. TypeOK'
      BY <3>1, <3>2, <3>3 DEF IInv, TypeOK
    <3>5. Marked'
      <4>1. \A p : (\E c \in blocks : p \in Pages(c)) <=> \E c \in blocks' : p \in Pages(c)
        BY <3>2, <3>3, Zenon
      <4>2. \A c : Pages(c)' = Pages(c)
        BY DEF Pages
      <4> QED BY <3>1, <4>1, <4>2 DEF IInv, Marked, Pages
    <3>6. Apart'
      BY <3>1, <3>2, <3>3 DEF IInv, Apart, Pages
    <3> QED BY <3>4, <3>5, <3>6 DEF IInv
  <2>4. CASE ReallocMove
    <3>1. PICK b \in blocks \ moved, size \in Requests \ {0} :
             /\ Malloc(size)
             /\ moved' = IF nulls' > 0 THEN moved ELSE moved \cup {b}
      BY <2>4 DEF ReallocMove
    <3>2. moved' \subseteq blocks
      BY <3>1 DEF IInv, TypeOK
    <3> QED BY <3>1, <3>2, MallocKeeps
  <2>5. CASE ReallocFree
    <3>1. PICK b \in moved : /\ Clear(b) /\ blocks' = blocks \ {b}
                             /\ moved' = moved \ {b} /\ UNCHANGED <<ptr, nulls, spoilt>>
      BY <2>5 DEF ReallocFree
    <3>2. b \in blocks /\ moved' \subseteq blocks'
      BY <3>1 DEF IInv, TypeOK
    <3> QED BY <3>1, <3>2, ClearKeeps
  <2>6. CASE UNCHANGED vars
    BY <2>6 DEF vars, IInv, TypeOK, Marked, Apart, Pages
  <2> QED BY <2>1, <2>2, <2>3, <2>4, <2>5, <2>6 DEF Next
<1> QED BY <1>1, <1>2, PTL DEF Spec

\* The state of the allocator keeps its type: bits_ptr never leaves the heap
\* and every block lies in it, for every heap, as long as malloc stays there.
THEOREM TypeCorrect == Spec => []TypeOK
<1>1. IInv => TypeOK
  BY DEF IInv
<1> QED BY <1>1, Invariance, PTL

\* malloc, realloc and free never let two blocks share a page before malloc
\* leaves the heap: for every size of heap and of request, with the heap full
\* or fragmented, with the wrapped search of bitmap_malloc, and between the
\* two halves of a realloc.
THEOREM BlocksDisjoint == Spec => []Disjoint
<1>1. IInv => Disjoint
  BY DEF IInv, Apart, Disjoint
<1> QED BY <1>1, Invariance, PTL

\* bitmap_malloc and bitmap_free lose no page and mark none twice before
\* malloc leaves the heap, after any sequence of calls: a bit is 1 exactly if
\* a block in use has the page.
THEOREM MapExact == Spec => []Exact
<1>1. IInv => Exact
  BY DEF IInv, Marked, Exact
<1> QED BY <1>1, Invariance, PTL

-----------------------------------------------------------------------------
(***************************************************************************)
(* Requests of at most a page.                                             *)
(***************************************************************************)

\* A hit for one page is a page of the heap.
LEMMA HitInPass ==
    ASSUME TypeOK, NEW to \in Int, to <= N, NEW from \in Nat, NEW carry,
           NEW e \in Hits(from, to, carry, 1)
    PROVE  e - 1 + 1 .. e \subseteq 0 .. N - 1
<1>1. e \in from .. to - 1
  BY DEF Hits
<1> QED BY <1>1, NType

\* Whatever other clients ask for, a request of at most a page that is made
\* while a page is free is served inside the heap or fails: bitmap_malloc
\* does not then return memory before bits_start or search behind the map.
THEOREM PagesInHeap == Spec => InHeap
<1>1. ASSUME IInv, NEW size \in Requests, PagesFor(size) = 1, Free # {}, Malloc(size)
      PROVE  ~spoilt'
  <2> DEFINE first == Hits(ptr, N, 0, 1)
             to == IF Len < 0 THEN N ELSE Len * Bits
             second == Hits(0, to, Carry(ptr, N), 1)
  <2>1. ptr \in Nat /\ N \in Nat /\ N \in Int /\ to \in Int /\ to <= N /\ TypeOK
    BY <1>1, Bounds DEF IInv
  <2>2. ASSUME NEW from \in Nat, NEW to_ \in Int, to_ <= N, NEW carry,
               Hits(from, to_, carry, 1) # {},
               EndAt(FirstHit(Hits(from, to_, carry, 1)), 1, size)
        PROVE  Take(FirstHit(Hits(from, to_, carry, 1)), 1, size)
    <3>1. Hits(from, to_, carry, 1) \subseteq Nat
      BY DEF Hits
    <3>2. FirstHit(Hits(from, to_, carry, 1)) \in Hits(from, to_, carry, 1)
      BY <2>2, <3>1, FirstHitIsHit
    <3> QED BY <2>1, <2>2, <3>2, HitInPass DEF EndAt
  <2>3. ~ (second = {} /\ Len < 0)
    <3> SUFFICES ASSUME Len < 0 PROVE second # {}
      OBVIOUS
    <3>1. PICK p \in 0 .. N - 1 : p \notin map
      BY <1>1 DEF Free
    <3>2. p - 1 + 1 .. p = {p} /\ 0 <= p - 1 + 1
      BY <2>1
    <3>3. p \in Hits(0, N, Carry(ptr, N), 1)
      BY <3>1, <3>2 DEF Hits
    <3>4. to = N
      OBVIOUS
    <3> HIDE DEF to
    <3> QED BY <3>3, <3>4
  <2>4. CASE first # {} /\ EndAt(FirstHit(first), 1, size)
    <3>1. Take(FirstHit(first), 1, size)
      BY <2>1, <2>2, <2>4
    <3> HIDE DEF first
    <3> QED BY <1>1, <3>1 DEF Take, Malloc
  <2>5. CASE second # {} /\ EndAt(FirstHit(second), 1, size)
    <3> HIDE DEF to
    <3>1. Take(FirstHit(second), 1, size)
      BY <2>1, <2>2, <2>5
    <3> HIDE DEF second
    <3> QED BY <1>1, <3>1 DEF Take, Malloc
  <2>6. CASE Fail
    BY <1>1, <2>6 DEF Fail, Malloc
  <2>7. \/ first # {} /\ EndAt(FirstHit(first), 1, size)
        \/ second # {} /\ EndAt(FirstHit(second), 1, size)
        \/ Fail
        \/ second = {} /\ Len < 0
    BY <1>1 DEF Malloc
  <2> HIDE DEF first, second
  <2> QED BY <2>3, <2>4, <2>5, <2>6, <2>7
<1>2. IInv /\ [Next]_vars
        => [\A size \in Requests :
              PagesFor(size) = 1 /\ Free # {} /\ Malloc(size) => ~spoilt']_vars
  BY <1>1
<1> QED BY <1>2, Invariance, PTL DEF Spec, InHeap

-----------------------------------------------------------------------------
(***************************************************************************)
(* The promise of malloc and free.                                         *)
(***************************************************************************)

\* Every step is a step of the abstract heap, or changes nothing that the
\* abstract heap sees.
LEMMA HeapStep ==
    ASSUME IInv, [Next]_vars
    PROVE  [Promise!Alloc \/ Promise!Release]_{Granted(b) : b \in blocks}
<1> DEFINE owned == {Granted(b) : b \in blocks}
<1>1. ASSUME NEW size \in Requests, Malloc(size)
      PROVE  Promise!Alloc \/ owned' = owned
  <2>1. CASE Fail \/ Spoil
    BY <2>1 DEF Fail, Spoil, Granted, Pages
  <2>2. ASSUME NEW e \in Nat, e - PagesFor(size) + 1 .. e \subseteq 0 .. N - 1,
               (e - PagesFor(size) + 1 .. e) \cap map = {}, Take(e, PagesFor(size), size)
        PROVE  Promise!Alloc
    <3> DEFINE k == PagesFor(size)
               P == e - k + 1 .. e
               new == Block(e, k, size)
    <3>1. k \in Nat \ {0}
      BY PagesForType, BitmapAssumption
    <3>2. Pages(new) = P /\ new.copy \in 0 .. 1 /\ blocks' = blocks \cup {new}
      <4>1. Block(e, k, size).copy \in 0 .. 1
        BY DEF Block
      <4>2. Pages(Block(e, k, size)) = P
        <5> HIDE DEF k
        <5> QED BY <3>1 DEF Pages, Block
      <4>3. blocks' = blocks \cup {Block(e, k, size)}
        BY <2>2 DEF Take
      <4> QED BY <4>1, <4>2, <4>3
    <3> HIDE DEF new
    <3>3. owned' = owned \cup {[name |-> new.copy, pages |-> P]}
      BY <3>2 DEF Granted, Pages
    <3>4. P \in SUBSET (0 .. N - 1) /\ P \cap map = {}
      BY <2>2
    <3>5. P # {}
      <4> HIDE DEF k
      <4>1. e \in P
        BY <3>1
      <4> QED BY <4>1
    <3> HIDE DEF P, k
    <3>6. \A c \in owned : P \cap c.pages = {}
      BY <3>4 DEF IInv, Marked, Granted
    <3> QED BY <3>2, <3>3, <3>4, <3>5, <3>6 DEF Promise!Alloc
  <2>3. TypeOK
    BY DEF IInv
  <2> QED BY <1>1, <2>1, <2>2, <2>3, MallocCases
<1>2. ASSUME NEW b \in blocks, blocks' = blocks \ {b} PROVE Promise!Release
  <2>1. \A c \in blocks : Pages(c) # {}
    BY DEF IInv, TypeOK, Pages
  <2>2. \A c \in blocks : c # b => Pages(c) # Pages(b)
    BY <2>1 DEF IInv, Apart
  <2>3. \A c \in blocks : c # b => Granted(c) # Granted(b)
    BY <2>2 DEF Granted
  <2>4. owned' = owned \ {Granted(b)}
    BY <1>2, <2>3 DEF Granted, Pages
  <2> QED BY <2>4 DEF Promise!Release
<1>3. CASE ReallocInPlace
  <2>1. PICK b \in blocks, size \in Requests :
           blocks' = (blocks \ {b}) \cup {[b EXCEPT !.asked = size]}
    BY <1>3 DEF ReallocInPlace
  <2> DEFINE new == [b EXCEPT !.asked = size]
  <2>2. Granted(new) = Granted(b)
    BY DEF IInv, TypeOK, Pages, Granted
  <2>3. blocks' = (blocks \ {b}) \cup {new}
    BY <2>1
  <2> HIDE DEF new
  <2>4. owned' = owned
    BY <2>2, <2>3 DEF Granted, Pages
  <2> QED BY <2>4
<1>4. CASE UNCHANGED vars
  BY <1>4 DEF vars, Granted, Pages
<1>5. CASE FreeCall \/ ReallocFree
  <2>1. PICK b \in blocks : blocks' = blocks \ {b}
    BY <1>5 DEF FreeCall, ReallocFree, IInv, TypeOK
  <2> QED BY <1>2, <2>1
<1> QED BY <1>1, <1>3, <1>4, <1>5 DEF Next, MallocCall, ReallocMove

\* For every heap and all requests the allocator implements the abstract heap
\* until malloc leaves the heap.
THEOREM HeapKeepsPromise == Spec => KeepsPromise
<1>1. Init => Promise!HeapInit
  BY DEF Init, Promise!HeapInit
<1>2. IInv /\ [Next]_vars
        => [Promise!Alloc \/ Promise!Release]_{Granted(b) : b \in blocks}
  BY HeapStep
<1> QED BY <1>1, <1>2, Invariance, PTL DEF Spec, KeepsPromise, Promise!HeapSpec

-----------------------------------------------------------------------------
(***************************************************************************)
(* A search that failed starts at the first page when it is tried again.   *)
(***************************************************************************)
RetriesFromStart == nulls > 0 => ptr = 0

\* Whatever the clients do, bits_ptr is at the start after a NULL.
LEMMA RetryFromStart == Spec => []RetriesFromStart
<1>1. Init => RetriesFromStart
  BY DEF Init, RetriesFromStart
<1>2. RetriesFromStart /\ [Next]_vars => RetriesFromStart'
  <2> SUFFICES ASSUME RetriesFromStart, [Next]_vars PROVE RetriesFromStart'
    OBVIOUS
  <2>1. ASSUME NEW size, Malloc(size) PROVE RetriesFromStart'
    <3>1. nulls' = 0 \/ ptr' = 0 \/ UNCHANGED <<nulls, ptr>>
      BY <2>1 DEF Malloc, EndAt, Take, Fail, Spoil
    <3> QED BY <3>1 DEF RetriesFromStart
  <2> QED BY <2>1 DEF Next, MallocCall, ReallocMove, FreeCall, ReallocInPlace,
                      ReallocFree, RetriesFromStart, vars
<1> QED BY <1>1, <1>2, PTL DEF Spec

\* When bitmap_malloc has returned NULL although the pages are there (the
\* second pass leaves out the last ones), a request of any size that fits some
\* hole is served: the failed search put bits_ptr back to the start, and the
\* first pass then sees every page.
THEOREM RetryIsServed == Spec => RetrySucceeds
<1>1. ASSUME IInv, RetriesFromStart, NEW size \in Requests, nulls = 1,
             Fits(PagesFor(size)), Malloc(size)
      PROVE  nulls' = 0
  <2> DEFINE k == PagesFor(size)
             first == Hits(0, N, 0, k)
  <2>1. k \in Nat \ {0} /\ N \in Nat /\ ptr = 0 /\ TypeOK
    BY <1>1, PagesForType, BitmapAssumption, NType DEF RetriesFromStart, IInv
  <2>2. PICK p \in Free : p .. p + k - 1 \subseteq Free
    BY <1>1 DEF Fits
  <2> HIDE DEF k
  <2>3. p \in 0 .. N - 1 /\ p + k - 1 \in p .. p + k - 1
    BY <2>1, <2>2 DEF Free
  <2>4. p + k - 1 \in 0 .. N - 1
    BY <2>2, <2>3, Zenon DEF Free
  <2>5. (p + k - 1) - k + 1 = p
    BY <2>1, <2>3
  <2>6. (p .. p + k - 1) \cap map = {}
    BY <2>2 DEF Free
  <2>7. p + k - 1 \in first
    BY <2>1, <2>3, <2>4, <2>5, <2>6 DEF Hits
  <2>8. EndAt(FirstHit(first), k, size)
    BY <1>1, <2>1, <2>7 DEF Malloc, k
  <2>9. FirstHit(first) \in first
    <3>1. first \subseteq Nat
      BY DEF Hits
    <3> QED BY <2>7, <3>1, FirstHitIsHit
  <2>10. FirstHit(first) - k + 1 .. FirstHit(first) \subseteq 0 .. N - 1
    <3> DEFINE e == FirstHit(first)
    <3>1. e \in 0 .. N - 1 /\ 0 <= e - k + 1
      <4> HIDE DEF e
      <4>1. e \in first
        BY <2>9 DEF e
      <4> QED BY <2>1, <4>1 DEF Hits
    <3> HIDE DEF e
    <3>2. e - k + 1 .. e \subseteq 0 .. N - 1
      BY <2>1, <3>1
    <3> QED BY <3>2 DEF e
  <2> HIDE DEF first
  <2>11. Take(FirstHit(first), k, size)
    BY <2>8, <2>10 DEF EndAt
  <2> QED BY <2>11 DEF Take
<1>2. IInv /\ RetriesFromStart /\ [Next]_vars
        => [\A size \in Requests :
              nulls = 1 /\ Fits(PagesFor(size)) /\ Malloc(size) => nulls' = 0]_vars
  BY <1>1
<1> QED BY <1>2, Invariance, RetryFromStart, PTL DEF Spec, RetrySucceeds

-----------------------------------------------------------------------------
(***************************************************************************)
(* The size of a block.  What realloc leaves in place is another matter:   *)
(* it compares the new size with the block's pages and forgets the header. *)
(***************************************************************************)

\* Rounding up: k pages of s bytes hold b bytes.
LEMMA RoundedUp ==
    ASSUME NEW b \in Nat, NEW s \in Nat \ {0}
    PROVE  b <= ((b + s - 1) \div s) * s
<1> DEFINE q == (b + s - 1) \div s
           r == (b + s - 1) % s
<1>1. b + s - 1 = s * q + r /\ r \in 0 .. s - 1 /\ q \in Int
  OBVIOUS
<1> HIDE DEF q, r
<1>2. s * q = q * s /\ s * q \in Int
  BY <1>1
<1>3. b <= s * q
  BY <1>1, <1>2
<1> QED BY <1>2, <1>3 DEF q

\* The pages a request takes hold its bytes and the header.
LEMMA PagesForHolds ==
    ASSUME NEW size \in Nat
    PROVE  size + Header <= PagesFor(size) * PageSize
<1> DEFINE bytes == (IF size = 0 THEN 1 ELSE size) + Header
<1>1. bytes \in Nat /\ size + Header <= bytes /\ PageSize \in Nat \ {0}
  BY BitmapAssumption DEF Header
<1>2. bytes <= ((bytes + PageSize - 1) \div PageSize) * PageSize
  <2> HIDE DEF bytes
  <2> QED BY <1>1, RoundedUp
<1>3. PagesFor(size) = (bytes + PageSize - 1) \div PageSize
  BY DEF PagesFor
<1>4. PagesFor(size) * PageSize \in Int
  BY <1>1, PagesForType
<1> HIDE DEF bytes
<1> QED BY <1>1, <1>2, <1>3, <1>4 DEF Header

\* Whatever size is asked for, a block that bitmap_malloc has just taken, for
\* itself or for bitmap_realloc, holds that size behind its header.
THEOREM BlocksHold == Spec => MallocHolds
<1>1. ASSUME TypeOK, NEW size \in Requests, Malloc(size), NEW b \in blocks' \ blocks
      PROVE  Holds(b)
  <2> DEFINE k == PagesFor(size)
  <2>1. PICK e : blocks' = blocks \cup {Block(e, k, size)}
    BY <1>1, MallocCases DEF Take, Fail, Spoil
  <2>2. b.asked = size /\ b.pages = k
    BY <2>1 DEF Block
  <2> QED BY <2>2, PagesForHolds, BitmapAssumption DEF Holds
<1>2. IInv /\ [Next]_vars
        => [\A size \in Requests :
              Malloc(size) => \A b \in blocks' \ blocks : Holds(b)]_vars
  BY <1>1 DEF IInv
<1> QED BY <1>2, Invariance, PTL DEF Spec, MallocHolds
=============================================================================
