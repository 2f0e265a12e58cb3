----------------------------- MODULE HeapMalloc -----------------------------
(***************************************************************************)
(* The heap of staging/malloc.c: blocks behind headers that form a list in *)
(* both directions, free blocks in buckets, neighbours merged when they    *)
(* are freed and split when they are taken, and a client that uses the     *)
(* memory as main of that file does.                                       *)
(*                                                                         *)
(* Sizes and addresses are in units of HEAP_ALIGNMENT, which is the size   *)
(* of a header, the least size of a block and the size of a free block's   *)
(* list pointers.  One action is one call; the heap is not thread-safe.    *)
(***************************************************************************)
EXTENDS Integers, Sequences, FiniteSets, FiniteSetsExt, SequencesExt, TLC

CONSTANTS Pointers,  \* the client's pointers (p of main)
          Sizes,     \* the sizes it asks for
          MapSize,   \* DEFAULT_MAP_SIZE
          Page,      \* the size of a page
          Buckets,   \* HEAP_NBUCKETS
          Bases,     \* where mmap places mappings; bounds their number
          NULL, Zero, Junk  \* no block, cleared memory, bytes of the heap's own

ASSUME SizesAssumption == /\ Sizes \subseteq Nat
                          /\ \E largest \in Sizes : \A n \in Sizes : n <= largest
                          /\ {MapSize, Page} \subseteq Nat \ {0, 1}
                          /\ Buckets \in Nat \ {0}
\* Mappings do not touch: guard pages are around them.
MaxMapping == MapSize + Max(Sizes) + Page
ASSUME BasesAssumption ==
  /\ Bases \subseteq Nat
  /\ \A b, c \in Bases : b < c => b + MaxMapping < c
ASSUME ValuesAssumption == /\ NULL \notin Nat
                           /\ Zero # Junk /\ {Zero, Junk} \cap Pointers = {}

VARIABLES
  heap,    \* head: the header at the address of each block; data: what each
           \* mapped unit holds; free: the free list of each bucket
  ptr,     \* the block of each pointer of the client
  want,    \* the size it has asked for
  checked, \* what it asserted about the memory of the last call was true
  crashed  \* heap_realloc copied to NULL

vars == <<heap, ptr, want, checked, crashed>>

Header == [prev : Nat, size : Nat \ {0}, used : BOOLEAN, last : BOOLEAN, zeroed : BOOLEAN]

TypeOK == /\ \A b \in DOMAIN heap.head : heap.head[b] \in Header
          /\ DOMAIN heap.head \subseteq DOMAIN heap.data
          /\ \A i \in DOMAIN heap.data : heap.data[i] \in Pointers \cup {Zero, Junk}
          /\ heap.free \in [0..(Buckets - 1) -> Seq(DOMAIN heap.head)]
          /\ ptr \in [Pointers -> DOMAIN heap.head \cup {NULL}]
          /\ want \in [Pointers -> Sizes \cup {0}]
          /\ checked \in BOOLEAN /\ crashed \in BOOLEAN
-----------------------------------------------------------------------------
(* Blocks: get_next and get_previous, which abort if the sizes of two       *)
(* neighbours disagree (BlocksTile says that they never do).                *)
SizeOf(h, b) == h.head[b].size
After(h, b)  == b + 1 + SizeOf(h, b)
NextOf(h, b) == IF h.head[b].last THEN NULL ELSE After(h, b)
PrevOf(h, b) == IF h.head[b].prev = 0 THEN NULL ELSE b - h.head[b].prev - 1
IsFree(h, b) == b # NULL /\ ~h.head[b].used
Units(b, n)  == (b + 1)..(b + n)

LeavePrevSize(h, b, n) == h  \* Mutant: the next header keeps the old size.
SetPrevSize(h, b, n) == IF b = NULL THEN h ELSE [h EXCEPT !.head[b].prev = n]

Filled(h, units, x) ==
  [h EXCEPT !.data = [i \in DOMAIN h.data \cup units |-> IF i \in units THEN x ELSE h.data[i]]]

\* The lowest bit of the size that is set (__builtin_ctz), or the last bucket.
BitsSet(n)  == {k \in 0..n : (n \div 2^k) % 2 = 1}
BucketOf(n) == Min(BitsSet(n) \cup {Buckets - 1})

\* The list pointers are in the first unit of the free block.
FreeListInsert(h, b) ==
  [Filled(h, {b + 1}, Junk) EXCEPT !.free[BucketOf(SizeOf(h, b))] = <<b>> \o @]

KeepInFreeList(h, b) == h  \* Mutant: a block that is taken stays in its list.
FreeListRemove(h, b) ==
  [h EXCEPT !.free = [i \in DOMAIN h.free |-> RemoveFirst(h.free[i], b)]]

MergeableUnchecked(h, b) == b # NULL  \* Mutant: merge whatever is next door.
Mergeable(h, b)          == IsFree(h, b)

\* Two neighbours become one block at the first of them, with the flags of `mine`;
\* the other one is no longer free.
Join(h, first, second, mine) ==
  LET other  == IF mine = first THEN second ELSE first
      size   == After(h, second) - first - 1
      header == [h.head[mine] EXCEPT !.prev = h.head[first].prev, !.size = size,
                                     !.last = h.head[second].last]
      h1     == [FreeListRemove(h, other) EXCEPT !.head =
                   [x \in DOMAIN h.head \ {second} |-> IF x = first THEN header ELSE h.head[x]]]
  IN  SetPrevSize(h1, NextOf(h, second), size)

\* try_merge: the block that results is the predecessor's if that one is free.
MergeNext(h, b) == IF Mergeable(h, NextOf(h, b)) THEN Join(h, b, NextOf(h, b), b) ELSE h
MergePrev(h, b) == IF Mergeable(h, PrevOf(h, b))
                   THEN [heap |-> Join(h, PrevOf(h, b), b, b), block |-> PrevOf(h, b)]
                   ELSE [heap |-> h, block |-> b]
Merge(h, b, merge_prev) == IF merge_prev THEN MergePrev(MergeNext(h, b), b)
                           ELSE [heap |-> MergeNext(h, b), block |-> b]

SplitToNothing(size, n) == size >= n + 1  \* Mutant: the rest may be empty.
WorthSplitting(size, n) == size >= n + 2

\* maybe_split_block: the rest becomes a free block of its own.
Split(h, b, n) ==
  LET rest   == b + 1 + n
      size   == SizeOf(h, b) - n - 1
      front  == [h.head[b] EXCEPT !.size = n, !.last = FALSE]
      header == [h.head[b] EXCEPT !.prev = n, !.size = size, !.used = FALSE]
      h1     == [h EXCEPT !.head = [x \in DOMAIN h.head \cup {rest} |->
                   CASE x = b -> front [] x = rest -> header [] OTHER -> h.head[x]]]
      h2     == SetPrevSize(h1, NextOf(h, b), size)
  IN  IF WorthSplitting(SizeOf(h, b), n)
      THEN FreeListInsert(Filled(h2, {rest}, Junk), rest) ELSE h
-----------------------------------------------------------------------------
\* find_free_block: the first that fits, from the bucket of the size on.
Fitting(h, i, n) == {j \in DOMAIN h.free[i] : SizeOf(h, h.free[i][j]) >= n}
FindFree(h, n) ==
  LET buckets == {i \in BucketOf(n)..(Buckets - 1) : Fitting(h, i, n) # {}}
      bucket  == Min(buckets)
  IN  IF buckets = {} THEN NULL ELSE h.free[bucket][Min(Fitting(h, bucket, n))]

\* alloc_pages and the header of the whole mapping.
RoundUp(n)   == ((n + Page - 1) \div Page) * Page
MapUnits(n)  == Max({MapSize, RoundUp(n + 1)})
FreeBases(h) == Bases \ DOMAIN h.data
Map(h, n, b) ==
  LET size   == MapUnits(n) - 1
      header == [prev |-> 0, size |-> size, used |-> TRUE, last |-> TRUE, zeroed |-> TRUE]
  IN  [Filled(Filled(h, Units(b, size), Zero), {b}, Junk) EXCEPT !.head =
         [x \in DOMAIN h.head \cup {b} |-> IF x = b THEN header ELSE h.head[x]]]

\* __heap_malloc; `maps` says whether the kernel gives memory if it is asked.
TakeFree(h, b) == [FreeListRemove(h, b) EXCEPT !.head[b].used = TRUE]
Malloc(h, n, maps) ==
  LET found == FindFree(h, n)
      base  == Min(FreeBases(h))
  IN  CASE n # 0 /\ found # NULL -> [heap |-> Split(TakeFree(h, found), found, n), block |-> found]
        [] n # 0 /\ found = NULL /\ maps /\ FreeBases(h) # {} ->
             [heap |-> Split(Map(h, n, base), base, n), block |-> base]
        [] OTHER -> [heap |-> h, block |-> NULL]

\* Mutant: heap_malloc leaves the mark that the memory is cleared.
StillZeroed(h, b) == h
ClearZeroed(h, b) == IF b = NULL THEN h ELSE [h EXCEPT !.head[b].zeroed = FALSE]

\* heap_malloc.
TakeBlock(h, n, maps) ==
  LET m == Malloc(h, n, maps)
  IN  [heap |-> ClearZeroed(m.heap, m.block), block |-> m.block]

\* The memory of heap_calloc: only the list pointers need clearing in a block
\* that is marked as zeroed.
Cleared(h, b) ==
  Filled(ClearZeroed(h, b), Units(b, IF h.head[b].zeroed THEN 1 ELSE SizeOf(h, b)), Zero)

\* free_memblock: a mapping that is free as a whole is unmapped, if munmap
\* succeeds (`unmaps`).
FreeBlock(h, b, unmaps) ==
  IF unmaps /\ PrevOf(h, b) = NULL /\ NextOf(h, b) = NULL
  THEN [h EXCEPT !.head = [x \in DOMAIN h.head \ {b} |-> h.head[x]],
                 !.data = [i \in DOMAIN h.data \ (b..(b + SizeOf(h, b))) |-> h.data[i]]]
  ELSE FreeListInsert([h EXCEPT !.head[b].used = FALSE], b)

\* memmove and memcpy of n units from the memory of one block to another's.
Copied(h, from, to, n) ==
  [h EXCEPT !.data = [i \in DOMAIN h.data |->
     IF i \in Units(to, n) THEN h.data[from + (i - to)] ELSE h.data[i]]]
-----------------------------------------------------------------------------
Init == /\ heap = [head |-> <<>>, data |-> <<>>,
                   free |-> [i \in 0..(Buckets - 1) |-> <<>>]]
        /\ ptr = [p \in Pointers |-> NULL]
        /\ want = [p \in Pointers |-> 0]
        /\ checked = TRUE /\ crashed = FALSE

\* What the client wrote is Junk as soon as the memory is not its own.
Disowned(h, pt, wt) ==
  LET Owned(i, p) == pt[p] # NULL /\ i \in Units(pt[p], wt[p])
  IN  [h EXCEPT !.data = [i \in DOMAIN h.data |->
         IF h.data[i] \in Pointers /\ ~Owned(i, h.data[i]) THEN Junk ELSE h.data[i]]]

\* The client gets a block, asserts what it expects of its units, and writes
\* all of them.
Returned(p, n, h, b, expected) ==
  /\ ptr' = [ptr EXCEPT ![p] = b]
  /\ want' = [want EXCEPT ![p] = IF b = NULL THEN 0 ELSE n]
  /\ checked' = (b = NULL \/ expected)
  /\ heap' = Disowned(IF b = NULL THEN h ELSE Filled(h, Units(b, n), p), ptr', want')
  /\ UNCHANGED crashed

HeapMalloc(p, n, maps) ==
  LET m == TakeBlock(heap, n, maps)
  IN  /\ ptr[p] = NULL
      /\ Returned(p, n, m.heap, m.block, TRUE)

HeapCalloc(p, n, maps) ==
  LET m == Malloc(heap, n, maps)
      h == IF m.block = NULL THEN m.heap ELSE Cleared(m.heap, m.block)
  IN  /\ ptr[p] = NULL
      /\ Returned(p, n, h, m.block, \A i \in Units(m.block, n) : h.data[i] = Zero)

HeapFree(p, unmaps) ==
  LET m == Merge(heap, ptr[p], TRUE)
  IN  /\ ptr[p] # NULL
      /\ Returned(p, 0, FreeBlock(m.heap, m.block, unmaps), NULL, TRUE)

\* heap_realloc of a block to a size that is not 0 (without a block it is
\* heap_malloc, and to the size 0 it is heap_free).  After merging, the block
\* is large enough (its data moves when it begins at the predecessor now) ...
Merged(b, n) ==
  LET m == Merge(heap, b, FALSE)
  IN  IF SizeOf(m.heap, b) < n THEN Merge(m.heap, b, TRUE) ELSE m

Kept(p, h, b, n) ==
  \A i \in Units(b, Min({want[p], n})) : h.data[i] = p

ReallocInPlace(p, n) ==
  LET b == ptr[p]
      m == Merged(b, n)
      h == IF m.block = b THEN m.heap
           ELSE Copied(m.heap, b, m.block, Min({n, SizeOf(heap, b)}))
  IN  /\ b # NULL /\ n # 0
      /\ SizeOf(m.heap, m.block) >= n
      /\ Returned(p, n, Split(h, m.block, n), m.block, Kept(p, h, m.block, n))

\* ... or is not: then its data goes to a new block and it is freed.  The copy
\* starts at the merged block.
ReallocElsewhere(p, n, maps, unmaps) ==
  LET b == ptr[p]
      m == Merged(b, n)
      t == TakeBlock(m.heap, n, maps)
      h == Copied(t.heap, m.block, t.block, Min({n, SizeOf(heap, b)}))
  IN  /\ b # NULL /\ n # 0
      /\ SizeOf(m.heap, m.block) < n
      /\ \/ /\ t.block # NULL
            /\ Returned(p, n, FreeBlock(h, m.block, unmaps), t.block, Kept(p, h, t.block, n))
         \/ /\ t.block = NULL
            /\ crashed' = TRUE /\ checked' = TRUE
            /\ UNCHANGED <<heap, ptr, want>>

HeapRealloc(p, n) ==
  \/ ReallocInPlace(p, n)
  \/ \E maps, unmaps \in BOOLEAN : ReallocElsewhere(p, n, maps, unmaps)

Call == \E p \in Pointers :
  \/ \E n \in Sizes, maps \in BOOLEAN : HeapMalloc(p, n, maps) \/ HeapCalloc(p, n, maps)
  \/ \E n \in Sizes : HeapRealloc(p, n)
  \/ \E unmaps \in BOOLEAN : HeapFree(p, unmaps)

Next == \/ ~crashed /\ Call
        \/ crashed /\ UNCHANGED vars

Spec == Init /\ [][Next]_vars
-----------------------------------------------------------------------------
Blocks == DOMAIN heap.head

\* The blocks of a mapping follow each other without a gap and know the size
\* of the one before; the first has none before and the last one ends the
\* mapping.  (The code aborts with "Heap corruption" when that is not so.)
Tiles(h) ==
  \A b \in DOMAIN h.head :
    /\ Units(b, SizeOf(h, b)) \subseteq DOMAIN h.data \ DOMAIN h.head
    /\ h.head[b].prev = 0 <=> b \in Bases
    /\ b \in Bases \/ (PrevOf(h, b) \in DOMAIN h.head /\ After(h, PrevOf(h, b)) = b)
    /\ IF h.head[b].last THEN After(h, b) \notin DOMAIN h.data
       ELSE After(h, b) \in DOMAIN h.head /\ h.head[After(h, b)].prev = SizeOf(h, b)
BlocksTile == Tiles(heap)

\* The free lists hold exactly the free blocks, each once and in the bucket of
\* its size, and no two neighbours are free: whatever merging, splitting and
\* moving did, the heap knows all of its free memory.
FreeListsExact ==
  LET listed == FlattenSeq([i \in 1..Buckets |-> heap.free[i - 1]])
  IN  /\ ToSet(listed) = {b \in Blocks : ~heap.head[b].used}
      /\ IsInjective(listed)
      /\ \A i \in 0..(Buckets - 1) : \A b \in ToSet(heap.free[i]) :
           /\ BucketOf(SizeOf(heap, b)) = i
           /\ ~IsFree(heap, NextOf(heap, b))

\* Every pointer of the client has a block of its own that is large enough, and
\* no call disturbs what another pointer's memory holds.
MemoryKept ==
  /\ \A p \in Pointers : ptr[p] # NULL =>
       /\ heap.head[ptr[p]].used /\ SizeOf(heap, ptr[p]) >= want[p]
       /\ \A i \in Units(ptr[p], want[p]) : heap.data[i] = p
  /\ \A p, q \in Pointers : p # q /\ ptr[p] # NULL => ptr[p] # ptr[q]

\* Memory of heap_calloc is zero, and heap_realloc keeps what its block holds,
\* unless it has to move a block whose predecessor is free.
Moves(p) == /\ ptr[p] # NULL /\ IsFree(heap, PrevOf(heap, ptr[p]))
            /\ ptr'[p] \notin {NULL, ptr[p], PrevOf(heap, ptr[p])}
ContentsAsPromised == [][~checked' => \E p \in Pointers : Moves(p)]_vars

\* What main of malloc.c asserts of the memory heap_calloc and heap_realloc
\* return holds.
AssertionsHold == checked
-----------------------------------------------------------------------------
\* For the model checker.
PointerSymmetry == Permutations(Pointers)
=============================================================================
