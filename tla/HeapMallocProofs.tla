-------------------------- MODULE HeapMallocProofs --------------------------
(***************************************************************************)
(* The heap keeps its blocks, its free lists and its clients' memory       *)
(* apart, whatever is allocated, moved and freed, for any sizes, pages,    *)
(* buckets, mappings and clients.                                          *)
(***************************************************************************)
EXTENDS HeapMalloc, DataLemmas

BlocksOf(h)   == DOMAIN h.head
FreeBlocks(h) == {b \in BlocksOf(h) : ~h.head[b].used}
Content       == Pointers \cup {Zero, Junk}

IsFunction(f) == f = [x \in DOMAIN f |-> f[x]]
IsHeap(h)     == h = [head |-> h.head, data |-> h.data, free |-> h.free]

Typed(h) ==
  /\ BlocksOf(h) \subseteq DOMAIN h.data /\ DOMAIN h.data \subseteq Nat
  /\ h.head \in [BlocksOf(h) -> Header]
  /\ h.data \in [DOMAIN h.data -> Content]
  /\ IsFunction(h.free) /\ DOMAIN h.free = 0..(Buckets - 1)

\* Memory is mapped from a base on, without gaps, and all of it is in blocks.
Mapped(h) ==
  \A i \in DOMAIN h.data :
    /\ \E base \in Bases : /\ base <= i /\ i < base + MaxMapping
                           /\ base..i \subseteq DOMAIN h.data
    /\ \E b \in BlocksOf(h) : b <= i /\ i <= b + SizeOf(h, b)

\* The list of a bucket holds the free blocks of its sizes, each once.
FreeOf(h, i) == {b \in FreeBlocks(h) : BucketOf(SizeOf(h, b)) = i}
Listed(h) ==
  \A i \in 0..(Buckets - 1) :
    /\ h.free[i] \in Seq(Nat) /\ IsInjective(h.free[i])
    /\ Range(h.free[i]) = FreeOf(h, i)

\* No two neighbours are free.
Apart(h) == \A b \in FreeBlocks(h) : ~IsFree(h, NextOf(h, b))

\* A block that is marked as zeroed is cleared but for the free list's pointers.
Marked(h) ==
  \A b \in BlocksOf(h) :
    h.head[b].zeroed => \A i \in (b + 2)..(b + SizeOf(h, b)) : h.data[i] = Zero

Sound(h) == IsHeap(h) /\ Typed(h) /\ Tiles(h) /\ Mapped(h) /\ Listed(h) /\ Apart(h) /\ Marked(h)

\* The client's blocks are its own, and not marked, and hold what it wrote.
Owns(h, b, n, p) ==
  /\ b \in BlocksOf(h) /\ h.head[b].used /\ ~h.head[b].zeroed /\ SizeOf(h, b) >= n
  /\ \A i \in Units(b, n) : h.data[i] = p

Client(h, pt, wt) ==
  /\ pt \in [Pointers -> Nat \cup {NULL}] /\ wt \in [Pointers -> Sizes \cup {0}]
  /\ \A p \in Pointers : pt[p] # NULL => Owns(h, pt[p], wt[p], p)
  /\ \A p, q \in Pointers : p # q /\ pt[p] # NULL => pt[p] # pt[q]

IInv == /\ Sound(heap) /\ Client(heap, ptr, want)
        /\ checked \in BOOLEAN /\ crashed \in BOOLEAN
-----------------------------------------------------------------------------
(* Sizes, buckets and lists.                                                *)

LEMMA MinIs ==
  ASSUME NEW T \in SUBSET Nat, T # {}
  PROVE  Min(T) \in T /\ \A k \in T : Min(T) <= k
  <1>1. PICK m \in T : \A k \in T : m <= k BY LeastElement
  <1>2. QED BY <1>1 DEF Min

LEMMA BucketRange ==
  ASSUME NEW n
  PROVE  BucketOf(n) \in 0..(Buckets - 1)
  <1> DEFINE T == BitsSet(n) \cup {Buckets - 1}
  <1>1. Buckets - 1 \in Nat BY SizesAssumption
  <1>2. T \in SUBSET Nat /\ T # {} BY <1>1 DEF BitsSet
  <1>3. Min(T) \in T /\ \A k \in T : Min(T) <= k
    <2> HIDE DEF T
    <2> QED BY <1>2, MinIs
  <1>4. Min(T) \in Nat /\ Min(T) <= Buckets - 1 BY <1>2, <1>3
  <1>5. QED BY <1>1, <1>4, SizesAssumption DEF BucketOf

LEMMA LargestSize == Max(Sizes) \in Nat /\ \A n \in Sizes : n <= Max(Sizes)
  <1>1. PICK m \in Sizes : \A n \in Sizes : n <= m BY SizesAssumption
  <1>2. \E x \in Sizes : \A y \in Sizes : x >= y BY <1>1, SizesAssumption
  <1>3. Max(Sizes) \in Sizes /\ \A y \in Sizes : Max(Sizes) >= y BY <1>2 DEF Max
  <1>4. QED BY <1>3, SizesAssumption

LEMMA MapBounds ==
  ASSUME NEW n \in Sizes
  PROVE  /\ MapUnits(n) \in Nat /\ MapUnits(n) >= 2 /\ MapUnits(n) <= MaxMapping
         /\ MapUnits(n) - 1 >= n
  <1>1. n \in Nat /\ Page \in Nat \ {0} /\ Page >= 2 /\ MapSize \in Nat /\ MapSize >= 2
    BY SizesAssumption
  <1> DEFINE a == n + 1 + Page - 1
             q == a \div Page
  <1>2. q \in Nat /\ a % Page \in 0..(Page - 1) /\ a = Page * q + (a % Page)
    <2>1. a \in Nat BY <1>1
    <2> HIDE DEF a
    <2>2. QED BY <1>1, <2>1, DivMod
  <1>3. RoundUp(n + 1) = q * Page BY DEF RoundUp
  <1>4. Page * q = q * Page /\ q * Page \in Nat BY <1>1, <1>2
  <1>5. q * Page <= n + Page /\ q * Page >= n + 1 BY <1>1, <1>2, <1>4
  <1>6. MapUnits(n) = IF MapSize >= q * Page THEN MapSize ELSE q * Page
    <2> DEFINE r == q * Page
    <2>1. r \in Int BY <1>4
    <2>2. MapUnits(n) = Max({MapSize, r}) BY <1>3 DEF MapUnits
    <2> HIDE DEF r
    <2>3. PICK m \in {MapSize, r} : \A y \in {MapSize, r} : m >= y BY <1>1, <2>1
    <2>4. Max({MapSize, r}) = IF MapSize >= r THEN MapSize ELSE r
      BY <1>1, <2>1, <2>3 DEF Max
    <2>5. QED BY <2>2, <2>4 DEF r
  <1>7. Max(Sizes) \in Nat /\ n <= Max(Sizes) BY LargestSize
  <1>8. MapUnits(n) >= MapSize /\ MapUnits(n) >= q * Page /\ MapUnits(n) \in {MapSize, q * Page}
    BY <1>1, <1>4, <1>6
  <1> HIDE DEF q
  <1>9. QED BY <1>1, <1>4, <1>5, <1>7, <1>8 DEF MaxMapping

\* Removing an element from a list without duplicates removes just that element.
LEMMA RemoveAtIs ==
  ASSUME NEW s \in Seq(Nat), NEW k \in 1..Len(s)
  PROVE  /\ RemoveAt(s, k) \in Seq(Nat) /\ Len(RemoveAt(s, k)) = Len(s) - 1
         /\ \A i \in 1..(Len(s) - 1) : RemoveAt(s, k)[i] = IF i < k THEN s[i] ELSE s[i + 1]
  <1>0. Len(s) \in Nat /\ k \in Nat /\ 1 <= k /\ k <= Len(s) /\ \A i \in 1..Len(s) : s[i] \in Nat
    BY LenProperties, ElementOfSeq
  <1>1. PICK u : u = SubSeq(s, 1, k - 1) OBVIOUS
  <1>2. PICK v : v = SubSeq(s, k + 1, Len(s)) OBVIOUS
  <1>3. u \in Seq(Nat) /\ Len(u) = k - 1 /\ \A i \in 1..(k - 1) : u[i] = s[i]
    BY <1>0, <1>1
  <1>4. v \in Seq(Nat) /\ Len(v) = Len(s) - k /\ \A i \in 1..(Len(s) - k) : v[i] = s[k + i]
    BY <1>0, <1>2
  <1>5. PICK w : w = u \o v OBVIOUS
  <1>6. /\ w \in Seq(Nat) /\ Len(w) = Len(u) + Len(v)
        /\ \A i \in 1..(Len(u) + Len(v)) : w[i] = IF i <= Len(u) THEN u[i] ELSE v[i - Len(u)]
    BY <1>3, <1>4, <1>5, ConcatProperties
  <1>7. Len(u) + Len(v) = Len(s) - 1 BY <1>0, <1>3, <1>4
  <1>8. ASSUME NEW i \in 1..(Len(s) - 1) PROVE w[i] = IF i < k THEN s[i] ELSE s[i + 1]
    <2>1. CASE i < k BY <1>0, <1>3, <1>6, <1>7, <2>1
    <2>2. CASE ~(i < k)
      <3>1. w[i] = v[i - (k - 1)] BY <1>0, <1>3, <1>6, <1>7, <2>2
      <3>2. i - (k - 1) \in 1..(Len(s) - k) /\ k + (i - (k - 1)) = i + 1 BY <1>0, <2>2
      <3>3. v[i - (k - 1)] = s[k + (i - (k - 1))] BY <1>4, <3>2
      <3>4. QED BY <2>2, <3>1, <3>2, <3>3
    <2>3. QED BY <2>1, <2>2
  <1>9. QED BY <1>1, <1>2, <1>5, <1>6, <1>7, <1>8 DEF RemoveAt

LEMMA RemoveFirstIs ==
  ASSUME NEW s \in Seq(Nat), NEW b, IsInjective(s)
  PROVE  /\ RemoveFirst(s, b) \in Seq(Nat) /\ IsInjective(RemoveFirst(s, b))
         /\ Range(RemoveFirst(s, b)) = Range(s) \ {b}
  <1>0. Len(s) \in Nat /\ DOMAIN s = 1..Len(s) BY LenProperties
  <1> DEFINE I == {i \in 1..Len(s) : s[i] = b}
  <1>1. CASE I = {}
    <2>1. RemoveFirst(s, b) = s BY <1>1 DEF RemoveFirst
    <2>2. b \notin Range(s) BY <1>0, <1>1 DEF Range
    <2>3. QED BY <2>1, <2>2
  <1>2. CASE I # {}
    <2>1. I \in SUBSET Nat BY <1>0
    <2>2. PICK k : k = Min(I) /\ k \in I
      <3> HIDE DEF I
      <3> QED BY <1>2, <2>1, MinIs
    <2>3. k \in 1..Len(s) /\ s[k] = b BY <2>2
    <2>4. SelectInSeq(s, LAMBDA v : v = b) = k BY <1>2, <2>2 DEF SelectInSeq
    <2> HIDE DEF I
    <2>5. PICK w : w = RemoveAt(s, k) OBVIOUS
    <2>6. RemoveFirst(s, b) = w BY <2>3, <2>4, <2>5 DEF RemoveFirst
    <2>7. /\ w \in Seq(Nat) /\ Len(w) = Len(s) - 1
          /\ \A i \in 1..(Len(s) - 1) : w[i] = IF i < k THEN s[i] ELSE s[i + 1]
      BY <2>3, <2>5, RemoveAtIs
    <2>8. DOMAIN w = 1..(Len(s) - 1) BY <2>7
    <2>9. IsInjective(w)
      <3> SUFFICES ASSUME NEW i \in 1..(Len(s) - 1), NEW j \in 1..(Len(s) - 1), w[i] = w[j]
                   PROVE  i = j
        BY <2>8 DEF IsInjective
      <3> DEFINE at(x) == IF x < k THEN x ELSE x + 1
      <3>1. at(i) \in 1..Len(s) /\ at(j) \in 1..Len(s) BY <1>0, <2>3
      <3>2. s[at(i)] = s[at(j)] BY <2>7
      <3>3. at(i) = at(j) BY <1>0, <3>1, <3>2 DEF IsInjective
      <3>4. QED BY <2>3, <3>3
    <2>10. \A i \in 1..(Len(s) - 1) : w[i] \in Range(s) \ {b}
      <3> TAKE i \in 1..(Len(s) - 1)
      <3> DEFINE a == IF i < k THEN i ELSE i + 1
      <3>0. w[i] = s[a] BY <2>7
      <3>1. a \in 1..Len(s) /\ a # k /\ w[i] = s[a] BY <1>0, <2>3, <3>0
      <3>2. s[a] # s[k] BY <1>0, <2>3, <3>1 DEF IsInjective
      <3>3. QED BY <1>0, <2>3, <3>1, <3>2 DEF Range
    <2>11. \A x \in Range(s) \ {b} : \E i \in 1..(Len(s) - 1) : w[i] = x
      <3> TAKE x \in Range(s) \ {b}
      <3>1. PICK a \in 1..Len(s) : s[a] = x BY <1>0 DEF Range
      <3>2. a # k BY <2>3, <3>1
      <3>3. CASE a < k
        <4>1. a \in 1..(Len(s) - 1) /\ w[a] = x BY <1>0, <2>3, <2>7, <3>1, <3>3
        <4>2. QED BY <4>1
      <3>4. CASE ~(a < k)
        <4>1. a - 1 \in 1..(Len(s) - 1) /\ ~(a - 1 < k) /\ (a - 1) + 1 = a
          BY <1>0, <2>3, <3>1, <3>2, <3>4
        <4>2. w[a - 1] = x BY <2>7, <3>1, <4>1
        <4>3. QED BY <4>1, <4>2
      <3>5. QED BY <3>3, <3>4
    <2>12. Range(w) = Range(s) \ {b} BY <2>8, <2>10, <2>11 DEF Range
    <2>13. QED BY <2>6, <2>7, <2>9, <2>12
  <1>3. QED BY <1>1, <1>2

LEMMA InsertIs ==
  ASSUME NEW s \in Seq(Nat), NEW b \in Nat, IsInjective(s), b \notin Range(s)
  PROVE  /\ <<b>> \o s \in Seq(Nat) /\ IsInjective(<<b>> \o s)
         /\ Range(<<b>> \o s) = Range(s) \cup {b}
  <1>0. Len(s) \in Nat /\ DOMAIN s = 1..Len(s) BY LenProperties
  <1> DEFINE w == <<b>> \o s
  <1>1. w \in Seq(Nat) /\ Len(w) = Len(s) + 1 BY <1>0
  <1>2. \A i \in 1..(Len(s) + 1) : w[i] = IF i = 1 THEN b ELSE s[i - 1] BY <1>0
  <1> HIDE DEF w
  <1>3. DOMAIN w = 1..(Len(s) + 1) BY <1>1
  <1>4. \A i \in 1..Len(s) : s[i] # b BY <1>0 DEF Range
  <1>5. IsInjective(w)
    <2> SUFFICES ASSUME NEW i \in 1..(Len(s) + 1), NEW j \in 1..(Len(s) + 1), w[i] = w[j]
                 PROVE  i = j
      BY <1>3 DEF IsInjective
    <2>1. i = 1 <=> j = 1 BY <1>0, <1>2, <1>4
    <2>2. CASE i # 1
      <3>1. i - 1 \in 1..Len(s) /\ j - 1 \in 1..Len(s) /\ s[i - 1] = s[j - 1]
        BY <1>0, <1>2, <2>1, <2>2
      <3>2. i - 1 = j - 1 BY <1>0, <3>1 DEF IsInjective
      <3>3. QED BY <3>2
    <2>3. QED BY <2>1, <2>2
  <1>6. \A i \in 1..(Len(s) + 1) : w[i] \in Range(s) \cup {b}
    <2> TAKE i \in 1..(Len(s) + 1)
    <2>1. CASE i = 1 BY <1>2, <2>1
    <2>2. CASE i # 1
      <3>1. i - 1 \in 1..Len(s) /\ w[i] = s[i - 1] BY <1>0, <1>2, <2>2
      <3>2. QED BY <1>0, <3>1 DEF Range
    <2>3. QED BY <2>1, <2>2
  <1>7. \A x \in Range(s) \cup {b} : \E i \in 1..(Len(s) + 1) : w[i] = x
    <2> TAKE x \in Range(s) \cup {b}
    <2>1. CASE x = b BY <1>0, <1>2, <2>1
    <2>2. CASE x \in Range(s)
      <3>1. PICK a \in 1..Len(s) : s[a] = x BY <1>0, <2>2 DEF Range
      <3>2. a + 1 \in 1..(Len(s) + 1) /\ a + 1 # 1 /\ (a + 1) - 1 = a BY <1>0, <3>1
      <3>3. w[a + 1] = x BY <1>2, <3>1, <3>2
      <3>4. QED BY <3>2, <3>3
    <2>3. QED BY <2>1, <2>2
  <1>8. Range(w) = Range(s) \cup {b} BY <1>3, <1>6, <1>7 DEF Range
  <1>9. QED BY <1>1, <1>5, <1>8 DEF w
-----------------------------------------------------------------------------
(* The geometry of the blocks.                                              *)

LEMMA Neighbours ==
  ASSUME NEW h, Typed(h), Tiles(h), NEW b \in BlocksOf(h)
  PROVE  /\ b \in Nat /\ h.head[b] \in Header
         /\ SizeOf(h, b) \in Nat /\ SizeOf(h, b) >= 1 /\ h.head[b].prev \in Nat
         /\ After(h, b) = b + 1 + SizeOf(h, b)
         /\ \A c \in BlocksOf(h) : c <= b \/ c >= After(h, b)
         /\ \A i \in b..(b + SizeOf(h, b)) : i \in DOMAIN h.data
         /\ IF h.head[b].last THEN NextOf(h, b) = NULL /\ After(h, b) \notin DOMAIN h.data
            ELSE /\ NextOf(h, b) = After(h, b) /\ After(h, b) \in BlocksOf(h)
                 /\ NextOf(h, b) # NULL
                 /\ h.head[After(h, b)].prev = SizeOf(h, b)
                 /\ PrevOf(h, After(h, b)) = b
         /\ IF b \in Bases THEN PrevOf(h, b) = NULL /\ h.head[b].prev = 0
            ELSE /\ PrevOf(h, b) \in BlocksOf(h) /\ After(h, PrevOf(h, b)) = b
                 /\ NextOf(h, PrevOf(h, b)) = b /\ PrevOf(h, b) # NULL
                 /\ h.head[b].prev = SizeOf(h, PrevOf(h, b)) /\ PrevOf(h, b) < b
                 /\ ~h.head[PrevOf(h, b)].last
  <1>1. \A c \in BlocksOf(h) :
          /\ c \in Nat /\ h.head[c] \in Header /\ c \in DOMAIN h.data
          /\ SizeOf(h, c) \in Nat /\ SizeOf(h, c) >= 1 /\ h.head[c].prev \in Nat
          /\ h.head[c].last \in BOOLEAN
    BY DEF Typed, Header, SizeOf, BlocksOf
  <1>2. \A c \in BlocksOf(h) :
          /\ \A i \in (c + 1)..(c + SizeOf(h, c)) : i \in DOMAIN h.data /\ i \notin BlocksOf(h)
          /\ h.head[c].prev = 0 <=> c \in Bases
          /\ c \in Bases \/ (PrevOf(h, c) \in BlocksOf(h) /\ After(h, PrevOf(h, c)) = c)
          /\ IF h.head[c].last THEN After(h, c) \notin DOMAIN h.data
             ELSE After(h, c) \in BlocksOf(h) /\ h.head[After(h, c)].prev = SizeOf(h, c)
    BY DEF Tiles, Units, BlocksOf
  <1>3. \A c \in BlocksOf(h) : c # NULL BY <1>1, ValuesAssumption
  <1>4. \A c \in BlocksOf(h) : c <= b \/ c >= After(h, b)
    <2> TAKE c \in BlocksOf(h)
    <2>1. c \notin (b + 1)..(b + SizeOf(h, b)) BY <1>2
    <2>2. QED BY <1>1, <2>1 DEF After
  <1>5. \A i \in b..(b + SizeOf(h, b)) : i \in DOMAIN h.data
    <2> TAKE i \in b..(b + SizeOf(h, b))
    <2>1. i = b \/ i \in (b + 1)..(b + SizeOf(h, b)) BY <1>1
    <2>2. QED BY <1>1, <1>2, <2>1
  <1>6. \A c \in BlocksOf(h) : ~h.head[c].last =>
          /\ After(h, c) \in BlocksOf(h) /\ NextOf(h, c) = After(h, c) /\ NextOf(h, c) # NULL
          /\ h.head[After(h, c)].prev = SizeOf(h, c) /\ PrevOf(h, After(h, c)) = c
    <2> TAKE c \in BlocksOf(h)
    <2> HAVE ~h.head[c].last
    <2>1. After(h, c) \in BlocksOf(h) /\ h.head[After(h, c)].prev = SizeOf(h, c) BY <1>2
    <2>2. NextOf(h, c) = After(h, c) /\ NextOf(h, c) # NULL BY <1>3, <2>1 DEF NextOf
    <2>3. PrevOf(h, After(h, c)) = After(h, c) - SizeOf(h, c) - 1 BY <1>1, <2>1 DEF PrevOf
    <2>4. After(h, c) - SizeOf(h, c) - 1 = c BY <1>1 DEF After
    <2>5. QED BY <2>1, <2>2, <2>3, <2>4
  <1>7. CASE b \in Bases
    <2>1. PrevOf(h, b) = NULL /\ h.head[b].prev = 0 BY <1>2, <1>7 DEF PrevOf
    <2>2. QED BY <1>1, <1>2, <1>4, <1>5, <1>6, <1>7, <2>1 DEF After, NextOf
  <1>8. CASE b \notin Bases
    <2> DEFINE a == PrevOf(h, b)
    <2>1. a \in BlocksOf(h) /\ After(h, a) = b /\ a # NULL BY <1>2, <1>3, <1>8
    <2>2. ~h.head[a].last BY <1>1, <1>2, <2>1
    <2>3. NextOf(h, a) = b /\ h.head[b].prev = SizeOf(h, a) BY <1>6, <2>1, <2>2
    <2> HIDE DEF a
    <2>4. a < b BY <1>1, <2>1 DEF After
    <2>5. QED BY <1>1, <1>2, <1>4, <1>5, <1>6, <1>8, <2>1, <2>2, <2>3, <2>4 DEF After, NextOf, a
  <1>9. QED BY <1>7, <1>8

LEMMA Disjoint ==
  ASSUME NEW h, Typed(h), Tiles(h), NEW b \in BlocksOf(h), NEW c \in BlocksOf(h), b # c,
         NEW i \in b..(b + SizeOf(h, b))
  PROVE  i \notin c..(c + SizeOf(h, c))
  <1>1. /\ b \in Nat /\ SizeOf(h, b) \in Nat /\ After(h, b) = b + 1 + SizeOf(h, b)
        /\ c <= b \/ c >= After(h, b)
    BY Neighbours
  <1>2. /\ c \in Nat /\ SizeOf(h, c) \in Nat /\ After(h, c) = c + 1 + SizeOf(h, c)
        /\ b <= c \/ b >= After(h, c)
    BY Neighbours
  <1>3. QED BY <1>1, <1>2
-----------------------------------------------------------------------------
(* What the operators do to each part of the heap.                          *)

LEMMA FilledForm ==
  ASSUME NEW h, IsHeap(h), NEW units, NEW x, NEW g, g = Filled(h, units, x)
  PROVE  /\ IsHeap(g) /\ g.head = h.head /\ g.free = h.free
         /\ IsFunction(g.data) /\ DOMAIN g.data = DOMAIN h.data \cup units
         /\ \A i \in DOMAIN g.data : g.data[i] = IF i \in units THEN x ELSE h.data[i]
  <1>1. /\ IsHeap(g) /\ g.head = h.head /\ g.free = h.free
        /\ g.data = [i \in DOMAIN h.data \cup units |-> IF i \in units THEN x ELSE h.data[i]]
    BY DEF IsHeap, Filled
  <1>2. QED BY <1>1 DEF IsFunction

LEMMA RemoveForm ==
  ASSUME NEW h, IsHeap(h), NEW b
  PROVE  LET g == FreeListRemove(h, b)
         IN  /\ IsHeap(g) /\ g.head = h.head /\ g.data = h.data
             /\ g.free = [i \in DOMAIN h.free |-> RemoveFirst(h.free[i], b)]
  BY DEF IsHeap, FreeListRemove

\* g has h's header at x, except for the size of the block before it, if x is at `at`.
SameBlock(h, g, x, at, n) ==
  /\ g.head[x] \in Header
  /\ SizeOf(g, x) = SizeOf(h, x) /\ g.head[x].used = h.head[x].used
  /\ g.head[x].last = h.head[x].last /\ g.head[x].zeroed = h.head[x].zeroed
  /\ g.head[x].prev = IF x = at THEN n ELSE h.head[x].prev

LEMMA SetPrevForm ==
  ASSUME NEW h, IsHeap(h), NEW b, NEW n \in Nat, h.head \in [BlocksOf(h) -> Header],
         NEW at, b = NULL => at \notin BlocksOf(h), b # NULL => b = at /\ b \in BlocksOf(h)
  PROVE  LET g == SetPrevSize(h, b, n)
         IN  /\ IsHeap(g) /\ g.data = h.data /\ g.free = h.free /\ BlocksOf(g) = BlocksOf(h)
             /\ g.head \in [BlocksOf(g) -> Header]
             /\ \A x \in BlocksOf(h) : SameBlock(h, g, x, at, n)
  <1>1. CASE b = NULL BY <1>1 DEF SetPrevSize, BlocksOf, SameBlock, SizeOf
  <1>2. CASE b # NULL
    <2> DEFINE g == SetPrevSize(h, b, n)
    <2>1. g = [h EXCEPT !.head = [h.head EXCEPT ![b] = [h.head[b] EXCEPT !.prev = n]]]
      BY <1>2 DEF SetPrevSize
    <2>2. /\ IsHeap(g) /\ g.data = h.data /\ g.free = h.free
          /\ g.head = [h.head EXCEPT ![b] = [h.head[b] EXCEPT !.prev = n]]
      BY <2>1 DEF IsHeap
    <2> HIDE DEF g
    <2>3. h.head[b] \in Header BY <1>2
    <2> DEFINE header == [h.head[b] EXCEPT !.prev = n]
    <2>4. /\ header \in Header /\ header.prev = n /\ header.size = h.head[b].size
          /\ header.used = h.head[b].used /\ header.last = h.head[b].last
          /\ header.zeroed = h.head[b].zeroed
      BY <2>3 DEF Header
    <2> HIDE DEF header
    <2>5. g.head \in [BlocksOf(h) -> Header] /\ BlocksOf(g) = BlocksOf(h)
      BY <1>2, <2>2, <2>4 DEF BlocksOf, header
    <2>6. \A x \in BlocksOf(h) : g.head[x] = IF x = b THEN header ELSE h.head[x]
      BY <1>2, <2>2 DEF BlocksOf, header
    <2>7. ASSUME NEW x \in BlocksOf(h) PROVE SameBlock(h, g, x, at, n)
      BY <1>2, <2>4, <2>5, <2>6, <2>7 DEF SameBlock, SizeOf
    <2>8. QED BY <2>2, <2>5, <2>7 DEF g
  <1>3. QED BY <1>1, <1>2
-----------------------------------------------------------------------------
(* Free lists that lose or gain a block.                                    *)

LEMMA ListedRemove ==
  ASSUME NEW h, NEW g, NEW b, Listed(h), DOMAIN h.free = 0..(Buckets - 1),
         g.free = [i \in DOMAIN h.free |-> RemoveFirst(h.free[i], b)],
         FreeBlocks(g) = FreeBlocks(h) \ {b},
         \A x \in FreeBlocks(g) : SizeOf(g, x) = SizeOf(h, x)
  PROVE  Listed(g)
  <1> SUFFICES ASSUME NEW i \in 0..(Buckets - 1)
               PROVE  /\ g.free[i] \in Seq(Nat) /\ IsInjective(g.free[i])
                      /\ Range(g.free[i]) = FreeOf(g, i)
    BY DEF Listed
  <1>1. /\ h.free[i] \in Seq(Nat) /\ IsInjective(h.free[i])
        /\ Range(h.free[i]) = FreeOf(h, i)
    BY DEF Listed
  <1>2. g.free[i] = RemoveFirst(h.free[i], b) OBVIOUS
  <1>3. /\ g.free[i] \in Seq(Nat) /\ IsInjective(g.free[i])
        /\ Range(g.free[i]) = Range(h.free[i]) \ {b}
    BY <1>1, <1>2, RemoveFirstIs
  <1>4. FreeOf(g, i) = FreeOf(h, i) \ {b} BY DEF FreeOf
  <1>5. QED BY <1>1, <1>3, <1>4

LEMMA ListedInsert ==
  ASSUME NEW h, NEW g, NEW b \in Nat, Listed(h), b \notin FreeBlocks(h),
         \A i \in 0..(Buckets - 1) :
           g.free[i] = IF i = BucketOf(SizeOf(g, b)) THEN <<b>> \o h.free[i] ELSE h.free[i],
         FreeBlocks(g) = FreeBlocks(h) \cup {b},
         \A x \in FreeBlocks(h) : SizeOf(g, x) = SizeOf(h, x)
  PROVE  Listed(g)
  <1> SUFFICES ASSUME NEW i \in 0..(Buckets - 1)
               PROVE  /\ g.free[i] \in Seq(Nat) /\ IsInjective(g.free[i])
                      /\ Range(g.free[i]) = FreeOf(g, i)
    BY DEF Listed
  <1>1. /\ h.free[i] \in Seq(Nat) /\ IsInjective(h.free[i])
        /\ Range(h.free[i]) = FreeOf(h, i)
    BY DEF Listed
  <1>2. CASE i = BucketOf(SizeOf(g, b))
    <2>1. g.free[i] = <<b>> \o h.free[i] BY <1>2
    <2>2. b \notin Range(h.free[i]) BY <1>1 DEF FreeOf
    <2>3. /\ g.free[i] \in Seq(Nat) /\ IsInjective(g.free[i])
          /\ Range(g.free[i]) = Range(h.free[i]) \cup {b}
      BY <1>1, <2>1, <2>2, InsertIs
    <2>4. FreeOf(g, i) = FreeOf(h, i) \cup {b} BY <1>2 DEF FreeOf
    <2>5. QED BY <1>1, <2>3, <2>4
  <1>3. CASE i # BucketOf(SizeOf(g, b))
    <2>1. FreeOf(g, i) = FreeOf(h, i) BY <1>3 DEF FreeOf
    <2>2. QED BY <1>1, <1>3, <2>1
  <1>4. QED BY <1>2, <1>3

\* A block that an operation leaves alone: its header, but for the size of the block
\* before it, and what it holds.
Keeps(h, g, x) ==
  /\ x \in BlocksOf(g)
  /\ SizeOf(g, x) = SizeOf(h, x) /\ g.head[x].used = h.head[x].used
  /\ g.head[x].zeroed = h.head[x].zeroed
  /\ \A i \in Units(x, SizeOf(h, x)) : g.data[i] = h.data[i]

LEMMA KeepsTwice ==
  ASSUME NEW h, NEW g, NEW k, NEW x, Keeps(h, g, x), Keeps(g, k, x)
  PROVE  Keeps(h, k, x)
  BY DEF Keeps
-----------------------------------------------------------------------------
(* Two neighbours become one block.                                         *)

Joined(h, g, first, second, mine) ==
  /\ IsHeap(g) /\ g.data = h.data
  /\ g.free = [i \in DOMAIN h.free |-> RemoveFirst(h.free[i], IF mine = first THEN second ELSE first)]
  /\ BlocksOf(g) = BlocksOf(h) \ {second} /\ g.head \in [BlocksOf(g) -> Header]
  /\ SizeOf(g, first) = After(h, second) - first - 1
  /\ g.head[first].prev = h.head[first].prev /\ g.head[first].last = h.head[second].last
  /\ g.head[first].used = h.head[mine].used /\ g.head[first].zeroed = h.head[mine].zeroed
  /\ \A x \in BlocksOf(g) \ {first} : SameBlock(h, g, x, After(h, second), SizeOf(g, first))

LEMMA JoinForm ==
  ASSUME NEW h, IsHeap(h), Typed(h), Tiles(h),
         NEW first \in BlocksOf(h), NEW second, second = NextOf(h, first), second # NULL,
         NEW mine \in {first, second}
  PROVE  Joined(h, Join(h, first, second, mine), first, second, mine)
  <1> DEFINE other  == IF mine = first THEN second ELSE first
             size   == After(h, second) - first - 1
             header == [h.head[mine] EXCEPT !.prev = h.head[first].prev, !.size = size,
                                            !.last = h.head[second].last]
             h0     == FreeListRemove(h, other)
             h1     == [h0 EXCEPT !.head =
                          [x \in DOMAIN h.head \ {second} |-> IF x = first THEN header ELSE h.head[x]]]
             g      == SetPrevSize(h1, NextOf(h, second), size)
             at     == After(h, second)
  <1>1. g = Join(h, first, second, mine) BY DEF Join
  <1>2. /\ second \in BlocksOf(h) /\ second = After(h, first) /\ first \in Nat
        /\ After(h, first) = first + 1 + SizeOf(h, first) /\ SizeOf(h, first) \in Nat
        /\ h.head[first] \in Header
    BY Neighbours
  <1>3. /\ second \in Nat /\ SizeOf(h, second) \in Nat /\ at = second + 1 + SizeOf(h, second)
        /\ h.head[second] \in Header
        /\ NextOf(h, second) = NULL => at \notin DOMAIN h.data
        /\ NextOf(h, second) # NULL => NextOf(h, second) = at /\ at \in BlocksOf(h)
    BY <1>2, Neighbours
  <1>4. size \in Nat /\ size # 0 /\ at # first /\ at # second /\ first # second
    BY <1>2, <1>3
  <1>5. /\ header \in Header /\ header.prev = h.head[first].prev /\ header.size = size
        /\ header.last = h.head[second].last /\ header.used = h.head[mine].used
        /\ header.zeroed = h.head[mine].zeroed
    <2> HIDE DEF size
    <2>1. h.head[mine] \in Header BY <1>2, <1>3
    <2>2. QED BY <1>2, <1>3, <1>4, <2>1 DEF Header
  <1>6. /\ IsHeap(h0) /\ h0.head = h.head /\ h0.data = h.data
        /\ h0.free = [i \in DOMAIN h.free |-> RemoveFirst(h.free[i], other)]
    <2> HIDE DEF other
    <2> QED BY RemoveForm
  <1> HIDE DEF h0, header, other, at, size
  <1>7. /\ IsHeap(h1) /\ h1.data = h.data /\ h1.free = h0.free
        /\ h1.head = [x \in DOMAIN h.head \ {second} |-> IF x = first THEN header ELSE h.head[x]]
    BY <1>6 DEF IsHeap
  <1> HIDE DEF h1
  <1>8. BlocksOf(h1) = BlocksOf(h) \ {second} BY <1>7 DEF BlocksOf
  <1>9. h1.head \in [BlocksOf(h1) -> Header] BY <1>5, <1>7, <1>8 DEF Typed, BlocksOf
  <1>10. BlocksOf(h) \subseteq DOMAIN h.data BY DEF Typed
  <1>11. /\ NextOf(h, second) = NULL => at \notin BlocksOf(h1)
         /\ NextOf(h, second) # NULL => NextOf(h, second) = at /\ NextOf(h, second) \in BlocksOf(h1)
    BY <1>3, <1>4, <1>8, <1>10
  <1>12. /\ IsHeap(g) /\ g.data = h1.data /\ g.free = h1.free /\ BlocksOf(g) = BlocksOf(h1)
         /\ g.head \in [BlocksOf(g) -> Header]
         /\ \A x \in BlocksOf(h1) : SameBlock(h1, g, x, at, size)
    BY <1>4, <1>7, <1>9, <1>11, SetPrevForm
  <1> HIDE DEF g
  <1>13. first \in BlocksOf(h1) /\ h1.head[first] = header BY <1>2, <1>4, <1>7, <1>8 DEF BlocksOf
  <1>14. /\ SizeOf(g, first) = size /\ g.head[first].prev = h.head[first].prev
         /\ g.head[first].last = h.head[second].last
         /\ g.head[first].used = h.head[mine].used /\ g.head[first].zeroed = h.head[mine].zeroed
    BY <1>4, <1>5, <1>12, <1>13 DEF SameBlock, SizeOf
  <1>15. ASSUME NEW x \in BlocksOf(h1) \ {first} PROVE SameBlock(h, g, x, at, size)
    <2>1. h1.head[x] = h.head[x] BY <1>7, <1>8 DEF BlocksOf
    <2>2. QED BY <1>12, <2>1 DEF SameBlock, SizeOf
  <1>16. Joined(h, g, first, second, mine)
    BY <1>6, <1>7, <1>8, <1>12, <1>14, <1>15 DEF Joined, size, at, other
  <1>17. QED BY <1>1, <1>16

LEMMA JoinedTiles ==
  ASSUME NEW h, Typed(h), Tiles(h),
         NEW first \in BlocksOf(h), NEW second, second = NextOf(h, first), second # NULL,
         NEW mine, NEW g, Joined(h, g, first, second, mine)
  PROVE  Tiles(g)
  <1> DEFINE at   == After(h, second)
             size == SizeOf(g, first)
  <1>1. /\ second \in BlocksOf(h) /\ second = After(h, first) /\ first \in Nat
        /\ After(h, first) = first + 1 + SizeOf(h, first) /\ SizeOf(h, first) \in Nat
        /\ PrevOf(h, second) = first /\ ~h.head[first].last
        /\ h.head[second].prev = SizeOf(h, first)
    BY Neighbours
  <1>2. /\ second \in Nat /\ SizeOf(h, second) \in Nat /\ at = second + 1 + SizeOf(h, second)
        /\ SizeOf(h, second) >= 1
        /\ h.head[second].last => at \notin DOMAIN h.data
        /\ ~h.head[second].last => at \in BlocksOf(h) /\ h.head[at].prev = SizeOf(h, second)
    BY <1>1, Neighbours
  <1>3. /\ BlocksOf(g) = BlocksOf(h) \ {second} /\ g.data = h.data
        /\ size = at - first - 1
        /\ g.head[first].prev = h.head[first].prev /\ g.head[first].last = h.head[second].last
        /\ \A x \in BlocksOf(g) \ {first} : SameBlock(h, g, x, at, size)
    BY DEF Joined
  <1>4. /\ size \in Nat /\ size # 0 /\ at # first /\ at # second /\ first # second
        /\ After(g, first) = at /\ first \in BlocksOf(g)
    BY <1>1, <1>2, <1>3 DEF After
  <1>5. BlocksOf(h) \subseteq DOMAIN h.data BY DEF Typed
  <1> HIDE DEF at, size
  <1> SUFFICES ASSUME NEW b \in BlocksOf(g)
               PROVE  /\ Units(b, SizeOf(g, b)) \subseteq DOMAIN g.data \ BlocksOf(g)
                      /\ g.head[b].prev = 0 <=> b \in Bases
                      /\ \/ b \in Bases
                         \/ PrevOf(g, b) \in BlocksOf(g) /\ After(g, PrevOf(g, b)) = b
                      /\ IF g.head[b].last THEN After(g, b) \notin DOMAIN g.data
                         ELSE /\ After(g, b) \in BlocksOf(g)
                              /\ g.head[After(g, b)].prev = SizeOf(g, b)
    BY DEF Tiles, BlocksOf
  <1>6. ASSUME NEW x \in BlocksOf(g) \ {first}
        PROVE  /\ After(g, x) = After(h, x) /\ SizeOf(g, x) = SizeOf(h, x)
               /\ g.head[x].last = h.head[x].last
               /\ g.head[x].prev = IF x = at THEN size ELSE h.head[x].prev
    BY <1>3 DEF SameBlock, After
  <1>7. CASE b = first
    <2>1. Units(first, size) \subseteq DOMAIN h.data
      <3> SUFFICES ASSUME NEW i \in (first + 1)..(first + size) PROVE i \in DOMAIN h.data
        BY DEF Units
      <3>1. i \in first..(first + SizeOf(h, first)) \/ i \in second..(second + SizeOf(h, second))
        BY <1>1, <1>2, <1>3, <1>4
      <3>2. QED BY <1>1, <3>1, Neighbours
    <2>2. \A c \in BlocksOf(g) : c \notin Units(first, size)
      <3> TAKE c \in BlocksOf(g)
      <3>1. c \in Nat /\ c # second /\ (c <= first \/ c >= second)
        BY <1>1, <1>3, Neighbours
      <3>2. c <= second \/ c >= at BY <1>1, <1>3, Neighbours DEF at
      <3>3. QED BY <1>1, <1>2, <1>3, <1>4, <3>1, <3>2 DEF Units
    <2>3. \/ first \in Bases
          \/ PrevOf(g, first) \in BlocksOf(g) /\ After(g, PrevOf(g, first)) = first
      <3> SUFFICES ASSUME first \notin Bases
                   PROVE  PrevOf(g, first) \in BlocksOf(g) /\ After(g, PrevOf(g, first)) = first
        OBVIOUS
      <3> DEFINE a == PrevOf(h, first)
      <3>1. a \in BlocksOf(h) /\ After(h, a) = first /\ a < first BY Neighbours
      <3>2. a \in Nat BY <3>1, Neighbours
      <3>3. a # first /\ a # second BY <1>1, <3>1, <3>2
      <3>4. PrevOf(g, first) = a BY <1>3 DEF PrevOf
      <3> HIDE DEF a
      <3>5. QED BY <1>3, <1>6, <3>1, <3>3, <3>4
    <2>4. g.head[first].prev = 0 <=> first \in Bases BY <1>3, Neighbours DEF Tiles, BlocksOf
    <2>5. IF g.head[first].last THEN at \notin DOMAIN g.data
          ELSE at \in BlocksOf(g) /\ g.head[at].prev = size
      BY <1>2, <1>3, <1>4, <1>6
    <2>6. QED BY <1>3, <1>4, <1>7, <2>1, <2>2, <2>3, <2>4, <2>5 DEF size
  <1>8. CASE b # first
    <2>1. b \in BlocksOf(h) /\ b # second BY <1>3
    <2>2. Units(b, SizeOf(g, b)) \subseteq DOMAIN g.data \ BlocksOf(g)
      BY <1>3, <1>6, <1>8, <2>1 DEF Tiles, BlocksOf
    <2>3. /\ b \in Nat /\ SizeOf(h, b) >= 1
          /\ IF h.head[b].last THEN After(h, b) \notin DOMAIN h.data
             ELSE /\ After(h, b) \in BlocksOf(h) /\ h.head[After(h, b)].prev = SizeOf(h, b)
                  /\ PrevOf(h, After(h, b)) = b
          /\ h.head[b].prev = 0 <=> b \in Bases
          /\ b \notin Bases => PrevOf(h, b) \in BlocksOf(h) /\ After(h, PrevOf(h, b)) = b
      BY <2>1, Neighbours DEF Tiles, BlocksOf
    <2>4. /\ g.head[b].prev = 0 <=> b \in Bases
          /\ b \in Bases \/ (PrevOf(g, b) \in BlocksOf(g) /\ After(g, PrevOf(g, b)) = b)
      <3>1. CASE b = at
        <4>1. g.head[b].prev = size BY <1>6, <1>8, <3>1
        <4>2. b \notin Bases BY <1>2, <1>5, <2>1, <2>3, <3>1
        <4>3. PrevOf(g, b) = b - size - 1 BY <1>4, <4>1 DEF PrevOf
        <4>4. b - size - 1 = first BY <1>1, <1>3, <2>3, <3>1
        <4>5. g.head[b].prev # 0 BY <1>4, <4>1
        <4>6. PrevOf(g, b) \in BlocksOf(g) /\ After(g, PrevOf(g, b)) = b
          BY <1>4, <3>1, <4>3, <4>4
        <4>7. QED BY <4>2, <4>5, <4>6
      <3>2. CASE b # at
        <4>1. g.head[b].prev = h.head[b].prev /\ PrevOf(g, b) = PrevOf(h, b)
          BY <1>6, <1>8, <3>2 DEF PrevOf
        <4>2. ASSUME b \notin Bases
              PROVE  PrevOf(g, b) \in BlocksOf(g) /\ After(g, PrevOf(g, b)) = b
          <5> DEFINE a == PrevOf(h, b)
          <5>1. a \in BlocksOf(h) /\ After(h, a) = b BY <2>3, <4>2
          <5>2. a # second /\ a # first BY <1>1, <2>1, <3>2, <5>1 DEF at
          <5> HIDE DEF a
          <5>3. a \in BlocksOf(g) /\ After(g, a) = b BY <1>3, <1>6, <5>1, <5>2
          <5>4. QED BY <4>1, <5>3 DEF a
        <4>3. g.head[b].prev = 0 <=> b \in Bases BY <2>3, <4>1
        <4>4. QED BY <4>2, <4>3
      <3>3. QED BY <3>1, <3>2
    <2>6. IF g.head[b].last THEN After(g, b) \notin DOMAIN g.data
          ELSE After(g, b) \in BlocksOf(g) /\ g.head[After(g, b)].prev = SizeOf(g, b)
      <3>1. CASE h.head[b].last BY <1>3, <1>6, <1>8, <2>3, <3>1
      <3>2. CASE ~h.head[b].last
        <4> DEFINE y == After(h, b)
        <4>1. y \in BlocksOf(h) /\ h.head[y].prev = SizeOf(h, b) /\ PrevOf(h, y) = b
          BY <2>3, <3>2
        <4>2. y # second BY <1>1, <1>8, <4>1
        <4>3. y # at
          <5> SUFFICES ASSUME y = at PROVE FALSE OBVIOUS
          <5>1. ~h.head[second].last BY <1>2, <1>5, <4>1
          <5>2. PrevOf(h, at) = second BY <1>1, <5>1, Neighbours DEF at
          <5>3. QED BY <2>1, <4>1, <5>2
        <4>4. y \in BlocksOf(g) /\ g.head[y].prev = h.head[y].prev
          BY <1>3, <1>6, <4>1, <4>2, <4>3
        <4> HIDE DEF y
        <4>5. After(g, b) = y /\ SizeOf(g, b) = SizeOf(h, b) /\ g.head[b].last = h.head[b].last
          BY <1>6, <1>8 DEF y
        <4>6. QED BY <3>2, <4>1, <4>4, <4>5
      <3>3. QED BY <3>1, <3>2
    <2>7. QED BY <2>2, <2>4, <2>6
  <1>9. QED BY <1>7, <1>8

LEMMA JoinSound ==
  ASSUME NEW h, Sound(h), NEW first \in BlocksOf(h), NEW second, second = NextOf(h, first),
         second # NULL, NEW mine \in {first, second}, NEW other \in {first, second}, other # mine,
         h.head[mine].used, ~h.head[mine].zeroed, ~h.head[other].used,
         NEW g, g = Join(h, first, second, mine)
  PROVE  /\ Sound(g) /\ g.data = h.data /\ BlocksOf(g) = BlocksOf(h) \ {second}
         /\ first \in BlocksOf(g) /\ g.head[first].used /\ ~g.head[first].zeroed
         /\ SizeOf(g, first) = SizeOf(h, first) + 1 + SizeOf(h, second)
         /\ NextOf(g, first) = NextOf(h, second) /\ PrevOf(g, first) = PrevOf(h, first)
         /\ FreeBlocks(g) = FreeBlocks(h) \ {other}
         /\ \A x \in BlocksOf(h) \ {first, second} : Keeps(h, g, x)
  <1>1. IsHeap(h) /\ Typed(h) /\ Tiles(h) /\ Mapped(h) /\ Listed(h) /\ Apart(h) /\ Marked(h)
    BY DEF Sound
  <1>2. Joined(h, g, first, second, mine) BY <1>1, JoinForm
  <1>3. Tiles(g) BY <1>1, <1>2, JoinedTiles
  <1>4. /\ second \in BlocksOf(h) /\ second = After(h, first) /\ first \in Nat
        /\ After(h, first) = first + 1 + SizeOf(h, first) /\ SizeOf(h, first) \in Nat
        /\ PrevOf(h, second) = first
    BY <1>1, Neighbours
  <1>5. /\ second \in Nat /\ SizeOf(h, second) \in Nat
        /\ After(h, second) = second + 1 + SizeOf(h, second)
    BY <1>1, <1>4, Neighbours
  <1>6. /\ IsHeap(g) /\ g.data = h.data
        /\ BlocksOf(g) = BlocksOf(h) \ {second} /\ g.head \in [BlocksOf(g) -> Header]
        /\ SizeOf(g, first) = After(h, second) - first - 1
        /\ g.head[first].prev = h.head[first].prev /\ g.head[first].last = h.head[second].last
        /\ g.head[first].used = h.head[mine].used /\ g.head[first].zeroed = h.head[mine].zeroed
        /\ \A x \in BlocksOf(g) \ {first} :
             SameBlock(h, g, x, After(h, second), SizeOf(g, first))
    BY <1>2 DEF Joined
  <1>7. g.free = [i \in DOMAIN h.free |-> RemoveFirst(h.free[i], other)]
    <2>1. other = IF mine = first THEN second ELSE first OBVIOUS
    <2>2. QED BY <1>2, <2>1 DEF Joined
  <1>8. \A x \in BlocksOf(g) \ {first} :
          /\ x \in BlocksOf(h) /\ x # second
          /\ SizeOf(g, x) = SizeOf(h, x) /\ g.head[x].used = h.head[x].used
          /\ g.head[x].last = h.head[x].last /\ g.head[x].zeroed = h.head[x].zeroed
    BY <1>6 DEF SameBlock
  <1>9. first # second /\ first \in BlocksOf(g) /\ SizeOf(g, first) = SizeOf(h, first) + 1 + SizeOf(h, second)
    BY <1>4, <1>5, <1>6
  <1>10. g.head[first].used /\ ~g.head[first].zeroed BY <1>6
  <1>11. FreeBlocks(g) = FreeBlocks(h) \ {other} BY <1>6, <1>8, <1>9, <1>10 DEF FreeBlocks
  <1>12. Typed(g)
    <2>1. DOMAIN g.free = DOMAIN h.free BY <1>7
    <2>2. DOMAIN h.free = 0..(Buckets - 1) BY <1>1 DEF Typed
    <2>3. IsFunction(g.free) BY <1>7 DEF IsFunction
    <2>4. QED BY <1>1, <1>6, <2>1, <2>2, <2>3 DEF Typed
  <1>13. Mapped(g)
    <2> SUFFICES ASSUME NEW i \in DOMAIN h.data
                 PROVE  \E b \in BlocksOf(g) : b <= i /\ i <= b + SizeOf(g, b)
      BY <1>1, <1>6 DEF Mapped
    <2>1. PICK c \in BlocksOf(h) : c <= i /\ i <= c + SizeOf(h, c) BY <1>1 DEF Mapped
    <2>2. i \in Nat BY <1>1 DEF Typed
    <2>3. CASE c \in {first, second} BY <1>4, <1>5, <1>9, <2>1, <2>2, <2>3
    <2>4. CASE c \notin {first, second} BY <1>6, <1>8, <2>1, <2>4
    <2>5. QED BY <2>3, <2>4
  <1>14. Listed(g)
    <2>1. DOMAIN h.free = 0..(Buckets - 1) BY <1>1 DEF Typed
    <2>2. \A x \in FreeBlocks(g) : SizeOf(g, x) = SizeOf(h, x)
      BY <1>8, <1>10 DEF FreeBlocks
    <2>3. QED BY <1>1, <1>7, <1>11, <2>1, <2>2, ListedRemove
  <1>15. Apart(g)
    <2> SUFFICES ASSUME NEW b \in FreeBlocks(g), IsFree(g, NextOf(g, b)) PROVE FALSE
      BY DEF Apart
    <2>1. b \in FreeBlocks(h) /\ b \in BlocksOf(g) \ {first} BY <1>10, <1>11 DEF FreeBlocks
    <2>2. NextOf(g, b) = NextOf(h, b) BY <1>8, <2>1 DEF NextOf, After
    <2> DEFINE y == NextOf(h, b)
    <2>3. y # NULL /\ ~g.head[y].used BY <2>2 DEF IsFree
    <2>4. y \in BlocksOf(h) /\ PrevOf(h, y) = b BY <1>1, <1>8, <2>1, <2>3, Neighbours
    <2>5. y # second /\ y # first BY <1>4, <1>10, <2>1, <2>3, <2>4
    <2> HIDE DEF y
    <2>6. ~h.head[y].used BY <1>6, <1>8, <2>3, <2>4, <2>5
    <2>7. QED BY <1>1, <2>1, <2>3, <2>6 DEF Apart, IsFree, y
  <1>16. Marked(g) BY <1>1, <1>6, <1>8, <1>10 DEF Marked
  <1>17. NextOf(g, first) = NextOf(h, second)
    <2>1. After(g, first) = After(h, second) BY <1>4, <1>5, <1>6 DEF After
    <2>2. QED BY <1>6, <2>1 DEF NextOf
  <1>18. PrevOf(g, first) = PrevOf(h, first) BY <1>6 DEF PrevOf
  <1>19. \A x \in BlocksOf(h) \ {first, second} : Keeps(h, g, x)
    BY <1>6, <1>8 DEF Keeps
  <1>20. QED
    BY <1>3, <1>6, <1>9, <1>10, <1>11, <1>12, <1>13, <1>14, <1>15, <1>16, <1>17, <1>18, <1>19
    DEF Sound
-----------------------------------------------------------------------------
(* A block is split.                                                        *)

LEMMA InsertForm ==
  ASSUME NEW h, IsHeap(h), DOMAIN h.free = 0..(Buckets - 1),
         NEW b, NEW g, g = FreeListInsert(h, b)
  PROVE  /\ IsHeap(g) /\ g.head = h.head
         /\ IsFunction(g.data) /\ DOMAIN g.data = DOMAIN h.data \cup {b + 1}
         /\ \A i \in DOMAIN g.data : g.data[i] = IF i = b + 1 THEN Junk ELSE h.data[i]
         /\ IsFunction(g.free) /\ DOMAIN g.free = 0..(Buckets - 1)
         /\ \A i \in 0..(Buckets - 1) :
              g.free[i] = IF i = BucketOf(SizeOf(h, b)) THEN <<b>> \o h.free[i] ELSE h.free[i]
  <1> DEFINE units == {b + 1}
             f     == Filled(h, units, Junk)
             k     == BucketOf(SizeOf(h, b))
             list  == <<b>> \o h.free[k]
             free  == [h.free EXCEPT ![k] = list]
  <1>1. g = [f EXCEPT !.free = [f.free EXCEPT ![k] = <<b>> \o f.free[k]]] BY DEF FreeListInsert
  <1>2. f = Filled(h, units, Junk) OBVIOUS
  <1> HIDE DEF units, f, k
  <1>3. /\ IsHeap(f) /\ f.head = h.head /\ f.free = h.free
        /\ IsFunction(f.data) /\ DOMAIN f.data = DOMAIN h.data \cup units
        /\ \A i \in DOMAIN f.data : f.data[i] = IF i \in units THEN Junk ELSE h.data[i]
    BY <1>2, FilledForm
  <1>4. k \in 0..(Buckets - 1) BY BucketRange DEF k
  <1>5. g = [f EXCEPT !.free = free] BY <1>1, <1>3
  <1> HIDE DEF list
  <1>6. /\ IsFunction(free) /\ DOMAIN free = 0..(Buckets - 1)
        /\ \A i \in 0..(Buckets - 1) : free[i] = IF i = k THEN list ELSE h.free[i]
    BY <1>4 DEF IsFunction
  <1> HIDE DEF free
  <1>7. IsHeap(g) /\ g.head = h.head /\ g.data = f.data /\ g.free = free
    BY <1>3, <1>5 DEF IsHeap
  <1>8. \A i \in 0..(Buckets - 1) : free[i] = IF i = k THEN <<b>> \o h.free[i] ELSE h.free[i]
    BY <1>6 DEF list
  <1>9. QED BY <1>3, <1>6, <1>7, <1>8 DEF k, units

Parted(h, g, b, rest) ==
  /\ IsHeap(g)
  /\ IsFunction(g.data) /\ DOMAIN g.data = DOMAIN h.data
  /\ \A i \in DOMAIN h.data : g.data[i] = IF i \in {rest, rest + 1} THEN Junk ELSE h.data[i]
  /\ IsFunction(g.free) /\ DOMAIN g.free = 0..(Buckets - 1)
  /\ \A i \in 0..(Buckets - 1) :
       g.free[i] = IF i = BucketOf(SizeOf(g, rest)) THEN <<rest>> \o h.free[i] ELSE h.free[i]
  /\ BlocksOf(g) = BlocksOf(h) \cup {rest} /\ g.head \in [BlocksOf(g) -> Header]
  /\ SizeOf(g, b) = rest - b - 1 /\ SizeOf(g, rest) = After(h, b) - rest - 1
  /\ g.head[b].prev = h.head[b].prev /\ ~g.head[b].last
  /\ g.head[b].used = h.head[b].used /\ g.head[b].zeroed = h.head[b].zeroed
  /\ g.head[rest].prev = SizeOf(g, b) /\ g.head[rest].last = h.head[b].last
  /\ ~g.head[rest].used /\ g.head[rest].zeroed = h.head[b].zeroed
  /\ \A x \in BlocksOf(h) \ {b} : SameBlock(h, g, x, After(h, b), SizeOf(g, rest))

LEMMA SplitForm ==
  ASSUME NEW h, IsHeap(h), Typed(h), Tiles(h), NEW b \in BlocksOf(h), NEW n \in Nat, n >= 1,
         SizeOf(h, b) >= n + 2
  PROVE  Parted(h, Split(h, b, n), b, b + 1 + n)
  <1> DEFINE rest   == b + 1 + n
             size   == SizeOf(h, b) - n - 1
             front  == [h.head[b] EXCEPT !.size = n, !.last = FALSE]
             header == [h.head[b] EXCEPT !.prev = n, !.size = size, !.used = FALSE]
             h1     == [h EXCEPT !.head = [x \in DOMAIN h.head \cup {rest} |->
                          CASE x = b -> front [] x = rest -> header [] OTHER -> h.head[x]]]
             h2     == SetPrevSize(h1, NextOf(h, b), size)
             units  == {rest}
             h3     == Filled(h2, units, Junk)
             g      == FreeListInsert(h3, rest)
             at     == After(h, b)
  <1>1. g = Split(h, b, n) BY DEF Split, WorthSplitting
  <1>2. /\ b \in Nat /\ h.head[b] \in Header /\ SizeOf(h, b) \in Nat
        /\ at = b + 1 + SizeOf(h, b)
        /\ \A i \in b..(b + SizeOf(h, b)) : i \in DOMAIN h.data
        /\ \A c \in BlocksOf(h) : c <= b \/ c >= at
        /\ NextOf(h, b) = NULL => at \notin DOMAIN h.data
        /\ NextOf(h, b) # NULL => NextOf(h, b) = at /\ at \in BlocksOf(h)
    BY Neighbours
  <1>3. /\ rest \in Nat /\ size \in Nat /\ size # 0 /\ rest # b /\ rest # at /\ b # at
        /\ rest \in DOMAIN h.data /\ rest + 1 \in DOMAIN h.data
        /\ size = at - rest - 1 /\ n = rest - b - 1
    BY <1>2
  <1>4. rest \notin BlocksOf(h) BY <1>2
  <1>5. /\ front \in Header /\ front.prev = h.head[b].prev /\ front.size = n
        /\ ~front.last /\ front.used = h.head[b].used /\ front.zeroed = h.head[b].zeroed
    <2>1. n \in Nat \ {0} OBVIOUS
    <2>2. QED BY <1>2, <2>1 DEF Header
  <1>6. /\ header \in Header /\ header.prev = n /\ header.size = size
        /\ header.last = h.head[b].last /\ ~header.used /\ header.zeroed = h.head[b].zeroed
    <2> HIDE DEF size
    <2> QED BY <1>2, <1>3 DEF Header
  <1> HIDE DEF front, header, at, size, rest, units
  <1>7. /\ IsHeap(h1) /\ h1.data = h.data /\ h1.free = h.free
        /\ h1.head = [x \in DOMAIN h.head \cup {rest} |->
                        CASE x = b -> front [] x = rest -> header [] OTHER -> h.head[x]]
    BY DEF IsHeap
  <1> HIDE DEF h1
  <1>8. BlocksOf(h1) = BlocksOf(h) \cup {rest} BY <1>7 DEF BlocksOf
  <1>9. /\ h1.head[b] = front /\ h1.head[rest] = header
        /\ \A x \in BlocksOf(h) \ {b} : h1.head[x] = h.head[x]
    BY <1>3, <1>4, <1>7 DEF BlocksOf
  <1>10. h1.head \in [BlocksOf(h1) -> Header]
    <2>1. \A x \in BlocksOf(h) : h.head[x] \in Header BY DEF Typed, BlocksOf
    <2>2. \A x \in BlocksOf(h1) : h1.head[x] \in Header BY <1>5, <1>6, <1>8, <1>9, <2>1
    <2>3. h1.head = [x \in BlocksOf(h1) |-> h1.head[x]] BY <1>7 DEF BlocksOf
    <2>4. QED BY <2>2, <2>3
  <1>11. BlocksOf(h) \subseteq DOMAIN h.data BY DEF Typed
  <1>12. /\ NextOf(h, b) = NULL => at \notin BlocksOf(h1)
         /\ NextOf(h, b) # NULL => NextOf(h, b) = at /\ NextOf(h, b) \in BlocksOf(h1)
    BY <1>2, <1>3, <1>8, <1>11
  <1>13. /\ IsHeap(h2) /\ h2.data = h1.data /\ h2.free = h1.free /\ BlocksOf(h2) = BlocksOf(h1)
         /\ h2.head \in [BlocksOf(h2) -> Header]
         /\ \A x \in BlocksOf(h1) : SameBlock(h1, h2, x, at, size)
    BY <1>3, <1>7, <1>10, <1>12, SetPrevForm
  <1> HIDE DEF h2
  <1>14. h3 = Filled(h2, units, Junk) OBVIOUS
  <1> HIDE DEF h3
  <1>15. /\ IsHeap(h3) /\ h3.head = h2.head /\ h3.free = h.free
         /\ DOMAIN h3.data = DOMAIN h.data \cup units
         /\ \A i \in DOMAIN h3.data : h3.data[i] = IF i \in units THEN Junk ELSE h.data[i]
    BY <1>7, <1>13, <1>14, FilledForm
  <1>16. /\ IsHeap(g) /\ g.head = h3.head
         /\ IsFunction(g.data) /\ DOMAIN g.data = DOMAIN h3.data \cup {rest + 1}
         /\ \A i \in DOMAIN g.data : g.data[i] = IF i = rest + 1 THEN Junk ELSE h3.data[i]
         /\ IsFunction(g.free) /\ DOMAIN g.free = 0..(Buckets - 1)
         /\ \A i \in 0..(Buckets - 1) :
              g.free[i] = IF i = BucketOf(SizeOf(h3, rest)) THEN <<rest>> \o h3.free[i]
                          ELSE h3.free[i]
    <2>1. g = FreeListInsert(h3, rest) OBVIOUS
    <2>2. DOMAIN h3.free = 0..(Buckets - 1) BY <1>15 DEF Typed
    <2> HIDE DEF g
    <2>3. QED BY <1>15, <2>1, <2>2, InsertForm
  <1> HIDE DEF g
  <1>17. g.head = h2.head /\ BlocksOf(g) = BlocksOf(h) \cup {rest}
    BY <1>8, <1>13, <1>15, <1>16 DEF BlocksOf
  <1>18. g.head \in [BlocksOf(g) -> Header] BY <1>8, <1>13, <1>17
  <1>19. \A x \in BlocksOf(h1) : SameBlock(h1, g, x, at, size)
    BY <1>13, <1>17 DEF SameBlock, SizeOf
  <1>20. /\ SizeOf(g, b) = n /\ g.head[b].prev = h.head[b].prev /\ ~g.head[b].last
         /\ g.head[b].used = h.head[b].used /\ g.head[b].zeroed = h.head[b].zeroed
    BY <1>3, <1>5, <1>8, <1>9, <1>19 DEF SameBlock, SizeOf
  <1>21. /\ SizeOf(g, rest) = size /\ g.head[rest].prev = n /\ g.head[rest].last = h.head[b].last
         /\ ~g.head[rest].used /\ g.head[rest].zeroed = h.head[b].zeroed
    BY <1>3, <1>6, <1>8, <1>9, <1>19 DEF SameBlock, SizeOf
  <1>22. ASSUME NEW x \in BlocksOf(h) \ {b} PROVE SameBlock(h, g, x, at, size)
    BY <1>8, <1>9, <1>19 DEF SameBlock, SizeOf
  <1>23. DOMAIN g.data = DOMAIN h.data BY <1>3, <1>15, <1>16 DEF units
  <1>24. \A i \in DOMAIN h.data : g.data[i] = IF i \in {rest, rest + 1} THEN Junk ELSE h.data[i]
    BY <1>3, <1>15, <1>16, <1>23 DEF units
  <1>25. Parted(h, g, b, rest)
    <2>1. \A i \in 0..(Buckets - 1) :
            g.free[i] = IF i = BucketOf(SizeOf(g, rest)) THEN <<rest>> \o h.free[i] ELSE h.free[i]
      BY <1>15, <1>16 DEF SizeOf
    <2>2. QED BY <1>3, <1>16, <1>17, <1>18, <1>20, <1>21, <1>22, <1>23, <1>24, <2>1 DEF Parted, at
  <1>26. QED BY <1>1, <1>25 DEF rest

\* What is mapped without a gap from a base on is at most one mapping long.
LEMMA OneMapping ==
  ASSUME NEW h, Typed(h), Mapped(h), NEW base \in Bases, NEW i \in DOMAIN h.data,
         base <= i, base..i \subseteq DOMAIN h.data
  PROVE  i < base + MaxMapping
  <1> SUFFICES ASSUME ~(i < base + MaxMapping) PROVE FALSE OBVIOUS
  <1> DEFINE e == base + MaxMapping
  <1>1. MaxMapping \in Nat BY LargestSize, SizesAssumption DEF MaxMapping
  <1>2. base \in Nat /\ i \in Nat BY BasesAssumption DEF Typed
  <1>3. e \in base..i BY <1>1, <1>2
  <1>4. e \in DOMAIN h.data BY <1>3
  <1> HIDE DEF e
  <1>5. PICK c \in Bases : c <= e /\ e < c + MaxMapping BY <1>4 DEF Mapped
  <1>6. c \in Nat /\ e \in Nat BY <1>2, <1>3, <1>5, BasesAssumption
  <1>7. c # base
    <2> SUFFICES ASSUME c = base PROVE FALSE OBVIOUS
    <2>1. e = base + MaxMapping /\ e < base + MaxMapping BY <1>5 DEF e
    <2>2. QED BY <1>6, <2>1
  <1>8. CASE c < base
    <2>1. c + MaxMapping < base BY <1>5, <1>8, BasesAssumption
    <2>2. QED BY <1>1, <1>2, <1>5, <1>6, <2>1 DEF e
  <1>9. CASE base < c
    <2>1. e < c BY <1>5, <1>9, BasesAssumption DEF e
    <2>2. QED BY <1>5, <1>6, <2>1
  <1>10. QED BY <1>2, <1>6, <1>7, <1>8, <1>9

LEMMA InnerNotBase ==
  ASSUME NEW h, Typed(h), Mapped(h), NEW b \in DOMAIN h.data, NEW i \in DOMAIN h.data,
         b < i, b..i \subseteq DOMAIN h.data
  PROVE  i \notin Bases
  <1> SUFFICES ASSUME i \in Bases PROVE FALSE OBVIOUS
  <1>1. PICK base \in Bases : base <= b /\ base..b \subseteq DOMAIN h.data BY DEF Mapped
  <1>2. b \in Nat /\ i \in Nat /\ base \in Nat BY <1>1, BasesAssumption DEF Typed
  <1>3. base < i /\ base..i \subseteq DOMAIN h.data
    <2> SUFFICES ASSUME NEW j \in base..i PROVE j \in DOMAIN h.data BY <1>1, <1>2
    <2>1. j \in base..b \/ j \in b..i BY <1>2
    <2>2. QED BY <1>1, <2>1
  <1>4. i < base + MaxMapping BY <1>1, <1>2, <1>3, OneMapping
  <1>5. base + MaxMapping < i BY <1>1, <1>3, BasesAssumption
  <1>6. MaxMapping \in Nat BY LargestSize, SizesAssumption DEF MaxMapping
  <1>7. QED BY <1>2, <1>4, <1>5, <1>6

LEMMA PartedTiles ==
  ASSUME NEW h, Typed(h), Tiles(h), Mapped(h), NEW b \in BlocksOf(h), NEW rest \in Nat,
         b + 1 < rest, rest + 1 < After(h, b), NEW g, Parted(h, g, b, rest)
  PROVE  Tiles(g) /\ rest \notin BlocksOf(h) /\ rest \notin Bases
  <1> DEFINE at   == After(h, b)
             size == SizeOf(g, rest)
  <1>1. /\ b \in Nat /\ SizeOf(h, b) \in Nat /\ at = b + 1 + SizeOf(h, b)
        /\ \A i \in b..(b + SizeOf(h, b)) : i \in DOMAIN h.data
        /\ \A c \in BlocksOf(h) : c <= b \/ c >= at
        /\ h.head[b].last => at \notin DOMAIN h.data
        /\ ~h.head[b].last => /\ at \in BlocksOf(h) /\ h.head[at].prev = SizeOf(h, b)
                              /\ PrevOf(h, at) = b
        /\ h.head[b].prev = 0 <=> b \in Bases
        /\ b \notin Bases => /\ PrevOf(h, b) \in BlocksOf(h) /\ After(h, PrevOf(h, b)) = b
                             /\ PrevOf(h, b) < b
    BY Neighbours DEF Tiles, BlocksOf
  <1>2. rest \in b..(b + SizeOf(h, b)) /\ rest < at /\ b < rest /\ b # at /\ at \in Nat
    BY <1>1
  <1>3. rest \notin BlocksOf(h) BY <1>1, <1>2
  <1>4. rest \notin Bases
    <2>1. rest \in DOMAIN h.data /\ b \in DOMAIN h.data BY <1>1, <1>2 DEF Typed
    <2>2. b..rest \subseteq DOMAIN h.data BY <1>1, <1>2
    <2>3. QED BY <1>2, <2>1, <2>2, InnerNotBase
  <1>5. /\ BlocksOf(g) = BlocksOf(h) \cup {rest} /\ DOMAIN g.data = DOMAIN h.data
        /\ SizeOf(g, b) = rest - b - 1 /\ size = at - rest - 1
        /\ g.head[b].prev = h.head[b].prev /\ ~g.head[b].last
        /\ g.head[rest].prev = SizeOf(g, b) /\ g.head[rest].last = h.head[b].last
        /\ \A x \in BlocksOf(h) \ {b} : SameBlock(h, g, x, at, size)
    BY DEF Parted
  <1>6. size \in Nat /\ size # 0 /\ SizeOf(g, b) \in Nat /\ SizeOf(g, b) # 0
    BY <1>1, <1>2, <1>5
  <1>7. After(g, b) = rest /\ After(g, rest) = at
    BY <1>1, <1>2, <1>5 DEF After
  <1>8. BlocksOf(h) \subseteq DOMAIN h.data BY DEF Typed
  <1> HIDE DEF at, size
  <1>9. ASSUME NEW x \in BlocksOf(h) \ {b}
        PROVE  /\ After(g, x) = After(h, x) /\ SizeOf(g, x) = SizeOf(h, x)
               /\ g.head[x].last = h.head[x].last
               /\ g.head[x].prev = IF x = at THEN size ELSE h.head[x].prev
    BY <1>5 DEF SameBlock, After
  <1> SUFFICES ASSUME NEW x \in BlocksOf(g)
               PROVE  /\ Units(x, SizeOf(g, x)) \subseteq DOMAIN g.data \ BlocksOf(g)
                      /\ g.head[x].prev = 0 <=> x \in Bases
                      /\ \/ x \in Bases
                         \/ PrevOf(g, x) \in BlocksOf(g) /\ After(g, PrevOf(g, x)) = x
                      /\ IF g.head[x].last THEN After(g, x) \notin DOMAIN g.data
                         ELSE /\ After(g, x) \in BlocksOf(g)
                              /\ g.head[After(g, x)].prev = SizeOf(g, x)
    BY <1>3, <1>4 DEF Tiles, BlocksOf
  <1>10. CASE x = b
    <2>1. Units(b, SizeOf(g, b)) \subseteq DOMAIN g.data \ BlocksOf(g)
      <3> SUFFICES ASSUME NEW i \in (b + 1)..(b + SizeOf(g, b))
                   PROVE  i \in DOMAIN h.data /\ i \notin BlocksOf(h) /\ i # rest
        BY <1>5 DEF Units
      <3>1. i \in Nat /\ b < i /\ i < rest /\ i < at BY <1>1, <1>2, <1>5
      <3>2. i \in b..(b + SizeOf(h, b)) BY <1>1, <1>2, <3>1
      <3>3. QED BY <1>1, <3>1, <3>2
    <2>2. g.head[b].prev = 0 <=> b \in Bases BY <1>1, <1>5
    <2>3. b \in Bases \/ (PrevOf(g, b) \in BlocksOf(g) /\ After(g, PrevOf(g, b)) = b)
      <3> SUFFICES ASSUME b \notin Bases
                   PROVE  PrevOf(g, b) \in BlocksOf(g) /\ After(g, PrevOf(g, b)) = b
        OBVIOUS
      <3> DEFINE a == PrevOf(h, b)
      <3>1. a \in BlocksOf(h) /\ After(h, a) = b /\ a < b BY <1>1
      <3>2. a # b BY <1>1, <3>1
      <3>3. PrevOf(g, b) = a BY <1>5 DEF PrevOf
      <3> HIDE DEF a
      <3>4. QED BY <1>5, <1>9, <3>1, <3>2, <3>3
    <2>4. QED BY <1>5, <1>7, <1>10, <2>1, <2>2, <2>3
  <1>11. CASE x = rest
    <2>1. Units(rest, size) \subseteq DOMAIN g.data \ BlocksOf(g)
      <3> SUFFICES ASSUME NEW i \in (rest + 1)..(rest + size)
                   PROVE  i \in DOMAIN h.data /\ i \notin BlocksOf(h) /\ i # rest
        BY <1>5 DEF Units
      <3>1. i \in Nat /\ rest < i /\ i < at BY <1>2, <1>5, <1>6
      <3>2. i \in b..(b + SizeOf(h, b)) BY <1>1, <1>2, <3>1
      <3>3. QED BY <1>1, <1>2, <3>1, <3>2
    <2>2. g.head[rest].prev # 0 BY <1>5, <1>6
    <2>3. PrevOf(g, rest) = b
      <3>1. PrevOf(g, rest) = rest - SizeOf(g, b) - 1 BY <1>5, <1>6 DEF PrevOf
      <3>2. QED BY <1>1, <1>5, <3>1
    <2>4. IF g.head[rest].last THEN at \notin DOMAIN g.data
          ELSE at \in BlocksOf(g) /\ g.head[at].prev = size
      BY <1>1, <1>2, <1>5, <1>9
    <2>5. QED BY <1>4, <1>5, <1>7, <1>11, <2>1, <2>2, <2>3, <2>4 DEF size
  <1>12. CASE x \notin {b, rest}
    <2>1. x \in BlocksOf(h) \ {b} BY <1>5, <1>12
    <2>2. /\ x \in Nat /\ SizeOf(h, x) \in Nat
          /\ Units(x, SizeOf(h, x)) \subseteq DOMAIN h.data \ BlocksOf(h)
          /\ IF h.head[x].last THEN After(h, x) \notin DOMAIN h.data
             ELSE /\ After(h, x) \in BlocksOf(h) /\ h.head[After(h, x)].prev = SizeOf(h, x)
                  /\ PrevOf(h, After(h, x)) = x
          /\ h.head[x].prev = 0 <=> x \in Bases
          /\ x \notin Bases => PrevOf(h, x) \in BlocksOf(h) /\ After(h, PrevOf(h, x)) = x
      BY <2>1, Neighbours DEF Tiles, BlocksOf
    <2>3. Units(x, SizeOf(g, x)) \subseteq DOMAIN g.data \ BlocksOf(g)
      <3>1. rest \notin x..(x + SizeOf(h, x)) BY <1>2, <2>1, Disjoint
      <3>2. rest \notin Units(x, SizeOf(h, x)) BY <2>2, <3>1 DEF Units
      <3>3. QED BY <1>5, <1>9, <2>1, <2>2, <3>2
    <2>4. /\ g.head[x].prev = 0 <=> x \in Bases
          /\ x \in Bases \/ (PrevOf(g, x) \in BlocksOf(g) /\ After(g, PrevOf(g, x)) = x)
      <3>1. CASE x = at
        <4>1. g.head[x].prev = size BY <1>9, <2>1, <3>1
        <4>2. x \notin Bases
          <5>1. ~h.head[b].last BY <1>1, <1>8, <2>1, <3>1
          <5>2. h.head[x].prev = SizeOf(h, b) BY <1>1, <3>1, <5>1
          <5>3. SizeOf(h, b) # 0 BY <1>1, <1>2
          <5>4. QED BY <2>2, <5>2, <5>3
        <4>3. PrevOf(g, x) = x - size - 1 BY <1>6, <4>1 DEF PrevOf
        <4>4. x - size - 1 = rest BY <1>2, <1>5, <3>1
        <4>5. g.head[x].prev # 0 BY <1>6, <4>1
        <4>6. PrevOf(g, x) \in BlocksOf(g) /\ After(g, PrevOf(g, x)) = x
          BY <1>5, <1>7, <3>1, <4>3, <4>4
        <4>7. QED BY <4>2, <4>5, <4>6
      <3>2. CASE x # at
        <4>1. g.head[x].prev = h.head[x].prev /\ PrevOf(g, x) = PrevOf(h, x)
          BY <1>9, <2>1, <3>2 DEF PrevOf
        <4>2. ASSUME x \notin Bases
              PROVE  PrevOf(g, x) \in BlocksOf(g) /\ After(g, PrevOf(g, x)) = x
          <5> DEFINE a == PrevOf(h, x)
          <5>1. a \in BlocksOf(h) /\ After(h, a) = x BY <2>2, <4>2
          <5>2. a # b BY <3>2, <5>1 DEF at
          <5> HIDE DEF a
          <5>3. a \in BlocksOf(g) /\ After(g, a) = x BY <1>5, <1>9, <5>1, <5>2
          <5>4. QED BY <4>1, <5>3 DEF a
        <4>3. g.head[x].prev = 0 <=> x \in Bases BY <2>2, <4>1
        <4>4. QED BY <4>2, <4>3
      <3>3. QED BY <3>1, <3>2
    <2>5. IF g.head[x].last THEN After(g, x) \notin DOMAIN g.data
          ELSE After(g, x) \in BlocksOf(g) /\ g.head[After(g, x)].prev = SizeOf(g, x)
      <3>1. CASE h.head[x].last BY <1>5, <1>9, <2>1, <2>2, <3>1
      <3>2. CASE ~h.head[x].last
        <4> DEFINE y == After(h, x)
        <4>1. y \in BlocksOf(h) /\ h.head[y].prev = SizeOf(h, x) /\ PrevOf(h, y) = x
          BY <2>2, <3>2
        <4>2. y # at
          <5> SUFFICES ASSUME y = at PROVE FALSE OBVIOUS
          <5>1. ~h.head[b].last BY <1>1, <1>8, <4>1
          <5>2. PrevOf(h, at) = b BY <1>1, <5>1
          <5>3. QED BY <2>1, <4>1, <5>2
        <4>3. y \in BlocksOf(g) /\ g.head[y].prev = h.head[y].prev
          BY <1>5, <1>9, <4>1, <4>2
        <4> HIDE DEF y
        <4>4. After(g, x) = y /\ SizeOf(g, x) = SizeOf(h, x) /\ g.head[x].last = h.head[x].last
          BY <1>9, <2>1 DEF y
        <4>5. QED BY <3>2, <4>1, <4>3, <4>4
      <3>3. QED BY <3>1, <3>2
    <2>6. QED BY <2>3, <2>4, <2>5
  <1>13. QED BY <1>10, <1>11, <1>12
-----------------------------------------------------------------------------
(* Operations on one block that leave all others alone.                     *)

\* Neither of the neighbours of a block is free.
Alone(h, x) == ~IsFree(h, NextOf(h, x)) /\ ~IsFree(h, PrevOf(h, x))

LEMMA SplitSound ==
  ASSUME NEW h, Sound(h), NEW b \in BlocksOf(h), h.head[b].used, ~IsFree(h, NextOf(h, b)),
         NEW n \in Nat, n >= 1, n <= SizeOf(h, b), NEW g, g = Split(h, b, n)
  PROVE  /\ Sound(g) /\ b \in BlocksOf(g)
         /\ g.head[b].used /\ g.head[b].zeroed = h.head[b].zeroed /\ n <= SizeOf(g, b)
         /\ \A i \in Units(b, n) : g.data[i] = h.data[i]
         /\ \A x \in BlocksOf(h) \ {b} : Keeps(h, g, x)
         /\ \A x \in BlocksOf(h) \ {b} : x # NextOf(h, b) /\ Alone(h, x) => Alone(g, x)
  <1>1. CASE ~WorthSplitting(SizeOf(h, b), n)
    <2>1. g = h BY <1>1 DEF Split
    <2>2. QED BY <2>1 DEF Keeps
  <1>2. CASE WorthSplitting(SizeOf(h, b), n)
    <2>0. IsHeap(h) /\ Typed(h) /\ Tiles(h) /\ Mapped(h) /\ Listed(h) /\ Apart(h) /\ Marked(h)
      BY DEF Sound
    <2>1. PICK rest : rest = b + 1 + n OBVIOUS
    <2>2. PICK at : at = After(h, b) OBVIOUS
    <2>3. /\ b \in Nat /\ SizeOf(h, b) \in Nat /\ at = b + 1 + SizeOf(h, b)
          /\ \A c \in BlocksOf(h) : c <= b \/ c >= at
          /\ \A i \in b..(b + SizeOf(h, b)) : i \in DOMAIN h.data
          /\ IF h.head[b].last THEN NextOf(h, b) = NULL /\ at \notin DOMAIN h.data
             ELSE NextOf(h, b) = at /\ at \in BlocksOf(h)
      BY <2>0, <2>2, Neighbours
    <2>4. SizeOf(h, b) >= n + 2 BY <1>2 DEF WorthSplitting
    <2>5. Parted(h, g, b, rest) BY <2>0, <2>1, <2>4, SplitForm
    <2>6. rest \in Nat /\ b + 1 < rest /\ rest + 1 < at BY <2>1, <2>3, <2>4
    <2>7. Tiles(g) /\ rest \notin BlocksOf(h) /\ rest \notin Bases
      BY <2>0, <2>2, <2>5, <2>6, PartedTiles
    <2>8. /\ IsHeap(g)
          /\ IsFunction(g.data) /\ DOMAIN g.data = DOMAIN h.data
          /\ \A i \in DOMAIN h.data : g.data[i] = IF i \in {rest, rest + 1} THEN Junk ELSE h.data[i]
          /\ IsFunction(g.free) /\ DOMAIN g.free = 0..(Buckets - 1)
          /\ BlocksOf(g) = BlocksOf(h) \cup {rest} /\ g.head \in [BlocksOf(g) -> Header]
          /\ SizeOf(g, b) = rest - b - 1 /\ SizeOf(g, rest) = at - rest - 1
          /\ g.head[b].prev = h.head[b].prev /\ ~g.head[b].last
          /\ g.head[b].used = h.head[b].used /\ g.head[b].zeroed = h.head[b].zeroed
          /\ g.head[rest].prev = SizeOf(g, b) /\ g.head[rest].last = h.head[b].last
          /\ ~g.head[rest].used /\ g.head[rest].zeroed = h.head[b].zeroed
          /\ \A x \in BlocksOf(h) \ {b} : SameBlock(h, g, x, at, SizeOf(g, rest))
      BY <2>2, <2>5 DEF Parted
    <2>9. \A i \in 0..(Buckets - 1) :
            g.free[i] = IF i = BucketOf(SizeOf(g, rest)) THEN <<rest>> \o h.free[i] ELSE h.free[i]
      BY <2>5 DEF Parted
    <2>10. \A x \in BlocksOf(h) \ {b} :
             /\ SizeOf(g, x) = SizeOf(h, x) /\ g.head[x].used = h.head[x].used
             /\ g.head[x].last = h.head[x].last /\ g.head[x].zeroed = h.head[x].zeroed
             /\ x # at => g.head[x].prev = h.head[x].prev
      BY <2>8 DEF SameBlock
    <2>11. b # rest /\ rest # at /\ b # at BY <2>3, <2>6
    <2>12. FreeBlocks(g) = FreeBlocks(h) \cup {rest}
      BY <2>7, <2>8, <2>10, <2>11 DEF FreeBlocks
    <2>13. Typed(g)
      <3>1. g.data \in [DOMAIN g.data -> Content]
        <4>1. \A i \in DOMAIN g.data : g.data[i] \in Content BY <2>0, <2>8 DEF Typed, Content
        <4>2. QED BY <2>8, <4>1 DEF IsFunction
      <3>2. rest \in DOMAIN h.data BY <2>3, <2>6
      <3>3. QED BY <2>0, <2>8, <3>1, <3>2 DEF Typed
    <2>14. Mapped(g)
      <3> SUFFICES ASSUME NEW i \in DOMAIN h.data
                   PROVE  \E c \in BlocksOf(g) : c <= i /\ i <= c + SizeOf(g, c)
        BY <2>0, <2>8 DEF Mapped
      <3>1. PICK c \in BlocksOf(h) : c <= i /\ i <= c + SizeOf(h, c) BY <2>0 DEF Mapped
      <3>2. i \in Nat BY <2>0 DEF Typed
      <3>3. CASE c = b
        <4>1. CASE i < rest
          <5>1. b <= i /\ i <= b + SizeOf(g, b) BY <2>3, <2>6, <2>8, <3>1, <3>2, <3>3, <4>1
          <5>2. QED BY <2>8, <5>1
        <4>2. CASE ~(i < rest)
          <5>1. rest <= i /\ i <= rest + SizeOf(g, rest)
            BY <2>3, <2>6, <2>8, <3>1, <3>2, <3>3, <4>2
          <5>2. QED BY <2>8, <5>1
        <4>3. QED BY <4>1, <4>2
      <3>4. CASE c # b BY <2>8, <2>10, <3>1, <3>4
      <3>5. QED BY <3>3, <3>4
    <2>15. Listed(g)
      <3>1. rest \notin FreeBlocks(h) BY <2>7 DEF FreeBlocks
      <3>2. \A x \in FreeBlocks(h) : SizeOf(g, x) = SizeOf(h, x) BY <2>10 DEF FreeBlocks
      <3>3. QED BY <2>0, <2>6, <2>9, <2>12, <3>1, <3>2, ListedInsert
    <2>16. \A x \in BlocksOf(h) : IsFree(g, x) <=> IsFree(h, x)
      BY <2>8, <2>10 DEF IsFree
    <2>17. \A x \in BlocksOf(h) \ {b} : NextOf(g, x) = NextOf(h, x) BY <2>10 DEF NextOf, After
    <2>18. NextOf(g, rest) = NextOf(h, b)
      <3>1. After(g, rest) = at BY <2>3, <2>6, <2>8 DEF After
      <3>2. QED BY <2>2, <2>8, <3>1 DEF NextOf
    <2>19. \A x \in BlocksOf(h) : NextOf(h, x) = NULL \/ NextOf(h, x) \in BlocksOf(h)
      BY <2>0, Neighbours
    <2>20. Apart(g)
      <3> SUFFICES ASSUME NEW x \in FreeBlocks(g) PROVE ~IsFree(g, NextOf(g, x)) BY DEF Apart
      <3>1. CASE x = rest
        <4>1. ~IsFree(g, NextOf(h, b)) BY <2>16, <2>19 DEF IsFree
        <4>2. QED BY <2>18, <3>1, <4>1
      <3>2. CASE x # rest
        <4>1. x \in FreeBlocks(h) /\ x \in BlocksOf(h) \ {b} BY <2>12, <3>2 DEF FreeBlocks
        <4>2. ~IsFree(h, NextOf(h, x)) BY <2>0, <4>1 DEF Apart
        <4>3. ~IsFree(g, NextOf(h, x)) BY <2>16, <2>19, <4>1, <4>2 DEF IsFree
        <4>4. QED BY <2>17, <4>1, <4>3
      <3>3. QED BY <3>1, <3>2
    <2>21. \A x \in BlocksOf(h) \ {b} : \A i \in x..(x + SizeOf(h, x)) :
             i \in DOMAIN h.data /\ i # rest /\ i # rest + 1 /\ g.data[i] = h.data[i]
      <3> TAKE x \in BlocksOf(h) \ {b}
      <3> TAKE i \in x..(x + SizeOf(h, x))
      <3>1. rest \in b..(b + SizeOf(h, b)) /\ rest + 1 \in b..(b + SizeOf(h, b)) BY <2>3, <2>6
      <3>2. i # rest /\ i # rest + 1 BY <2>0, <3>1, Disjoint
      <3>3. i \in DOMAIN h.data BY <2>0, Neighbours
      <3>4. QED BY <2>8, <3>2, <3>3
    <2>22. \A i \in b..(b + n) : g.data[i] = h.data[i]
      <3> TAKE i \in b..(b + n)
      <3>1. i \in b..(b + SizeOf(h, b)) /\ i # rest /\ i # rest + 1 BY <2>1, <2>3, <2>4
      <3>2. QED BY <2>3, <2>8, <3>1
    <2>23. Marked(g)
      <3> SUFFICES ASSUME NEW x \in BlocksOf(g), g.head[x].zeroed,
                          NEW i \in (x + 2)..(x + SizeOf(g, x))
                   PROVE  g.data[i] = Zero
        BY DEF Marked
      <3>1. CASE x = b
        <4>1. i \in (b + 2)..(b + SizeOf(h, b)) /\ i \in b..(b + n)
          <5>1. SizeOf(g, b) = n BY <2>1, <2>3, <2>8
          <5>2. i \in (b + 2)..(b + n) BY <3>1, <5>1
          <5>3. QED BY <2>3, <2>4, <5>2
        <4>2. h.data[i] = Zero BY <2>0, <2>8, <3>1, <4>1 DEF Marked
        <4>3. QED BY <2>22, <4>1, <4>2
      <3>2. CASE x = rest
        <4>1. i \in (b + 2)..(b + SizeOf(h, b)) /\ i \in b..(b + SizeOf(h, b)) /\ i > rest + 1
          BY <2>3, <2>6, <2>8, <3>2
        <4>2. h.data[i] = Zero BY <2>0, <2>8, <3>2, <4>1 DEF Marked
        <4>3. i # rest /\ i # rest + 1 /\ i \in DOMAIN h.data BY <2>3, <2>6, <4>1
        <4>4. QED BY <2>8, <4>2, <4>3
      <3>3. CASE x \notin {b, rest}
        <4>1. x \in BlocksOf(h) \ {b} BY <2>8, <3>3
        <4>2. /\ i \in (x + 2)..(x + SizeOf(h, x)) /\ h.head[x].zeroed
              /\ i \in x..(x + SizeOf(h, x))
          <5>1. x \in Nat /\ SizeOf(h, x) \in Nat BY <2>0, <4>1, Neighbours
          <5>2. QED BY <2>10, <4>1, <5>1
        <4>3. QED BY <2>0, <2>21, <4>1, <4>2 DEF Marked
      <3>4. QED BY <3>1, <3>2, <3>3
    <2>24. Sound(g) BY <2>7, <2>8, <2>13, <2>14, <2>15, <2>20, <2>23 DEF Sound
    <2>25. ASSUME NEW x \in BlocksOf(h) \ {b} PROVE Keeps(h, g, x)
      <3>1. x \in Nat /\ SizeOf(h, x) \in Nat BY <2>0, Neighbours
      <3>2. \A i \in Units(x, SizeOf(h, x)) : g.data[i] = h.data[i]
        BY <2>21, <3>1 DEF Units
      <3>3. QED BY <2>8, <2>10, <3>2 DEF Keeps
    <2>26. ASSUME NEW x \in BlocksOf(h) \ {b}, x # NextOf(h, b), Alone(h, x)
           PROVE  Alone(g, x)
      <3>1. x # at
        <4> SUFFICES ASSUME x = at PROVE FALSE OBVIOUS
        <4>1. at \in DOMAIN h.data BY <2>0 DEF Typed
        <4>2. QED BY <2>3, <2>26, <4>1
      <3>2. PrevOf(g, x) = PrevOf(h, x) BY <2>10, <3>1 DEF PrevOf
      <3>3. PrevOf(h, x) = NULL \/ PrevOf(h, x) \in BlocksOf(h) BY <2>0, Neighbours
      <3>4. QED BY <2>16, <2>17, <2>19, <2>26, <3>2, <3>3 DEF Alone, IsFree
    <2>27. \A i \in Units(b, n) : g.data[i] = h.data[i] BY <2>3, <2>22 DEF Units
    <2>28. n <= SizeOf(g, b) BY <2>1, <2>3, <2>8
    <2>29. QED BY <2>8, <2>24, <2>25, <2>26, <2>27, <2>28
  <1>3. QED BY <1>1, <1>2

\* A block is taken from its free list.
LEMMA TakeSound ==
  ASSUME NEW h, Sound(h), NEW b \in FreeBlocks(h), NEW g, g = TakeFree(h, b)
  PROVE  /\ Sound(g) /\ b \in BlocksOf(g)
         /\ g.head[b].used /\ g.head[b].zeroed = h.head[b].zeroed /\ SizeOf(g, b) = SizeOf(h, b)
         /\ ~IsFree(g, NextOf(g, b))
         /\ \A x \in BlocksOf(h) \ {b} : Keeps(h, g, x)
         /\ \A x \in BlocksOf(h) \ {b} : Alone(h, x) => x # NextOf(g, b) /\ Alone(g, x)
  <1>0. IsHeap(h) /\ Typed(h) /\ Tiles(h) /\ Mapped(h) /\ Listed(h) /\ Apart(h) /\ Marked(h)
    BY DEF Sound
  <1>1. b \in BlocksOf(h) /\ ~h.head[b].used BY DEF FreeBlocks
  <1> DEFINE f == FreeListRemove(h, b)
             header == [h.head[b] EXCEPT !.used = TRUE]
  <1>2. /\ IsHeap(f) /\ f.head = h.head /\ f.data = h.data
        /\ f.free = [i \in DOMAIN h.free |-> RemoveFirst(h.free[i], b)]
    BY <1>0, RemoveForm
  <1>3. g = [f EXCEPT !.head = [f.head EXCEPT ![b] = [f.head[b] EXCEPT !.used = TRUE]]]
    BY DEF TakeFree
  <1> HIDE DEF f
  <1>4. /\ IsHeap(g) /\ g.data = h.data /\ g.head = [h.head EXCEPT ![b] = header]
        /\ g.free = [i \in DOMAIN h.free |-> RemoveFirst(h.free[i], b)]
    BY <1>2, <1>3 DEF IsHeap
  <1>5. h.head \in [BlocksOf(h) -> Header] /\ h.head[b] \in Header BY <1>0, <1>1 DEF Typed
  <1>6. /\ header \in Header /\ header.prev = h.head[b].prev /\ header.size = h.head[b].size
        /\ header.used /\ header.last = h.head[b].last /\ header.zeroed = h.head[b].zeroed
    BY <1>5 DEF Header
  <1> HIDE DEF header
  <1>7. BlocksOf(g) = BlocksOf(h) /\ g.head \in [BlocksOf(g) -> Header]
    BY <1>4, <1>5, <1>6 DEF BlocksOf
  <1>8. \A x \in BlocksOf(h) : g.head[x] = IF x = b THEN header ELSE h.head[x]
    BY <1>4, <1>5
  <1>9. \A x \in BlocksOf(h) :
          /\ SizeOf(g, x) = SizeOf(h, x) /\ g.head[x].prev = h.head[x].prev
          /\ g.head[x].last = h.head[x].last /\ g.head[x].zeroed = h.head[x].zeroed
          /\ g.head[x].used <=> (x = b \/ h.head[x].used)
    BY <1>6, <1>8 DEF SizeOf
  <1>10. \A x \in BlocksOf(h) :
           NextOf(g, x) = NextOf(h, x) /\ PrevOf(g, x) = PrevOf(h, x) /\ After(g, x) = After(h, x)
    BY <1>9 DEF NextOf, PrevOf, After
  <1>11. FreeBlocks(g) = FreeBlocks(h) \ {b} BY <1>7, <1>9 DEF FreeBlocks
  <1>12. Typed(g)
    <2>1. IsFunction(g.free) /\ DOMAIN g.free = DOMAIN h.free BY <1>4 DEF IsFunction
    <2>2. QED BY <1>0, <1>4, <1>7, <2>1 DEF Typed
  <1>13. Listed(g)
    <2>1. DOMAIN h.free = 0..(Buckets - 1) BY <1>0 DEF Typed
    <2>2. \A x \in FreeBlocks(g) : SizeOf(g, x) = SizeOf(h, x)
      BY <1>9, <1>11 DEF FreeBlocks
    <2>3. QED BY <1>0, <1>4, <1>11, <2>1, <2>2, ListedRemove
  <1>14. \A x \in BlocksOf(h) : /\ NextOf(h, x) = NULL \/ NextOf(h, x) \in BlocksOf(h)
                                /\ PrevOf(h, x) = NULL \/ PrevOf(h, x) \in BlocksOf(h)
                                /\ b = NextOf(h, x) => PrevOf(h, b) = x
                                /\ x = NextOf(h, b) => PrevOf(h, x) = b
                                /\ x # NULL
    <2> TAKE x \in BlocksOf(h)
    <2>1. x = NextOf(h, b) => PrevOf(h, x) = b
      <3> SUFFICES ASSUME x = NextOf(h, b) PROVE PrevOf(h, x) = b OBVIOUS
      <3>1. x # NULL
        <4>1. x \in Nat BY <1>0, Neighbours
        <4>2. QED BY <4>1, ValuesAssumption
      <3>2. QED BY <1>0, <1>1, <3>1, Neighbours
    <2>2. b \in Nat /\ b # NULL /\ x \in Nat /\ x # NULL
      BY <1>0, <1>1, Neighbours, ValuesAssumption
    <2>3. QED BY <1>0, <2>1, <2>2, Neighbours
  <1>15. \A x : IsFree(g, x) /\ x \in BlocksOf(h) => IsFree(h, x) BY <1>9 DEF IsFree
  <1>16. Apart(g)
    <2> SUFFICES ASSUME NEW x \in FreeBlocks(g) PROVE ~IsFree(g, NextOf(g, x)) BY DEF Apart
    <2>1. x \in FreeBlocks(h) /\ x \in BlocksOf(h) BY <1>11 DEF FreeBlocks
    <2>2. ~IsFree(h, NextOf(h, x)) BY <1>0, <2>1 DEF Apart
    <2>3. QED BY <1>10, <1>14, <1>15, <2>1, <2>2 DEF IsFree
  <1>17. Tiles(g) BY <1>0, <1>4, <1>7, <1>9, <1>10 DEF Tiles, BlocksOf
  <1>18. Mapped(g) BY <1>0, <1>4, <1>7, <1>9 DEF Mapped
  <1>19. Marked(g) BY <1>0, <1>4, <1>7, <1>9 DEF Marked
  <1>20. Sound(g) BY <1>4, <1>12, <1>13, <1>16, <1>17, <1>18, <1>19 DEF Sound
  <1>21. ~IsFree(g, NextOf(g, b))
    <2>1. ~IsFree(h, NextOf(h, b)) BY <1>0 DEF Apart
    <2>2. QED BY <1>1, <1>10, <1>14, <1>15, <2>1 DEF IsFree
  <1>22. ASSUME NEW x \in BlocksOf(h) \ {b}, Alone(h, x) PROVE x # NextOf(g, b) /\ Alone(g, x)
    <2>1. IsFree(h, b) BY <1>1, <1>14 DEF IsFree
    <2>2. x # NextOf(h, b) BY <1>14, <1>22, <2>1 DEF Alone
    <2>3. Alone(g, x) BY <1>10, <1>14, <1>15, <1>22 DEF Alone, IsFree
    <2>4. QED BY <1>1, <1>10, <2>2, <2>3
  <1>23. \A x \in BlocksOf(h) \ {b} : Keeps(h, g, x) BY <1>4, <1>7, <1>9 DEF Keeps
  <1>24. QED BY <1>1, <1>7, <1>9, <1>20, <1>21, <1>22, <1>23

\* A mapping is one block that is used, at the end of its mapping and cleared.
LEMMA MapForm ==
  ASSUME NEW h, IsHeap(h), NEW n, NEW b, h.head \in [BlocksOf(h) -> Header],
         b \in Nat, MapUnits(n) \in Nat, MapUnits(n) >= 2, NEW g, g = Map(h, n, b)
  PROVE  /\ IsHeap(g) /\ g.free = h.free
         /\ IsFunction(g.data) /\ DOMAIN g.data = DOMAIN h.data \cup (b..(b + MapUnits(n) - 1))
         /\ \A i \in DOMAIN g.data :
              g.data[i] = IF i = b THEN Junk
                          ELSE IF i \in (b + 1)..(b + MapUnits(n) - 1) THEN Zero ELSE h.data[i]
         /\ BlocksOf(g) = BlocksOf(h) \cup {b} /\ g.head \in [BlocksOf(g) -> Header]
         /\ g.head[b].prev = 0 /\ g.head[b].size = MapUnits(n) - 1 /\ g.head[b].used
         /\ g.head[b].last /\ g.head[b].zeroed
         /\ \A x \in BlocksOf(h) \ {b} : g.head[x] = h.head[x]
  <1> DEFINE size   == MapUnits(n) - 1
             header == [prev |-> 0, size |-> size, used |-> TRUE, last |-> TRUE, zeroed |-> TRUE]
             body   == Units(b, size)
             first  == {b}
             f1     == Filled(h, body, Zero)
             f2     == Filled(f1, first, Junk)
             head   == [x \in DOMAIN h.head \cup {b} |-> IF x = b THEN header ELSE h.head[x]]
  <1>1. g = [f2 EXCEPT !.head = head] BY DEF Map
  <1>2. f1 = Filled(h, body, Zero) /\ f2 = Filled(f1, first, Junk) OBVIOUS
  <1>3. header \in Header /\ header.prev = 0 /\ header.used /\ header.last /\ header.zeroed
        /\ header.size = size
    <2>1. size \in Nat \ {0} OBVIOUS
    <2> HIDE DEF size
    <2>2. QED BY <2>1 DEF Header
  <1>4. body = (b + 1)..(b + MapUnits(n) - 1) BY DEF Units
  <1> HIDE DEF f1, f2, body, first, header, size
  <1>5. /\ IsHeap(f1) /\ f1.free = h.free /\ DOMAIN f1.data = DOMAIN h.data \cup body
        /\ \A i \in DOMAIN f1.data : f1.data[i] = IF i \in body THEN Zero ELSE h.data[i]
    BY <1>2, FilledForm
  <1>6. /\ IsHeap(f2) /\ f2.free = h.free /\ IsFunction(f2.data)
        /\ DOMAIN f2.data = DOMAIN f1.data \cup first
        /\ \A i \in DOMAIN f2.data : f2.data[i] = IF i \in first THEN Junk ELSE f1.data[i]
    BY <1>2, <1>5, FilledForm
  <1>7. /\ IsFunction(head) /\ DOMAIN head = BlocksOf(h) \cup {b} /\ head[b] = header
        /\ \A x \in BlocksOf(h) \ {b} : head[x] = h.head[x]
    BY DEF IsFunction, BlocksOf
  <1>8. head \in [BlocksOf(h) \cup {b} -> Header]
    BY <1>3 DEF BlocksOf
  <1> HIDE DEF head
  <1>9. /\ IsHeap(g) /\ g.data = f2.data /\ g.free = h.free /\ g.head = head
    BY <1>1, <1>6 DEF IsHeap
  <1>10. BlocksOf(g) = BlocksOf(h) \cup {b} BY <1>7, <1>9 DEF BlocksOf
  <1>11. DOMAIN g.data = DOMAIN h.data \cup (b..(b + MapUnits(n) - 1))
    <2>1. b..(b + MapUnits(n) - 1) = body \cup {b} BY <1>4
    <2>2. QED BY <1>5, <1>6, <1>9, <2>1 DEF first
  <1>12. \A i \in DOMAIN g.data :
           g.data[i] = IF i = b THEN Junk ELSE IF i \in body THEN Zero ELSE h.data[i]
    BY <1>5, <1>6, <1>9 DEF first
  <1>13. QED BY <1>3, <1>4, <1>6, <1>7, <1>8, <1>9, <1>10, <1>11, <1>12 DEF size

\* Memory that is mapped is not next to, and not part of, what is mapped already.
LEMMA FreshMapping ==
  ASSUME NEW h, Typed(h), Mapped(h), NEW b \in FreeBases(h), NEW i \in DOMAIN h.data
  PROVE  i < b \/ i > b + MaxMapping
  <1> SUFFICES ASSUME ~(i < b), ~(i > b + MaxMapping) PROVE FALSE OBVIOUS
  <1>1. b \in Bases /\ b \notin DOMAIN h.data BY DEF FreeBases
  <1>2. PICK base \in Bases : /\ base <= i /\ i < base + MaxMapping
                              /\ base..i \subseteq DOMAIN h.data
    BY DEF Mapped
  <1>3. base \in Nat /\ b \in Nat /\ i \in Nat /\ MaxMapping \in Nat
    BY <1>1, LargestSize, SizesAssumption, BasesAssumption DEF Typed, MaxMapping
  <1>4. CASE base <= b
    <2>1. b \in base..i BY <1>3, <1>4
    <2>2. QED BY <1>1, <1>2, <2>1
  <1>5. CASE b < base
    <2>1. b + MaxMapping < base BY <1>1, <1>5, BasesAssumption
    <2>2. QED BY <1>2, <1>3, <2>1
  <1>6. QED BY <1>3, <1>4, <1>5

LEMMA MapSound ==
  ASSUME NEW h, Sound(h), NEW n \in Sizes, NEW b \in FreeBases(h), NEW g, g = Map(h, n, b)
  PROVE  /\ Sound(g) /\ b \in BlocksOf(g) /\ b \notin BlocksOf(h)
         /\ g.head[b].used /\ n <= SizeOf(g, b) /\ NextOf(g, b) = NULL
         /\ \A x \in BlocksOf(h) : Keeps(h, g, x)
         /\ \A x \in BlocksOf(h) : Alone(h, x) => Alone(g, x)
  <1>0. IsHeap(h) /\ Typed(h) /\ Tiles(h) /\ Mapped(h) /\ Listed(h) /\ Apart(h) /\ Marked(h)
    BY DEF Sound
  <1>1. b \in Bases /\ b \notin DOMAIN h.data /\ b \in Nat BY BasesAssumption DEF FreeBases
  <1>2. PICK u : u = MapUnits(n) OBVIOUS
  <1>3. u \in Nat /\ u >= 2 /\ u <= MaxMapping /\ u - 1 >= n /\ n \in Nat /\ MaxMapping \in Nat
    <2>1. MaxMapping \in Nat BY LargestSize, SizesAssumption DEF MaxMapping
    <2>2. QED BY <1>2, <2>1, MapBounds, SizesAssumption
  <1>4. \A i \in DOMAIN h.data : i \in Nat /\ (i < b \/ i > b + MaxMapping)
    BY <1>0, FreshMapping DEF Typed
  <1>5. BlocksOf(h) \subseteq DOMAIN h.data /\ h.head \in [BlocksOf(h) -> Header]
    BY <1>0 DEF Typed
  <1>6. /\ IsHeap(g) /\ g.free = h.free
        /\ IsFunction(g.data) /\ DOMAIN g.data = DOMAIN h.data \cup (b..(b + u - 1))
        /\ \A i \in DOMAIN g.data :
             g.data[i] = IF i = b THEN Junk
                         ELSE IF i \in (b + 1)..(b + u - 1) THEN Zero ELSE h.data[i]
        /\ BlocksOf(g) = BlocksOf(h) \cup {b} /\ g.head \in [BlocksOf(g) -> Header]
        /\ g.head[b].prev = 0 /\ g.head[b].size = u - 1 /\ g.head[b].used
        /\ g.head[b].last /\ g.head[b].zeroed
        /\ \A x \in BlocksOf(h) \ {b} : g.head[x] = h.head[x]
    BY <1>0, <1>1, <1>2, <1>3, <1>5, MapForm
  <1>7. b \notin BlocksOf(h) BY <1>1, <1>5
  <1>8. \A x \in BlocksOf(h) :
          /\ g.head[x] = h.head[x] /\ SizeOf(g, x) = SizeOf(h, x) /\ After(g, x) = After(h, x)
          /\ NextOf(g, x) = NextOf(h, x) /\ PrevOf(g, x) = PrevOf(h, x) /\ x # b
    BY <1>6, <1>7 DEF SizeOf, After, NextOf, PrevOf
  <1>9. SizeOf(g, b) = u - 1 /\ NextOf(g, b) = NULL BY <1>6 DEF SizeOf, NextOf
  <1>10. \A i \in DOMAIN h.data : g.data[i] = h.data[i] /\ i \notin b..(b + u)
    <2> TAKE i \in DOMAIN h.data
    <2>1. i \notin b..(b + u) BY <1>1, <1>3, <1>4
    <2>2. i # b /\ i \notin (b + 1)..(b + u - 1) BY <1>1, <1>3, <2>1
    <2>3. QED BY <1>6, <2>1, <2>2
  <1>11. Typed(g)
    <2>1. \A i \in DOMAIN g.data : g.data[i] \in Content
      <3> TAKE i \in DOMAIN g.data
      <3>1. CASE i \in DOMAIN h.data BY <1>0, <1>10, <3>1 DEF Typed
      <3>2. CASE i \notin DOMAIN h.data
        <4>1. i \in b..(b + u - 1) BY <1>6, <3>2
        <4>2. i = b \/ i \in (b + 1)..(b + u - 1) BY <1>1, <1>3, <4>1
        <4>3. QED BY <1>6, <4>2 DEF Content
      <3>3. QED BY <3>1, <3>2
    <2>2. g.data \in [DOMAIN g.data -> Content] BY <1>6, <2>1 DEF IsFunction
    <2>3. b \in b..(b + u - 1) BY <1>1, <1>3
    <2>4. BlocksOf(g) \subseteq DOMAIN g.data BY <1>5, <1>6, <2>3
    <2>5. b..(b + u - 1) \subseteq Nat BY <1>1, <1>3
    <2>6. DOMAIN g.data \subseteq Nat BY <1>4, <1>6, <2>5
    <2>7. IsFunction(g.free) /\ DOMAIN g.free = 0..(Buckets - 1) BY <1>0, <1>6 DEF Typed
    <2>8. QED BY <1>6, <2>2, <2>4, <2>6, <2>7 DEF Typed
  <1>12. FreeBlocks(g) = FreeBlocks(h) BY <1>6, <1>8 DEF FreeBlocks
  <1>13. Listed(g)
    <2>1. \A i \in 0..(Buckets - 1) : FreeOf(g, i) = FreeOf(h, i)
      BY <1>8, <1>12 DEF FreeOf, FreeBlocks
    <2>2. QED BY <1>0, <1>6, <2>1 DEF Listed
  <1>14. \A x \in BlocksOf(h) : /\ NextOf(h, x) = NULL \/ NextOf(h, x) \in BlocksOf(h)
                                /\ PrevOf(h, x) = NULL \/ PrevOf(h, x) \in BlocksOf(h)
    BY <1>0, Neighbours
  <1>15. \A x \in BlocksOf(h) : IsFree(g, x) <=> IsFree(h, x) BY <1>8 DEF IsFree
  <1>16. Apart(g)
    <2> SUFFICES ASSUME NEW x \in FreeBlocks(g) PROVE ~IsFree(g, NextOf(g, x)) BY DEF Apart
    <2>1. x \in FreeBlocks(h) /\ x \in BlocksOf(h) BY <1>12 DEF FreeBlocks
    <2>2. ~IsFree(h, NextOf(h, x)) BY <1>0, <2>1 DEF Apart
    <2>3. QED BY <1>8, <1>14, <1>15, <2>1, <2>2 DEF IsFree
  <1>17. \A x \in BlocksOf(h) : Alone(h, x) => Alone(g, x)
    BY <1>8, <1>14, <1>15 DEF Alone, IsFree
  <1>18. Tiles(g)
    <2> SUFFICES ASSUME NEW x \in BlocksOf(g)
                 PROVE  /\ Units(x, SizeOf(g, x)) \subseteq DOMAIN g.data \ BlocksOf(g)
                        /\ g.head[x].prev = 0 <=> x \in Bases
                        /\ \/ x \in Bases
                           \/ PrevOf(g, x) \in BlocksOf(g) /\ After(g, PrevOf(g, x)) = x
                        /\ IF g.head[x].last THEN After(g, x) \notin DOMAIN g.data
                           ELSE /\ After(g, x) \in BlocksOf(g)
                                /\ g.head[After(g, x)].prev = SizeOf(g, x)
      BY DEF Tiles, BlocksOf
    <2>1. CASE x = b
      <3>1. Units(b, u - 1) = (b + 1)..(b + u - 1) BY DEF Units
      <3>2. ASSUME NEW i \in (b + 1)..(b + u - 1) PROVE i \in DOMAIN g.data /\ i \notin BlocksOf(g)
        <4>1. i \in b..(b + u - 1) /\ i \in b..(b + u) /\ i # b BY <1>1, <1>3
        <4>2. i \notin DOMAIN h.data BY <1>10, <4>1
        <4>3. QED BY <1>5, <1>6, <4>1, <4>2
      <3>3. After(g, b) = b + u BY <1>1, <1>3, <1>9 DEF After
      <3>4. b + u \in b..(b + u) /\ b + u \notin b..(b + u - 1) BY <1>1, <1>3
      <3>5. b + u \notin DOMAIN g.data BY <1>6, <1>10, <3>4
      <3>6. Units(b, SizeOf(g, b)) \subseteq DOMAIN g.data \ BlocksOf(g) BY <1>9, <3>1, <3>2
      <3>7. b \in Bases /\ g.head[b].prev = 0 /\ g.head[b].last BY <1>1, <1>6
      <3>8. QED BY <2>1, <3>3, <3>5, <3>6, <3>7
    <2>2. CASE x # b
      <3>1. x \in BlocksOf(h) BY <1>6, <2>2
      <3>2. /\ Units(x, SizeOf(h, x)) \subseteq DOMAIN h.data \ BlocksOf(h)
            /\ h.head[x].prev = 0 <=> x \in Bases
            /\ x \in Bases \/ (PrevOf(h, x) \in BlocksOf(h) /\ After(h, PrevOf(h, x)) = x)
            /\ IF h.head[x].last THEN After(h, x) \notin DOMAIN h.data
               ELSE After(h, x) \in BlocksOf(h) /\ h.head[After(h, x)].prev = SizeOf(h, x)
        BY <1>0, <3>1 DEF Tiles, BlocksOf
      <3>3. Units(x, SizeOf(g, x)) \subseteq DOMAIN g.data \ BlocksOf(g)
        BY <1>1, <1>6, <1>8, <3>1, <3>2
      <3>4. h.head[x].last => After(h, x) \notin b..(b + u - 1)
        <4> SUFFICES ASSUME After(h, x) \in b..(b + u - 1) PROVE FALSE OBVIOUS
        <4>1. /\ x \in Nat /\ SizeOf(h, x) \in Nat /\ After(h, x) = x + 1 + SizeOf(h, x)
              /\ \A i \in x..(x + SizeOf(h, x)) : i \in DOMAIN h.data
          BY <1>0, <3>1, Neighbours
        <4> DEFINE i == x + SizeOf(h, x)
        <4>2. i \in DOMAIN h.data /\ i \in Nat /\ After(h, x) = i + 1 BY <4>1
        <4> HIDE DEF i
        <4>3. i \notin b..(b + u) BY <1>10, <4>2
        <4>4. i + 1 = b BY <1>1, <1>3, <4>2, <4>3
        <4>5. PICK base \in Bases : base <= i /\ i < base + MaxMapping BY <1>0, <4>2 DEF Mapped
        <4>6. base \in Nat BY <4>5, BasesAssumption
        <4>7. base < b BY <4>2, <4>4, <4>5, <4>6
        <4>8. base + MaxMapping < b BY <1>1, <4>5, <4>7, BasesAssumption
        <4>9. QED BY <1>3, <4>2, <4>4, <4>5, <4>6, <4>8
      <3>5. QED BY <1>6, <1>8, <3>1, <3>2, <3>3, <3>4
    <2>3. QED BY <2>1, <2>2
  <1>19. Mapped(g)
    <2> SUFFICES ASSUME NEW i \in DOMAIN g.data
                 PROVE  /\ \E base \in Bases : /\ base <= i /\ i < base + MaxMapping
                                               /\ base..i \subseteq DOMAIN g.data
                        /\ \E c \in BlocksOf(g) : c <= i /\ i <= c + SizeOf(g, c)
      BY DEF Mapped
    <2>1. CASE i \in DOMAIN h.data
      <3>1. PICK base \in Bases : /\ base <= i /\ i < base + MaxMapping
                                  /\ base..i \subseteq DOMAIN h.data
        BY <1>0, <2>1 DEF Mapped
      <3>2. PICK c \in BlocksOf(h) : c <= i /\ i <= c + SizeOf(h, c)
        BY <1>0, <2>1 DEF Mapped
      <3>3. base..i \subseteq DOMAIN g.data BY <1>6, <3>1
      <3>4. c \in BlocksOf(g) /\ i <= c + SizeOf(g, c) BY <1>6, <1>8, <3>2
      <3>5. QED BY <3>1, <3>2, <3>3, <3>4
    <2>2. CASE i \notin DOMAIN h.data
      <3>1. i \in b..(b + u - 1) BY <1>6, <2>2
      <3>2. b <= i /\ i < b + MaxMapping /\ b..i \subseteq b..(b + u - 1) BY <1>1, <1>3, <3>1
      <3>3. i <= b + SizeOf(g, b) BY <1>1, <1>3, <1>9, <3>1
      <3>4. QED BY <1>1, <1>6, <3>2, <3>3
    <2>3. QED BY <2>1, <2>2
  <1>20. Marked(g)
    <2> SUFFICES ASSUME NEW x \in BlocksOf(g), g.head[x].zeroed,
                        NEW i \in (x + 2)..(x + SizeOf(g, x))
                 PROVE  g.data[i] = Zero
      BY DEF Marked
    <2>1. CASE x = b
      <3>1. i \in (b + 1)..(b + u - 1) /\ i # b /\ i \in b..(b + u - 1)
        BY <1>1, <1>3, <1>9, <2>1
      <3>2. QED BY <1>6, <3>1
    <2>2. CASE x # b
      <3>1. x \in BlocksOf(h) BY <1>6, <2>2
      <3>2. /\ x \in Nat /\ SizeOf(h, x) \in Nat
            /\ \A j \in x..(x + SizeOf(h, x)) : j \in DOMAIN h.data
        BY <1>0, <3>1, Neighbours
      <3>3. h.head[x].zeroed /\ i \in (x + 2)..(x + SizeOf(h, x)) /\ i \in x..(x + SizeOf(h, x))
        BY <1>8, <3>1, <3>2
      <3>4. h.data[i] = Zero /\ i \in DOMAIN h.data BY <1>0, <3>1, <3>2, <3>3 DEF Marked
      <3>5. QED BY <1>10, <3>4
    <2>3. QED BY <2>1, <2>2
  <1>21. Sound(g) BY <1>6, <1>11, <1>13, <1>16, <1>18, <1>19, <1>20 DEF Sound
  <1>22. ASSUME NEW x \in BlocksOf(h) PROVE Keeps(h, g, x)
    <2>1. Units(x, SizeOf(h, x)) \subseteq DOMAIN h.data BY <1>0 DEF Tiles, BlocksOf
    <2>2. QED BY <1>6, <1>8, <1>10, <2>1 DEF Keeps
  <1>23. n <= SizeOf(g, b) BY <1>3, <1>9
  <1>24. QED BY <1>6, <1>7, <1>9, <1>17, <1>21, <1>22, <1>23

\* Writing into blocks, and forgetting that they are cleared, leaves the heap sound.
Rewritten(h, g) ==
  /\ IsHeap(g) /\ g.free = h.free
  /\ BlocksOf(g) = BlocksOf(h) /\ g.head \in [BlocksOf(g) -> Header]
  /\ \A x \in BlocksOf(h) :
       /\ SizeOf(g, x) = SizeOf(h, x) /\ g.head[x].prev = h.head[x].prev
       /\ g.head[x].used = h.head[x].used /\ g.head[x].last = h.head[x].last
       /\ g.head[x].zeroed => h.head[x].zeroed
       /\ g.head[x].zeroed => \A i \in (x + 2)..(x + SizeOf(h, x)) : g.data[i] = Zero
  /\ IsFunction(g.data) /\ DOMAIN g.data = DOMAIN h.data
  /\ \A i \in DOMAIN h.data : g.data[i] \in Content

LEMMA RewrittenSound ==
  ASSUME NEW h, Sound(h), NEW g, Rewritten(h, g)
  PROVE  /\ Sound(g)
         /\ \A x \in BlocksOf(h) : NextOf(g, x) = NextOf(h, x)
         /\ \A x \in BlocksOf(h) : IsFree(h, NextOf(h, x)) <=> IsFree(g, NextOf(g, x))
         /\ \A x \in BlocksOf(h) : Alone(h, x) => Alone(g, x)
  <1>0. IsHeap(h) /\ Typed(h) /\ Tiles(h) /\ Mapped(h) /\ Listed(h) /\ Apart(h) /\ Marked(h)
    BY DEF Sound
  <1>1. /\ IsHeap(g) /\ g.free = h.free
        /\ BlocksOf(g) = BlocksOf(h) /\ g.head \in [BlocksOf(g) -> Header]
        /\ \A x \in BlocksOf(h) :
             /\ SizeOf(g, x) = SizeOf(h, x) /\ g.head[x].prev = h.head[x].prev
             /\ g.head[x].used = h.head[x].used /\ g.head[x].last = h.head[x].last
        /\ IsFunction(g.data) /\ DOMAIN g.data = DOMAIN h.data
        /\ \A i \in DOMAIN h.data : g.data[i] \in Content
    BY DEF Rewritten
  <1>2. \A x \in BlocksOf(h) :
          NextOf(g, x) = NextOf(h, x) /\ PrevOf(g, x) = PrevOf(h, x) /\ After(g, x) = After(h, x)
    BY <1>1 DEF NextOf, PrevOf, After
  <1>3. \A x \in BlocksOf(h) : /\ NextOf(h, x) = NULL \/ NextOf(h, x) \in BlocksOf(h)
                               /\ PrevOf(h, x) = NULL \/ PrevOf(h, x) \in BlocksOf(h)
    BY <1>0, Neighbours
  <1>4. \A x \in BlocksOf(h) : IsFree(g, x) <=> IsFree(h, x) BY <1>1 DEF IsFree
  <1>5. FreeBlocks(g) = FreeBlocks(h) BY <1>1 DEF FreeBlocks
  <1>6. Typed(g)
    <2>1. g.data \in [DOMAIN g.data -> Content] BY <1>1 DEF IsFunction
    <2>2. QED BY <1>0, <1>1, <2>1 DEF Typed
  <1>7. Tiles(g) BY <1>0, <1>1, <1>2 DEF Tiles, BlocksOf
  <1>8. Mapped(g) BY <1>0, <1>1 DEF Mapped
  <1>9. Listed(g)
    <2>1. \A i \in 0..(Buckets - 1) : FreeOf(g, i) = FreeOf(h, i)
      BY <1>1, <1>5 DEF FreeOf, FreeBlocks
    <2>2. QED BY <1>0, <1>1, <2>1 DEF Listed
  <1>10. \A x \in BlocksOf(h) : IsFree(h, NextOf(h, x)) <=> IsFree(g, NextOf(g, x))
    BY <1>2, <1>3, <1>4 DEF IsFree
  <1>11. \A x \in BlocksOf(h) : Alone(h, x) => Alone(g, x)
    BY <1>2, <1>3, <1>4 DEF Alone, IsFree
  <1>12. Apart(g) BY <1>0, <1>5, <1>10 DEF Apart, FreeBlocks
  <1>13. Marked(g)
    <2>1. \A x \in BlocksOf(h) : g.head[x].zeroed =>
            \A i \in (x + 2)..(x + SizeOf(h, x)) : g.data[i] = Zero
      BY DEF Rewritten
    <2>2. QED BY <1>1, <2>1 DEF Marked
  <1>14. QED BY <1>1, <1>2, <1>6, <1>7, <1>8, <1>9, <1>10, <1>11, <1>12, <1>13 DEF Sound

\* heap_malloc forgets that the block is cleared.
LEMMA ClearSound ==
  ASSUME NEW h, Sound(h), NEW b \in BlocksOf(h), NEW g, g = ClearZeroed(h, b)
  PROVE  /\ Sound(g) /\ BlocksOf(g) = BlocksOf(h) /\ g.data = h.data
         /\ ~g.head[b].zeroed /\ g.head[b].used = h.head[b].used /\ SizeOf(g, b) = SizeOf(h, b)
         /\ \A x \in BlocksOf(h) \ {b} : Keeps(h, g, x)
         /\ \A x \in BlocksOf(h) : Alone(h, x) => Alone(g, x)
  <1>0. IsHeap(h) /\ Typed(h) /\ Tiles(h) /\ Marked(h) BY DEF Sound
  <1>1. b \in Nat /\ b # NULL /\ h.head[b] \in Header
    BY <1>0, Neighbours, ValuesAssumption
  <1> DEFINE header == [h.head[b] EXCEPT !.zeroed = FALSE]
  <1>2. g = [h EXCEPT !.head = [h.head EXCEPT ![b] = header]] BY <1>1 DEF ClearZeroed
  <1>3. /\ header \in Header /\ header.prev = h.head[b].prev /\ header.size = h.head[b].size
        /\ header.used = h.head[b].used /\ header.last = h.head[b].last /\ ~header.zeroed
    BY <1>1 DEF Header
  <1> HIDE DEF header
  <1>4. /\ IsHeap(g) /\ g.free = h.free /\ g.data = h.data
        /\ g.head = [h.head EXCEPT ![b] = header]
    BY <1>0, <1>2 DEF IsHeap
  <1>5. h.head \in [BlocksOf(h) -> Header] BY <1>0 DEF Typed
  <1>6. BlocksOf(g) = BlocksOf(h) /\ g.head \in [BlocksOf(g) -> Header]
    BY <1>3, <1>4, <1>5 DEF BlocksOf
  <1>7. \A x \in BlocksOf(h) : g.head[x] = IF x = b THEN header ELSE h.head[x]
    BY <1>4, <1>5
  <1>8. \A x \in BlocksOf(h) :
          /\ SizeOf(g, x) = SizeOf(h, x) /\ g.head[x].prev = h.head[x].prev
          /\ g.head[x].used = h.head[x].used /\ g.head[x].last = h.head[x].last
          /\ g.head[x].zeroed => h.head[x].zeroed /\ x # b
          /\ x # b => g.head[x].zeroed = h.head[x].zeroed
    BY <1>3, <1>7 DEF SizeOf
  <1>9. Rewritten(h, g)
    <2>1. IsFunction(h.data) /\ \A i \in DOMAIN h.data : h.data[i] \in Content
      BY <1>0 DEF Typed, IsFunction
    <2>2. \A x \in BlocksOf(h) : g.head[x].zeroed =>
            \A i \in (x + 2)..(x + SizeOf(h, x)) : g.data[i] = Zero
      BY <1>0, <1>4, <1>8 DEF Marked
    <2>3. QED BY <1>4, <1>6, <1>8, <2>1, <2>2 DEF Rewritten
  <1>10. ~g.head[b].zeroed BY <1>8
  <1>11. \A x \in BlocksOf(h) \ {b} : Keeps(h, g, x) BY <1>4, <1>6, <1>8 DEF Keeps
  <1>12. QED BY <1>4, <1>6, <1>8, <1>9, <1>10, <1>11, RewrittenSound

\* Writing to the units of a block that is not marked.
LEMMA WriteSound ==
  ASSUME NEW h, Sound(h), NEW b \in BlocksOf(h), ~h.head[b].zeroed,
         NEW g, IsHeap(g), g.head = h.head, g.free = h.free,
         IsFunction(g.data), DOMAIN g.data = DOMAIN h.data,
         \A i \in DOMAIN h.data : g.data[i] \in Content,
         \A i \in DOMAIN h.data : i \notin Units(b, SizeOf(h, b)) => g.data[i] = h.data[i]
  PROVE  /\ Sound(g) /\ BlocksOf(g) = BlocksOf(h)
         /\ \A x \in BlocksOf(h) : NextOf(g, x) = NextOf(h, x)
         /\ \A x \in BlocksOf(h) : IsFree(h, NextOf(h, x)) <=> IsFree(g, NextOf(g, x))
         /\ \A x \in BlocksOf(h) : SizeOf(g, x) = SizeOf(h, x)
         /\ \A x \in BlocksOf(h) \ {b} : Keeps(h, g, x)
         /\ \A x \in BlocksOf(h) : Alone(h, x) => Alone(g, x)
  <1>0. IsHeap(h) /\ Typed(h) /\ Tiles(h) /\ Marked(h) BY DEF Sound
  <1>1. BlocksOf(g) = BlocksOf(h) /\ \A x \in BlocksOf(h) : SizeOf(g, x) = SizeOf(h, x)
    BY DEF BlocksOf, SizeOf
  <1>2. ASSUME NEW x \in BlocksOf(h), x # b, NEW i \in (x + 1)..(x + SizeOf(h, x))
        PROVE  g.data[i] = h.data[i]
    <2>1. x \in Nat /\ SizeOf(h, x) \in Nat /\ b \in Nat /\ SizeOf(h, b) \in Nat
      BY <1>0, Neighbours
    <2>2. i \in x..(x + SizeOf(h, x)) BY <1>2, <2>1
    <2>3. i \notin b..(b + SizeOf(h, b)) BY <1>0, <1>2, <2>2, Disjoint
    <2>4. i \notin Units(b, SizeOf(h, b)) BY <2>1, <2>3 DEF Units
    <2>5. i \in DOMAIN h.data BY <1>0, <2>2, Neighbours
    <2>6. QED BY <2>4, <2>5
  <1>3. Rewritten(h, g)
    <2>1. \A x \in BlocksOf(h) : g.head[x].zeroed =>
            \A i \in (x + 2)..(x + SizeOf(h, x)) : g.data[i] = Zero
      <3> SUFFICES ASSUME NEW x \in BlocksOf(h), h.head[x].zeroed,
                          NEW i \in (x + 2)..(x + SizeOf(h, x))
                   PROVE  g.data[i] = Zero
        OBVIOUS
      <3>1. x \in Nat /\ SizeOf(h, x) \in Nat BY <1>0, Neighbours
      <3>2. x # b /\ i \in (x + 1)..(x + SizeOf(h, x)) BY <3>1
      <3>3. h.data[i] = Zero BY <1>0 DEF Marked
      <3>4. QED BY <1>2, <3>2, <3>3
    <2>2. h.head \in [BlocksOf(h) -> Header] BY <1>0 DEF Typed
    <2>3. QED BY <1>1, <2>1, <2>2 DEF Rewritten
  <1>4. \A x \in BlocksOf(h) \ {b} : Keeps(h, g, x) BY <1>1, <1>2 DEF Keeps, Units
  <1>5. QED BY <1>1, <1>3, <1>4, RewrittenSound

LEMMA FillSound ==
  ASSUME NEW h, Sound(h), NEW b \in BlocksOf(h), ~h.head[b].zeroed,
         NEW n \in Nat, n <= SizeOf(h, b), NEW v \in Content, NEW g, g = Filled(h, Units(b, n), v)
  PROVE  /\ Sound(g) /\ g.head = h.head /\ BlocksOf(g) = BlocksOf(h)
         /\ \A i \in Units(b, n) : g.data[i] = v
         /\ \A x \in BlocksOf(h) \ {b} : Keeps(h, g, x)
         /\ \A x \in BlocksOf(h) : Alone(h, x) => Alone(g, x)
  <1>0. IsHeap(h) /\ Typed(h) /\ Tiles(h) BY DEF Sound
  <1> DEFINE units == Units(b, n)
  <1>1. b \in Nat /\ SizeOf(h, b) \in Nat BY <1>0, Neighbours
  <1>2. units \subseteq Units(b, SizeOf(h, b)) BY <1>1 DEF Units
  <1>3. units \subseteq DOMAIN h.data BY <1>0, <1>2 DEF Tiles, BlocksOf
  <1> HIDE DEF units
  <1>4. g = Filled(h, units, v) BY DEF units
  <1>5. /\ IsHeap(g) /\ g.head = h.head /\ g.free = h.free
        /\ IsFunction(g.data) /\ DOMAIN g.data = DOMAIN h.data \cup units
        /\ \A i \in DOMAIN g.data : g.data[i] = IF i \in units THEN v ELSE h.data[i]
    BY <1>0, <1>4, FilledForm
  <1>6. DOMAIN g.data = DOMAIN h.data BY <1>3, <1>5
  <1>7. \A i \in DOMAIN h.data : /\ g.data[i] \in Content
                                 /\ i \notin Units(b, SizeOf(h, b)) => g.data[i] = h.data[i]
    BY <1>0, <1>2, <1>5, <1>6 DEF Typed
  <1>8. \A i \in units : g.data[i] = v BY <1>5
  <1>9. QED BY <1>5, <1>6, <1>7, <1>8, WriteSound DEF units

\* memmove or memcpy into the memory of a block.
LEMMA CopySound ==
  ASSUME NEW h, Sound(h), NEW from \in Nat, NEW to \in BlocksOf(h), ~h.head[to].zeroed,
         NEW n \in Nat, n <= SizeOf(h, to), Units(from, n) \subseteq DOMAIN h.data,
         NEW g, g = Copied(h, from, to, n)
  PROVE  /\ Sound(g) /\ g.head = h.head /\ BlocksOf(g) = BlocksOf(h)
         /\ \A i \in Units(to, n) : g.data[i] = h.data[from + (i - to)]
         /\ NextOf(g, to) = NextOf(h, to)
         /\ IsFree(h, NextOf(h, to)) <=> IsFree(g, NextOf(g, to))
         /\ \A x \in BlocksOf(h) \ {to} : Keeps(h, g, x)
         /\ \A x \in BlocksOf(h) : Alone(h, x) => Alone(g, x)
  <1>0. IsHeap(h) /\ Typed(h) /\ Tiles(h) BY DEF Sound
  <1>1. to \in Nat /\ SizeOf(h, to) \in Nat BY <1>0, Neighbours
  <1>2. Units(to, n) \subseteq Units(to, SizeOf(h, to)) BY <1>1 DEF Units
  <1>3. Units(to, n) \subseteq DOMAIN h.data BY <1>0, <1>2 DEF Tiles, BlocksOf
  <1>4. \A i \in Units(to, n) : from + (i - to) \in Units(from, n) BY <1>1 DEF Units
  <1>5. /\ IsHeap(g) /\ g.head = h.head /\ g.free = h.free
        /\ g.data = [i \in DOMAIN h.data |->
                       IF i \in Units(to, n) THEN h.data[from + (i - to)] ELSE h.data[i]]
    BY <1>0 DEF IsHeap, Copied
  <1>6. /\ IsFunction(g.data) /\ DOMAIN g.data = DOMAIN h.data
        /\ \A i \in DOMAIN h.data :
             g.data[i] = IF i \in Units(to, n) THEN h.data[from + (i - to)] ELSE h.data[i]
    BY <1>5 DEF IsFunction
  <1>7. \A i \in DOMAIN h.data : /\ g.data[i] \in Content
                                 /\ i \notin Units(to, SizeOf(h, to)) => g.data[i] = h.data[i]
    BY <1>0, <1>2, <1>4, <1>6 DEF Typed
  <1>8. \A i \in Units(to, n) : g.data[i] = h.data[from + (i - to)] BY <1>3, <1>6
  <1>9. /\ Sound(g) /\ BlocksOf(g) = BlocksOf(h)
        /\ \A x \in BlocksOf(h) : NextOf(g, x) = NextOf(h, x)
        /\ \A x \in BlocksOf(h) : IsFree(h, NextOf(h, x)) <=> IsFree(g, NextOf(g, x))
        /\ \A x \in BlocksOf(h) \ {to} : Keeps(h, g, x)
        /\ \A x \in BlocksOf(h) : Alone(h, x) => Alone(g, x)
    <2>1. IsHeap(g) /\ g.head = h.head /\ g.free = h.free BY <1>5
    <2>2. IsFunction(g.data) /\ DOMAIN g.data = DOMAIN h.data BY <1>6
    <2>3. QED BY <1>7, <2>1, <2>2, WriteSound
  <1>10. QED BY <1>5, <1>8, <1>9

\* A block that is used and whose neighbours are not free is freed.
LEMMA FreeSound ==
  ASSUME NEW h, Sound(h), NEW b \in BlocksOf(h), h.head[b].used, Alone(h, b),
         NEW unmaps, NEW g, g = FreeBlock(h, b, unmaps)
  PROVE  Sound(g) /\ \A x \in BlocksOf(h) \ {b} : Keeps(h, g, x)
  <1>0. IsHeap(h) /\ Typed(h) /\ Tiles(h) /\ Mapped(h) /\ Listed(h) /\ Apart(h) /\ Marked(h)
    BY DEF Sound
  <1>1. b \in Nat /\ b # NULL /\ h.head[b] \in Header /\ SizeOf(h, b) \in Nat /\ SizeOf(h, b) >= 1
    BY <1>0, Neighbours, ValuesAssumption
  <1>2. BlocksOf(h) \subseteq DOMAIN h.data /\ DOMAIN h.data \subseteq Nat
    BY <1>0 DEF Typed
  <1>3. h.head \in [BlocksOf(h) -> Header] /\ h.data \in [DOMAIN h.data -> Content]
        /\ IsFunction(h.free) /\ DOMAIN h.free = 0..(Buckets - 1)
    BY <1>0 DEF Typed
  <1>4. CASE unmaps /\ PrevOf(h, b) = NULL /\ NextOf(h, b) = NULL
    <2> DEFINE gone == b..(b + SizeOf(h, b))
               head == [x \in DOMAIN h.head \ {b} |-> h.head[x]]
               data == [i \in DOMAIN h.data \ gone |-> h.data[i]]
    <2>1. g = [h EXCEPT !.head = head, !.data = data] BY <1>4 DEF FreeBlock
    <2>2. /\ DOMAIN head = BlocksOf(h) \ {b} /\ \A x \in BlocksOf(h) \ {b} : head[x] = h.head[x]
          /\ head \in [BlocksOf(h) \ {b} -> Header]
      BY <1>3 DEF BlocksOf
    <2>3. /\ DOMAIN data = DOMAIN h.data \ gone
          /\ \A i \in DOMAIN h.data \ gone : data[i] = h.data[i]
          /\ data \in [DOMAIN h.data \ gone -> Content]
      BY <1>3
    <2> HIDE DEF head, data
    <2>4. IsHeap(g) /\ g.head = head /\ g.data = data /\ g.free = h.free
      BY <1>0, <2>1 DEF IsHeap
    <2>5. BlocksOf(g) = BlocksOf(h) \ {b} BY <2>2, <2>4 DEF BlocksOf
    <2>6. \A x \in BlocksOf(g) :
            /\ g.head[x] = h.head[x] /\ SizeOf(g, x) = SizeOf(h, x) /\ After(g, x) = After(h, x)
            /\ NextOf(g, x) = NextOf(h, x) /\ PrevOf(g, x) = PrevOf(h, x)
      BY <2>2, <2>4, <2>5 DEF SizeOf, After, NextOf, PrevOf
    <2>7. \A x \in BlocksOf(g) : \A i \in x..(x + SizeOf(h, x)) :
            i \in DOMAIN g.data /\ g.data[i] = h.data[i]
      <3> TAKE x \in BlocksOf(g)
      <3> TAKE i \in x..(x + SizeOf(h, x))
      <3>1. x \in BlocksOf(h) /\ x # b BY <2>5
      <3>2. i \in DOMAIN h.data BY <1>0, <3>1, Neighbours
      <3>3. i \notin gone BY <1>0, <3>1, Disjoint
      <3>4. QED BY <2>3, <2>4, <3>2, <3>3
    <2>8. Typed(g)
      <3>1. BlocksOf(g) \subseteq DOMAIN g.data
        <4> SUFFICES ASSUME NEW x \in BlocksOf(g) PROVE x \in DOMAIN g.data OBVIOUS
        <4>1. x \in Nat /\ SizeOf(h, x) \in Nat BY <1>0, <2>5, Neighbours
        <4>2. x \in x..(x + SizeOf(h, x)) BY <4>1
        <4>3. QED BY <2>7, <4>2
      <3>2. QED BY <1>2, <1>3, <2>2, <2>3, <2>4, <2>5, <3>1 DEF Typed
    <2>9. h.head[b].last /\ After(h, b) \notin DOMAIN h.data /\ b \in Bases
      BY <1>0, <1>4, Neighbours
    <2>10. Tiles(g)
      <3> SUFFICES ASSUME NEW x \in BlocksOf(g)
                   PROVE  /\ Units(x, SizeOf(g, x)) \subseteq DOMAIN g.data \ BlocksOf(g)
                          /\ g.head[x].prev = 0 <=> x \in Bases
                          /\ \/ x \in Bases
                             \/ PrevOf(g, x) \in BlocksOf(g) /\ After(g, PrevOf(g, x)) = x
                          /\ IF g.head[x].last THEN After(g, x) \notin DOMAIN g.data
                             ELSE /\ After(g, x) \in BlocksOf(g)
                                  /\ g.head[After(g, x)].prev = SizeOf(g, x)
        BY DEF Tiles, BlocksOf
      <3>1. x \in BlocksOf(h) /\ x # b BY <2>5
      <3>2. /\ Units(x, SizeOf(h, x)) \subseteq DOMAIN h.data \ BlocksOf(h)
            /\ h.head[x].prev = 0 <=> x \in Bases
            /\ x \in Bases \/ (PrevOf(h, x) \in BlocksOf(h) /\ After(h, PrevOf(h, x)) = x)
            /\ IF h.head[x].last THEN After(h, x) \notin DOMAIN h.data
               ELSE After(h, x) \in BlocksOf(h) /\ h.head[After(h, x)].prev = SizeOf(h, x)
        BY <1>0, <3>1 DEF Tiles, BlocksOf
      <3>3. Units(x, SizeOf(g, x)) \subseteq DOMAIN g.data \ BlocksOf(g)
        <4>1. x \in Nat /\ SizeOf(h, x) \in Nat BY <1>0, <3>1, Neighbours
        <4>2. Units(x, SizeOf(h, x)) \subseteq x..(x + SizeOf(h, x)) BY <4>1 DEF Units
        <4>3. QED BY <2>5, <2>6, <2>7, <3>2, <4>2
      <3>4. x \notin Bases => PrevOf(h, x) # b BY <1>2, <2>9, <3>1, <3>2
      <3>5. ~h.head[x].last => After(h, x) # b
        <4> SUFFICES ASSUME ~h.head[x].last, After(h, x) = b PROVE FALSE OBVIOUS
        <4>1. PrevOf(h, b) = x /\ x \in Nat BY <1>0, <3>1, Neighbours
        <4>2. QED BY <1>4, <4>1, ValuesAssumption
      <3>6. DOMAIN g.data \subseteq DOMAIN h.data BY <2>3, <2>4
      <3>7. QED BY <2>5, <2>6, <3>2, <3>3, <3>4, <3>5, <3>6
    <2>11. Mapped(g)
      <3> SUFFICES ASSUME NEW i \in DOMAIN g.data
                   PROVE  /\ \E base \in Bases : /\ base <= i /\ i < base + MaxMapping
                                                 /\ base..i \subseteq DOMAIN g.data
                          /\ \E c \in BlocksOf(g) : c <= i /\ i <= c + SizeOf(g, c)
        BY DEF Mapped
      <3>1. i \in DOMAIN h.data /\ i \notin gone /\ i \in Nat BY <1>2, <2>3, <2>4
      <3>2. PICK base \in Bases : /\ base <= i /\ i < base + MaxMapping
                                  /\ base..i \subseteq DOMAIN h.data
        BY <1>0, <3>1 DEF Mapped
      <3>3. base..i \subseteq DOMAIN g.data
        <4> SUFFICES ASSUME NEW j \in base..i, j \in gone PROVE FALSE BY <2>3, <2>4, <3>2
        <4>1. base \in Nat BY <3>2, BasesAssumption
        <4>2. b + 1 + SizeOf(h, b) \in base..i BY <1>1, <3>1, <4>1
        <4>3. QED BY <2>9, <3>2, <4>2 DEF After
      <3>4. PICK c \in BlocksOf(h) : c <= i /\ i <= c + SizeOf(h, c) BY <1>0, <3>1 DEF Mapped
      <3>5. c # b BY <1>1, <3>1, <3>4
      <3>6. QED BY <2>5, <2>6, <3>2, <3>3, <3>4, <3>5
    <2>12. FreeBlocks(g) = FreeBlocks(h) BY <2>5, <2>6 DEF FreeBlocks
    <2>13. Listed(g)
      <3>1. \A i \in 0..(Buckets - 1) : FreeOf(g, i) = FreeOf(h, i)
        BY <2>5, <2>6, <2>12 DEF FreeOf, FreeBlocks
      <3>2. QED BY <1>0, <2>4, <3>1 DEF Listed
    <2>14. Apart(g)
      <3> SUFFICES ASSUME NEW x \in FreeBlocks(g), IsFree(g, NextOf(g, x)) PROVE FALSE
        BY DEF Apart
      <3>1. x \in FreeBlocks(h) /\ x \in BlocksOf(g) /\ x \in BlocksOf(h)
        BY <2>5, <2>12 DEF FreeBlocks
      <3>2. PICK y : y = NextOf(h, x) OBVIOUS
      <3>3. NextOf(g, x) = y /\ y # NULL /\ ~g.head[y].used BY <2>6, <3>1, <3>2 DEF IsFree
      <3>8. x \in Nat /\ (NextOf(h, x) # NULL => NextOf(h, x) \in BlocksOf(h)
                                                /\ PrevOf(h, NextOf(h, x)) = x)
        BY <1>0, <3>1, Neighbours
      <3>4. y \in BlocksOf(h) /\ PrevOf(h, y) = x /\ x # NULL
        BY <3>2, <3>3, <3>8, ValuesAssumption
      <3>5. y # b BY <1>4, <3>4
      <3>6. ~h.head[y].used BY <2>5, <2>6, <3>3, <3>4, <3>5
      <3>7. QED BY <1>0, <3>1, <3>2, <3>3, <3>6 DEF Apart, IsFree
    <2>15. Marked(g)
      <3> SUFFICES ASSUME NEW x \in BlocksOf(g), g.head[x].zeroed,
                          NEW i \in (x + 2)..(x + SizeOf(g, x))
                   PROVE  g.data[i] = Zero
        BY DEF Marked
      <3>1. x \in BlocksOf(h) /\ x \in Nat /\ SizeOf(h, x) \in Nat BY <1>0, <2>5, Neighbours
      <3>2. i \in (x + 2)..(x + SizeOf(h, x)) /\ i \in x..(x + SizeOf(h, x)) BY <2>6, <3>1
      <3>3. h.data[i] = Zero BY <1>0, <2>6, <3>1, <3>2 DEF Marked
      <3>4. QED BY <2>7, <3>2, <3>3
    <2>16. ASSUME NEW x \in BlocksOf(h) \ {b} PROVE Keeps(h, g, x)
      <3>1. x \in BlocksOf(g) /\ x \in Nat /\ SizeOf(h, x) \in Nat BY <1>0, <2>5, Neighbours
      <3>2. Units(x, SizeOf(h, x)) \subseteq x..(x + SizeOf(h, x)) BY <3>1 DEF Units
      <3>3. QED BY <2>6, <2>7, <3>1, <3>2 DEF Keeps
    <2>17. QED BY <2>4, <2>8, <2>10, <2>11, <2>13, <2>14, <2>15, <2>16 DEF Sound
  <1>5. CASE ~(unmaps /\ PrevOf(h, b) = NULL /\ NextOf(h, b) = NULL)
    <2> DEFINE header == [h.head[b] EXCEPT !.used = FALSE]
               f == [h EXCEPT !.head = [h.head EXCEPT ![b] = header]]
    <2>1. g = FreeListInsert(f, b) BY <1>5 DEF FreeBlock
    <2>2. /\ header \in Header /\ header.prev = h.head[b].prev /\ header.size = h.head[b].size
          /\ ~header.used /\ header.last = h.head[b].last /\ header.zeroed = h.head[b].zeroed
      BY <1>1 DEF Header
    <2> HIDE DEF header
    <2>3. /\ IsHeap(f) /\ f.free = h.free /\ f.data = h.data
          /\ f.head = [h.head EXCEPT ![b] = header]
      BY <1>0 DEF IsHeap
    <2> HIDE DEF f
    <2>4. /\ IsHeap(g) /\ g.head = f.head
          /\ IsFunction(g.data) /\ DOMAIN g.data = DOMAIN h.data \cup {b + 1}
          /\ \A i \in DOMAIN g.data : g.data[i] = IF i = b + 1 THEN Junk ELSE h.data[i]
          /\ IsFunction(g.free) /\ DOMAIN g.free = 0..(Buckets - 1)
          /\ \A i \in 0..(Buckets - 1) :
               g.free[i] = IF i = BucketOf(SizeOf(f, b)) THEN <<b>> \o h.free[i] ELSE h.free[i]
      BY <1>3, <2>1, <2>3, InsertForm
    <2>5. b + 1 \in DOMAIN h.data
      <3>1. b + 1 \in b..(b + SizeOf(h, b)) BY <1>1
      <3>2. QED BY <1>0, <3>1, Neighbours
    <2>6. DOMAIN g.data = DOMAIN h.data BY <2>4, <2>5
    <2>7. BlocksOf(g) = BlocksOf(h) /\ g.head \in [BlocksOf(g) -> Header]
      BY <1>3, <2>2, <2>3, <2>4 DEF BlocksOf
    <2>8. \A x \in BlocksOf(h) : g.head[x] = IF x = b THEN header ELSE h.head[x]
      BY <1>3, <2>3, <2>4
    <2>9. \A x \in BlocksOf(h) :
            /\ SizeOf(g, x) = SizeOf(h, x) /\ g.head[x].prev = h.head[x].prev
            /\ g.head[x].last = h.head[x].last /\ g.head[x].zeroed = h.head[x].zeroed
            /\ x # b => g.head[x].used = h.head[x].used
      BY <2>2, <2>8 DEF SizeOf
    <2>10. \A x \in BlocksOf(h) : /\ NextOf(g, x) = NextOf(h, x) /\ PrevOf(g, x) = PrevOf(h, x)
                                  /\ After(g, x) = After(h, x)
      BY <2>9 DEF NextOf, PrevOf, After
    <2>11. ~g.head[b].used BY <2>2, <2>8
    <2>12. FreeBlocks(g) = FreeBlocks(h) \cup {b} BY <2>7, <2>9, <2>11 DEF FreeBlocks
    <2>13. Typed(g)
      <3>1. \A i \in DOMAIN g.data : g.data[i] \in Content BY <1>3, <2>4, <2>6 DEF Content
      <3>2. g.data \in [DOMAIN g.data -> Content] BY <2>4, <3>1 DEF IsFunction
      <3>3. QED BY <1>2, <2>4, <2>6, <2>7, <3>2 DEF Typed
    <2>14. Tiles(g) BY <1>0, <2>6, <2>7, <2>9, <2>10 DEF Tiles, BlocksOf
    <2>15. Mapped(g) BY <1>0, <2>6, <2>7, <2>9 DEF Mapped
    <2>16. Listed(g)
      <3>1. b \notin FreeBlocks(h) BY DEF FreeBlocks
      <3>2. \A x \in FreeBlocks(h) : SizeOf(g, x) = SizeOf(h, x) BY <2>9 DEF FreeBlocks
      <3>3. SizeOf(g, b) = SizeOf(f, b) BY <2>4 DEF SizeOf
      <3>4. \A i \in 0..(Buckets - 1) :
              g.free[i] = IF i = BucketOf(SizeOf(g, b)) THEN <<b>> \o h.free[i] ELSE h.free[i]
        BY <2>4, <3>3
      <3>5. QED BY <1>0, <1>1, <2>12, <3>1, <3>2, <3>4, ListedInsert
    <2>17. Apart(g)
      <3> SUFFICES ASSUME NEW x \in FreeBlocks(g), IsFree(g, NextOf(g, x)) PROVE FALSE
        BY DEF Apart
      <3>1. PICK y : y = NextOf(h, x) OBVIOUS
      <3>2. x \in BlocksOf(h) BY <2>7 DEF FreeBlocks
      <3>3. NextOf(g, x) = y /\ y # NULL /\ ~g.head[y].used BY <2>10, <3>1, <3>2 DEF IsFree
      <3>4. y \in BlocksOf(h) /\ PrevOf(h, y) = x /\ x # NULL /\ y # x
        <4>1. x \in Nat /\ SizeOf(h, x) \in Nat /\ After(h, x) = x + 1 + SizeOf(h, x)
              /\ IF h.head[x].last THEN NextOf(h, x) = NULL
                 ELSE /\ NextOf(h, x) = After(h, x) /\ After(h, x) \in BlocksOf(h)
                      /\ PrevOf(h, After(h, x)) = x
          BY <1>0, <3>2, Neighbours
        <4>2. QED BY <3>1, <3>3, <4>1, ValuesAssumption
      <3>5. CASE x = b
        <4>1. ~h.head[y].used BY <2>9, <3>3, <3>4, <3>5
        <4>2. QED BY <3>1, <3>3, <3>5, <4>1 DEF Alone, IsFree
      <3>6. CASE x # b
        <4>1. x \in FreeBlocks(h) /\ ~h.head[x].used BY <2>12, <3>6 DEF FreeBlocks
        <4>2. y # b BY <3>4, <4>1 DEF Alone, IsFree
        <4>3. ~h.head[y].used BY <2>9, <3>3, <3>4, <4>2
        <4>4. QED BY <1>0, <3>1, <3>3, <4>1, <4>3 DEF Apart, IsFree
      <3>7. QED BY <3>5, <3>6
    <2>18. \A x \in BlocksOf(h) : \A i \in (x + 1)..(x + SizeOf(h, x)) :
             (i = b + 1 => x = b) /\ (i # b + 1 => g.data[i] = h.data[i])
      <3> TAKE x \in BlocksOf(h)
      <3> TAKE i \in (x + 1)..(x + SizeOf(h, x))
      <3>1. x \in Nat /\ SizeOf(h, x) \in Nat BY <1>0, Neighbours
      <3>2. i \in x..(x + SizeOf(h, x)) /\ b + 1 \in b..(b + SizeOf(h, b)) BY <1>1, <3>1
      <3>3. x # b => i # b + 1 BY <1>0, <3>2, Disjoint
      <3>4. i \in DOMAIN h.data BY <1>0, <3>2, Neighbours
      <3>5. QED BY <2>4, <2>6, <3>3, <3>4
    <2>19. Marked(g)
      <3> SUFFICES ASSUME NEW x \in BlocksOf(g), g.head[x].zeroed,
                          NEW i \in (x + 2)..(x + SizeOf(g, x))
                   PROVE  g.data[i] = Zero
        BY DEF Marked
      <3>1. x \in BlocksOf(h) /\ x \in Nat /\ SizeOf(h, x) \in Nat BY <1>0, <2>7, Neighbours
      <3>2. i \in (x + 2)..(x + SizeOf(h, x)) BY <2>9, <3>1
      <3>3. i \in (x + 1)..(x + SizeOf(h, x)) /\ i # x + 1 BY <3>1, <3>2
      <3>4. i # b + 1 BY <2>18, <3>1, <3>3
      <3>5. h.data[i] = Zero BY <1>0, <2>9, <3>1, <3>2 DEF Marked
      <3>6. QED BY <2>18, <3>1, <3>3, <3>4, <3>5
    <2>20. ASSUME NEW x \in BlocksOf(h) \ {b} PROVE Keeps(h, g, x)
      BY <2>7, <2>9, <2>18 DEF Keeps, Units
    <2>21. QED BY <2>4, <2>13, <2>14, <2>15, <2>16, <2>17, <2>19, <2>20 DEF Sound
  <1>6. QED BY <1>4, <1>5
-----------------------------------------------------------------------------
(* Merging, finding and allocating.                                         *)

\* From h to g a block that the client uses became larger, and at most the one before
\* it became part of it.
Grown(h, g, b, c) ==
  /\ Sound(g) /\ g.data = h.data
  /\ c \in BlocksOf(g) /\ g.head[c].used /\ ~g.head[c].zeroed
  /\ SizeOf(g, c) >= SizeOf(h, b) /\ c + SizeOf(g, c) >= b + SizeOf(h, b)
  /\ c = b \/ (IsFree(h, PrevOf(h, b)) /\ c = PrevOf(h, b) /\ c < b)
  /\ \A x \in BlocksOf(h) \ {b} : h.head[x].used => Keeps(h, g, x)

LEMMA MergeNextSound ==
  ASSUME NEW h, Sound(h), NEW b \in BlocksOf(h), h.head[b].used, ~h.head[b].zeroed,
         NEW g, g = MergeNext(h, b)
  PROVE  /\ Grown(h, g, b, b) /\ ~IsFree(g, NextOf(g, b))
         /\ PrevOf(g, b) = PrevOf(h, b) /\ (IsFree(g, PrevOf(g, b)) => IsFree(h, PrevOf(h, b)))
  <1>0. IsHeap(h) /\ Typed(h) /\ Tiles(h) /\ Apart(h) BY DEF Sound
  <1>1. b \in Nat /\ SizeOf(h, b) \in Nat BY <1>0, Neighbours
  <1>2. CASE ~IsFree(h, NextOf(h, b))
    <2>1. g = h BY <1>2 DEF MergeNext, Mergeable
    <2>2. QED BY <1>1, <1>2, <2>1 DEF Grown, Keeps
  <1>3. CASE IsFree(h, NextOf(h, b))
    <2>1. PICK y : y = NextOf(h, b) OBVIOUS
    <2>2. y # NULL /\ ~h.head[y].used BY <1>3, <2>1 DEF IsFree
    <2>3. y \in BlocksOf(h) /\ y = After(h, b) /\ y = b + 1 + SizeOf(h, b) /\ PrevOf(h, y) = b
      BY <1>0, <2>1, <2>2, Neighbours
    <2>4. y \in Nat /\ SizeOf(h, y) \in Nat /\ b # y BY <1>0, <1>1, <2>3, Neighbours
    <2>5. g = Join(h, b, y, b) BY <1>3, <2>1 DEF MergeNext, Mergeable
    <2>6. b \in {b, y} /\ y \in {b, y} OBVIOUS
    <2>7. /\ Sound(g) /\ g.data = h.data /\ BlocksOf(g) = BlocksOf(h) \ {y}
          /\ b \in BlocksOf(g) /\ g.head[b].used /\ ~g.head[b].zeroed
          /\ SizeOf(g, b) = SizeOf(h, b) + 1 + SizeOf(h, y)
          /\ NextOf(g, b) = NextOf(h, y) /\ PrevOf(g, b) = PrevOf(h, b)
          /\ FreeBlocks(g) = FreeBlocks(h) \ {y}
          /\ \A x \in BlocksOf(h) \ {b, y} : Keeps(h, g, x)
      <3>1. y \in BlocksOf(h) /\ y # b BY <2>3, <2>4
      <3>2. y = NextOf(h, b) /\ y # NULL /\ ~h.head[y].used BY <2>1, <2>2
      <3>3. QED BY <2>5, <2>6, <3>1, <3>2, JoinSound
    <2>8. \A x \in BlocksOf(h) \ {y} : g.head[x].used <=> h.head[x].used BY <2>7 DEF Keeps
    <2>9. ~IsFree(g, NextOf(g, b))
      <3>1. y \in FreeBlocks(h) BY <2>2, <2>3 DEF FreeBlocks
      <3>2. PICK z : z = NextOf(h, y) OBVIOUS
      <3>3. ~IsFree(h, z) BY <1>0, <3>1, <3>2 DEF Apart
      <3>4. z = NULL \/ (z \in BlocksOf(h) /\ z = After(h, y) /\ z = y + 1 + SizeOf(h, y))
        BY <1>0, <2>3, <3>2, Neighbours
      <3>5. z # NULL => z # y BY <2>4, <3>4
      <3>6. QED BY <2>7, <2>8, <3>2, <3>3, <3>4, <3>5 DEF IsFree
    <2>10. IsFree(g, PrevOf(g, b)) => IsFree(h, PrevOf(h, b))
      <3>1. PICK z : z = PrevOf(h, b) OBVIOUS
      <3>2. z = NULL \/ (z \in BlocksOf(h) /\ z < b /\ z \in Nat)
        <4>1. z = NULL \/ (z \in BlocksOf(h) /\ z < b) BY <1>0, <3>1, Neighbours
        <4>2. QED BY <1>0, <4>1, Neighbours
      <3>3. z # NULL => z # y BY <1>1, <2>3, <3>2
      <3>4. QED BY <2>7, <2>8, <3>1, <3>2, <3>3 DEF IsFree
    <2>11. SizeOf(g, b) >= SizeOf(h, b) /\ b + SizeOf(g, b) >= b + SizeOf(h, b)
      BY <1>1, <2>4, <2>7
    <2>12. \A x \in BlocksOf(h) \ {b} : h.head[x].used => Keeps(h, g, x) BY <2>2, <2>7
    <2>13. QED BY <2>7, <2>9, <2>10, <2>11, <2>12 DEF Grown
  <1>4. QED BY <1>2, <1>3

LEMMA MergePrevSound ==
  ASSUME NEW h, Sound(h), NEW b \in BlocksOf(h), h.head[b].used, ~h.head[b].zeroed,
         ~IsFree(h, NextOf(h, b)), NEW m, m = MergePrev(h, b)
  PROVE  Grown(h, m.heap, b, m.block) /\ Alone(m.heap, m.block)
  <1>0. IsHeap(h) /\ Typed(h) /\ Tiles(h) /\ Apart(h) BY DEF Sound
  <1>1. b \in Nat /\ SizeOf(h, b) \in Nat BY <1>0, Neighbours
  <1>2. CASE ~IsFree(h, PrevOf(h, b))
    <2>1. m.heap = h /\ m.block = b BY <1>2 DEF MergePrev, Mergeable
    <2>2. QED BY <1>1, <1>2, <2>1 DEF Grown, Keeps, Alone
  <1>3. CASE IsFree(h, PrevOf(h, b))
    <2>1. PICK a : a = PrevOf(h, b) OBVIOUS
    <2>2. a # NULL /\ ~h.head[a].used BY <1>3, <2>1 DEF IsFree
    <2>3. /\ a \in BlocksOf(h) /\ a < b /\ NextOf(h, a) = b BY <1>0, <2>1, <2>2, Neighbours
    <2>4. /\ a \in Nat /\ SizeOf(h, a) \in Nat /\ a # b /\ b # NULL
          /\ PrevOf(h, a) = NULL \/ (PrevOf(h, a) \in BlocksOf(h) /\ PrevOf(h, a) < a
                                     /\ NextOf(h, PrevOf(h, a)) = a)
          /\ b = After(h, a) /\ After(h, a) = a + 1 + SizeOf(h, a)
      BY <1>0, <1>1, <2>3, Neighbours, ValuesAssumption
    <2>5. PICK g : g = Join(h, a, b, b) OBVIOUS
    <2>6. m.heap = g /\ m.block = a BY <1>3, <2>1, <2>5 DEF MergePrev, Mergeable
    <2>7. b \in {a, b} /\ a \in {a, b} OBVIOUS
    <2>8. /\ Sound(g) /\ g.data = h.data /\ BlocksOf(g) = BlocksOf(h) \ {b}
          /\ a \in BlocksOf(g) /\ g.head[a].used /\ ~g.head[a].zeroed
          /\ SizeOf(g, a) = SizeOf(h, a) + 1 + SizeOf(h, b)
          /\ NextOf(g, a) = NextOf(h, b) /\ PrevOf(g, a) = PrevOf(h, a)
          /\ FreeBlocks(g) = FreeBlocks(h) \ {a}
          /\ \A x \in BlocksOf(h) \ {a, b} : Keeps(h, g, x)
      BY <2>2, <2>3, <2>4, <2>5, <2>7, JoinSound
    <2>9. \A x \in BlocksOf(h) \ {a, b} : g.head[x].used = h.head[x].used BY <2>8 DEF Keeps
    <2>10. ~IsFree(g, NextOf(g, a))
      <3>1. PICK z : z = NextOf(h, b) OBVIOUS
      <3>2. z = NULL \/ (z \in BlocksOf(h) /\ z = After(h, b) /\ z = b + 1 + SizeOf(h, b))
        BY <1>0, <3>1, Neighbours
      <3>3. z # NULL => z \notin {a, b} BY <1>1, <2>3, <2>4, <3>2
      <3>4. QED BY <2>8, <2>9, <3>1, <3>2, <3>3 DEF IsFree
    <2>11. ~IsFree(g, PrevOf(g, a))
      <3>1. PICK z : z = PrevOf(h, a) OBVIOUS
      <3>2. z # NULL => z \in BlocksOf(h) /\ z < a /\ NextOf(h, z) = a BY <2>4, <3>1
      <3>3. z # NULL => z \in Nat BY <1>0, <3>2, Neighbours
      <3>4. z # NULL => z \notin {a, b} BY <1>1, <2>3, <2>4, <3>2, <3>3
      <3>5. ASSUME z # NULL PROVE h.head[z].used
        <4> SUFFICES ASSUME ~h.head[z].used PROVE FALSE OBVIOUS
        <4>1. z \in FreeBlocks(h) BY <3>2, <3>5 DEF FreeBlocks
        <4>2. ~IsFree(h, a) BY <1>0, <3>2, <3>5, <4>1 DEF Apart
        <4>3. QED BY <2>2, <4>2 DEF IsFree
      <3>6. QED BY <2>8, <2>9, <3>1, <3>2, <3>4, <3>5 DEF IsFree
    <2>12. SizeOf(g, a) >= SizeOf(h, b) /\ a + SizeOf(g, a) >= b + SizeOf(h, b)
      BY <1>1, <2>4, <2>8
    <2>13. \A x \in BlocksOf(h) \ {b} : h.head[x].used => Keeps(h, g, x) BY <2>2, <2>8
    <2>14. Grown(h, g, b, a) BY <1>3, <2>1, <2>3, <2>8, <2>12, <2>13 DEF Grown
    <2>15. QED BY <2>6, <2>10, <2>11, <2>14 DEF Alone
  <1>4. QED BY <1>2, <1>3

LEMMA GrownTwice ==
  ASSUME NEW h, Sound(h), NEW b \in BlocksOf(h), NEW f, NEW g, NEW c,
         Grown(h, f, b, b), PrevOf(f, b) = PrevOf(h, b),
         IsFree(f, PrevOf(f, b)) => IsFree(h, PrevOf(h, b)), Grown(f, g, b, c)
  PROVE  Grown(h, g, b, c)
  <1>1. c = b \/ (IsFree(h, PrevOf(h, b)) /\ c = PrevOf(h, b) /\ c < b) BY DEF Grown
  <1>2. \A x \in BlocksOf(h) \ {b} : h.head[x].used => Keeps(h, g, x)
    <2> TAKE x \in BlocksOf(h) \ {b}
    <2> HAVE h.head[x].used
    <2>1. Keeps(h, f, x) BY DEF Grown
    <2>2. x \in BlocksOf(f) \ {b} /\ f.head[x].used BY <2>1 DEF Keeps
    <2>3. Keeps(f, g, x) BY <2>2 DEF Grown
    <2>4. QED BY <2>1, <2>3, KeepsTwice
  <1>3. SizeOf(g, c) >= SizeOf(h, b) /\ c + SizeOf(g, c) >= b + SizeOf(h, b)
    <2>1. SizeOf(f, b) >= SizeOf(h, b) /\ SizeOf(g, c) >= SizeOf(f, b)
          /\ c + SizeOf(g, c) >= b + SizeOf(f, b)
      BY DEF Grown
    <2>2. SizeOf(h, b) \in Nat /\ b \in Nat BY Neighbours DEF Sound
    <2>3. SizeOf(f, b) \in Nat BY Neighbours DEF Sound, Grown
    <2>4. SizeOf(g, c) \in Nat /\ c \in Nat BY Neighbours DEF Sound, Grown
    <2>5. QED BY <2>1, <2>2, <2>3, <2>4
  <1>4. QED BY <1>1, <1>2, <1>3 DEF Grown

\* try_merge in both directions.
LEMMA MergeSound ==
  ASSUME NEW h, Sound(h), NEW b \in BlocksOf(h), h.head[b].used, ~h.head[b].zeroed,
         NEW m, m = Merge(h, b, TRUE)
  PROVE  Grown(h, m.heap, b, m.block) /\ Alone(m.heap, m.block)
  <1>1. PICK f : f = MergeNext(h, b) OBVIOUS
  <1>2. m = MergePrev(f, b) BY <1>1 DEF Merge
  <1>3. /\ Grown(h, f, b, b) /\ ~IsFree(f, NextOf(f, b))
        /\ PrevOf(f, b) = PrevOf(h, b) /\ (IsFree(f, PrevOf(f, b)) => IsFree(h, PrevOf(h, b)))
    BY <1>1, MergeNextSound
  <1>4. Grown(f, m.heap, b, m.block) /\ Alone(m.heap, m.block)
    BY <1>2, <1>3, MergePrevSound DEF Grown
  <1>5. Grown(h, m.heap, b, m.block) BY <1>3, <1>4, GrownTwice
  <1>6. QED BY <1>4, <1>5

\* The merging of heap_realloc.
LEMMA MergedSound ==
  ASSUME Sound(heap), NEW b \in BlocksOf(heap), heap.head[b].used, ~heap.head[b].zeroed,
         NEW n \in Nat, NEW m, m = Merged(b, n)
  PROVE  /\ Grown(heap, m.heap, b, m.block) /\ ~IsFree(m.heap, NextOf(m.heap, m.block))
         /\ SizeOf(m.heap, m.block) < n => Alone(m.heap, m.block)
  <1>1. PICK f : f = MergeNext(heap, b) OBVIOUS
  <1>2. m = IF SizeOf(f, b) < n THEN Merge(f, b, TRUE) ELSE [heap |-> f, block |-> b]
    BY <1>1 DEF Merged, Merge
  <1>3. /\ Grown(heap, f, b, b) /\ ~IsFree(f, NextOf(f, b)) /\ PrevOf(f, b) = PrevOf(heap, b)
        /\ (IsFree(f, PrevOf(f, b)) => IsFree(heap, PrevOf(heap, b)))
    BY <1>1, MergeNextSound
  <1>4. CASE SizeOf(f, b) < n
    <2>1. m = Merge(f, b, TRUE) BY <1>2, <1>4
    <2>2. Grown(f, m.heap, b, m.block) /\ Alone(m.heap, m.block)
      BY <1>3, <2>1, MergeSound DEF Grown
    <2>3. Grown(heap, m.heap, b, m.block) BY <1>3, <2>2, GrownTwice
    <2>4. QED BY <2>2, <2>3 DEF Alone
  <1>5. CASE ~(SizeOf(f, b) < n)
    <2>1. m.heap = f /\ m.block = b BY <1>2, <1>5
    <2>2. QED BY <1>3, <1>5, <2>1
  <1>6. QED BY <1>4, <1>5

\* find_free_block: a free block that is large enough, or none.
LEMMA FindIs ==
  ASSUME NEW h, Sound(h), NEW n \in Nat
  PROVE  \/ FindFree(h, n) = NULL
         \/ FindFree(h, n) \in FreeBlocks(h) /\ SizeOf(h, FindFree(h, n)) >= n
  <1>1. PICK k : k = BucketOf(n) OBVIOUS
  <1>2. k \in 0..(Buckets - 1) BY <1>1, BucketRange
  <1>3. PICK buckets : buckets = {i \in k..(Buckets - 1) : Fitting(h, i, n) # {}} OBVIOUS
  <1>4. CASE buckets = {} BY <1>1, <1>3, <1>4 DEF FindFree
  <1>5. CASE buckets # {}
    <2>1. buckets \subseteq 0..(Buckets - 1) /\ buckets \in SUBSET Nat
      BY <1>2, <1>3, SizesAssumption
    <2>2. PICK i : i = Min(buckets) OBVIOUS
    <2>3. i \in buckets BY <1>5, <2>1, <2>2, MinIs
    <2>4. PICK fits : fits = Fitting(h, i, n) OBVIOUS
    <2>5. fits # {} BY <1>3, <2>3, <2>4
    <2>6. PICK s : s = h.free[i] OBVIOUS
    <2>7. i \in 0..(Buckets - 1) BY <2>1, <2>3
    <2>8. s \in Seq(Nat) /\ Range(s) = FreeOf(h, i) BY <2>6, <2>7 DEF Sound, Listed
    <2>9. DOMAIN s \subseteq Nat BY <2>8, LenProperties
    <2>10. fits \in SUBSET Nat BY <2>4, <2>6, <2>9 DEF Fitting
    <2>11. PICK j : j = Min(fits) OBVIOUS
    <2>12. j \in fits BY <2>5, <2>10, <2>11, MinIs
    <2>13. j \in DOMAIN s /\ SizeOf(h, s[j]) >= n BY <2>4, <2>6, <2>12 DEF Fitting
    <2>14. s[j] \in FreeOf(h, i) BY <2>8, <2>13 DEF Range
    <2>15. FindFree(h, n) = s[j] BY <1>1, <1>3, <1>5, <2>2, <2>4, <2>6, <2>11 DEF FindFree
    <2>16. QED BY <2>13, <2>14, <2>15 DEF FreeOf
  <1>6. QED BY <1>4, <1>5

\* From h to g the block b was allocated: it was not in use, and those that were are kept.
Allocated(h, g, b, n) ==
  /\ Sound(g) /\ b \in BlocksOf(g) /\ g.head[b].used /\ SizeOf(g, b) >= n
  /\ ~(b \in BlocksOf(h) /\ h.head[b].used)
  /\ \A x \in BlocksOf(h) : h.head[x].used => Keeps(h, g, x)
  /\ \A x \in BlocksOf(h) : h.head[x].used /\ Alone(h, x) => Alone(g, x)

LEMMA MallocSound ==
  ASSUME NEW h, Sound(h), NEW n \in Sizes, NEW maps, NEW m, m = Malloc(h, n, maps)
  PROVE  \/ m.block = NULL /\ m.heap = h
         \/ m.block # NULL /\ n >= 1 /\ Allocated(h, m.heap, m.block, n)
  <1>0. IsHeap(h) /\ Typed(h) /\ Tiles(h) /\ Apart(h) BY DEF Sound
  <1>1. n \in Nat BY SizesAssumption
  <1>2. PICK found : found = FindFree(h, n) OBVIOUS
  <1>3. PICK base : base = Min(FreeBases(h)) OBVIOUS
  <1>4. m = CASE n # 0 /\ found # NULL ->
                   [heap |-> Split(TakeFree(h, found), found, n), block |-> found]
              [] n # 0 /\ found = NULL /\ maps /\ FreeBases(h) # {} ->
                   [heap |-> Split(Map(h, n, base), base, n), block |-> base]
              [] OTHER -> [heap |-> h, block |-> NULL]
    BY <1>2, <1>3 DEF Malloc
  <1>5. CASE n # 0 /\ found # NULL
    <2>1. found \in FreeBlocks(h) /\ SizeOf(h, found) >= n BY <1>1, <1>2, <1>5, FindIs
    <2>2. found \in BlocksOf(h) /\ ~h.head[found].used BY <2>1 DEF FreeBlocks
    <2>3. PICK f : f = TakeFree(h, found) OBVIOUS
    <2>4. PICK g : g = Split(f, found, n) OBVIOUS
    <2>5. m.heap = g /\ m.block = found
      <3>1. m = [heap |-> g, block |-> found] BY <1>4, <1>5, <2>3, <2>4
      <3>2. QED BY <3>1
    <2>6. /\ Sound(f) /\ found \in BlocksOf(f) /\ f.head[found].used
          /\ SizeOf(f, found) = SizeOf(h, found) /\ ~IsFree(f, NextOf(f, found))
          /\ \A x \in BlocksOf(h) \ {found} : Keeps(h, f, x)
          /\ \A x \in BlocksOf(h) \ {found} : Alone(h, x) => x # NextOf(f, found) /\ Alone(f, x)
      BY <2>1, <2>3, TakeSound
    <2>7. n >= 1 /\ n <= SizeOf(f, found)
      <3>1. SizeOf(h, found) \in Nat BY <1>0, <2>2, Neighbours
      <3>2. QED BY <1>1, <1>5, <2>1, <2>6, <3>1
    <2>8. /\ Sound(g) /\ found \in BlocksOf(g) /\ g.head[found].used /\ n <= SizeOf(g, found)
          /\ \A x \in BlocksOf(f) \ {found} : Keeps(f, g, x)
          /\ \A x \in BlocksOf(f) \ {found} : x # NextOf(f, found) /\ Alone(f, x) => Alone(g, x)
      BY <1>1, <2>4, <2>6, <2>7, SplitSound
    <2>9. ASSUME NEW x \in BlocksOf(h), h.head[x].used
          PROVE  Keeps(h, g, x) /\ (Alone(h, x) => Alone(g, x))
      <3>1. x \in BlocksOf(h) \ {found} BY <2>2, <2>9
      <3>2. Keeps(h, f, x) BY <2>6, <3>1
      <3>3. x \in BlocksOf(f) \ {found} BY <3>1, <3>2 DEF Keeps
      <3>4. Keeps(f, g, x) BY <2>8, <3>3
      <3>5. Keeps(h, g, x) BY <3>2, <3>4, KeepsTwice
      <3>6. QED BY <2>6, <2>8, <3>1, <3>3, <3>5
    <2>10. SizeOf(g, found) >= n
      <3>1. SizeOf(g, found) \in Nat BY <2>8, Neighbours DEF Sound
      <3>2. QED BY <1>1, <2>8, <3>1
    <2>11. Allocated(h, g, found, n) BY <2>2, <2>8, <2>9, <2>10 DEF Allocated
    <2>12. QED BY <1>5, <2>5, <2>7, <2>11
  <1>6. CASE n # 0 /\ found = NULL /\ maps /\ FreeBases(h) # {}
    <2>1. base \in FreeBases(h)
      <3>1. FreeBases(h) \in SUBSET Nat BY BasesAssumption DEF FreeBases
      <3>2. QED BY <1>3, <1>6, <3>1, MinIs
    <2>2. PICK f : f = Map(h, n, base) OBVIOUS
    <2>3. PICK g : g = Split(f, base, n) OBVIOUS
    <2>4. m.heap = g /\ m.block = base
      <3>1. m = [heap |-> g, block |-> base] BY <1>4, <1>6, <2>2, <2>3
      <3>2. QED BY <3>1
    <2>5. /\ Sound(f) /\ base \in BlocksOf(f) /\ base \notin BlocksOf(h)
          /\ f.head[base].used /\ n <= SizeOf(f, base) /\ NextOf(f, base) = NULL
          /\ \A x \in BlocksOf(h) : Keeps(h, f, x)
          /\ \A x \in BlocksOf(h) : Alone(h, x) => Alone(f, x)
      BY <2>1, <2>2, MapSound
    <2>6. ~IsFree(f, NextOf(f, base)) BY <2>5 DEF IsFree
    <2>7. n >= 1 BY <1>1, <1>6
    <2>8. /\ Sound(g) /\ base \in BlocksOf(g) /\ g.head[base].used /\ n <= SizeOf(g, base)
          /\ \A x \in BlocksOf(f) \ {base} : Keeps(f, g, x)
          /\ \A x \in BlocksOf(f) \ {base} : x # NextOf(f, base) /\ Alone(f, x) => Alone(g, x)
      BY <1>1, <2>3, <2>5, <2>6, <2>7, SplitSound
    <2>9. base # NULL /\ base \in Nat BY <2>1, BasesAssumption, ValuesAssumption DEF FreeBases
    <2>10. ASSUME NEW x \in BlocksOf(h)
           PROVE  Keeps(h, g, x) /\ (Alone(h, x) => Alone(g, x))
      <3>1. Keeps(h, f, x) /\ x # base BY <2>5
      <3>2. x \in BlocksOf(f) \ {base} BY <3>1 DEF Keeps
      <3>3. Keeps(f, g, x) BY <2>8, <3>2
      <3>4. Keeps(h, g, x) BY <3>1, <3>3, KeepsTwice
      <3>5. x # NULL
        <4>1. x \in Nat BY <1>0, Neighbours
        <4>2. QED BY <4>1, ValuesAssumption
      <3>6. QED BY <2>5, <2>8, <3>2, <3>4, <3>5
    <2>11. SizeOf(g, base) >= n
      <3>1. SizeOf(g, base) \in Nat BY <2>8, Neighbours DEF Sound
      <3>2. QED BY <1>1, <2>8, <3>1
    <2>12. Allocated(h, g, base, n) BY <2>5, <2>8, <2>10, <2>11 DEF Allocated
    <2>13. QED BY <2>4, <2>7, <2>9, <2>12
  <1>7. CASE ~(n # 0 /\ found # NULL) /\ ~(n # 0 /\ found = NULL /\ maps /\ FreeBases(h) # {})
    <2>1. m = [heap |-> h, block |-> NULL] BY <1>4, <1>7
    <2>2. QED BY <2>1
  <1>8. QED BY <1>5, <1>6, <1>7

\* heap_malloc.
LEMMA TakeBlockSound ==
  ASSUME NEW h, Sound(h), NEW n \in Sizes, NEW maps, NEW t, t = TakeBlock(h, n, maps)
  PROVE  \/ t.block = NULL /\ t.heap = h
         \/ /\ t.block # NULL /\ n >= 1 /\ Allocated(h, t.heap, t.block, n)
            /\ ~t.heap.head[t.block].zeroed
  <1>1. PICK m : m = Malloc(h, n, maps) OBVIOUS
  <1>2. PICK f : f = m.heap OBVIOUS
  <1>3. PICK b : b = m.block OBVIOUS
  <1>4. PICK g : g = ClearZeroed(f, b) OBVIOUS
  <1>5. t.heap = g /\ t.block = b
    <2>1. t = [heap |-> g, block |-> b] BY <1>1, <1>2, <1>3, <1>4 DEF TakeBlock
    <2>2. QED BY <2>1
  <1>6. (b = NULL /\ f = h) \/ (b # NULL /\ n >= 1 /\ Allocated(h, f, b, n))
    BY <1>1, <1>2, <1>3, MallocSound
  <1>7. CASE b = NULL /\ f = h
    <2>1. g = h BY <1>4, <1>7 DEF ClearZeroed
    <2>2. QED BY <1>5, <1>7, <2>1
  <1>8. CASE b # NULL /\ n >= 1 /\ Allocated(h, f, b, n)
    <2>1. /\ Sound(f) /\ b \in BlocksOf(f) /\ f.head[b].used /\ SizeOf(f, b) >= n
          /\ ~(b \in BlocksOf(h) /\ h.head[b].used)
          /\ \A x \in BlocksOf(h) : h.head[x].used => Keeps(h, f, x)
          /\ \A x \in BlocksOf(h) : h.head[x].used /\ Alone(h, x) => Alone(f, x)
      BY <1>8 DEF Allocated
    <2>2. /\ Sound(g) /\ BlocksOf(g) = BlocksOf(f)
          /\ ~g.head[b].zeroed /\ g.head[b].used = f.head[b].used /\ SizeOf(g, b) = SizeOf(f, b)
          /\ \A x \in BlocksOf(f) \ {b} : Keeps(f, g, x)
          /\ \A x \in BlocksOf(f) : Alone(f, x) => Alone(g, x)
      <3>1. Sound(f) /\ b \in BlocksOf(f) BY <2>1
      <3>2. QED BY <1>4, <3>1, ClearSound
    <2>3. ASSUME NEW x \in BlocksOf(h), h.head[x].used
          PROVE  Keeps(h, g, x) /\ (Alone(h, x) => Alone(g, x))
      <3>1. Keeps(h, f, x) /\ x # b BY <2>1, <2>3
      <3>2. x \in BlocksOf(f) \ {b} BY <3>1 DEF Keeps
      <3>3. Keeps(f, g, x) BY <2>2, <3>2
      <3>4. Keeps(h, g, x) BY <3>1, <3>3, KeepsTwice
      <3>5. QED BY <2>1, <2>2, <2>3, <3>2, <3>4
    <2>4. Allocated(h, g, b, n) BY <2>1, <2>2, <2>3 DEF Allocated
    <2>5. QED BY <1>5, <1>8, <2>2, <2>4
  <1>9. QED BY <1>6, <1>7, <1>8

\* The memory of heap_calloc is zero.
LEMMA ClearedSound ==
  ASSUME NEW h, Sound(h), NEW b \in BlocksOf(h), NEW n \in Nat, n <= SizeOf(h, b),
         h.head[b].used, NEW g, g = Cleared(h, b)
  PROVE  /\ Sound(g) /\ BlocksOf(g) = BlocksOf(h) /\ SizeOf(g, b) = SizeOf(h, b)
         /\ g.head[b].used /\ ~g.head[b].zeroed
         /\ \A i \in Units(b, n) : g.data[i] = Zero
         /\ \A x \in BlocksOf(h) \ {b} : Keeps(h, g, x)
  <1>0. IsHeap(h) /\ Typed(h) /\ Tiles(h) /\ Marked(h) BY DEF Sound
  <1>1. b \in Nat /\ SizeOf(h, b) \in Nat /\ SizeOf(h, b) >= 1 BY <1>0, Neighbours
  <1>2. PICK f : f = ClearZeroed(h, b) OBVIOUS
  <1>3. PICK k : k = IF h.head[b].zeroed THEN 1 ELSE SizeOf(h, b) OBVIOUS
  <1>4. g = Filled(f, Units(b, k), Zero) BY <1>2, <1>3 DEF Cleared
  <1>5. /\ Sound(f) /\ BlocksOf(f) = BlocksOf(h) /\ f.data = h.data
        /\ ~f.head[b].zeroed /\ f.head[b].used = h.head[b].used /\ SizeOf(f, b) = SizeOf(h, b)
        /\ \A x \in BlocksOf(h) \ {b} : Keeps(h, f, x)
    BY <1>2, ClearSound
  <1>6. k \in Nat /\ k <= SizeOf(f, b) BY <1>1, <1>3, <1>5
  <1>7. Zero \in Content BY DEF Content
  <1>8. /\ Sound(g) /\ g.head = f.head /\ BlocksOf(g) = BlocksOf(f)
        /\ \A i \in Units(b, k) : g.data[i] = Zero
        /\ \A x \in BlocksOf(f) \ {b} : Keeps(f, g, x)
    BY <1>4, <1>5, <1>6, <1>7, FillSound
  <1>9. SizeOf(g, b) = SizeOf(h, b) /\ g.head[b].used /\ ~g.head[b].zeroed
    BY <1>5, <1>8 DEF SizeOf
  <1>10. ASSUME NEW x \in BlocksOf(h) \ {b} PROVE Keeps(h, g, x)
    <2>1. Keeps(h, f, x) /\ Keeps(f, g, x) BY <1>5, <1>8
    <2>2. QED BY <2>1, KeepsTwice
  <1>11. ASSUME NEW i \in Units(b, n) PROVE g.data[i] = Zero
    <2>1. CASE i \in Units(b, k) BY <1>8, <2>1
    <2>2. CASE i \notin Units(b, k)
      <3>1. h.head[b].zeroed /\ i \in (b + 2)..(b + SizeOf(h, b)) BY <1>1, <1>3, <2>2 DEF Units
      <3>2. h.data[i] = Zero BY <1>0, <3>1 DEF Marked
      <3>3. i \in DOMAIN h.data
        <4>1. i \in b..(b + SizeOf(h, b)) BY <1>1, <3>1
        <4>2. QED BY <1>0, <4>1, Neighbours
      <3>4. IsHeap(f) BY <1>5 DEF Sound
      <3>5. PICK units : units = Units(b, k) OBVIOUS
      <3>6. g = Filled(f, units, Zero) BY <1>4, <3>5
      <3>7. /\ DOMAIN g.data = DOMAIN f.data \cup units
            /\ \A j \in DOMAIN g.data : g.data[j] = IF j \in units THEN Zero ELSE f.data[j]
        BY <3>4, <3>6, FilledForm
      <3>8. QED BY <1>5, <2>2, <3>2, <3>3, <3>5, <3>7
    <2>3. QED BY <2>1, <2>2
  <1>12. QED BY <1>5, <1>8, <1>9, <1>10, <1>11
-----------------------------------------------------------------------------
(* The client.                                                              *)

LEMMA OwnsKept ==
  ASSUME NEW h, Sound(h), NEW g, NEW x, NEW n \in Nat, NEW q, Owns(h, x, n, q), Keeps(h, g, x)
  PROVE  Owns(g, x, n, q)
  <1>1. x \in Nat /\ SizeOf(h, x) \in Nat BY Neighbours DEF Owns, Sound
  <1>2. Units(x, n) \subseteq Units(x, SizeOf(h, x)) BY <1>1 DEF Owns, Units
  <1>3. QED BY <1>2 DEF Owns, Keeps

\* What a pointer no longer has is the heap's own; nothing else changes.
LEMMA DisownedSound ==
  ASSUME NEW h, Sound(h), NEW pt, NEW wt, NEW g, g = Disowned(h, pt, wt)
  PROVE  /\ Sound(g) /\ g.head = h.head
         /\ \A q \in Pointers : \A i \in Units(pt[q], wt[q]) :
              i \in DOMAIN h.data /\ pt[q] # NULL /\ h.data[i] = q => g.data[i] = q
  <1>0. IsHeap(h) /\ Typed(h) /\ Tiles(h) /\ Marked(h) BY DEF Sound
  <1> DEFINE Owned(i, p) == pt[p] # NULL /\ i \in Units(pt[p], wt[p])
             data == [i \in DOMAIN h.data |->
                        IF h.data[i] \in Pointers /\ ~Owned(i, h.data[i]) THEN Junk ELSE h.data[i]]
  <1>1. g = [h EXCEPT !.data = data] BY DEF Disowned
  <1>2. /\ IsFunction(data) /\ DOMAIN data = DOMAIN h.data
        /\ \A i \in DOMAIN h.data :
             /\ h.data[i] \notin Pointers => data[i] = h.data[i]
             /\ Owned(i, h.data[i]) => data[i] = h.data[i]
             /\ data[i] \in {h.data[i], Junk}
    BY DEF IsFunction
  <1> HIDE DEF data
  <1>3. IsHeap(g) /\ g.head = h.head /\ g.free = h.free /\ g.data = data
    BY <1>0, <1>1 DEF IsHeap
  <1>4. BlocksOf(g) = BlocksOf(h) /\ \A x \in BlocksOf(h) : SizeOf(g, x) = SizeOf(h, x)
    BY <1>3 DEF BlocksOf, SizeOf
  <1>5. ASSUME NEW x \in BlocksOf(h), g.head[x].zeroed, NEW i \in (x + 2)..(x + SizeOf(h, x))
        PROVE  g.data[i] = Zero
    <2>1. h.data[i] = Zero BY <1>0, <1>3, <1>5 DEF Marked
    <2>2. x \in Nat /\ SizeOf(h, x) \in Nat BY <1>0, Neighbours
    <2>3. i \in x..(x + SizeOf(h, x)) BY <2>2
    <2>4. i \in DOMAIN h.data BY <1>0, <2>3, Neighbours
    <2>5. Zero \notin Pointers BY ValuesAssumption
    <2>6. QED BY <1>2, <1>3, <2>1, <2>4, <2>5
  <1>6. \A i \in DOMAIN h.data : g.data[i] \in Content
    BY <1>0, <1>2, <1>3 DEF Typed, Content
  <1>7. h.head \in [BlocksOf(h) -> Header] BY <1>0 DEF Typed
  <1>8. Rewritten(h, g) BY <1>2, <1>3, <1>4, <1>5, <1>6, <1>7 DEF Rewritten
  <1>9. Sound(g) BY <1>8, RewrittenSound
  <1>10. QED BY <1>2, <1>3, <1>9

\* A call hands a block of its own to a pointer, or none, and keeps those of the others.
LEMMA ReturnedSound ==
  ASSUME Client(heap, ptr, want), crashed \in BOOLEAN,
         NEW p \in Pointers, NEW n \in Sizes \cup {0}, NEW h, Sound(h), NEW b, NEW expected,
         b = NULL \/ (b \in BlocksOf(h) /\ h.head[b].used /\ ~h.head[b].zeroed /\ SizeOf(h, b) >= n),
         \A q \in Pointers \ {p} : ptr[q] # NULL => Owns(h, ptr[q], want[q], q) /\ ptr[q] # b,
         Returned(p, n, h, b, expected)
  PROVE  IInv' /\ (b = NULL \/ expected => checked') /\ ptr'[p] = b
  <1>0. IsHeap(h) /\ Typed(h) /\ Tiles(h) BY DEF Sound
  <1>1. /\ ptr' = [ptr EXCEPT ![p] = b] /\ want' = [want EXCEPT ![p] = IF b = NULL THEN 0 ELSE n]
        /\ checked' = (b = NULL \/ expected) /\ crashed' = crashed
    BY DEF Returned
  <1>2. PICK f : f = IF b = NULL THEN h ELSE Filled(h, Units(b, n), p) OBVIOUS
  <1>3. PICK g : g = Disowned(f, ptr', want') OBVIOUS
  <1>4. heap' = g BY <1>2, <1>3 DEF Returned
  <1>5. ptr \in [Pointers -> Nat \cup {NULL}] /\ want \in [Pointers -> Sizes \cup {0}]
    BY DEF Client
  <1>6. n \in Nat /\ Sizes \cup {0} \subseteq Nat
    <2>1. Sizes \subseteq Nat /\ 0 \in Nat BY SizesAssumption
    <2>2. Sizes \cup {0} \subseteq Nat BY <2>1, Zenon
    <2>3. QED BY <2>2
  <1>7. b = NULL \/ b \in Nat BY <1>0, Neighbours
  <1>8. /\ ptr' \in [Pointers -> Nat \cup {NULL}] /\ want' \in [Pointers -> Sizes \cup {0}]
        /\ ptr'[p] = b /\ (b # NULL => want'[p] = n)
        /\ \A q \in Pointers \ {p} : ptr'[q] = ptr[q] /\ want'[q] = want[q]
    BY <1>1, <1>5, <1>7
  <1>9. /\ Sound(f)
        /\ b # NULL => Owns(f, b, n, p)
        /\ \A x \in BlocksOf(h) : x # b => Keeps(h, f, x)
    <2>1. CASE b = NULL
      <3>1. f = h BY <1>2, <2>1
      <3>2. QED BY <2>1, <3>1 DEF Keeps
    <2>2. CASE b # NULL
      <3>1. b \in BlocksOf(h) /\ h.head[b].used /\ ~h.head[b].zeroed /\ SizeOf(h, b) >= n
        BY <2>2
      <3>2. SizeOf(h, b) \in Nat BY <1>0, <3>1, Neighbours
      <3>3. n <= SizeOf(h, b) BY <1>6, <3>1, <3>2
      <3>4. f = Filled(h, Units(b, n), p) /\ p \in Content BY <1>2, <2>2 DEF Content
      <3>5. /\ Sound(f) /\ f.head = h.head /\ BlocksOf(f) = BlocksOf(h)
            /\ \A i \in Units(b, n) : f.data[i] = p
            /\ \A x \in BlocksOf(h) \ {b} : Keeps(h, f, x)
        BY <1>6, <3>1, <3>3, <3>4, FillSound
      <3>6. Owns(f, b, n, p) BY <3>1, <3>5 DEF Owns, SizeOf
      <3>7. QED BY <3>5, <3>6
    <2>3. QED BY <2>1, <2>2
  <1>10. ASSUME NEW q \in Pointers, ptr'[q] # NULL
         PROVE  Owns(f, ptr'[q], want'[q], q)
    <2>1. CASE q = p BY <1>8, <1>9, <1>10, <2>1
    <2>2. CASE q # p
      <3>1. ptr'[q] = ptr[q] /\ want'[q] = want[q] /\ ptr[q] # NULL BY <1>8, <1>10, <2>2
      <3>2. Owns(h, ptr[q], want[q], q) /\ ptr[q] # b BY <2>2, <3>1
      <3>3. ptr[q] \in BlocksOf(h) BY <3>2 DEF Owns
      <3>4. Keeps(h, f, ptr[q]) BY <1>9, <3>2, <3>3
      <3>5. want[q] \in Nat BY <1>5, <1>6
      <3>6. Owns(f, ptr[q], want[q], q) BY <3>2, <3>4, <3>5, OwnsKept
      <3>7. QED BY <3>1, <3>6
    <2>3. QED BY <2>1, <2>2
  <1>11. /\ Sound(g) /\ g.head = f.head
         /\ \A q \in Pointers : \A i \in Units(ptr'[q], want'[q]) :
              i \in DOMAIN f.data /\ ptr'[q] # NULL /\ f.data[i] = q => g.data[i] = q
    BY <1>3, <1>9, DisownedSound
  <1>12. ASSUME NEW q \in Pointers, ptr'[q] # NULL
         PROVE  Owns(g, ptr'[q], want'[q], q)
    <2>1. PICK x : x = ptr'[q] OBVIOUS
    <2>2. PICK k : k = want'[q] OBVIOUS
    <2>3. Owns(f, x, k, q) /\ k \in Nat BY <1>6, <1>8, <1>10, <1>12, <2>1, <2>2
    <2>4. Typed(f) /\ Tiles(f) BY <1>9 DEF Sound
    <2>5. x \in BlocksOf(f) /\ SizeOf(f, x) >= k BY <2>3 DEF Owns
    <2>6. x \in Nat /\ SizeOf(f, x) \in Nat BY <2>4, <2>5, Neighbours
    <2>7. Units(x, k) \subseteq Units(x, SizeOf(f, x)) BY <2>3, <2>5, <2>6 DEF Units
    <2>8. Units(x, k) \subseteq DOMAIN f.data BY <2>4, <2>5, <2>7 DEF Tiles, BlocksOf
    <2>9. \A i \in Units(x, k) : g.data[i] = q
      BY <1>11, <1>12, <2>1, <2>2, <2>3, <2>8 DEF Owns
    <2>10. Owns(g, x, k, q) BY <1>11, <2>3, <2>9 DEF Owns, BlocksOf, SizeOf
    <2>11. QED BY <2>1, <2>2, <2>10
  <1>13. ASSUME NEW q \in Pointers, NEW r \in Pointers, q # r, ptr'[q] # NULL
         PROVE  ptr'[q] # ptr'[r]
    <2>1. \A s \in Pointers \ {p} : ptr'[s] = ptr[s] /\ (ptr[s] # NULL => ptr[s] # b) BY <1>8
    <2>2. CASE q = p BY <1>8, <1>13, <2>1, <2>2
    <2>3. CASE r = p BY <1>8, <1>13, <2>1, <2>3
    <2>4. CASE q # p /\ r # p BY <1>13, <2>1, <2>4 DEF Client
    <2>5. QED BY <2>2, <2>3, <2>4
  <1>14. Client(g, ptr', want') BY <1>8, <1>12, <1>13 DEF Client
  <1>15. IInv' BY <1>1, <1>4, <1>11, <1>14 DEF IInv
  <1>16. QED BY <1>1, <1>8, <1>15
-----------------------------------------------------------------------------
(* The calls.                                                               *)

\* What a step establishes: the invariant, and that only moving a block whose
\* predecessor is free can lose what it held.
Good(p) == IInv' /\ (checked' \/ Moves(p))

LEMMA Others ==
  ASSUME Client(heap, ptr, want), NEW p \in Pointers, NEW q \in Pointers \ {p}, ptr[q] # NULL
  PROVE  /\ Owns(heap, ptr[q], want[q], q) /\ want[q] \in Nat /\ ptr[q] # ptr[p]
         /\ ptr[q] \in BlocksOf(heap) /\ heap.head[ptr[q]].used
  <1>1. want[q] \in Nat
    <2>1. Sizes \subseteq Nat BY SizesAssumption
    <2>2. want[q] \in Sizes \cup {0} BY DEF Client
    <2>3. QED BY <2>1, <2>2
  <1>2. Owns(heap, ptr[q], want[q], q) BY DEF Client
  <1>3. QED BY <1>1, <1>2 DEF Client, Owns

LEMMA MallocGood ==
  ASSUME IInv, NEW p \in Pointers, NEW n \in Sizes, NEW maps, HeapMalloc(p, n, maps)
  PROVE  Good(p)
  <1>0. Sound(heap) /\ Client(heap, ptr, want) /\ crashed \in BOOLEAN BY DEF IInv
  <1>1. PICK t : t = TakeBlock(heap, n, maps) OBVIOUS
  <1>2. ptr[p] = NULL /\ Returned(p, n, t.heap, t.block, TRUE) BY <1>1 DEF HeapMalloc
  <1>3. \/ t.block = NULL /\ t.heap = heap
        \/ /\ t.block # NULL /\ n >= 1 /\ Allocated(heap, t.heap, t.block, n)
           /\ ~t.heap.head[t.block].zeroed
    BY <1>0, <1>1, TakeBlockSound
  <1>4. Sound(t.heap) BY <1>0, <1>3 DEF Allocated
  <1>5. \/ t.block = NULL
        \/ /\ t.block \in BlocksOf(t.heap) /\ t.heap.head[t.block].used
           /\ ~t.heap.head[t.block].zeroed /\ SizeOf(t.heap, t.block) >= n
    BY <1>3 DEF Allocated
  <1>6. ASSUME NEW q \in Pointers \ {p}, ptr[q] # NULL
        PROVE  Owns(t.heap, ptr[q], want[q], q) /\ ptr[q] # t.block
    <2>1. /\ Owns(heap, ptr[q], want[q], q) /\ want[q] \in Nat
          /\ ptr[q] \in BlocksOf(heap) /\ heap.head[ptr[q]].used
      BY <1>0, <1>6, Others
    <2>2. CASE t.block = NULL BY <1>3, <1>6, <2>1, <2>2
    <2>3. CASE t.block # NULL
      <3>1. Keeps(heap, t.heap, ptr[q]) /\ ptr[q] # t.block BY <1>3, <2>1, <2>3 DEF Allocated
      <3>2. QED BY <1>0, <2>1, <3>1, OwnsKept
    <2>4. QED BY <2>2, <2>3
  <1>7. n \in Sizes \cup {0} OBVIOUS
  <1>8. IInv' /\ checked' BY <1>0, <1>2, <1>4, <1>5, <1>6, <1>7, ReturnedSound
  <1>9. QED BY <1>8 DEF Good

LEMMA CallocGood ==
  ASSUME IInv, NEW p \in Pointers, NEW n \in Sizes, NEW maps, HeapCalloc(p, n, maps)
  PROVE  Good(p)
  <1>0. Sound(heap) /\ Client(heap, ptr, want) /\ crashed \in BOOLEAN BY DEF IInv
  <1>1. PICK m : m = Malloc(heap, n, maps) OBVIOUS
  <1>2. PICK b : b = m.block OBVIOUS
  <1>3. PICK f : f = m.heap OBVIOUS
  <1>4. PICK h : h = IF b = NULL THEN f ELSE Cleared(f, b) OBVIOUS
  <1>5. PICK expected : expected = \A i \in Units(b, n) : h.data[i] = Zero OBVIOUS
  <1>6. ptr[p] = NULL /\ Returned(p, n, h, b, expected)
    BY <1>1, <1>2, <1>3, <1>4, <1>5 DEF HeapCalloc
  <1>7. (b = NULL /\ f = heap) \/ (b # NULL /\ n >= 1 /\ Allocated(heap, f, b, n))
    BY <1>0, <1>1, <1>2, <1>3, MallocSound
  <1>8. n \in Nat BY SizesAssumption
  <1>9. /\ Sound(h)
        /\ \/ b = NULL /\ h = heap
           \/ /\ b # NULL /\ expected
              /\ b \in BlocksOf(h) /\ h.head[b].used /\ ~h.head[b].zeroed /\ SizeOf(h, b) >= n
              /\ \A x \in BlocksOf(heap) : heap.head[x].used => Keeps(heap, h, x) /\ x # b
    <2>1. CASE b = NULL /\ f = heap BY <1>0, <1>4, <2>1
    <2>2. CASE b # NULL /\ n >= 1 /\ Allocated(heap, f, b, n)
      <3>1. /\ Sound(f) /\ b \in BlocksOf(f) /\ f.head[b].used /\ SizeOf(f, b) >= n
            /\ ~(b \in BlocksOf(heap) /\ heap.head[b].used)
            /\ \A x \in BlocksOf(heap) : heap.head[x].used => Keeps(heap, f, x)
        BY <2>2 DEF Allocated
      <3>2. SizeOf(f, b) \in Nat BY <3>1, Neighbours DEF Sound
      <3>3. n <= SizeOf(f, b) /\ h = Cleared(f, b) BY <1>4, <1>8, <2>2, <3>1, <3>2
      <3>4. /\ Sound(h) /\ BlocksOf(h) = BlocksOf(f) /\ SizeOf(h, b) = SizeOf(f, b)
            /\ h.head[b].used /\ ~h.head[b].zeroed
            /\ \A i \in Units(b, n) : h.data[i] = Zero
            /\ \A x \in BlocksOf(f) \ {b} : Keeps(f, h, x)
        BY <1>8, <3>1, <3>3, ClearedSound
      <3>5. ASSUME NEW x \in BlocksOf(heap), heap.head[x].used PROVE Keeps(heap, h, x) /\ x # b
        <4>1. Keeps(heap, f, x) /\ x # b BY <3>1, <3>5
        <4>2. x \in BlocksOf(f) \ {b} BY <4>1 DEF Keeps
        <4>3. Keeps(f, h, x) BY <3>4, <4>2
        <4>4. QED BY <4>1, <4>3, KeepsTwice
      <3>6. QED BY <1>5, <2>2, <3>1, <3>4, <3>5
    <2>3. QED BY <1>7, <2>1, <2>2
  <1>10. ASSUME NEW q \in Pointers \ {p}, ptr[q] # NULL
         PROVE  Owns(h, ptr[q], want[q], q) /\ ptr[q] # b
    <2>1. /\ Owns(heap, ptr[q], want[q], q) /\ want[q] \in Nat
          /\ ptr[q] \in BlocksOf(heap) /\ heap.head[ptr[q]].used
      BY <1>0, <1>10, Others
    <2>2. CASE b = NULL BY <1>9, <1>10, <2>1, <2>2
    <2>3. CASE b # NULL
      <3>1. Keeps(heap, h, ptr[q]) /\ ptr[q] # b BY <1>9, <2>1, <2>3
      <3>2. QED BY <1>0, <2>1, <3>1, OwnsKept
    <2>4. QED BY <2>2, <2>3
  <1>11. n \in Sizes \cup {0} OBVIOUS
  <1>12. IInv' /\ (b = NULL \/ expected => checked')
    BY <1>0, <1>6, <1>9, <1>10, <1>11, ReturnedSound
  <1>13. QED BY <1>9, <1>12 DEF Good

LEMMA FreeGood ==
  ASSUME IInv, NEW p \in Pointers, NEW unmaps, HeapFree(p, unmaps)
  PROVE  Good(p)
  <1>0. Sound(heap) /\ Client(heap, ptr, want) /\ crashed \in BOOLEAN BY DEF IInv
  <1>1. PICK b : b = ptr[p] OBVIOUS
  <1>2. PICK m : m = Merge(heap, b, TRUE) OBVIOUS
  <1>3. PICK f : f = m.heap OBVIOUS
  <1>4. PICK c : c = m.block OBVIOUS
  <1>5. PICK g : g = FreeBlock(f, c, unmaps) OBVIOUS
  <1>6. b # NULL /\ Returned(p, 0, g, NULL, TRUE)
    BY <1>1, <1>2, <1>3, <1>4, <1>5 DEF HeapFree
  <1>7. b \in BlocksOf(heap) /\ heap.head[b].used /\ ~heap.head[b].zeroed
    BY <1>0, <1>1, <1>6 DEF Client, Owns
  <1>8. Grown(heap, f, b, c) /\ Alone(f, c) BY <1>0, <1>2, <1>3, <1>4, <1>7, MergeSound
  <1>9. Sound(f) /\ c \in BlocksOf(f) /\ f.head[c].used BY <1>8 DEF Grown
  <1>10. Sound(g) /\ \A x \in BlocksOf(f) \ {c} : Keeps(f, g, x)
    BY <1>5, <1>8, <1>9, FreeSound
  <1>11. ASSUME NEW q \in Pointers \ {p}, ptr[q] # NULL
         PROVE  Owns(g, ptr[q], want[q], q)
    <2>1. PICK x : x = ptr[q] OBVIOUS
    <2>2. /\ Owns(heap, x, want[q], q) /\ want[q] \in Nat /\ x # b
          /\ x \in BlocksOf(heap) /\ heap.head[x].used
      BY <1>0, <1>1, <1>11, <2>1, Others
    <2>3. Keeps(heap, f, x) BY <1>8, <2>2 DEF Grown
    <2>4. x # c BY <1>8, <2>2 DEF Grown, IsFree
    <2>5. Keeps(f, g, x) BY <1>10, <2>3, <2>4 DEF Keeps
    <2>6. Keeps(heap, g, x) BY <2>3, <2>5, KeepsTwice
    <2>7. QED BY <1>0, <2>1, <2>2, <2>6, OwnsKept
  <1>12. IInv' /\ checked'
    <2>1. PICK none : none = NULL OBVIOUS
    <2>2. PICK zero : zero = 0 OBVIOUS
    <2>3. Returned(p, zero, g, none, TRUE) /\ zero \in Sizes \cup {0} BY <1>6, <2>1, <2>2
    <2>4. none = NULL \/ (none \in BlocksOf(g) /\ g.head[none].used
                          /\ ~g.head[none].zeroed /\ SizeOf(g, none) >= zero)
      BY <2>1
    <2>5. \A q \in Pointers \ {p} : ptr[q] # NULL => Owns(g, ptr[q], want[q], q) /\ ptr[q] # none
      BY <1>11, <2>1
    <2>6. QED BY <1>0, <1>10, <2>3, <2>4, <2>5, ReturnedSound
  <1>13. QED BY <1>12 DEF Good

\* The memory that heap_realloc copies: as much of the old block as fits.
LEMMA CopyBounds ==
  ASSUME IInv, NEW p \in Pointers, ptr[p] # NULL, NEW n \in Sizes,
         NEW k, k = Min({n, SizeOf(heap, ptr[p])}), NEW j, j = Min({want[p], n})
  PROVE  /\ k \in Nat /\ j \in Nat /\ j <= k /\ k <= n /\ k <= SizeOf(heap, ptr[p])
         /\ ptr[p] \in Nat /\ SizeOf(heap, ptr[p]) \in Nat
         /\ Units(ptr[p], k) \subseteq DOMAIN heap.data
         /\ \A i \in Units(ptr[p], j) : heap.data[i] = p
  <1>1. PICK b : b = ptr[p] OBVIOUS
  <1>2. PICK w : w = want[p] OBVIOUS
  <1>3. PICK size : size = SizeOf(heap, b) OBVIOUS
  <1>4. Owns(heap, b, w, p) BY <1>1, <1>2 DEF IInv, Client
  <1>5. Typed(heap) /\ Tiles(heap) BY DEF IInv, Sound
  <1>6. b \in Nat /\ size \in Nat BY <1>3, <1>4, <1>5, Neighbours DEF Owns
  <1>7. n \in Nat /\ w \in Nat
    <2>1. Sizes \subseteq Nat BY SizesAssumption
    <2>2. w \in Sizes \cup {0} BY <1>2 DEF IInv, Client
    <2>3. QED BY <2>1, <2>2
  <1>8. size >= w /\ \A i \in Units(b, w) : heap.data[i] = p BY <1>3, <1>4 DEF Owns
  <1>9. k = (IF n <= size THEN n ELSE size) /\ j = (IF w <= n THEN w ELSE n)
    <2>1. n \in Int /\ size \in Int /\ w \in Int BY <1>6, <1>7
    <2>2. QED BY <1>1, <1>2, <1>3, <2>1, MinTwo
  <1>10. k \in Nat /\ j \in Nat /\ j <= k /\ k <= n /\ k <= size /\ j <= w
    BY <1>6, <1>7, <1>8, <1>9
  <1>11. Units(b, k) \subseteq Units(b, size) /\ Units(b, j) \subseteq Units(b, w)
    BY <1>6, <1>7, <1>10 DEF Units
  <1>12. Units(b, size) \subseteq DOMAIN heap.data
    BY <1>3, <1>4, <1>5 DEF Tiles, BlocksOf, Owns
  <1>13. QED BY <1>1, <1>3, <1>6, <1>8, <1>10, <1>11, <1>12

LEMMA InPlaceGood ==
  ASSUME IInv, NEW p \in Pointers, NEW n \in Sizes, ReallocInPlace(p, n)
  PROVE  Good(p)
  <1>0. Sound(heap) /\ Client(heap, ptr, want) /\ crashed \in BOOLEAN BY DEF IInv
  <1>1. PICK b : b = ptr[p] OBVIOUS
  <1>2. PICK m : m = Merged(b, n) OBVIOUS
  <1>3. PICK f : f = m.heap OBVIOUS
  <1>4. PICK c : c = m.block OBVIOUS
  <1>5. PICK k : k = Min({n, SizeOf(heap, b)}) OBVIOUS
  <1>6. PICK j : j = Min({want[p], n}) OBVIOUS
  <1>7. PICK h : h = IF c = b THEN f ELSE Copied(f, b, c, k) OBVIOUS
  <1>8. PICK g : g = Split(h, c, n) OBVIOUS
  <1>9. PICK expected : expected = Kept(p, h, c, n) OBVIOUS
  <1>10. b # NULL /\ n # 0 /\ SizeOf(f, c) >= n /\ Returned(p, n, g, c, expected)
    BY <1>1, <1>2, <1>3, <1>4, <1>5, <1>7, <1>8, <1>9 DEF ReallocInPlace
  <1>11. n \in Nat BY SizesAssumption
  <1>12. b \in BlocksOf(heap) /\ heap.head[b].used /\ ~heap.head[b].zeroed
    BY <1>0, <1>1, <1>10 DEF Client, Owns
  <1>13. Grown(heap, f, b, c) /\ ~IsFree(f, NextOf(f, c))
    BY <1>0, <1>2, <1>3, <1>4, <1>11, <1>12, MergedSound
  <1>14. /\ Sound(f) /\ f.data = heap.data
         /\ c \in BlocksOf(f) /\ f.head[c].used /\ ~f.head[c].zeroed
    BY <1>13 DEF Grown
  <1>15. /\ k \in Nat /\ j \in Nat /\ j <= k /\ k <= n /\ k <= SizeOf(heap, b)
         /\ b \in Nat /\ SizeOf(heap, b) \in Nat
         /\ Units(b, k) \subseteq DOMAIN heap.data
         /\ \A i \in Units(b, j) : heap.data[i] = p
    BY <1>1, <1>5, <1>6, <1>10, CopyBounds
  <1>16. c \in Nat /\ SizeOf(f, c) \in Nat BY <1>14, Neighbours DEF Sound
  <1>17. /\ Sound(h) /\ c \in BlocksOf(h) /\ h.head[c].used /\ ~h.head[c].zeroed
         /\ SizeOf(h, c) = SizeOf(f, c) /\ ~IsFree(h, NextOf(h, c))
         /\ \A x \in BlocksOf(f) \ {c} : Keeps(f, h, x)
         /\ \A i \in Units(c, j) : h.data[i] = p
    <2>1. CASE c = b
      <3>1. h = f BY <1>7, <2>1
      <3>2. \A x \in BlocksOf(f) : Keeps(f, f, x) BY DEF Keeps
      <3>3. QED BY <1>13, <1>14, <1>15, <2>1, <3>1, <3>2
    <2>2. CASE c # b
      <3>1. h = Copied(f, b, c, k) BY <1>7, <2>2
      <3>2. k <= SizeOf(f, c) BY <1>10, <1>11, <1>15, <1>16
      <3>3. Units(b, k) \subseteq DOMAIN f.data BY <1>14, <1>15
      <3>4. /\ Sound(h) /\ h.head = f.head /\ BlocksOf(h) = BlocksOf(f)
            /\ \A i \in Units(c, k) : h.data[i] = f.data[b + (i - c)]
            /\ IsFree(f, NextOf(f, c)) <=> IsFree(h, NextOf(h, c))
            /\ \A x \in BlocksOf(f) \ {c} : Keeps(f, h, x)
        BY <1>14, <1>15, <3>1, <3>2, <3>3, CopySound
      <3>5. ASSUME NEW i \in Units(c, j) PROVE h.data[i] = p
        <4>1. i \in Units(c, k) /\ b + (i - c) \in Units(b, j) BY <1>15, <1>16 DEF Units
        <4>2. QED BY <1>14, <1>15, <3>4, <4>1
      <3>6. SizeOf(h, c) = SizeOf(f, c) BY <3>4 DEF SizeOf
      <3>7. h.head[c].used /\ ~h.head[c].zeroed /\ c \in BlocksOf(h) BY <1>14, <3>4
      <3>8. ~IsFree(h, NextOf(h, c)) BY <1>13, <3>4
      <3>9. QED BY <3>4, <3>5, <3>6, <3>7, <3>8
    <2>3. QED BY <2>1, <2>2
  <1>18. n >= 1 /\ n <= SizeOf(h, c) BY <1>10, <1>11, <1>16, <1>17
  <1>19. /\ Sound(g) /\ c \in BlocksOf(g)
         /\ g.head[c].used /\ g.head[c].zeroed = h.head[c].zeroed /\ n <= SizeOf(g, c)
         /\ \A x \in BlocksOf(h) \ {c} : Keeps(h, g, x)
    BY <1>8, <1>11, <1>17, <1>18, SplitSound
  <1>20. c \in BlocksOf(g) /\ g.head[c].used /\ ~g.head[c].zeroed /\ SizeOf(g, c) >= n
    <2>1. SizeOf(g, c) \in Nat BY <1>19, Neighbours DEF Sound
    <2>2. QED BY <1>11, <1>17, <1>19, <2>1
  <1>21. ASSUME NEW q \in Pointers \ {p}, ptr[q] # NULL
         PROVE  Owns(g, ptr[q], want[q], q) /\ ptr[q] # c
    <2>1. PICK x : x = ptr[q] OBVIOUS
    <2>2. /\ Owns(heap, x, want[q], q) /\ want[q] \in Nat /\ x # b
          /\ x \in BlocksOf(heap) /\ heap.head[x].used
      BY <1>0, <1>1, <1>21, <2>1, Others
    <2>3. Keeps(heap, f, x) BY <1>13, <2>2 DEF Grown
    <2>4. x # c BY <1>13, <2>2 DEF Grown, IsFree
    <2>5. Keeps(f, h, x) BY <1>17, <2>3, <2>4 DEF Keeps
    <2>6. Keeps(h, g, x) BY <1>19, <2>4, <2>5 DEF Keeps
    <2>7. Keeps(heap, g, x) BY <2>3, <2>5, <2>6, KeepsTwice
    <2>8. QED BY <1>0, <2>1, <2>2, <2>4, <2>7, OwnsKept
  <1>22. expected BY <1>6, <1>9, <1>17 DEF Kept
  <1>23. n \in Sizes \cup {0} OBVIOUS
  <1>24. IInv' /\ (c = NULL \/ expected => checked')
    BY <1>0, <1>10, <1>19, <1>20, <1>21, <1>23, ReturnedSound
  <1>25. QED BY <1>22, <1>24 DEF Good

LEMMA ElsewhereGood ==
  ASSUME IInv, NEW p \in Pointers, NEW n \in Sizes, NEW maps, NEW unmaps,
         ReallocElsewhere(p, n, maps, unmaps)
  PROVE  Good(p)
  <1>0. Sound(heap) /\ Client(heap, ptr, want) /\ crashed \in BOOLEAN BY DEF IInv
  <1>1. PICK b : b = ptr[p] OBVIOUS
  <1>2. PICK m : m = Merged(b, n) OBVIOUS
  <1>3. PICK f : f = m.heap OBVIOUS
  <1>4. PICK c : c = m.block OBVIOUS
  <1>5. PICK t : t = TakeBlock(f, n, maps) OBVIOUS
  <1>6. PICK e : e = t.heap OBVIOUS
  <1>7. PICK d : d = t.block OBVIOUS
  <1>8. PICK k : k = Min({n, SizeOf(heap, b)}) OBVIOUS
  <1>9. PICK j : j = Min({want[p], n}) OBVIOUS
  <1>10. PICK h : h = Copied(e, c, d, k) OBVIOUS
  <1>11. PICK g : g = FreeBlock(h, c, unmaps) OBVIOUS
  <1>12. PICK expected : expected = Kept(p, h, d, n) OBVIOUS
  <1>13. /\ b # NULL /\ n # 0 /\ SizeOf(f, c) < n
         /\ \/ d # NULL /\ Returned(p, n, g, d, expected)
            \/ d = NULL /\ crashed' = TRUE /\ checked' = TRUE /\ UNCHANGED <<heap, ptr, want>>
    BY <1>1, <1>2, <1>3, <1>4, <1>5, <1>6, <1>7, <1>8, <1>10, <1>11, <1>12 DEF ReallocElsewhere
  <1>14. CASE d = NULL
    <2>1. crashed' = TRUE /\ checked' = TRUE /\ UNCHANGED <<heap, ptr, want>> BY <1>13, <1>14
    <2>2. QED BY <2>1 DEF Good, IInv
  <1>15. CASE d # NULL
    <2>1. Returned(p, n, g, d, expected) BY <1>13, <1>15
    <2>2. n \in Nat BY SizesAssumption
    <2>3. b \in BlocksOf(heap) /\ heap.head[b].used /\ ~heap.head[b].zeroed
      BY <1>0, <1>1, <1>13 DEF Client, Owns
    <2>4. Grown(heap, f, b, c) /\ Alone(f, c)
      BY <1>0, <1>2, <1>3, <1>4, <1>13, <2>2, <2>3, MergedSound
    <2>5. /\ Sound(f) /\ f.data = heap.data
          /\ c \in BlocksOf(f) /\ f.head[c].used /\ ~f.head[c].zeroed
          /\ SizeOf(f, c) >= SizeOf(heap, b) /\ c + SizeOf(f, c) >= b + SizeOf(heap, b)
          /\ c = b \/ (IsFree(heap, PrevOf(heap, b)) /\ c = PrevOf(heap, b) /\ c < b)
      BY <2>4 DEF Grown
    <2>6. n >= 1 /\ Allocated(f, e, d, n) /\ ~e.head[d].zeroed
      BY <1>5, <1>6, <1>7, <1>15, <2>5, TakeBlockSound
    <2>7. /\ Sound(e) /\ d \in BlocksOf(e) /\ e.head[d].used /\ SizeOf(e, d) >= n
          /\ ~(d \in BlocksOf(f) /\ f.head[d].used)
          /\ \A x \in BlocksOf(f) : f.head[x].used => Keeps(f, e, x)
          /\ \A x \in BlocksOf(f) : f.head[x].used /\ Alone(f, x) => Alone(e, x)
      BY <2>6 DEF Allocated
    <2>8. c # d /\ Keeps(f, e, c) /\ Alone(e, c) BY <2>4, <2>5, <2>7
    <2>9. /\ c \in BlocksOf(e) /\ e.head[c].used /\ SizeOf(e, c) = SizeOf(f, c)
          /\ \A i \in Units(c, SizeOf(f, c)) : e.data[i] = heap.data[i]
      BY <2>5, <2>8 DEF Keeps
    <2>10. /\ k \in Nat /\ j \in Nat /\ j <= k /\ k <= n /\ k <= SizeOf(heap, b)
           /\ b \in Nat /\ SizeOf(heap, b) \in Nat
           /\ Units(b, k) \subseteq DOMAIN heap.data
           /\ \A i \in Units(b, j) : heap.data[i] = p
      <3>1. ptr[p] # NULL BY <1>1, <1>13
      <3>2. k = Min({n, SizeOf(heap, ptr[p])}) BY <1>1, <1>8
      <3> HIDE DEF IInv
      <3>3. /\ k \in Nat /\ j \in Nat /\ j <= k /\ k <= n /\ k <= SizeOf(heap, ptr[p])
            /\ ptr[p] \in Nat /\ SizeOf(heap, ptr[p]) \in Nat
            /\ Units(ptr[p], k) \subseteq DOMAIN heap.data
            /\ \A i \in Units(ptr[p], j) : heap.data[i] = p
        BY <1>9, <3>1, <3>2, CopyBounds
      <3>4. QED BY <1>1, <3>3
    <2>11. c \in Nat /\ SizeOf(f, c) \in Nat BY <2>5, Neighbours DEF Sound
    <2>12. d \in Nat /\ SizeOf(e, d) \in Nat BY <2>7, Neighbours DEF Sound
    <2>13. k <= SizeOf(e, d) BY <2>2, <2>7, <2>10, <2>12
    <2>14. Units(c, SizeOf(e, c)) \subseteq DOMAIN e.data \ BlocksOf(e)
      BY <2>7, <2>9 DEF Sound, Tiles, BlocksOf
    <2>15. Units(c, k) \subseteq Units(c, SizeOf(e, c)) BY <2>5, <2>9, <2>10, <2>11 DEF Units
    <2>16. Units(c, k) \subseteq DOMAIN e.data BY <2>14, <2>15
    <2>17. /\ Sound(h) /\ h.head = e.head /\ BlocksOf(h) = BlocksOf(e)
           /\ \A i \in Units(d, k) : h.data[i] = e.data[c + (i - d)]
           /\ \A x \in BlocksOf(e) \ {d} : Keeps(e, h, x)
           /\ \A x \in BlocksOf(e) : Alone(e, x) => Alone(h, x)
      BY <1>10, <2>6, <2>7, <2>10, <2>11, <2>13, <2>16, CopySound
    <2>18. c \in BlocksOf(h) /\ h.head[c].used /\ Alone(h, c) BY <2>8, <2>9, <2>17
    <2>19. Sound(g) /\ \A x \in BlocksOf(h) \ {c} : Keeps(h, g, x)
      BY <1>11, <2>17, <2>18, FreeSound
    <2>20. d \in BlocksOf(g) /\ g.head[d].used /\ ~g.head[d].zeroed /\ SizeOf(g, d) >= n
      <3>1. Keeps(h, g, d) BY <2>7, <2>8, <2>17, <2>19
      <3>2. SizeOf(h, d) = SizeOf(e, d) BY <2>17 DEF SizeOf
      <3>3. QED BY <2>6, <2>7, <2>17, <3>1, <3>2 DEF Keeps
    <2>21. ASSUME NEW q \in Pointers \ {p}, ptr[q] # NULL
           PROVE  Owns(g, ptr[q], want[q], q) /\ ptr[q] # d
      <3>1. PICK x : x = ptr[q] OBVIOUS
      <3>2. /\ Owns(heap, x, want[q], q) /\ want[q] \in Nat /\ x # b
            /\ x \in BlocksOf(heap) /\ heap.head[x].used
        BY <1>0, <1>1, <2>21, <3>1, Others
      <3>3. Keeps(heap, f, x) BY <2>4, <3>2 DEF Grown
      <3>4. x # c BY <2>5, <3>2 DEF IsFree
      <3>5. x \in BlocksOf(f) /\ f.head[x].used BY <3>2, <3>3 DEF Keeps
      <3>6. Keeps(f, e, x) /\ x # d BY <2>7, <3>5
      <3>7. Keeps(e, h, x) BY <2>17, <3>6 DEF Keeps
      <3>8. Keeps(h, g, x) BY <2>19, <3>4, <3>7 DEF Keeps
      <3>9. Keeps(heap, e, x) BY <3>3, <3>6, KeepsTwice
      <3>10. Keeps(heap, h, x) BY <3>7, <3>9, KeepsTwice
      <3>11. Keeps(heap, g, x) BY <3>8, <3>10, KeepsTwice
      <3>12. QED BY <1>0, <3>1, <3>2, <3>6, <3>11, OwnsKept
    <2>22. n \in Sizes \cup {0} OBVIOUS
    <2>23. IInv' /\ (d = NULL \/ expected => checked') /\ ptr'[p] = d
      BY <1>0, <2>1, <2>19, <2>20, <2>21, <2>22, ReturnedSound
    <2>24. CASE c = b
      <3>1. ASSUME NEW i \in Units(d, j) PROVE h.data[i] = p
        <4>1. i \in Units(d, k) /\ b + (i - d) \in Units(b, j) /\ b + (i - d) \in Units(b, k)
          BY <2>10, <2>12 DEF Units
        <4>2. h.data[i] = e.data[b + (i - d)] BY <2>17, <2>24, <4>1
        <4>3. e.data[b + (i - d)] = heap.data[b + (i - d)]
          BY <2>9, <2>15, <2>24, <4>1
        <4>4. QED BY <2>10, <4>1, <4>2, <4>3
      <3>2. expected BY <1>9, <1>12, <3>1 DEF Kept
      <3>3. QED BY <2>23, <3>2 DEF Good
    <2>25. CASE c # b
      <3>1. IsFree(heap, PrevOf(heap, b)) /\ c = PrevOf(heap, b) /\ c < b BY <2>5, <2>25
      <3>2. b \in Units(c, SizeOf(e, c)) BY <2>5, <2>9, <2>10, <2>11, <3>1 DEF Units
      <3>3. b \notin BlocksOf(e) BY <2>14, <3>2
      <3>4. d \notin {NULL, b, c} BY <1>15, <2>7, <2>8, <3>3
      <3>5. Moves(p) BY <1>1, <1>13, <2>23, <3>1, <3>4 DEF Moves
      <3>6. QED BY <2>23, <3>5 DEF Good
    <2>26. QED BY <2>24, <2>25
  <1>16. QED BY <1>14, <1>15
-----------------------------------------------------------------------------
(* The theorems.                                                            *)

LEMMA Starts == Init => IInv
  <1> SUFFICES ASSUME Init PROVE IInv OBVIOUS
  <1>1. PICK h : h = heap OBVIOUS
  <1>2. /\ h = [head |-> <<>>, data |-> <<>>, free |-> [i \in 0..(Buckets - 1) |-> <<>>]]
        /\ ptr = [p \in Pointers |-> NULL] /\ want = [p \in Pointers |-> 0]
        /\ checked = TRUE /\ crashed = FALSE
    BY <1>1 DEF Init
  <1>3. /\ h.head = <<>> /\ h.data = <<>> /\ h.free = [i \in 0..(Buckets - 1) |-> <<>>]
        /\ IsHeap(h)
    BY <1>2 DEF IsHeap
  <1>4. DOMAIN h.head = {} /\ DOMAIN h.data = {} BY <1>3
  <1>5. \A S : h.head \in [{} -> S] /\ h.data \in [{} -> S] BY <1>3
  <1>6. BlocksOf(h) = {} /\ FreeBlocks(h) = {} BY <1>4 DEF BlocksOf, FreeBlocks
  <1>7. Typed(h)
    <2>1. IsFunction(h.free) /\ DOMAIN h.free = 0..(Buckets - 1) BY <1>3 DEF IsFunction
    <2>2. QED BY <1>4, <1>5, <1>6, <2>1 DEF Typed
  <1>8. Tiles(h) /\ Mapped(h) /\ Apart(h) /\ Marked(h)
    BY <1>4, <1>6 DEF Tiles, Mapped, Apart, Marked
  <1>9. Listed(h)
    <2> SUFFICES ASSUME NEW i \in 0..(Buckets - 1)
                 PROVE  /\ h.free[i] \in Seq(Nat) /\ IsInjective(h.free[i])
                        /\ Range(h.free[i]) = FreeOf(h, i)
      BY DEF Listed
    <2>1. h.free[i] = <<>> BY <1>3
    <2>2. <<>> \in Seq(Nat) /\ IsInjective(<<>>) /\ Range(<<>>) = {} BY DEF IsInjective, Range
    <2>3. FreeOf(h, i) = {} BY <1>6 DEF FreeOf
    <2>4. QED BY <2>1, <2>2, <2>3
  <1>10. Client(h, ptr, want) BY <1>2 DEF Client
  <1>11. QED BY <1>1, <1>2, <1>3, <1>7, <1>8, <1>9, <1>10 DEF IInv, Sound

\* A step keeps the invariant, and only moving a block whose predecessor is free can
\* lose what it held.
LEMMA Step ==
  ASSUME IInv, Next
  PROVE  IInv' /\ (checked' \/ UNCHANGED vars \/ \E p \in Pointers : Moves(p))
  <1>1. ASSUME NEW p \in Pointers, NEW n \in Sizes, NEW maps \in BOOLEAN,
               HeapMalloc(p, n, maps) \/ HeapCalloc(p, n, maps)
        PROVE  Good(p)
    BY <1>1, MallocGood, CallocGood
  <1>2. ASSUME NEW p \in Pointers, NEW n \in Sizes, HeapRealloc(p, n)
        PROVE  Good(p)
    BY <1>2, InPlaceGood, ElsewhereGood DEF HeapRealloc
  <1>3. ASSUME NEW p \in Pointers, NEW unmaps \in BOOLEAN, HeapFree(p, unmaps)
        PROVE  Good(p)
    BY <1>3, FreeGood
  <1>4. CASE ~crashed /\ Call
    <2>1. PICK p \in Pointers : Good(p) BY <1>1, <1>2, <1>3, <1>4 DEF Call
    <2>2. QED BY <2>1 DEF Good
  <1>5. CASE crashed /\ UNCHANGED vars BY <1>5 DEF IInv, vars
  <1>6. QED BY <1>4, <1>5 DEF Next

\* The blocks, the free lists, the marks of cleared memory and the client's pointers
\* agree after any calls of heap_malloc, heap_calloc, heap_realloc and heap_free.
THEOREM Invariance == Spec => []IInv
  <1>1. IInv /\ [Next]_vars => IInv'
    <2> SUFFICES ASSUME IInv, [Next]_vars PROVE IInv' OBVIOUS
    <2>1. CASE Next BY <2>1, Step
    <2>2. CASE UNCHANGED vars BY <2>2 DEF IInv, vars
    <2>3. QED BY <2>1, <2>2
  <1>2. QED BY <1>1, Starts, PTL DEF Spec

\* Headers, memory, free lists and pointers are what the types of malloc.c say.
THEOREM TypeCorrect == Spec => []TypeOK
  <1>1. IInv => TypeOK
    <2> SUFFICES ASSUME IInv PROVE TypeOK OBVIOUS
    <2>1. /\ Typed(heap) /\ Listed(heap) /\ Client(heap, ptr, want)
          /\ checked \in BOOLEAN /\ crashed \in BOOLEAN
      BY DEF IInv, Sound
    <2>2. \A b \in DOMAIN heap.head : heap.head[b] \in Header BY <2>1 DEF Typed, BlocksOf
    <2>3. DOMAIN heap.head \subseteq DOMAIN heap.data BY <2>1 DEF Typed, BlocksOf
    <2>4. \A i \in DOMAIN heap.data : heap.data[i] \in Pointers \cup {Zero, Junk}
      BY <2>1 DEF Typed, Content
    <2>5. heap.free \in [0..(Buckets - 1) -> Seq(DOMAIN heap.head)]
      <3>1. ASSUME NEW i \in 0..(Buckets - 1) PROVE heap.free[i] \in Seq(DOMAIN heap.head)
        <4>1. heap.free[i] \in Seq(Nat) /\ Range(heap.free[i]) \subseteq DOMAIN heap.head
          BY <2>1 DEF Listed, FreeOf, FreeBlocks, BlocksOf
        <4>2. PICK s : s = heap.free[i] OBVIOUS
        <4>3. Len(s) \in Nat /\ DOMAIN s = 1..Len(s) /\ s \in [1..Len(s) -> Nat]
          BY <4>1, <4>2, LenProperties
        <4>4. \A x \in 1..Len(s) : s[x] \in DOMAIN heap.head BY <4>1, <4>2, <4>3 DEF Range
        <4>5. s \in [1..Len(s) -> DOMAIN heap.head] BY <4>3, <4>4
        <4>6. QED BY <4>2, <4>3, <4>5, SeqDef
      <3>2. QED BY <2>1, <3>1 DEF Typed, IsFunction
    <2>6. ptr \in [Pointers -> DOMAIN heap.head \cup {NULL}]
      <3>1. ptr \in [Pointers -> Nat \cup {NULL}] BY <2>1 DEF Client
      <3>2. \A p \in Pointers : ptr[p] \in DOMAIN heap.head \cup {NULL}
        BY <2>1 DEF Client, Owns, BlocksOf
      <3>3. QED BY <3>1, <3>2
    <2>7. want \in [Pointers -> Sizes \cup {0}] BY <2>1 DEF Client
    <2>8. QED BY <2>1, <2>2, <2>3, <2>4, <2>5, <2>6, <2>7 DEF TypeOK
  <1>2. QED BY <1>1, Invariance, PTL

\* get_next and get_previous never find neighbours that disagree about their sizes.
THEOREM HeapIsIntact == Spec => []BlocksTile
  <1>1. IInv => BlocksTile BY DEF IInv, Sound, BlocksTile
  <1>2. QED BY <1>1, Invariance, PTL

\* No call disturbs the memory of another pointer.
THEOREM MemoryIsKept == Spec => []MemoryKept
  <1>1. IInv => MemoryKept BY DEF IInv, Client, Owns, MemoryKept
  <1>2. QED BY <1>1, Invariance, PTL

\* The free lists hold the free blocks, and neighbours are merged.
THEOREM FreeListsAreExact == Spec => []FreeListsExact
  <1>1. IInv => FreeListsExact
    <2> SUFFICES ASSUME IInv PROVE FreeListsExact OBVIOUS
    <2>1. Listed(heap) /\ Apart(heap) /\ Buckets \in Nat BY SizesAssumption DEF IInv, Sound
    <2>2. PICK seqs : seqs = [i \in 1..Buckets |-> heap.free[i - 1]] OBVIOUS
    <2>3. PICK listed : listed = FlattenSeq(seqs) OBVIOUS
    <2>4. \A i \in 1..Buckets :
            /\ i - 1 \in 0..(Buckets - 1) /\ seqs[i] = heap.free[i - 1]
            /\ seqs[i] \in Seq(Nat) /\ IsInjective(seqs[i])
            /\ Range(seqs[i]) = FreeOf(heap, i - 1)
      BY <2>1, <2>2 DEF Listed
    <2>5. seqs \in [1..Buckets -> Seq(Nat)] BY <2>2, <2>4
    <2>6. \A i, j \in 1..Buckets : i # j => Range(seqs[i]) \cap Range(seqs[j]) = {}
      <3> SUFFICES ASSUME NEW i \in 1..Buckets, NEW j \in 1..Buckets, NEW x,
                          x \in FreeOf(heap, i - 1), x \in FreeOf(heap, j - 1)
                   PROVE  i = j
        BY <2>4
      <3>1. i - 1 = j - 1 BY DEF FreeOf
      <3>2. QED BY <2>1, <3>1
    <2>7. /\ Range(listed) = UNION {Range(seqs[i]) : i \in 1..Buckets}
          /\ IsInjective(listed)
      <3>1. \A i \in 1..Buckets : IsInjective(seqs[i]) BY <2>4
      <3>2. QED BY <2>1, <2>3, <2>5, <2>6, <3>1, Flattened
    <2>8. ToSet(listed) = {b \in Blocks : ~heap.head[b].used}
      <3>1. ToSet(listed) = Range(listed) BY DEF ToSet, Range
      <3>2. ASSUME NEW b, b \in FreeBlocks(heap) PROVE b \in Range(listed)
        <4>1. PICK k \in 0..(Buckets - 1) : k = BucketOf(SizeOf(heap, b)) BY BucketRange
        <4>2. k + 1 \in 1..Buckets /\ (k + 1) - 1 = k BY <2>1, <4>1
        <4>3. b \in Range(seqs[k + 1]) BY <2>4, <3>2, <4>1, <4>2 DEF FreeOf
        <4>4. QED BY <2>7, <4>2, <4>3
      <3>3. ASSUME NEW b, b \in Range(listed) PROVE b \in FreeBlocks(heap)
        <4>1. PICK i \in 1..Buckets : b \in Range(seqs[i]) BY <2>7, <3>3
        <4>2. QED BY <2>4, <4>1 DEF FreeOf
      <3>4. QED BY <3>1, <3>2, <3>3 DEF FreeBlocks, BlocksOf, Blocks
    <2>9. ASSUME NEW i \in 0..(Buckets - 1), NEW b \in ToSet(heap.free[i])
          PROVE  BucketOf(SizeOf(heap, b)) = i /\ ~IsFree(heap, NextOf(heap, b))
      <3>1. b \in FreeOf(heap, i) BY <2>1 DEF Listed, ToSet, Range
      <3>2. QED BY <2>1, <3>1 DEF FreeOf, Apart
    <2>10. QED BY <2>2, <2>3, <2>7, <2>8, <2>9 DEF FreeListsExact
  <1>2. QED BY <1>1, Invariance, PTL

\* heap_calloc returns zeroes, and heap_realloc keeps what the block held unless it
\* moves a block whose predecessor is free.
THEOREM ContentsAreKept == Spec => ContentsAsPromised
  <1>1. IInv /\ [Next]_vars => [~checked' => \E p \in Pointers : Moves(p)]_vars
    <2> SUFFICES ASSUME IInv, [Next]_vars
                 PROVE  [~checked' => \E p \in Pointers : Moves(p)]_vars
      OBVIOUS
    <2>1. CASE Next BY <2>1, Step
    <2>2. CASE UNCHANGED vars BY <2>2
    <2>3. QED BY <2>1, <2>2
  <1>2. QED BY <1>1, Invariance, PTL DEF Spec, ContentsAsPromised
=============================================================================
