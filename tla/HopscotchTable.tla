--------------------------- MODULE HopscotchTable ---------------------------
(***************************************************************************)
(* The hopscotch hash table of src/hashtable.c (HASHTABLE_HOPSCOTCH): an   *)
(* entry is less than a neighbourhood away from its home slot, whose       *)
(* bitmap says at which distances its entries are; rehashing is in place,  *)
(* and a shrink that finds no room tries again with more.                  *)
(* One action is one call of the API; the table is not thread-safe.        *)
(***************************************************************************)
EXTENDS Hashtable

CONSTANTS Neighborhood,  \* __HASHTABLE_NEIGHBORHOOD
          EMPTY,         \* the reserved hash of a free slot
          Requests       \* the capacities clients pass to resize

VARIABLES capacity, num_entries,
          slot,     \* what each slot holds: a key or EMPTY
          bitmap,   \* the distances in the bitmap of each slot
          retried   \* history: a shrink has had to try again

vars == <<capacity, num_entries, slot, bitmap, retried>>

TypeOK == /\ capacity \in {p \in Powers : p >= MinCapacity}
          /\ num_entries \in Nat
          /\ slot \in [Indices(capacity) -> Keys \cup {EMPTY}]
          /\ bitmap \in [Indices(capacity) -> SUBSET (0..(Neighborhood - 1))]
          /\ retried \in BOOLEAN
-----------------------------------------------------------------------------
HashToIndex(c, k) == SanitizeHash(HashOf[k], 1) % c
Distance(c, k, i) == (i - HashToIndex(c, k)) % c
Probe(c, k, d)    == (HashToIndex(c, k) + d) % c

\* _hashtable_lookup: the slots the bitmap of the home slot names.
LookupIn(c, s, bits, k) ==
  LET ds == {d \in bits[HashToIndex(c, k)] : d < Neighborhood /\ s[Probe(c, k, d)] = k}
  IN  IF ds = {} THEN -1 ELSE Probe(c, k, Min(ds))

(* A table under change is a record t of its slots and bitmaps, the slots    *)
(* that have been rehashed already (the complement of needs-rehash), the     *)
(* entry that is looking for a slot, whether all entries found one near      *)
(* enough, and whether it matters, as it does to a shrink.                   *)
Table(s, bits, strict) == [slot |-> s, bits |-> bits, done |-> {}, carry |-> EMPTY,
                           ok |-> TRUE, strict |-> strict]
Failed(t) == t.strict /\ ~t.ok

MoveBit(t, home, old, new) == [t EXCEPT !.bits[home] = (@ \ {old}) \cup {new}]

\* The entry j slots before the free slot i, which is at distance d of a home, may go there.
CanHop(c, t, i, j) == LET k == (i - j) % c IN
  t.slot[k] # EMPTY /\ Distance(c, t.slot[k], k) + j < Neighborhood

\* The entry j slots before the free slot changes places with it.
HopOver(c, m, j) ==
  LET k == (m.i - j) % c
      x == m.t.slot[k]
      o == Distance(c, x, k)
  IN  [t |-> [MoveBit(m.t, HashToIndex(c, x), o, o + j) EXCEPT !.slot[m.i] = x,
                                                               !.slot[k] = EMPTY],
       i |-> k, d |-> m.d - j]

\* One round of _hashtable_move_into_neighborhood, with the nearest entry that may.
Hop(c, m) ==
  LET js == {j \in 1..(Neighborhood - 1) : CanHop(c, m.t, m.i, j)}
  IN  IF m.d < Neighborhood \/ js = {} THEN m ELSE HopOver(c, m, Min(js))

MoveIntoNeighborhood(c, t, i, d) ==
  LET run[n \in Nat] == IF n = 0 THEN [t |-> t, i |-> i, d |-> d] ELSE Hop(c, run[n - 1])
  IN  run[IF d < Neighborhood THEN 0 ELSE d]

\* The key goes to the slot where the search has ended, near enough or not.
Put(m, c, k) == [m.t EXCEPT !.slot[m.i] = k, !.bits[HashToIndex(c, k)] = @ \cup {m.d % 32}]

\* The same, remembering whether it was near enough.
Settle(m, c, k) == [Put(m, c, k) EXCEPT !.ok = @ /\ m.d < Neighborhood]

\* _hashtable_do_insert: the first free slot, moved near enough.
DoInsert(c, t, k) ==
  LET d == Min({n \in Indices(c) : t.slot[Probe(c, k, n)] = EMPTY})
      m == MoveIntoNeighborhood(c, t, Probe(c, k, d), d)
  IN  IF m.d < Neighborhood THEN Put(m, c, k) ELSE [m.t EXCEPT !.ok = FALSE]

\* Mutant: nobody remembers the entry whose slot is taken.
TakeOver(c, t) ==
  LET k  == t.carry
      d  == Min({n \in Indices(c) : LET i == Probe(c, k, n) IN
                                      t.slot[i] = EMPTY \/ i \notin t.done})
      i  == Probe(c, k, d)
      t1 == [t EXCEPT !.carry = EMPTY, !.done = @ \cup {i}]
  IN  Settle(MoveIntoNeighborhood(c, t1, i, d), c, k)

\* _hashtable_insert_during_resize: a slot that waits for its own rehash is as
\* good as a free one; its entry is the next to find a slot.
Displace(c, t) ==
  LET k  == t.carry
      d  == Min({n \in Indices(c) : LET i == Probe(c, k, n) IN
                                      t.slot[i] = EMPTY \/ i \notin t.done})
      i  == Probe(c, k, d)
      t1 == [t EXCEPT !.carry = t.slot[i], !.slot[i] = EMPTY, !.done = @ \cup {i}]
  IN  Settle(MoveIntoNeighborhood(c, t1, i, d), c, k)

DisplaceAll(c, start) ==
  LET run[n \in Nat] ==
        IF n = 0 THEN start
        ELSE LET t == run[n - 1] IN
             IF t.carry = EMPTY \/ Failed(t) THEN t ELSE Displace(c, t)
  IN  run[1 + Cardinality({i \in DOMAIN start.slot \ start.done : start.slot[i] # EMPTY})]

RehashSlot(c, t, i) ==
  IF Failed(t) \/ t.slot[i] = EMPTY \/ i \in t.done THEN t
  ELSE IF HashToIndex(c, t.slot[i]) = i
       THEN [t EXCEPT !.done = @ \cup {i}, !.bits[i] = @ \cup {0}]
       ELSE DisplaceAll(c, [t EXCEPT !.slot[i] = EMPTY, !.carry = t.slot[i]])

\* Rehash the entries in the first `old` slots one after the other for capacity c.
Rehash(c, t, old) ==
  LET full   == {i \in 0..(old - 1) : t.slot[i] # EMPTY}
      nth(n) == CHOOSE i \in full : Cardinality({j \in full : j < i}) = n - 1
      run[n \in Nat] ==
        IF n = 0 THEN [t EXCEPT !.bits = [i \in DOMAIN @ |-> {}]]
        ELSE RehashSlot(c, run[n - 1], nth(n))
  IN  run[Cardinality(full)]

\* Before a shrink tries again, the displaced entry goes to any free slot.
PutBack(t) ==
  LET i == Min({j \in DOMAIN t.slot : t.slot[j] = EMPTY})
  IN  [t EXCEPT !.slot[i] = IF t.carry = EMPTY THEN @ ELSE t.carry,
                !.carry = EMPTY, !.ok = TRUE]

\* _hashtable_shrink: to the first capacity from c on at which every entry finds
\* a slot.  The marks of rehashed slots are kept from one try to the next.
Shrink(c, s, bits) ==
  LET old == Cardinality(DOMAIN s)
      run[n \in Nat] ==
        IF n = 0 THEN [c |-> c, t |-> Rehash(c, Table(s, bits, TRUE), old)]
        ELSE LET r == run[n - 1] IN
             IF r.t.ok \/ r.c >= old THEN r
             ELSE [c |-> 2 * r.c, t |-> Rehash(2 * r.c, PutBack(r.t), old)]
  IN  run[HashBits]

\* _hashtable_grow, also to the same capacity: here an entry that finds no slot
\* near enough would stay far away.
Grow(c, s, bits) ==
  LET old == Cardinality(DOMAIN s)
      all == [i \in Indices(c) |-> IF i < old THEN s[i] ELSE EMPTY]
  IN  Rehash(c, Table(all, [i \in Indices(c) |-> {}], FALSE), old)

\* Insert at the first capacity from c on, doubled each time, with room for k.
InsertFrom(c, t, k) ==
  LET run[n \in Nat] ==
        IF n = 0 THEN [c |-> c, t |-> DoInsert(c, t, k)]
        ELSE LET r == run[n - 1] IN
             IF r.t.ok \/ 2 * r.c > MaxCapacity THEN r
             ELSE [c |-> 2 * r.c,
                   t |-> DoInsert(2 * r.c, Grow(2 * r.c, r.t.slot, r.t.bits), k)]
  IN  run[HashBits]
-----------------------------------------------------------------------------
\* _hashtable_init with the smallest capacity.
Init == /\ capacity = MinCapacity
        /\ num_entries = 0
        /\ slot = [i \in Indices(MinCapacity) |-> EMPTY]
        /\ bitmap = [i \in Indices(MinCapacity) |-> {}]
        /\ retried = FALSE

Becomes(c, t) == /\ capacity' = c
                 /\ slot' = [i \in Indices(c) |-> t.slot[i]]
                 /\ bitmap' = [i \in Indices(c) |-> t.bits[i]]

LeastCapacity(c) == Max({c, MinCapacity})

\* A shrink that finds room before it is back at the old capacity (with an even
\* larger one the code would leave the table's storage).
Shrinks(c, s, bits) ==
  LET r == Shrink(LeastCapacity(c), s, bits)
  IN  /\ r.t.ok
      /\ Becomes(r.c, r.t)
      /\ retried' = (retried \/ r.c # LeastCapacity(c))

\* _hashtable_insert of a key that is not present.
Insert(k) ==
  LET grow == num_entries + 1 > MaxEntries(capacity)
      c    == IF grow THEN 2 * capacity ELSE capacity
      t    == IF grow THEN Grow(c, slot, bitmap) ELSE Table(slot, bitmap, FALSE)
      r    == InsertFrom(c, [t EXCEPT !.ok = TRUE], k)
  IN  /\ \A i \in DOMAIN slot : slot[i] # k
      /\ c <= MaxCapacity /\ r.t.ok
      /\ Becomes(r.c, r.t)
      /\ num_entries' = num_entries + 1
      /\ UNCHANGED retried

\* _hashtable_remove of a key that lookup finds: shrink a sparse table.
Remove(k) ==
  LET i    == LookupIn(capacity, slot, bitmap, k)
      home == HashToIndex(capacity, k)
      s    == [slot EXCEPT ![i] = EMPTY]
      bits == [bitmap EXCEPT ![home] = @ \ {Distance(capacity, k, i)}]
  IN  /\ i # -1
      /\ num_entries' = num_entries - 1
      /\ IF num_entries - 1 < capacity \div 8
         THEN Shrinks(capacity \div 4, s, bits)
         ELSE Becomes(capacity, Table(s, bits, FALSE)) /\ UNCHANGED retried

\* _hashtable_resize, which the caller may ask for at any time (not with 0).
Resize(n) ==
  LET c == ResizeCapacity(n, num_entries)
  IN  /\ c <= MaxCapacity
      /\ IF c < capacity THEN Shrinks(c, slot, bitmap)
         ELSE Becomes(c, Grow(c, slot, bitmap)) /\ UNCHANGED retried
      /\ UNCHANGED num_entries

Clear == /\ slot' = [i \in DOMAIN slot |-> EMPTY]
         /\ bitmap' = [i \in DOMAIN slot |-> {}]
         /\ num_entries' = 0
         /\ UNCHANGED <<capacity, retried>>

Operate == \/ \E k \in Keys : Insert(k) \/ Remove(k)
           \/ \E n \in Requests : Resize(n)
           \/ Clear
-----------------------------------------------------------------------------
InSlots(k) == {i \in DOMAIN slot : slot[i] = k}

\* No entry is in two slots, and none leaves the table but by a removal, not even
\* when a shrink has to try again.
EntriesStay == /\ num_entries = Cardinality({i \in DOMAIN slot : slot[i] # EMPTY})
               /\ \A k \in Keys : Cardinality(InSlots(k)) <= 1

\* A bitmap names exactly the slots of its entries, until a shrink has to try
\* again.
BitmapsExact ==
  ~retried => \A h \in DOMAIN slot, d \in 0..(Neighborhood - 1) :
    d \in bitmap[h] <=> \E k \in Keys : /\ HashToIndex(capacity, k) = h
                                       /\ slot[Probe(capacity, k, d)] = k

\* What lookup finds behaves as a set.
Found == {k \in Keys : LookupIn(capacity, slot, bitmap, k) # -1}
A == INSTANCE AbstractSet WITH members <- Found, size <- num_entries
ImplementsSet == A!AbsSpec
=============================================================================
