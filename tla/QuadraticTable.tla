--------------------------- MODULE QuadraticTable ---------------------------
(***************************************************************************)
(* The default hash table of src/hashtable.c (HASHTABLE_QUADRATIC): open   *)
(* addressing with triangular probing, tombstones, and rehashing in place. *)
(* One action is one call of the API; the table is not thread-safe.        *)
(***************************************************************************)
EXTENDS Hashtable

CONSTANTS EMPTY, TOMBSTONE,  \* the two reserved hashes of a slot
          NoKey,             \* no displaced entry
          Requests           \* the capacities clients pass to resize

ASSUME ReservedAssumption == /\ EMPTY \notin Keys /\ TOMBSTONE \notin Keys /\ NoKey \notin Keys
                             /\ EMPTY # TOMBSTONE
ASSUME RequestsAssumption == Requests \subseteq 1..MaxCapacity

VARIABLES capacity, num_entries, num_tombstones,
          slot               \* what each slot holds: a key or a reserved hash

vars == <<capacity, num_entries, num_tombstones, slot>>

TypeOK == /\ capacity \in {p \in Powers : p >= MinCapacity}
          /\ num_entries \in Nat
          /\ num_tombstones \in Nat
          /\ slot \in [Indices(capacity) -> Keys \cup {EMPTY, TOMBSTONE}]
-----------------------------------------------------------------------------
HashToIndex(c, k) == SanitizeHash(HashOf[k], 2) % c

\* The i-th slot a key's probe sequence visits.
Probe(c, k, i) == (HashToIndex(c, k) + (i * (i + 1)) \div 2) % c

\* The first of the slots `stops` that the key's probe sequence visits, or -1.  The
\* code probes on and on when there is none; probing visits all slots of a table.
FirstProbe(c, k, stops) ==
  IF \E i \in 0..(c - 1) : Probe(c, k, i) \in stops
  THEN Probe(c, k, CHOOSE i \in 0..(c - 1) : /\ Probe(c, k, i) \in stops
                                             /\ \A l \in 0..(i - 1) : Probe(c, k, l) \notin stops)
  ELSE -1

At(s, x) == {i \in DOMAIN s : s[i] = x}

\* The slots without a valid hash.
Free(s) == {i \in DOMAIN s : s[i] \notin Keys}

\* Mutant: a probe ends at a tombstone, too.
LookupToTombstone(c, s, k) ==
  LET i == FirstProbe(c, k, Free(s) \cup At(s, k))
  IN  IF i # -1 /\ s[i] = k THEN i ELSE -1

\* _hashtable_lookup: the index of the key, or -1; it passes over tombstones.
LookupIn(c, s, k) ==
  LET i == FirstProbe(c, k, At(s, EMPTY) \cup At(s, k))
  IN  IF i # -1 /\ s[i] = k THEN i ELSE -1
-----------------------------------------------------------------------------
(* _hashtable_resize_common.  `done` is the complement of the needs-rehash  *)
(* bitmap, `carry` the entry that is looking for a slot.                    *)

\* _hashtable_insert_during_resize: put the entry in the first slot that is
\* free or not rehashed yet, and carry on with the entry it displaces.
Displace(c, st) ==
  LET i == FirstProbe(c, st.carry, Free(st.slot) \cup (DOMAIN st.slot \ st.done))
  IN  [slot  |-> [st.slot EXCEPT ![i] = st.carry],
       done  |-> st.done \cup {i},
       carry |-> IF st.slot[i] \in Keys THEN st.slot[i] ELSE NoKey]

DisplaceAll(c, start) ==
  LET run[n \in Nat] ==
        IF n = 0 THEN start
        ELSE LET st == run[n - 1]
             IN  IF st.carry = NoKey THEN st ELSE Displace(c, st)
  IN  run[Cardinality(DOMAIN start.slot)]

RehashSlot(c, st, i) ==
  IF st.slot[i] \notin Keys THEN [st EXCEPT !.slot[i] = EMPTY]
  ELSE IF i \in st.done THEN st
  ELSE IF HashToIndex(c, st.slot[i]) = i THEN [st EXCEPT !.done = @ \cup {i}]
  ELSE DisplaceAll(c, [st EXCEPT !.slot[i] = EMPTY, !.carry = st.slot[i]])

\* The slots after moving a table of `old` slots to capacity c.
Rehash(s, old, c) ==
  LET all == Indices(IF c > old THEN c ELSE old)
      run[n \in Nat] ==
        IF n = 0
        THEN [slot  |-> [i \in all |-> IF i < old THEN s[i] ELSE EMPTY],
              done  |-> {},
              carry |-> NoKey]
        ELSE RehashSlot(c, run[n - 1], n - 1)
      final == run[old].slot
  IN  [i \in Indices(c) |-> final[i]]

\* Mutant: a shrink may go below 8 slots.
ShrunkWithoutMinimum(c) == c

Shrunk(c) == IF c < MinCapacity THEN MinCapacity ELSE c
-----------------------------------------------------------------------------
\* _hashtable_init with the smallest capacity.
Init == /\ capacity = MinCapacity
        /\ num_entries = 0
        /\ num_tombstones = 0
        /\ slot = [i \in Indices(MinCapacity) |-> EMPTY]

\* Mutant: the load leaves the tombstones out.
LoadOfEntries == num_entries + 1

\* The load that insert compares with max_entries.
LoadAfterInsert == num_entries + 1 + num_tombstones

\* Mutant: a tombstone that was filled still counts.
CountTombstone(t, x) == t

\* _hashtable_do_insert counts a tombstone out when it takes its slot.
FillTombstone(t, x) == IF x = TOMBSTONE THEN t - 1 ELSE t

\* _hashtable_insert: grow if the load would pass the limit, then take the
\* first slot without a valid hash.  Clients insert keys that are not present.
Insert(k) ==
  LET grow == LoadAfterInsert > MaxEntries(capacity)
      c    == IF grow THEN 2 * capacity ELSE capacity
      s    == IF grow THEN Rehash(slot, capacity, c) ELSE slot
      t    == IF grow THEN 0 ELSE num_tombstones
      i    == FirstProbe(c, k, Free(s))
  IN  /\ At(slot, k) = {}
      /\ c <= MaxCapacity
      /\ capacity' = c
      /\ num_entries' = num_entries + 1
      /\ num_tombstones' = FillTombstone(t, s[i])
      /\ slot' = [s EXCEPT ![i] = k]

\* _hashtable_remove of a key that lookup finds: leave a tombstone, shrink a
\* sparse table, rehash one full of tombstones at the same capacity.
RemoveKey(k) ==
  LET i == LookupIn(capacity, slot, k)
      s == [slot EXCEPT ![i] = TOMBSTONE]
      e == num_entries - 1
      c == IF e < capacity \div 8 THEN Shrunk(capacity \div 4) ELSE capacity
      rehash == e < capacity \div 8 \/ num_tombstones + 1 > capacity \div 2
  IN  /\ i # -1
      /\ capacity' = c
      /\ num_entries' = e
      /\ num_tombstones' = IF rehash THEN 0 ELSE num_tombstones + 1
      /\ slot' = IF rehash THEN Rehash(s, capacity, c) ELSE s

\* _hashtable_resize, which the caller may ask for at any time (not with 0).
Resize(n) ==
  LET new == ResizeCapacity(n, num_entries)
      c   == IF new < capacity THEN Shrunk(new) ELSE new
  IN  /\ c <= MaxCapacity
      /\ capacity' = c
      /\ num_tombstones' = 0
      /\ slot' = Rehash(slot, capacity, c)
      /\ UNCHANGED num_entries

Clear == /\ slot' = [i \in DOMAIN slot |-> EMPTY]
         /\ num_entries' = 0
         /\ num_tombstones' = 0
         /\ UNCHANGED capacity

Operate == \/ \E k \in Keys : Insert(k) \/ RemoveKey(k)
           \/ \E n \in Requests : Resize(n)
           \/ Clear

Spec == Init /\ [][Operate]_vars
-----------------------------------------------------------------------------
\* The counters that drive growing and shrinking count what the slots hold.
CountersExact == /\ num_entries = Cardinality(DOMAIN slot \ Free(slot))
                 /\ num_tombstones = Cardinality(At(slot, TOMBSTONE))

\* Lookup of any key ends: its probe sequence meets an empty slot, however the
\* table got here (tombstones do not stop a probe).
LookupEnds ==
  \A k \in Keys : FirstProbe(capacity, k, At(slot, EMPTY)) # -1

\* What lookup finds.
Found == {k \in Keys : LookupIn(capacity, slot, k) # -1}

Promised == INSTANCE AbstractSet WITH members <- Found, size <- num_entries

\* What each call that changes the table does to the keys that lookup finds.
CallsExact == \/ UNCHANGED vars
              \/ /\ \A k \in Keys : /\ Insert(k) => Promised!AbsInsert(k)
                                    /\ RemoveKey(k) => Promised!AbsRemove(k)
                 /\ \A n \in Requests : Resize(n) => UNCHANGED <<Found, num_entries>>
                 /\ Clear => Promised!AbsClear

\* The table is a set with a count of its keys: the probes, displacements and rehashes
\* of an operation add, lose or hide no key but the one it is called with.
ImplementsSet == Promised!AbsSpec /\ [][CallsExact]_vars
=============================================================================
