--------------------------- MODULE RobinHoodTable ---------------------------
(***************************************************************************)
(* The Robin Hood hash table of src/hashtable.c (HASHTABLE_ROBINHOOD):     *)
(* linear probing in which an entry far from its home takes the slot of    *)
(* one that is nearer to its own; a removal shifts the entries behind it   *)
(* back.  One action is one call of the API; the table is not thread-safe. *)
(***************************************************************************)
EXTENDS Hashtable

CONSTANTS EMPTY,     \* the reserved hash of a free slot
          Requests   \* the capacities clients pass to resize

VARIABLES capacity, num_entries,
          slot       \* what each slot holds: a key or EMPTY

vars == <<capacity, num_entries, slot>>

TypeOK == /\ capacity \in {p \in Powers : p >= MinCapacity}
          /\ num_entries \in 0..MaxEntries(capacity)
          /\ slot \in [Indices(capacity) -> Keys \cup {EMPTY}]
-----------------------------------------------------------------------------
\* The odd factor spreads the hashes that bad hash functions give.
HashToIndex(c, k) == (11 * SanitizeHash(HashOf[k], 1)) % c
Distance(c, k, i) == (i - HashToIndex(c, k)) % c

\* The index of the key, or -1: the probe gives up at a free slot, and at an
\* entry nearer to its home than the key would be.
RECURSIVE LookupFrom(_, _, _, _)
LookupFrom(c, s, k, d) ==
  LET i == (HashToIndex(c, k) + d) % c IN
  IF s[i] = k THEN i
  ELSE IF s[i] = EMPTY \/ Distance(c, s[i], i) < d THEN -1
  ELSE LookupFrom(c, s, k, d + 1)

LookupIn(c, s, k) == LookupFrom(c, s, k, 0)

(* A table under change is a record t of its slots and those of them that    *)
(* wait for their rehash, and of the entry that looks for a slot (EMPTY when *)
(* there is none), which has come to slot i, at distance d of its home.      *)
Table(s, todo) == [slot |-> s, todo |-> todo, carry |-> EMPTY, i |-> 0, d |-> 0]

\* One round of _hashtable_insert_robin_hood: take a free slot; change places with
\* an entry that waits for its rehash, which then starts at its own home, or with
\* a richer one, which goes on from here; or pass on.
Step(c, t) ==
  LET x     == t.slot[t.i]
      taken == [t EXCEPT !.slot[t.i] = t.carry, !.carry = x, !.todo = @ \ {t.i}]
      next  == (t.i + 1) % c
  IN  IF x = EMPTY THEN taken
      ELSE IF t.i \in t.todo THEN [taken EXCEPT !.i = HashToIndex(c, x), !.d = 0]
      ELSE IF Distance(c, x, t.i) < t.d
           THEN [taken EXCEPT !.i = next, !.d = Distance(c, x, t.i) + 1]
      ELSE [t EXCEPT !.i = next, !.d = @ + 1]

RECURSIVE Settle(_, _)
Settle(c, t) == IF t.carry = EMPTY THEN t ELSE Settle(c, Step(c, t))

\* _hashtable_do_insert, which writes the key where its probe ends.
Place(c, t, k) == Settle(c, [t EXCEPT !.carry = k, !.i = HashToIndex(c, k), !.d = 0])

RehashSlot(c, t, i) ==
  LET x == t.slot[i] IN
  IF x = EMPTY \/ i \notin t.todo THEN t
  ELSE IF HashToIndex(c, x) = i THEN [t EXCEPT !.todo = @ \ {i}]
  ELSE Place(c, [t EXCEPT !.slot[i] = EMPTY], x)

\* The in-place rehash of grow and shrink, slot by slot of the old table.
RECURSIVE RehashFrom(_, _, _, _)
RehashFrom(c, t, i, old) ==
  IF i = old THEN t ELSE RehashFrom(c, RehashSlot(c, t, i), i + 1, old)

\* The slots after moving a table of `old` slots to capacity c.
Rehash(s, old, c) ==
  LET all == Indices(IF c > old THEN c ELSE old)
      t   == RehashFrom(c, Table([i \in all |-> IF i < old THEN s[i] ELSE EMPTY], all), 0, old)
  IN  [i \in Indices(c) |-> t.slot[i]]

Shrunk(c) == IF c < MinCapacity THEN MinCapacity ELSE c

\* Mutant: only the removed entry's slot is freed, nothing moves up.
LeaveHole(c, s, i) == [s EXCEPT ![i] = EMPTY]

\* The removal's backward shift: what follows moves up by one, up to a free slot
\* or an entry that is at home.
RECURSIVE ShiftBack(_, _, _)
ShiftBack(c, s, i) ==
  LET next == (i + 1) % c IN
  IF s[next] = EMPTY \/ Distance(c, s[next], next) = 0 THEN [s EXCEPT ![i] = EMPTY]
  ELSE ShiftBack(c, [s EXCEPT ![i] = s[next]], next)
-----------------------------------------------------------------------------
\* _hashtable_init with the smallest capacity.
Init == /\ capacity = MinCapacity
        /\ num_entries = 0
        /\ slot = [i \in Indices(MinCapacity) |-> EMPTY]

\* _hashtable_insert of a key that is not present.
Insert(k) ==
  LET c == IF num_entries + 1 > MaxEntries(capacity) THEN 2 * capacity ELSE capacity
      s == IF c > capacity THEN Rehash(slot, capacity, c) ELSE slot
  IN  /\ \A i \in DOMAIN slot : slot[i] # k
      /\ c <= MaxCapacity
      /\ capacity' = c
      /\ num_entries' = num_entries + 1
      /\ slot' = Place(c, Table(s, {}), k).slot

\* _hashtable_remove of a key that lookup finds.
Remove(k) ==
  LET i == LookupIn(capacity, slot, k)
      c == Shrunk(capacity \div 4)
  IN  /\ i # -1
      /\ num_entries' = num_entries - 1
      /\ IF num_entries - 1 < capacity \div 8
         THEN capacity' = c /\ slot' = Rehash([slot EXCEPT ![i] = EMPTY], capacity, c)
         ELSE slot' = ShiftBack(capacity, slot, i) /\ UNCHANGED capacity

\* _hashtable_resize, which the caller may ask for at any time (not with 0).
Resize(n) ==
  LET new == ResizeCapacity(n, num_entries)
      c   == IF new < capacity THEN Shrunk(new) ELSE new
  IN  /\ c <= MaxCapacity
      /\ capacity' = c
      /\ slot' = Rehash(slot, capacity, c)
      /\ UNCHANGED num_entries

Clear == /\ slot' = [i \in DOMAIN slot |-> EMPTY]
         /\ num_entries' = 0
         /\ UNCHANGED capacity

Operate == \/ \E k \in Keys : Insert(k) \/ Remove(k)
           \/ \E n \in Requests : Resize(n)
           \/ Clear
-----------------------------------------------------------------------------
\* The counter that drives growing and shrinking counts what the slots hold.
CountersExact == num_entries = Cardinality({i \in DOMAIN slot : slot[i] # EMPTY})

\* What lets a lookup give up early: an entry away from its home has one before it
\* that is at most one slot nearer to its own.
RobinHoodOrder ==
  \A i \in DOMAIN slot :
    LET j == (i - 1) % capacity IN
    slot[i] # EMPTY /\ Distance(capacity, slot[i], i) > 0 =>
      /\ slot[j] # EMPTY
      /\ Distance(capacity, slot[j], j) >= Distance(capacity, slot[i], i) - 1

\* What lookup finds.
Found == {k \in Keys : LookupIn(capacity, slot, k) # -1}
=============================================================================
