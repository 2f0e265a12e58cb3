------------------------------ MODULE Hashtable ------------------------------
(***************************************************************************)
(* What the three implementations in src/hashtable.c share: capacities,    *)
(* load limit and hashes.  A key stands for a whole entry; keys_match      *)
(* compares keys, and two keys may have the same hash.                     *)
(***************************************************************************)
EXTENDS Integers, FiniteSets, FiniteSetsExt

CONSTANTS Keys,       \* the entries clients insert, look up and remove
          HashOf,     \* the hash a client passes for each key
          HashBits,   \* the width of _hashtable_hash_t
          HashRange,  \* the number of its values
          Threshold,  \* maximal load in tenths (THRESHOLD of DEFINE_HASHTABLE)
          MaxCapacity \* bounds the model: no operation grows the table further

MinCapacity == 8

\* The powers of 2, as the shifts of 1 that the code computes.
Pow2[i \in 0..HashBits] == IF i = 0 THEN 1 ELSE 2 * Pow2[i - 1]

Powers == {Pow2[i] : i \in 0..(HashBits - 1)}

ASSUME HashBitsAssumption  == HashBits \in Nat /\ HashBits >= 4
ASSUME HashRangeAssumption == HashRange = Pow2[HashBits]
ASSUME HashOfAssumption    == HashOf \in [Keys -> 0..(HashRange - 1)]
ASSUME ThresholdAssumption == Threshold \in 5..9
ASSUME CapacityAssumption  == MaxCapacity \in MinCapacity..Pow2[HashBits - 1]

\* Hashes for keys that are numbers: what is left of them in HashBits bits.
LowBits == [k \in Keys |-> k % HashRange]

\* The next power of 2, for a capacity of at least 1.
RoundCapacity(n) == Min({p \in Powers : p >= n})

MaxEntries(capacity) ==
  (capacity \div 10) * Threshold + ((capacity % 10) * Threshold) \div 10

\* Hashes below the number of reserved values wrap around to the largest ones.
SanitizeHash(hash, reserved) ==
  IF hash < reserved THEN (hash - reserved) % HashRange ELSE hash

Indices(capacity) == 0..(capacity - 1)

\* _hashtable_resize: round up, then double until the entries fit.
ResizeCapacity(n, num_entries) ==
  Min({p \in Powers : p >= RoundCapacity(n) /\ MaxEntries(p) >= num_entries})
=============================================================================
