---------------------------- MODULE LinearHashing ----------------------------
(***************************************************************************)
(* The linear hash table of staging/linear_hashing.c: chains of buckets of *)
(* a fixed size, one of which is split whenever the load passes the        *)
(* threshold, so that the number of chains grows one at a time.  A key     *)
(* stands for an item; there are no threads.                               *)
(***************************************************************************)
EXTENDS Integers, Sequences, SequencesExt

CONSTANTS Keys,
          HashOf,      \* hashfunc
          InitialN,    \* the values of make_hashtable's num_buckets ...
          BucketSizes, \* ... and of its bucketsize
          MaxChains    \* bounds the model: no insertion splits beyond this many

LoadThreshold == 7       \* THRESHOLD, in tenths

VARIABLES n, p,        \* chains before the current round of splits, next to split
          bucketsize,
          num_items,
          buckets      \* for each index the chain of its buckets, sequences of keys

vars == <<n, p, bucketsize, num_items, buckets>>

TypeOK == /\ n \in Nat \ {0} /\ p \in 0..(n - 1)
          /\ bucketsize \in BucketSizes
          /\ num_items \in Nat
          /\ buckets \in [0..(n + p - 1) -> Seq(Seq(Keys))]
-----------------------------------------------------------------------------
\* Chains before p have been split in this round already.
GetIdx(k, nn, pp) == LET idx1 == HashOf[k] % nn IN
                     IF idx1 >= pp THEN idx1 ELSE HashOf[k] % (2 * nn)

Items(chain) == FlattenSeq(chain)

\* The bucket where insert_internal ends: the first with room, or a new one.
FirstWithRoom(chain) == CHOOSE i \in 1..(Len(chain) + 1) :
  /\ i <= Len(chain) => Len(chain[i]) < bucketsize
  /\ \A j \in 1..(i - 1) : Len(chain[j]) = bucketsize

\* insert_internal without its check for duplicates.
InsertInChain(chain, k) ==
  LET i == FirstWithRoom(chain)
  IN  IF i > Len(chain) THEN Append(chain, <<k>>) ELSE [chain EXCEPT ![i] = Append(@, k)]

\* The check looks no further than to the bucket with room.
IsDuplicate(chain, k) ==
  \E i \in DOMAIN chain : i <= FirstWithRoom(chain) /\ k \in ToSet(chain[i])

Least(a, b) == IF a < b THEN a ELSE b

\* The items that stay move up into the first buckets of the chain, and the rest of
\* the buckets are freed.
Packed(items) ==
  [i \in 1..((Len(items) + bucketsize - 1) \div bucketsize) |->
     SubSeq(items, (i - 1) * bucketsize + 1, Least(i * bucketsize, Len(items)))]

\* split_bucket, when p and n have been advanced.
SplitBucket(b, idx, nn, pp) ==
  LET stays(k) == GetIdx(k, nn, pp) = idx
      moving   == SelectSeq(Items(b[idx]), LAMBDA k : ~stays(k))
  IN  FoldLeft(LAMBDA t, k : [t EXCEPT ![GetIdx(k, nn, pp)] = InsertInChain(@, k)],
               [b EXCEPT ![idx] = Packed(SelectSeq(Items(@), stays))],
               moving)

\* grow_hashtable: a new chain at the end, p advances and starts a new round.
Grown == LET round == p + 1 = n
             nn    == IF round THEN 2 * n ELSE n
             pp    == IF round THEN 0 ELSE p + 1
             b     == [i \in 0..(n + p) |-> IF i < n + p THEN buckets[i] ELSE <<>>]
         IN  [n |-> nn, p |-> pp, buckets |-> SplitBucket(b, p, nn, pp)]

\* maybe_grow_table, for a table that counts the new item already.
MaybeGrown == IF (num_items + 1) * 10 > LoadThreshold * (n + p) * bucketsize THEN Grown
              ELSE [n |-> n, p |-> p, buckets |-> buckets]
-----------------------------------------------------------------------------
\* make_hashtable.
Init == /\ n \in InitialN /\ p = 0
        /\ bucketsize \in BucketSizes
        /\ num_items = 0
        /\ buckets = [i \in 0..(n - 1) |-> <<>>]

\* __hashtable_insert, which grows before it knows whether the key is there (then
\* it returns EEXIST), and which may fail to allocate a bucket (ENOMEM) when the
\* key's chain is full.  Where growing itself fails the table is lost.
HashtableInsert(k) ==
  LET t     == MaybeGrown
      chain == t.buckets[GetIdx(k, t.n, t.p)]
      there == IsDuplicate(chain, k)
  IN  /\ t.n + t.p <= MaxChains
      /\ n' = t.n /\ p' = t.p
      /\ \/ /\ ~there
            /\ buckets' = [t.buckets EXCEPT ![GetIdx(k, t.n, t.p)] = InsertInChain(@, k)]
            /\ num_items' = num_items + 1
         \/ /\ there \/ FirstWithRoom(chain) > Len(chain)
            /\ buckets' = t.buckets
            /\ UNCHANGED num_items
      /\ UNCHANGED bucketsize

\* The last item of the chain takes the removed one's place; an empty bucket goes.
FillHole(chain, k) ==
  LET last   == chain[Len(chain)]
      filled == [i \in DOMAIN chain |->
                   [j \in DOMAIN chain[i] |-> IF chain[i][j] = k THEN Last(last) ELSE chain[i][j]]]
  IN  IF Len(last) = 1 THEN Front(filled)
      ELSE [filled EXCEPT ![Len(chain)] = Front(@)]

\* __hashtable_remove; the table does not shrink.
HashtableRemove(k) ==
  LET idx == GetIdx(k, n, p) IN
  /\ k \in ToSet(Items(buckets[idx]))
  /\ buckets' = [buckets EXCEPT ![idx] = FillHole(@, k)]
  /\ num_items' = num_items - 1
  /\ UNCHANGED <<n, p, bucketsize>>

Clear == /\ buckets' = [i \in DOMAIN buckets |-> <<>>]
         /\ num_items' = 0
         /\ UNCHANGED <<n, p, bucketsize>>

Operate == (\E k \in Keys : HashtableInsert(k) \/ HashtableRemove(k)) \/ Clear
-----------------------------------------------------------------------------
\* num_items counts the items, whatever insertions failed and chains were split.
CountersExact ==
  num_items = FoldLeft(LAMBDA sum, i : sum + Len(Items(buckets[i - 1])), 0,
                       [i \in 1..(n + p) |-> i])

\* All buckets of a chain but the last are full and none is empty, so that the
\* item a removal moves is the last of the chain; items are where get looks.
ChainsPacked ==
  \A idx \in DOMAIN buckets :
    LET chain == buckets[idx] IN
    \A i \in DOMAIN chain : /\ i < Len(chain) => Len(chain[i]) = bucketsize
                            /\ Len(chain[i]) \in 1..bucketsize
                            /\ \A k \in ToSet(chain[i]) : GetIdx(k, n, p) = idx

\* __hashtable_get finds a key in the chain of its index.
Found == {k \in Keys : k \in ToSet(Items(buckets[GetIdx(k, n, p)]))}
=============================================================================
