------------------------------- MODULE MCSets -------------------------------
(* Keys with reserved, equal, colliding and wrapping hashes; nodes and      *)
(* items enough for three generations below the root of each tree.          *)
EXTENDS Sets

\* The keys of the default table are their own hashes.  0 is reserved and becomes 62,
\* which shares slot 6 with 14; 23 and 87, which have the same hash, share slot 7; 16
\* has slot 0.  Their probe sequences cross, so that tombstones would fill every slot
\* the five entries leave, did the table not grow before.
MCHash == LowBits

\* A neighbourhood of 4 slots: with 8 slots five keys share slot 0, one more than
\* the neighbourhood holds, with 16 slots slots 0 and 8.  The reserved hash 0 becomes
\* 63 and shares the last slot with 55; a key at home in slot 3 is in the way of
\* others.
MCHopscotchHash == <<0, 3, 55, 8, 16, 24, 32, 40>>

\* Runs of entries that cross the end of the table.  With 8 slots 0, which becomes 63,
\* and 7 and 23 share slot 5, 2 and 10 slot 6, 5 and 13 slot 7; 11 has slot 1 and 4
\* slot 4.  With 16 slots 7 and 23 share slot 13 and 0 has slot 5, the others of
\* a pair are 8 slots apart.
MCRobinHoodHash == <<0, 7, 23, 2, 10, 5, 13, 11, 4>>

\* Hashes that share a chain until the second and the third round of splits.
MCLinearHash == <<0, 2, 4, 8, 1, 3, 12>>

\* Nodes of 2 and 4 items are split with the new item, those of 3 before it;
\* they are searched by halving, by halving and then from both ends, and from
\* both ends only.
MCInfos == {[max_items |-> 2, linear_search_threshold |-> 0],
            [max_items |-> 3, linear_search_threshold |-> 2],
            [max_items |-> 4, linear_search_threshold |-> 32]}
-----------------------------------------------------------------------------
\* The hopscotch table with the neighbourhood of the source.  Its client resizes it
\* to 128 slots, inserts 33 keys in a row, and resizes it to 64 slots: there the
\* keys' hashes, the multiples of 64, all have slot 0 for their home.
MCShrinkHash == [k \in 1..33 |-> 64 * k]

MCShrinkNext == /\ \/ otherEntries = 0 /\ otherCapacity < 128 /\ HT!Resize(128)
                   \/ otherEntries < 33 /\ otherCapacity = 128 /\ HT!Insert(otherEntries + 1)
                   \/ otherEntries = 33 /\ HT!Resize(64)
                /\ UNCHANGED <<kind, vars, chains, trees>>

MCShrinkSpec == (SetsInit /\ kind = "hopscotch") /\ [][MCShrinkNext]_setsVars

\* The hopscotch table is a set even when a shrink has to try again: an entry that
\* finds no place in its neighbourhood doesn't get lost, nor does any other.
ShrinkKeepsKeys == HT!ImplementsSet
=============================================================================
