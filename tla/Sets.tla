-------------------------------- MODULE Sets --------------------------------
(***************************************************************************)
(* The containers of the library that are sets of keys, each with a client *)
(* of its own that calls its operations in any order: the hash tables of   *)
(* src/hashtable.c (one of which is chosen when it is compiled; the        *)
(* default one, whose properties are proved, is extended here), the linear *)
(* hash table, the binary trees and the B-tree.  They share no state; kind *)
(* says whose client runs.                                                 *)
(***************************************************************************)
EXTENDS QuadraticTable

CONSTANTS HopscotchHash, RobinHoodHash, LinearHash,
                      \* the keys of each hash table with their hashes
          Neighborhood,
          InitialN, BucketSizes, MaxChains,
          TreeKeys,   \* the keys of the binary trees
          BTreeKeys,  \* the items of the B-tree
          Infos,      \* the btree_infos of the sets a client may have defined
          RED, BLACK, NULL

ASSUME HashesAssumption ==
  \A h \in {HopscotchHash, RobinHoodHash} :
    \A k \in DOMAIN h : h[k] \in 0..(HashRange - 1)
ASSUME NeighborhoodAssumption == Neighborhood \in 1..32
ASSUME InfosAssumption == \A i \in Infos : /\ i.max_items \in Nat /\ i.max_items >= 2
                                           /\ i.linear_search_threshold \in Nat

VARIABLES kind,
          otherCapacity, otherEntries, otherSlot,  \* of a table that is not the default one
          bitmap, retried,
          n, p, bucketsize, num_items, buckets,
          rb, avl, info, btree

table  == <<otherCapacity, otherEntries, otherSlot, bitmap, retried>>
chains == <<n, p, bucketsize, num_items, buckets>>
trees  == <<rb, avl, info, btree>>
setsVars == <<kind, vars, table, chains, trees>>

HT  == INSTANCE HopscotchTable
         WITH Keys <- DOMAIN HopscotchHash, HashOf <- HopscotchHash,
              capacity <- otherCapacity, num_entries <- otherEntries, slot <- otherSlot
RH  == INSTANCE RobinHoodTable
         WITH Keys <- DOMAIN RobinHoodHash, HashOf <- RobinHoodHash,
              capacity <- otherCapacity, num_entries <- otherEntries, slot <- otherSlot
LH  == INSTANCE LinearHashing  WITH Keys <- DOMAIN LinearHash, HashOf <- LinearHash
RB  == INSTANCE RedBlackTree   WITH Keys <- TreeKeys, tree <- rb
AVL == INSTANCE AvlTree        WITH Keys <- TreeKeys, tree <- avl
BT  == INSTANCE BTree          WITH Keys <- BTreeKeys, tree <- btree

Kinds == {"quadratic", "hopscotch", "robin_hood", "linear", "rb_tree", "avl_tree", "btree"}

SetsInit == /\ kind \in Kinds
            /\ Init /\ HT!Init
            /\ LH!Init /\ RB!Init /\ AVL!Init /\ BT!Init
            /\ kind # "linear" => /\ n = CHOOSE i \in InitialN : TRUE
                                  /\ bucketsize = CHOOSE i \in BucketSizes : TRUE
            /\ kind # "btree"  => info = CHOOSE i \in Infos : TRUE

HashTableStep == /\ \/ kind = "quadratic"  /\ Operate /\ UNCHANGED table
                    \/ kind = "hopscotch"  /\ HT!Operate /\ UNCHANGED vars
                    \/ kind = "robin_hood" /\ RH!Operate /\ UNCHANGED <<vars, bitmap, retried>>
                 /\ UNCHANGED <<chains, trees>>

LinearStep == kind = "linear" /\ LH!Operate /\ UNCHANGED <<vars, table, trees>>

TreeStep == /\ \/ kind = "rb_tree"  /\ RB!Operate  /\ UNCHANGED <<avl, info, btree>>
               \/ kind = "avl_tree" /\ AVL!Operate /\ UNCHANGED <<rb, info, btree>>
               \/ kind = "btree"    /\ BT!Operate  /\ UNCHANGED <<rb, avl>>
            /\ UNCHANGED <<vars, table, chains>>

SetsNext == (HashTableStep \/ LinearStep \/ TreeStep) /\ UNCHANGED kind

SetsSpec == SetsInit /\ [][SetsNext]_setsVars
-----------------------------------------------------------------------------
\* What the other hash tables rely on.  The counters that decide when one grows, shrinks
\* or splits count what it holds, each key once, however often it was moved; and lookup
\* sees all of it: bitmaps name the slots of their entries, distances grow by one at
\* most, chains are packed.
TablesSound ==
  /\ kind = "hopscotch"  => HT!TypeOK /\ HT!EntriesStay /\ HT!BitmapsExact
  /\ kind = "robin_hood" => RH!TypeOK /\ RH!CountersExact /\ RH!RobinHoodOrder
  /\ LH!TypeOK /\ LH!CountersExact /\ LH!ChainsPacked

\* Every operation leaves a tree that keeps its rules: colours and black heights,
\* balances that are the differences of heights, fill and depth, links both ways.
Balanced == /\ RB!TypeOK /\ RB!IsRedBlack
            /\ AVL!TypeOK /\ AVL!IsBalanced
            /\ BT!TypeOK /\ BT!IsBTree

\* Iterators visit exactly what the tree holds, in order, from wherever they start.
\* In a B-tree, an insertion or a deletion moreover changes the one item it is for.
WalksInOrder == RB!WalkAscends /\ AVL!WalkAscends /\ BT!AnswersRight

\* What a client finds in the container, and how many keys the container counts.
Members == CASE kind = "hopscotch"  -> HT!Found
             [] kind = "robin_hood" -> RH!Found
             [] kind = "linear"     -> LH!Found
             [] kind = "rb_tree"    -> RB!Found(rb)
             [] kind = "avl_tree"   -> AVL!Found(avl)
             [] kind = "btree"      -> BT!Items
             [] OTHER               -> {}

Size == CASE kind \in {"hopscotch", "robin_hood"} -> otherEntries
          [] kind = "linear" -> num_items
          [] OTHER           -> Cardinality(Members)

Others == INSTANCE AbstractSet WITH
            Keys    <- TreeKeys \cup BTreeKeys \cup UNION {DOMAIN HopscotchHash, DOMAIN RobinHoodHash,
                                                           DOMAIN LinearHash},
            members <- Members, size <- Size

\* Each of the other containers implements a set, too: the probes, displacements,
\* rehashes, splits, rotations and merges of an operation add, lose or hide no more than
\* one key, or all in a call that empties it, and the count goes with them.  The hopscotch
\* table is excepted once a shrink had to try again.
OthersImplementSet ==
  Others!AbsInit /\ [][retried' \/ UNCHANGED <<Members, Size>> \/ Others!AbsNext]_setsVars
=============================================================================
