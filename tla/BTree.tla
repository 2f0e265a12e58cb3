-------------------------------- MODULE BTree --------------------------------
(***************************************************************************)
(* btree.c with the sets that DEFINE_BTREE_SET of btree.h makes of it.     *)
(* A node is a record of its items and its children (none in a leaf), and  *)
(* an index counts from 0, as in the code.  A map's item has a value next  *)
(* to the key, which nothing here looks at.                                *)
(***************************************************************************)
EXTENDS Integers, Sequences, FiniteSets, FiniteSetsExt, SequencesExt

CONSTANTS Keys,   \* the items
          Infos,  \* the btree_infos of the sets the client may have defined
          NULL

VARIABLES info,  \* max_items and linear_search_threshold of the client's set
          tree   \* the root and the height

vars == <<info, tree>>

MinItems == info.max_items \div 2

EmptyTree == [root |-> NULL, height |-> 0]
Leaf(items) == [items |-> items, kids |-> <<>>]

KidAt(n, i)      == n.kids[i + 1]
SetKid(n, i, c)  == [n EXCEPT !.kids[i + 1] = c]
Part(s, a, b)    == IF s = <<>> THEN <<>> ELSE SubSeq(s, a, b)
AddKid(s, i, c)  == IF c = NULL THEN s ELSE InsertAt(s, i + 1, c)

TypeOK == info \in Infos /\ tree.height \in 0..31

Init == info \in Infos /\ tree = EmptyTree
-----------------------------------------------------------------------------
(* btree_node_search: the index of the key, or of the first greater item.    *)
(* Halve the range down to the threshold, then look from both ends of it.    *)
Answer(found, i) == [found |-> found, idx |-> i]

LastIsLess(s, k, end) == k >= s[end]  \* Mutant: beside the last item is behind it.
LastIsLower(s, k, end) == k > s[end]

RECURSIVE FromBothEnds(_, _, _, _)
FromBothEnds(s, k, start, end) ==
  IF start >= end \/ k < s[start + 1] THEN Answer(FALSE, start)
  ELSE IF k = s[start + 1] THEN Answer(TRUE, start)
  ELSE IF LastIsLower(s, k, end) THEN Answer(FALSE, end)
  ELSE IF k = s[end] THEN Answer(TRUE, end - 1)
  ELSE FromBothEnds(s, k, start + 1, end - 1)

RECURSIVE Narrow(_, _, _, _)
Narrow(s, k, start, end) ==
  LET mid == (start + end) \div 2
  IN  IF start + info.linear_search_threshold >= end
      THEN IF info.linear_search_threshold = 0 THEN Answer(FALSE, start)
           ELSE FromBothEnds(s, k, start, end)
      ELSE IF k = s[mid + 1] THEN Answer(TRUE, mid)
      ELSE IF k > s[mid + 1] THEN Narrow(s, k, mid + 1, end)
      ELSE Narrow(s, k, start, mid)

NodeSearch(n, k) == Narrow(n.items, k, 0, Len(n.items))

\* The indices on the way down to a key, or to the leaf where it would be.
RECURSIVE SearchPath(_, _, _)
SearchPath(n, h, k) ==
  LET r == NodeSearch(n, k)
  IN  IF r.found \/ h = 1 THEN [found |-> r.found, path |-> <<r.idx>>]
      ELSE LET below == SearchPath(KidAt(n, r.idx), h - 1, k)
           IN  [below EXCEPT !.path = <<r.idx>> \o @]

Find(t, k) == t.height > 0 /\ SearchPath(t.root, t.height, k).found
-----------------------------------------------------------------------------
PutBetween(n, i, item, right) ==
  [items |-> InsertAt(n.items, i + 1, item), kids |-> AddKid(n.kids, i + 1, right)]

(* An even max_items: a full node is split with the new item in it, which    *)
(* goes to the left half, becomes the median, or goes to the right half.     *)
SplitAndInsertLeft(n, i, item, right) ==
  LET m     == MinItems
      items == InsertAt(SubSeq(n.items, 1, m), i + 1, item)
      kids  == AddKid(Part(n.kids, 1, m + 1), i + 1, right)
  IN  [node   |-> [items |-> SubSeq(items, 1, m), kids |-> Part(kids, 1, m + 1)],
       median |-> items[m + 1],
       right  |-> [items |-> SubSeq(n.items, m + 1, 2 * m), kids |-> Part(n.kids, m + 1, 2 * m + 1)]]

SplitAtItem(n, item, right) ==
  LET m == MinItems
  IN  [node   |-> [items |-> SubSeq(n.items, 1, m), kids |-> Part(n.kids, 1, m + 1)],
       median |-> item,
       right  |-> [items |-> SubSeq(n.items, m + 1, 2 * m),
                   kids  |-> AddKid(Part(n.kids, m + 2, 2 * m + 1), 0, right)]]

SplitAndInsertRight(n, i, item, right) ==
  LET m == MinItems
  IN  [node   |-> [items |-> SubSeq(n.items, 1, m), kids |-> Part(n.kids, 1, m + 1)],
       median |-> n.items[m + 1],
       right  |-> [items |-> InsertAt(SubSeq(n.items, m + 2, 2 * m), i + 1, item),
                   kids  |-> AddKid(Part(n.kids, m + 2, 2 * m + 1), i + 1, right)]]

SplitAndInsert(n, i, item, right) ==
  IF i < MinItems THEN SplitAndInsertLeft(n, i, item, right)
  ELSE IF i = MinItems THEN SplitAtItem(n, item, right)
  ELSE SplitAndInsertRight(n, i - (MinItems + 1), item, right)

AddItem(n, i, item, right) ==
  IF Len(n.items) < info.max_items
  THEN [node |-> PutBetween(n, i, item, right), median |-> NULL, right |-> NULL]
  ELSE SplitAndInsert(n, i, item, right)

RECURSIVE InsertEven(_, _, _)
InsertEven(n, path, item) ==
  IF Len(path) = 1 THEN AddItem(n, path[1], item, NULL)
  ELSE LET r  == InsertEven(KidAt(n, path[1]), Tail(path), item)
           n1 == SetKid(n, path[1], r.node)
       IN  IF r.right = NULL THEN [r EXCEPT !.node = n1]
           ELSE AddItem(n1, path[1], r.median, r.right)

(* An odd max_items: the full nodes above the leaf, from the last one with   *)
(* room on, are split before the item goes in, from the top down.            *)
RECURSIVE AllFull(_, _)
AllFull(n, path) == /\ Len(n.items) = info.max_items
                    /\ Len(path) = 1 \/ AllFull(KidAt(n, path[1]), Tail(path))

Split(n) ==
  LET m == MinItems
  IN  [node   |-> [items |-> SubSeq(n.items, 1, m), kids |-> Part(n.kids, 1, m + 1)],
       median |-> n.items[m + 1],
       right  |-> [items |-> SubSeq(n.items, m + 2, 2 * m + 1),
                   kids  |-> Part(n.kids, m + 2, 2 * m + 2)]]

IndexInRightHalf(path) == [path EXCEPT ![1] = @ - MinItems - 1]

RECURSIVE InsertOdd(_, _, _)
InsertOdd(n, path, item) ==
  LET i == path[1]
  IN  IF Len(path) = 1 THEN PutBetween(n, i, item, NULL)
      ELSE IF ~AllFull(KidAt(n, i), Tail(path))
           THEN SetKid(n, i, InsertOdd(KidAt(n, i), Tail(path), item))
      ELSE LET s  == Split(KidAt(n, i))
               n1 == PutBetween(SetKid(n, i, s.node), i, s.median, s.right)
           IN  IF item < s.median
               THEN SetKid(n1, i, InsertOdd(s.node, Tail(path), item))
               ELSE SetKid(n1, i + 1, InsertOdd(s.right, IndexInRightHalf(Tail(path)), item))

InsertAlong(t, path, item) ==
  IF info.max_items % 2 = 1
  THEN IF AllFull(t.root, path)
       THEN [root   |-> InsertOdd([items |-> <<>>, kids |-> <<t.root>>], <<0>> \o path, item),
             height |-> t.height + 1]
       ELSE [t EXCEPT !.root = InsertOdd(@, path, item)]
  ELSE LET r == InsertEven(t.root, path, item)
       IN  IF r.right = NULL THEN [t EXCEPT !.root = r.node]
           ELSE [root   |-> [items |-> <<r.median>>, kids |-> <<r.node, r.right>>],
                 height |-> t.height + 1]

Inserted(t, item) ==
  IF t.height = 0 THEN [root |-> Leaf(<<item>>), height |-> 1]
  ELSE LET s == SearchPath(t.root, t.height, item)
       IN  IF s.found THEN t ELSE InsertAlong(t, s.path, item)

\* _btree_insert_sequential goes down on the right as long as the item is
\* greater than all others there.
RECURSIVE RightmostPath(_, _)
RightmostPath(n, h) == IF h = 1 THEN <<Len(n.items)>>
                       ELSE <<Len(n.items)>> \o RightmostPath(Last(n.kids), h - 1)
RECURSIVE IsBeyond(_, _, _)
IsBeyond(item, n, h) == /\ item > Last(n.items)
                        /\ h = 1 \/ IsBeyond(item, Last(n.kids), h - 1)

InsertedLast(t, item) ==
  IF t.height > 0 /\ IsBeyond(item, t.root, t.height)
  THEN InsertAlong(t, RightmostPath(t.root, t.height), item)
  ELSE Inserted(t, item)
-----------------------------------------------------------------------------
(* Deletion: the item leaves a leaf; nodes that become too small are merged  *)
(* with a neighbour or get an item from it, from the leaf up to the root.    *)
NumItems(n, i) == Len(KidAt(n, i).items)

Merge(n, i) ==
  LET left == KidAt(n, i)  right == KidAt(n, i + 1)
  IN  [items |-> RemoveAt(n.items, i + 1),
       kids  |-> RemoveAt([n.kids EXCEPT ![i + 1] =
                             [items |-> left.items \o <<n.items[i + 1]>> \o right.items,
                              kids  |-> left.kids \o right.kids]], i + 2)]

TakeFromLeft(n, i) ==
  LET left == KidAt(n, i)  right == KidAt(n, i + 1)
  IN  [items |-> [n.items EXCEPT ![i + 1] = Last(left.items)],
       kids  |-> [n.kids EXCEPT
                    ![i + 1] = [items |-> Front(left.items),
                                kids  |-> Part(left.kids, 1, Len(left.items))],
                    ![i + 2] = [items |-> <<n.items[i + 1]>> \o right.items,
                                kids  |-> Part(left.kids, Len(left.kids), Len(left.kids))
                                            \o right.kids]]]

TakeFromRight(n, i) ==
  LET left == KidAt(n, i)  right == KidAt(n, i + 1)
  IN  [items |-> [n.items EXCEPT ![i + 1] = Head(right.items)],
       kids  |-> [n.kids EXCEPT
                    ![i + 1] = [items |-> left.items \o <<n.items[i + 1]>>,
                                kids  |-> left.kids \o Part(right.kids, 1, 1)],
                    ![i + 2] = [items |-> Tail(right.items),
                                kids  |-> Part(right.kids, 2, Len(right.kids))]]]

Rebalance(n, i) ==
  LET Fits(j) == NumItems(n, j) + NumItems(n, j + 1) < info.max_items
      j == IF i = Len(n.items) \/ (i # 0 /\ Fits(i - 1)) THEN i - 1 ELSE i
  IN  IF NumItems(n, i) >= MinItems THEN n
      ELSE IF Fits(j) THEN Merge(n, j)
      ELSE IF NumItems(n, j) > NumItems(n, j + 1) THEN TakeFromLeft(n, j)
      ELSE TakeFromRight(n, j)

DeletionIndex(n, h, mode, k) ==
  CASE mode = "key" -> NodeSearch(n, k).idx
    [] mode = "min" -> 0
    [] mode = "max" -> IF h = 1 THEN Len(n.items) - 1 ELSE Len(n.items)

\* The node without the item, and the item.  One found above the leaves is
\* replaced by the greatest of its left subtree.
RECURSIVE DeleteFrom(_, _, _, _)
DeleteFrom(n, h, mode, k) ==
  LET i     == DeletionIndex(n, h, mode, k)
      found == mode = "key" /\ NodeSearch(n, k).found
  IN  IF h = 1
      THEN [node |-> [n EXCEPT !.items = RemoveAt(@, i + 1)], item |-> n.items[i + 1]]
      ELSE LET r  == DeleteFrom(KidAt(n, i), h - 1, IF found THEN "max" ELSE mode, k)
               n1 == SetKid(n, i, r.node)
           IN  IF found THEN [node |-> Rebalance([n1 EXCEPT !.items[i + 1] = r.item], i),
                              item |-> n.items[i + 1]]
               ELSE [node |-> Rebalance(n1, i), item |-> r.item]

Without(t, mode, k) ==
  LET n == DeleteFrom(t.root, t.height, mode, k).node
  IN  IF n.items # <<>> THEN [t EXCEPT !.root = n]
      ELSE [root |-> IF t.height > 1 THEN KidAt(n, 0) ELSE NULL, height |-> t.height - 1]
-----------------------------------------------------------------------------
Insert(k)           == tree' = Inserted(tree, k) /\ UNCHANGED info
InsertSequential(k) == tree' = InsertedLast(tree, k) /\ UNCHANGED info
Delete(k)           == Find(tree, k) /\ tree' = Without(tree, "key", k) /\ UNCHANGED info
DeleteMin           == tree.height > 0 /\ tree' = Without(tree, "min", NULL) /\ UNCHANGED info
DeleteMax           == tree.height > 0 /\ tree' = Without(tree, "max", NULL) /\ UNCHANGED info
Destroy             == tree' = EmptyTree /\ UNCHANGED info

Operate == \/ \E k \in Keys : Insert(k) \/ InsertSequential(k) \/ Delete(k)
           \/ DeleteMin \/ DeleteMax \/ Destroy
Spec    == Init /\ [][Operate]_vars
-----------------------------------------------------------------------------
(* Iterators: the nodes on the way down and an index into each; no node when *)
(* the iteration is over.                                                    *)
RECURSIVE Descend(_, _, _)
Descend(n, h, rightmost) ==
  LET i == IF rightmost THEN Len(n.items) ELSE 0
  IN  <<[node |-> n, idx |-> i]>>
        \o IF h = 1 THEN <<>> ELSE Descend(KidAt(n, i), h - 1, rightmost)

Step(it, by) == [it EXCEPT ![Len(it)].idx = @ + by]
Below(it, rightmost) ==
  IF Len(it) = tree.height THEN it
  ELSE it \o Descend(KidAt(Last(it).node, Last(it).idx), tree.height - Len(it), rightmost)

RECURSIVE UpWhileAtEnd(_)
UpWhileAtEnd(it) == IF it # <<>> /\ Last(it).idx >= Len(Last(it).node.items)
                    THEN UpWhileAtEnd(Front(it)) ELSE it
RECURSIVE UpWhileAtStart(_)
UpWhileAtStart(it) == IF it # <<>> /\ Last(it).idx = 0 THEN UpWhileAtStart(Front(it)) ELSE it

IterNext(it) == IF it = <<>> THEN it ELSE UpWhileAtEnd(Below(Step(it, 1), FALSE))
IterPrev(it) == IF it = <<>> THEN it
                ELSE LET up == UpWhileAtStart(Below(it, TRUE))
                     IN  IF up = <<>> THEN up ELSE Step(up, -1)

IterStart(rightmost) ==
  IF tree.height = 0 THEN <<>>
  ELSE LET it == Descend(tree.root, tree.height, rightmost)
       IN  IF rightmost THEN Step(it, -1) ELSE it

RECURSIVE PositionOf(_, _, _)
PositionOf(n, h, k) ==
  LET r == NodeSearch(n, k)
  IN  <<[node |-> n, idx |-> r.idx]>>
        \o IF r.found \/ h = 1 THEN <<>> ELSE PositionOf(KidAt(n, r.idx), h - 1, k)

Modes == {"find_key", "lower_inclusive", "lower_exclusive", "upper_inclusive", "upper_exclusive"}
IterStartAt(k, mode) ==
  IF tree.height = 0 THEN <<>>
  ELSE LET it == PositionOf(tree.root, tree.height, k)
           atEnd == Last(it).idx = Len(Last(it).node.items)
       IN  IF Find(tree, k)
           THEN CASE mode = "lower_exclusive" -> IterNext(it)
                  [] mode = "upper_exclusive" -> IterPrev(it)
                  [] OTHER -> it
           ELSE CASE mode = "find_key" -> <<>>
                  [] mode \in {"lower_inclusive", "lower_exclusive"} ->
                       IF atEnd THEN IterNext(it) ELSE it
                  [] mode \in {"upper_inclusive", "upper_exclusive"} -> IterPrev(it)

\* _btree_get_leftmost_rightmost, in a tree that is not empty.
RECURSIVE ItemAtEnd(_, _, _)
ItemAtEnd(n, h, leftmost) ==
  IF h > 1 THEN ItemAtEnd(IF leftmost THEN n.kids[1] ELSE Last(n.kids), h - 1, leftmost)
  ELSE IF leftmost THEN n.items[1] ELSE Last(n.items)

ItemAt(it) == IF it = <<>> THEN NULL ELSE Last(it).node.items[Last(it).idx + 1]
-----------------------------------------------------------------------------
RECURSIVE ItemsBelow(_)
ItemsBelow(n) == ToSet(n.items) \cup UNION {ItemsBelow(n.kids[i]) : i \in 1..Len(n.kids)}
ItemsOf(t) == IF t.height = 0 THEN {} ELSE ItemsBelow(t.root)
Items == ItemsOf(tree)

RECURSIVE IsNode(_, _, _)
IsNode(n, h, least) ==
  /\ Len(n.items) \in least..info.max_items
  /\ \A i \in 1..(Len(n.items) - 1) : n.items[i] < n.items[i + 1]
  /\ Len(n.kids) = IF h = 1 THEN 0 ELSE Len(n.items) + 1
  /\ \A i \in 1..Len(n.kids) : IsNode(n.kids[i], h - 1, MinItems)

\* What btree_check of the test looks at: the items of a node ascend, every
\* node but the root has at least min_items of them, and all leaves are at the
\* same depth.
IsBTree == IF tree.height = 0 THEN tree.root = NULL ELSE IsNode(tree.root, tree.height, 1)

LeastOf(S)    == IF S = {} THEN NULL ELSE Min(S)
GreatestOf(S) == IF S = {} THEN NULL ELSE Max(S)
Bound(held, k, mode) ==
  CASE mode = "find_key"        -> LeastOf(held \cap {k})
    [] mode = "lower_inclusive" -> LeastOf({x \in held : x >= k})
    [] mode = "lower_exclusive" -> LeastOf({x \in held : x > k})
    [] mode = "upper_inclusive" -> GreatestOf({x \in held : x <= k})
    [] mode = "upper_exclusive" -> GreatestOf({x \in held : x < k})

\* An iterator starts at either end or at the bound it is asked for, moves to the next
\* greater and the next smaller item from there, and back again.
IteratesRight(held) ==
  /\ ItemAt(IterStart(FALSE)) = LeastOf(held) /\ ItemAt(IterStart(TRUE)) = GreatestOf(held)
  /\ \A k \in Keys, mode \in Modes :
       LET it == IterStartAt(k, mode)  x == ItemAt(it)
       IN  /\ x = Bound(held, k, mode)
           /\ it # <<>> =>
                /\ ItemAt(IterNext(it)) = Bound(held, x, "lower_exclusive")
                /\ ItemAt(IterPrev(it)) = Bound(held, x, "upper_exclusive")
                /\ IterNext(it) # <<>> => IterPrev(IterNext(it)) = it

\* An insertion adds its item and no other; a deletion returns the item that it is
\* asked for and takes out no other.
ChangesRight(held) ==
  LET Deletes(mode, k, item) == LET r == DeleteFrom(tree.root, tree.height, mode, k)
                                IN  r.item = item /\ ItemsBelow(r.node) = held \ {item}
  IN  /\ \A k \in Keys \ held : /\ ItemsOf(Inserted(tree, k)) = held \cup {k}
                               /\ ItemsOf(InsertedLast(tree, k)) = held \cup {k}
      /\ \A k \in held : Deletes("key", k, k)
      /\ tree.height > 0 => /\ Deletes("min", NULL, Min(held))
                            /\ Deletes("max", NULL, Max(held))

\* A search from the root finds exactly what the nodes hold; iterators and changes
\* start from what it finds.
AnswersRight ==
  LET held == Items
  IN  /\ \A k \in Keys : Find(tree, k) <=> k \in held
      /\ IteratesRight(held)
      /\ ChangesRight(held)
      /\ tree.height > 0 => /\ ItemAtEnd(tree.root, tree.height, TRUE) = Min(held)
                            /\ ItemAtEnd(tree.root, tree.height, FALSE) = Max(held)
=============================================================================
