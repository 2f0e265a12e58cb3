---------------------------- MODULE RedBlackTree ----------------------------
(***************************************************************************)
(* rb_tree.c: insertion below a given parent and removal of a given node,  *)
(* with the repairs that follow, as the client of tests/rb_tree.c calls    *)
(* them.  NULL leaves count as black.                                      *)
(***************************************************************************)
EXTENDS BinaryTree

CONSTANTS RED, BLACK

VARIABLE tree

TypeOK == IsTree(tree, {RED, BLACK})

Init == tree = EmptyTree
-----------------------------------------------------------------------------
IsRed(t, n)         == t.mark[n] = RED
IsNullOrBlack(t, n) == n = NULL \/ t.mark[n] = BLACK

\* The red node n has a red parent p: two red generations below a red uncle
\* become black, otherwise one or two rotations end the repair.
RECURSIVE InsertRepair(_, _, _)
InsertRepair(t, n, p) ==
  IF ~IsRed(t, p) THEN t
  ELSE LET g == t.parent[p]
           d == DirOfChild(t, p, g)
           u == t.kids[g][1 - d]
       IN  IF IsNullOrBlack(t, u)
           THEN LET inner == n = t.kids[p][1 - d]
                    t1 == IF inner THEN Rotate(t, p, d) ELSE t
                    top == IF inner THEN n ELSE p
                IN  SetMark(SetMark(Rotate(t1, g, 1 - d), top, BLACK), g, RED)
           ELSE LET t1 == [t EXCEPT !.mark = [@ EXCEPT ![p] = BLACK, ![u] = BLACK, ![g] = RED]]
                IN  IF t.parent[g] = NULL THEN SetMark(t1, g, BLACK)
                    ELSE InsertRepair(t1, g, t.parent[g])

InsertNode(t, n, p, d) ==
  IF p = NULL THEN [AddNode(t, n, NULL, BLACK) EXCEPT !.root = n]
  ELSE InsertRepair(SetKid(AddNode(t, n, p, RED), p, d, n), n, p)
-----------------------------------------------------------------------------
KeepSibling(t, p, d, s) == t  \* Mutant: a red sibling is not rotated up.

\* A red sibling s changes places and colours with the parent.
LiftRedSibling(t, p, d, s) ==
  IF IsRed(t, s) THEN SetMark(SetMark(Rotate(t, p, d), s, t.mark[p]), p, RED) ELSE t

\* Below p, on the side d, one black node is missing: a red nephew is rotated
\* up to fill in for it.
BorrowFromSibling(t, p, d, s) ==
  LET t1  == IF IsNullOrBlack(t, t.kids[s][1 - d]) THEN Rotate(t, s, 1 - d) ELSE t
      top == t1.kids[p][1 - d]
      t2  == Rotate(t1, p, d)
  IN  [t2 EXCEPT !.mark = [@ EXCEPT ![top] = t1.mark[p], ![p] = BLACK,
                                    ![t2.kids[top][1 - d]] = BLACK]]

\* The child n of p, NULL at first, is the root of a subtree that is one black
\* node short.
RECURSIVE RemoveRepair(_, _, _)
RemoveRepair(t, n, p) ==
  LET d  == IF n = t.kids[p][RIGHT] THEN RIGHT ELSE LEFT
      t1 == LiftRedSibling(t, p, d, t.kids[p][1 - d])
      s  == t1.kids[p][1 - d]
  IN  IF \E x \in Directions : ~IsNullOrBlack(t1, t1.kids[s][x])
      THEN BorrowFromSibling(t1, p, d, s)
      ELSE LET t2 == SetMark(t1, s, RED)
           IN  IF IsRed(t2, p) THEN SetMark(t2, p, BLACK)
               ELSE IF t2.parent[p] = NULL THEN t2
               ELSE RemoveRepair(t2, p, t2.parent[p])

Repaired(t, p) == IF p = NULL THEN t ELSE RemoveRepair(t, NULL, p)

\* The only child of n, if any, takes its place and its colour.
RemoveWithOneChild(t, n, c) ==
  IF c # NULL THEN Replace(t, n, c)
  ELSE Repaired(ChangeChild(t, n, NULL, t.parent[n]), IF IsRed(t, n) THEN NULL ELSE t.parent[n])

\* The successor of n takes its place and its colour, and the successor's
\* right child the place of the successor.
RemoveWithTwoChildren(t, n) ==
  LET child == t.kids[n][RIGHT]
      s  == Farthest(t, child, LEFT)
      c2 == t.kids[s][RIGHT]
      p  == IF s = child THEN s ELSE t.parent[s]
      t1 == IF s = child THEN t ELSE Attach(SetKid(t, p, LEFT, c2), s, RIGHT, child)
      t2 == Attach(t1, s, LEFT, t.kids[n][LEFT])
      t3 == IF c2 = NULL THEN t2 ELSE SetMark(SetParent(t2, c2, p), c2, BLACK)
  IN  Repaired(Replace(t3, n, s), IF c2 = NULL /\ ~IsRed(t, s) THEN p ELSE NULL)

RemoveNode(t, n) ==
  IF t.kids[n][LEFT] = NULL THEN RemoveWithOneChild(t, n, t.kids[n][RIGHT])
  ELSE IF t.kids[n][RIGHT] = NULL THEN RemoveWithOneChild(t, n, t.kids[n][LEFT])
  ELSE RemoveWithTwoChildren(t, n)
-----------------------------------------------------------------------------
InsertKey(k) == LET at == Find(tree, k)
                IN  /\ at.node = NULL
                    /\ tree' = InsertNode(tree, k, at.parent, at.dir)
RemoveKey(k) == /\ Find(tree, k).node = k
                /\ tree' = FreeNode(RemoveNode(tree, k), k)

Operate == \E k \in Keys : InsertKey(k) \/ RemoveKey(k)
Spec    == Init /\ [][Operate]_tree
-----------------------------------------------------------------------------
RECURSIVE BlackHeights(_, _)
BlackHeights(t, n) ==
  IF n = NULL THEN {0}
  ELSE {h + (IF IsRed(t, n) THEN 0 ELSE 1) :
          h \in BlackHeights(t, t.kids[n][LEFT]) \cup BlackHeights(t, t.kids[n][RIGHT])}

\* The rules of a red-black tree, as the comment at the top of rb_tree.c and
\* check_tree of its test state them: no red node has a red child, all paths
\* down from the root have the same number of black nodes, the root is black,
\* and a child knows its parent.
IsRedBlack ==
  /\ LinksMatch(tree)
  /\ tree.root # NULL => ~IsRed(tree, tree.root)
  /\ \A n \in NodesOf(tree), d \in Directions :
       IsRed(tree, n) => IsNullOrBlack(tree, tree.kids[n][d])
  /\ Cardinality(BlackHeights(tree, tree.root)) = 1

\* Following first and next visits all nodes in ascending order.
WalkAscends == LET w == Walk(tree) IN Ascends(w) /\ ToSet(w) = NodesOf(tree)
=============================================================================
