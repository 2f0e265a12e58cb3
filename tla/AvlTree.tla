------------------------------- MODULE AvlTree -------------------------------
(***************************************************************************)
(* avl_tree.c: insertion below a given parent and removal of a given node, *)
(* with the rotations that follow, as the client of tests/avl_tree.c calls *)
(* them.  The mark of a node is its balance, the height of its right       *)
(* subtree minus that of its left one.                                     *)
(***************************************************************************)
EXTENDS BinaryTree

VARIABLE tree

TypeOK == IsTree(tree, -1..1)

Init == tree = EmptyTree
-----------------------------------------------------------------------------
D2B(d) == 2 * d - 1
B2D(b) == (b + 1) \div 2

SingleRotate(t, p, d) ==
  LET c == t.kids[p][1 - d]
      b == IF t.mark[c] = 0 THEN D2B(1 - d) ELSE 0
  IN  SetMark(SetMark(Rotate(t, p, d), p, b), c, -b)

\* The inner grandchild becomes the parent of p and of p's child; which of them
\* leans outwards depends on how the grandchild leant.
DoubleRotate(t, p, d) ==
  LET c  == t.kids[p][1 - d]
      l  == t.kids[c][d]
      t1 == Attach(Attach(t, p, 1 - d, t.kids[l][d]), c, d, t.kids[l][1 - d])
      t2 == SetParent(ChangeChild(t1, p, l, t.parent[p]), l, t.parent[p])
      t3 == Attach(Attach(t2, l, d, p), l, 1 - d, c)
      outwards == t.mark[l] = D2B(1 - d)
  IN  [t3 EXCEPT !.mark = [@ EXCEPT ![l] = 0,
                                    ![p] = IF outwards THEN D2B(d) ELSE 0,
                                    ![c] = IF t.mark[l] = D2B(d) THEN D2B(1 - d) ELSE 0]]

\* Rotate to direction d at p, and the node that is in p's place now.
Rebalanced(t, p, d) ==
  LET c == t.kids[p][1 - d]
  IN  IF t.mark[c] = D2B(d) THEN [t |-> DoubleRotate(t, p, d), n |-> t.kids[c][d]]
      ELSE [t |-> SingleRotate(t, p, d), n |-> c]
-----------------------------------------------------------------------------
\* The subtree of p in direction d has grown by one.
RECURSIVE Grown(_, _, _)
Grown(t, p, d) ==
  IF t.mark[p] = D2B(1 - d) THEN SetMark(t, p, 0)
  ELSE IF t.mark[p] = D2B(d) THEN Rebalanced(t, p, 1 - d).t
  ELSE LET t1 == SetMark(t, p, D2B(d))
           g  == t.parent[p]
       IN  IF g = NULL THEN t1 ELSE Grown(t1, g, DirOfChild(t1, p, g))

InsertNode(t, n, p, d) ==
  IF p = NULL THEN [AddNode(t, n, NULL, 0) EXCEPT !.root = n]
  ELSE Grown(SetKid(AddNode(t, n, p, 0), p, d, n), p, d)

\* The subtree of p in direction d has shrunk by one.  A rotation at p ends it
\* when the other child was in balance.
RECURSIVE Shrunk(_, _, _)
Shrunk(t, p, d) ==
  IF t.mark[p] = 0 THEN SetMark(t, p, D2B(1 - d))
  ELSE LET heavy == t.mark[p] = D2B(1 - d)
           r == IF heavy THEN Rebalanced(t, p, d) ELSE [t |-> SetMark(t, p, 0), n |-> p]
           g == t.parent[p]
           sibling == t.kids[p][1 - d]
       IN  IF g = NULL \/ (heavy /\ t.mark[sibling] = 0) THEN r.t
           ELSE Shrunk(r.t, g, DirOfChild(r.t, r.n, g))

RemoveWithOneChild(t, n, c) ==
  LET p == t.parent[n]
      t1 == SetParent(ChangeChild(t, n, c, p), c, p)
  IN  IF p = NULL THEN t1 ELSE Shrunk(t1, p, DirOfChild(t, n, p))

\* The neighbour of n in its higher subtree takes its place and its balance: the
\* child itself when it has no subtree on the inner side, or else the innermost
\* node below it.
RemoveWithTwoChildren(t, n) ==
  LET side   == IF t.mark[n] = 0 THEN RIGHT ELSE B2D(t.mark[n])
      child  == t.kids[n][side]
      direct == t.kids[child][1 - side] = NULL
      d  == IF direct THEN side ELSE 1 - side
      c  == IF direct THEN child ELSE Farthest(t, child, d)
      t1 == Attach(Replace(t, n, c), c, 1 - d, t.kids[n][1 - d])
  IN  IF direct THEN Shrunk(t1, c, d)
      ELSE LET p  == t.parent[c]
               t2 == Attach(t1, p, d, t.kids[c][1 - d])
           IN  Shrunk(Attach(t2, c, d, t.kids[n][d]), p, d)

RemoveNode(t, n) ==
  IF t.kids[n][LEFT] = NULL THEN RemoveWithOneChild(t, n, t.kids[n][RIGHT])
  ELSE IF t.kids[n][RIGHT] = NULL THEN RemoveWithOneChild(t, n, t.kids[n][LEFT])
  ELSE RemoveWithTwoChildren(t, n)
-----------------------------------------------------------------------------
InsertKey(k) == LET at == Find(tree, k)
                IN  /\ at.node = NULL
                    /\ tree' = InsertNode(tree, k, at.parent, at.dir)
RemoveKey(k) == /\ Find(tree, k).node = k
                /\ tree' = FreeNode(RemoveNode(tree, k), k)

Operate == \E k \in Keys : InsertKey(k) \/ RemoveKey(k)
Spec    == Init /\ [][Operate]_tree
-----------------------------------------------------------------------------
RECURSIVE Height(_, _)
Height(t, n) == IF n = NULL THEN 0
                ELSE 1 + Max({Height(t, t.kids[n][d]) : d \in Directions})

\* The balance of every node is the difference of its subtrees' heights (TypeOK
\* bounds it), and a child knows its parent.
IsBalanced ==
  /\ LinksMatch(tree)
  /\ \A n \in NodesOf(tree) :
       tree.mark[n] = Height(tree, tree.kids[n][RIGHT]) - Height(tree, tree.kids[n][LEFT])

\* Following first and next visits all nodes in ascending order.
WalkAscends == LET w == Walk(tree) IN Ascends(w) /\ ToSet(w) = NodesOf(tree)
=============================================================================
