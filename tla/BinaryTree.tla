----------------------------- MODULE BinaryTree -----------------------------
(***************************************************************************)
(* What the red-black and the AVL tree share: nodes that the client embeds *)
(* in its things, linked to their parent and children, and the client's    *)
(* search (tests/rb_tree.c, tests/avl_tree.c).  A node is named by its     *)
(* key; a tree is a record whose functions have the nodes in the tree for  *)
(* their domain, so that a stale pointer cannot be followed.               *)
(***************************************************************************)
EXTENDS Integers, Sequences, FiniteSets, FiniteSetsExt, SequencesExt

CONSTANTS Keys,  \* the keys of the things, each with its node
          NULL

LEFT  == 0
RIGHT == 1
Directions == {LEFT, RIGHT}

\* mark is the colour of a node or its balance.
EmptyTree == [root |-> NULL, kids |-> <<>>, parent |-> <<>>, mark |-> <<>>]

NodesOf(t) == DOMAIN t.kids
Links(t)   == NodesOf(t) \cup {NULL}

IsTree(t, Marks) == /\ NodesOf(t) \subseteq Keys
                    /\ t.root \in Links(t)
                    /\ t.kids \in [NodesOf(t) -> [Directions -> Links(t)]]
                    /\ t.parent \in [NodesOf(t) -> Links(t)]
                    /\ t.mark \in [NodesOf(t) -> Marks]
-----------------------------------------------------------------------------
SetMark(t, n, x)   == [t EXCEPT !.mark[n] = x]
SetKid(t, p, d, c) == [t EXCEPT !.kids[p][d] = c]
SetParent(t, c, p) == IF c = NULL THEN t ELSE [t EXCEPT !.parent[c] = p]
Attach(t, p, d, c) == SetParent(SetKid(t, p, d, c), c, p)

DirOfChild(t, c, p) == IF c = t.kids[p][LEFT] THEN LEFT ELSE RIGHT

\* The link that leads to a node leads to another one from now on.
ChangeChild(t, old, new, p) ==
  IF p = NULL THEN [t EXCEPT !.root = new] ELSE SetKid(t, p, DirOfChild(t, old, p), new)

\* Node c takes the place of node n below n's parent, and n's mark.
Replace(t, n, c) ==
  [ChangeChild(t, n, c, t.parent[n]) EXCEPT !.parent[c] = t.parent[n], !.mark[c] = t.mark[n]]

\* Rotate to direction d at p: its child on the other side becomes its parent.
Rotate(t, p, d) ==
  LET c  == t.kids[p][1 - d]
      t1 == Attach(t, p, 1 - d, t.kids[c][d])
      t2 == SetParent(ChangeChild(t1, p, c, t.parent[p]), c, t.parent[p])
  IN  Attach(t2, c, d, p)

RECURSIVE Farthest(_, _, _)
Farthest(t, n, d) == IF t.kids[n][d] = NULL THEN n ELSE Farthest(t, t.kids[n][d], d)

AddNode(t, n, p, mark) ==
  LET d == NodesOf(t) \cup {n}
  IN  [t EXCEPT !.kids   = [m \in d |-> IF m = n THEN [x \in Directions |-> NULL] ELSE @[m]],
                !.parent = [m \in d |-> IF m = n THEN p ELSE @[m]],
                !.mark   = [m \in d |-> IF m = n THEN mark ELSE @[m]]]

\* The client frees a node it has removed.
FreeNode(t, n) ==
  LET d == NodesOf(t) \ {n}
  IN  [t EXCEPT !.kids   = [m \in d |-> @[m]],
                !.parent = [m \in d |-> @[m]],
                !.mark   = [m \in d |-> @[m]]]
-----------------------------------------------------------------------------
\* The client's search: the node with the key if there is one, and where it
\* was looked for last.
RECURSIVE FindFrom(_, _, _)
FindFrom(t, k, at) ==
  IF at.node \in {NULL, k} THEN at
  ELSE LET d == IF k < at.node THEN LEFT ELSE RIGHT
       IN  FindFrom(t, k, [node |-> t.kids[at.node][d], parent |-> at.node, dir |-> d])
Find(t, k) == FindFrom(t, k, [node |-> t.root, parent |-> NULL, dir |-> LEFT])

Found(t) == {k \in Keys : Find(t, k).node = k}

First(t) == IF t.root = NULL THEN NULL ELSE Farthest(t, t.root, LEFT)

RECURSIVE FirstAncestorOnTheRight(_, _)
FirstAncestorOnTheRight(t, n) ==
  LET p == t.parent[n]
  IN  IF p # NULL /\ n = t.kids[p][RIGHT] THEN FirstAncestorOnTheRight(t, p) ELSE p
Next(t, n) == IF t.kids[n][RIGHT] # NULL THEN Farthest(t, t.kids[n][RIGHT], LEFT)
              ELSE FirstAncestorOnTheRight(t, n)

\* What foreach visits, cut off after one node too many.
RECURSIVE WalkFrom(_, _, _)
WalkFrom(t, n, most) == IF n = NULL \/ most = 0 THEN <<>>
                        ELSE <<n>> \o WalkFrom(t, Next(t, n), most - 1)
Walk(t) == WalkFrom(t, First(t), Cardinality(Keys) + 1)

Ascends(s) == \A i \in 1..(Len(s) - 1) : s[i] < s[i+1]
LinksMatch(t) == /\ t.root # NULL => t.parent[t.root] = NULL
                 /\ \A n \in NodesOf(t), d \in Directions :
                      t.kids[n][d] # NULL => t.parent[t.kids[n][d]] = n
=============================================================================
