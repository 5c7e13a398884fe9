--------------------------- MODULE RbTree_proofs ---------------------------
(***************************************************************************)
(* Proofs about RbTree, for any nodes and keys, of sets and multisets.     *)
(*                                                                         *)
(* RedBlackTree is not inductive: between two calls it says that the tree  *)
(* is balanced, and nothing in the middle of one; and it speaks of walks,  *)
(* which are recursive.  The invariant TreeOK says what the loops need.    *)
(* The links form a tree (Shape) whose ways down end (Ranking), in erase   *)
(* and insert too.  In the loop of insert the node is red and the only one *)
(* that may have a red parent (Reds, with the node for its exception).  In *)
(* the loop of erase one side of the parent lacks one black node (Heights, *)
(* with the parent), which is why there is a sibling.  While clear takes   *)
(* the tree apart its links still are those of a tree (Hangs).             *)
(*                                                                         *)
(* The code writes each case twice, once for each side.  A View is a tree  *)
(* as seen from one side: four functions, to the children on that side, to *)
(* those on the other, to the parents and to the colors.  What a rotation  *)
(* does is proved for these functions and carried over to the fields.      *)
(***************************************************************************)
EXTENDS RbTree, FiniteSetTheorems, NaturalsInduction, WellFoundedInduction, TLAPS

(* What the nodes of t refer to, as functions on the nodes. *)
Links(t, side) == [m \in DOMAIN t |-> t[m][side]]
Parents(t) == [m \in DOMAIN t |-> t[m].parent]
Colors(t) == [m \in DOMAIN t |-> t[m].color]

(* A and B lead down, to the children on one side and on the other, and P  *)
(* leads up: the children of a node are two, each has it for its parent,   *)
(* and the root is what has none.                                          *)
Shape(S, A, B, P, root) ==
  /\ Null \notin S
  /\ A \in [S -> S \union {Null}]
  /\ B \in [S -> S \union {Null}]
  /\ P \in [S -> S \union {Null}]
  /\ root \in S \union {Null}
  /\ \A m \in S : A[m] # Null => P[A[m]] = m /\ A[m] # B[m]
  /\ \A m \in S : B[m] # Null => P[B[m]] = m
  /\ \A m \in S : P[m] # Null => A[P[m]] = m \/ B[P[m]] = m
  /\ \A m \in S : P[m] = Null <=> m = root

(* Every way down ends: ranks fall along it. *)
Ranking(S, A, B, r) ==
  /\ r \in [S -> Nat]
  /\ \A m \in S : A[m] # Null => r[A[m]] < r[m]
  /\ \A m \in S : B[m] # Null => r[B[m]] < r[m]

(* A rotation makes y the parent of x, whose child on the side of B it is, *)
(* on the side of A.                                                       *)
Rotated(S, A, B, P, root, x, y, A1, B1, P1, root1) ==
  /\ A1 = [m \in S |-> IF m = y THEN x ELSE IF A[m] = x THEN y ELSE A[m]]
  /\ B1 = [m \in S |-> IF m = x THEN A[y] ELSE IF B[m] = x THEN y ELSE B[m]]
  /\ P1 = [m \in S |-> IF m = A[y] THEN x ELSE IF m = y THEN P[x]
                       ELSE IF m = x THEN y ELSE P[m]]
  /\ root1 = IF P[x] = Null THEN y ELSE root

(* The black height below a link, where z lacks a black node on one side. *)
At(h, m) == IF m = Null THEN 1 ELSE h[m]
Lack(m, z) == IF m = z THEN 1 ELSE 0
Black(C, m) == IF C[m] = "black" THEN 1 ELSE 0

(* All ways down from a node meet the same number of black nodes, but that *)
(* the ways from za along A, and from zb along B, meet one less.           *)
Heights(S, A, B, C, za, zb, h) ==
  /\ h \in [S -> Nat \ {0}]
  /\ \A m \in S : At(h, A[m]) + Lack(m, za) = At(h, B[m]) + Lack(m, zb)
  /\ \A m \in S : h[m] = At(h, A[m]) + Lack(m, za) + Black(C, m)

(* No red node has a red child other than e. *)
Reds(S, A, B, C, e) ==
  \A m \in S : C[m] = "red" =>
    /\ A[m] # Null /\ C[A[m]] = "red" => A[m] = e
    /\ B[m] # Null /\ C[B[m]] = "red" => B[m] = e

(* What a rotation does to the colors. *)
Swapped(S, C, x, y, C1) ==
  C1 = [m \in S |-> IF m = y THEN C[x] ELSE IF m = x THEN C[y] ELSE C[m]]

(* Two rotations that bring z, the child of y on the side of A, to the     *)
(* place of x.                                                             *)
DoubleRotated(S, A, B, P, root, x, y, z, A1, B1, P1, root1) ==
  /\ A1 = [m \in S |-> IF m = z THEN x ELSE IF m = y THEN B[z]
                       ELSE IF A[m] = x THEN z ELSE A[m]]
  /\ B1 = [m \in S |-> IF m = x THEN A[z] ELSE IF m = z THEN y
                       ELSE IF B[m] = x THEN z ELSE B[m]]
  /\ P1 = [m \in S |-> IF m = A[z] THEN x ELSE IF m = B[z] THEN y
                       ELSE IF m = z THEN P[x]
                       ELSE IF m = x \/ m = y THEN z ELSE P[m]]
  /\ root1 = IF P[x] = Null THEN z ELSE root

(* Taking out a node with at most one child, which takes its place. *)
Unlinked(S, A, B, P, root, n, A1, B1, P1, root1) ==
  LET c == IF A[n] = Null THEN B[n] ELSE A[n]
  IN /\ A1 = [m \in S \ {n} |-> IF A[m] = n THEN c ELSE A[m]]
     /\ B1 = [m \in S \ {n} |-> IF B[m] = n THEN c ELSE B[m]]
     /\ P1 = [m \in S \ {n} |-> IF m = c THEN P[n] ELSE P[m]]
     /\ root1 = IF P[n] = Null THEN c ELSE root

(* The parent of n if n hangs there on the side of A. *)
Above(A, P, n) == IF P[n] # Null /\ A[P[n]] = n THEN P[n] ELSE Null

(* Two nodes trade their places. *)
Relabeled(S, A, B, P, root, C, f, A1, B1, P1, root1, C1) ==
  /\ A1 = [m \in S |-> f[A[f[m]]]]
  /\ B1 = [m \in S |-> f[B[f[m]]]]
  /\ P1 = [m \in S |-> f[P[f[m]]]]
  /\ C1 = [m \in S |-> C[f[m]]]
  /\ root1 = f[root]

Involution(S, f) ==
  /\ f \in [S \union {Null} -> S \union {Null}]
  /\ f[Null] = Null
  /\ \A m \in S : f[m] \in S /\ f[f[m]] = m

(* What t is when seen from one side: A leads to that side. All of the     *)
(* algorithm is written for one side and holds of the other.               *)
View(S, t, side, A, B, P, C) ==
  /\ t \in [S -> Fields]
  /\ side \in Side
  /\ A = [m \in S |-> t[m][side]]
  /\ B = [m \in S |-> t[m][Other(side)]]
  /\ P = [m \in S |-> t[m].parent]
  /\ C = [m \in S |-> t[m].color]

(* The writes of the code, which are skipped for a null pointer. *)
Put(f, n, v) == IF n = Null THEN f ELSE [f EXCEPT ![n] = v]
WithLink(t, p, side, c) == [t EXCEPT ![p][side] = c]
WithColor(t, p, color) == [t EXCEPT ![p].color = color]
Swing(f, p, old, new) == IF p # Null /\ f[p] = old THEN [f EXCEPT ![p] = new] ELSE f

(* The trees that the steps of insert and erase leave behind, write by     *)
(* write.                                                                  *)
RotatedTree(t, side, x, y, moved, color) ==
  RotateSetParents(
    SetParentColor(WithLink(WithLink(t, x, Other(side), moved), y, side, x), moved, x, "black"),
    x, y, color)

InsertInner(t, s, x, y, z, orphan, moved) ==
  LET t1 == WithLink(WithLink(t, y, s, orphan), z, Other(s), y)
      t2 == SetParentColor(SetParentColor(t1, orphan, y, "black"), y, z, "red")
      t3 == WithLink(WithLink(t2, x, Other(s), moved), z, s, x)
  IN RotateSetParents(SetParentColor(t3, moved, x, "black"), x, z, "red")

EraseInner(t, s, x, y, z, orphan, moved) ==
  LET t1 == WithLink(WithLink(WithLink(t, y, s, orphan), z, Other(s), y), x, Other(s), z)
      t2 == SetParentColor(t1, orphan, y, "black")
      t3 == WithLink(WithLink(t2, x, Other(s), moved), z, s, x)
      t4 == SetParent(SetParentColor(t3, y, z, "black"), moved, x)
  IN RotateSetParents(t4, x, z, "black")

EraseOuter(t, s, x, y, outer, moved) ==
  LET t3 == WithLink(WithLink(t, x, Other(s), moved), y, s, x)
      t4 == SetParent(SetParentColor(t3, outer, y, "black"), moved, x)
  IN RotateSetParents(t4, x, y, "black")

(* The parts of the invariant, said of the fields of the nodes. *)
TShape(t, root) == Shape(DOMAIN t, Links(t, "left"), Links(t, "right"), Parents(t), root)
TRanked(t) == \E r : Ranking(DOMAIN t, Links(t, "left"), Links(t, "right"), r)
TEven(t) == \E h : Heights(DOMAIN t, Links(t, "left"), Links(t, "right"), Colors(t), Null, Null, h)
TReds(t, e) == Reds(DOMAIN t, Links(t, "left"), Links(t, "right"), Colors(t), e)
TLacks(t, p, side) ==
  \E h : Heights(DOMAIN t, Links(t, side), Links(t, Other(side)), Colors(t), p, Null, h)

(* What the lemmas below assume, under one name each. *)
TwiceOK(S, A, B, P, root, x, y, z, r, A1, B1, P1, A2, B2, P2, root2) ==
  /\ Shape(S, A, B, P, root) /\ Ranking(S, A, B, r) /\ y = B[x] /\ z = A[y]
  /\ Rotated(S, B, A, P, root, y, z, B1, A1, P1, root)
  /\ DoubleRotated(S, A, B, P, root, x, y, z, A2, B2, P2, root2)

FixOK(S, A, B, P, root, x, y, z, r, C, C1, A1, B1, P1, root1, h) ==
  /\ Shape(S, A, B, P, root) /\ Ranking(S, A, B, r) /\ y = B[x] /\ z = B[y]
  /\ Rotated(S, A, B, P, root, x, y, A1, B1, P1, root1)
  /\ C \in [S -> {"red", "black"}]
  /\ Heights(S, A, B, C, x, Null, h) /\ C[y] = "black" /\ C[z] = "red"
  /\ Reds(S, A, B, C, A[x])
  /\ C1 = [m \in S |-> IF m = y THEN C[x] ELSE IF m = x \/ m = z THEN "black" ELSE C[m]]

RecolorOK(S, A, B, P, root, C, h, r, g, p, u, e, C1) ==
  /\ Shape(S, A, B, P, root) /\ Ranking(S, A, B, r) /\ C \in [S -> {"red", "black"}]
  /\ Heights(S, A, B, C, Null, Null, h) /\ Reds(S, A, B, C, e)
  /\ p = A[g] /\ u = B[g] /\ C[p] = "red" /\ C[u] = "red" /\ P[e] = p
  /\ C1 = [m \in S |-> IF m = g THEN "red" ELSE IF m = p \/ m = u THEN "black" ELSE C[m]]

FlipOK(S, A, B, P, root, C, h, r, x, y, C1) ==
  /\ Shape(S, A, B, P, root) /\ Ranking(S, A, B, r) /\ C \in [S -> {"red", "black"}]
  /\ Heights(S, A, B, C, x, Null, h) /\ Reds(S, A, B, C, A[x])
  /\ y = B[x] /\ C[y] = "black"
  /\ A[y] # Null => C[A[y]] = "black"
  /\ B[y] # Null => C[B[y]] = "black"
  /\ C1 = [m \in S |-> IF m = y THEN "red" ELSE IF m = x THEN "black" ELSE C[m]]

(* f leads from every place to the value at the end of its way. *)
Leads(S, next, stop, val, f) ==
  f = [p \in S |-> IF p \in stop THEN val[p] ELSE f[next[p]]]

Descends(S, next, stop, r) ==
  /\ r \in [S -> Nat]
  /\ \A p \in S \ stop : next[p] \in S /\ r[next[p]] < r[p]

Below(S, r, n) == {p \in S : r[p] < n}

(* w gives for every place the nodes below it in the order of the links. *)
Walks(S, A, B, w) ==
  w = [n \in S \union {Null} |->
         IF n = Null THEN <<>> ELSE w[A[n]] \o <<n>> \o w[B[n]]]

UnlinkOK(S, A, B, P, root, n, r, C, h, A1, B1, P1, C1, root1, h1) ==
  /\ Shape(S, A, B, P, root) /\ Ranking(S, A, B, r) /\ (A[n] = Null \/ B[n] = Null)
  /\ Unlinked(S, A, B, P, root, n, A1, B1, P1, root1)
  /\ C \in [S -> {"red", "black"}] /\ Heights(S, A, B, C, Null, Null, h) /\ Reds(S, A, B, C, Null)
  /\ C1 = [m \in S \ {n} |-> C[m]]
  /\ h1 = [m \in S \ {n} |-> h[m]]

(* The child of a node that has one. *)
Spare(A, B, n) == IF A[n] = Null THEN B[n] ELSE A[n]

(* The writes of erase for a node n with two children, whose place s       *)
(* takes.                                                                  *)
DoubleTree(t, n, s, child, above, parent) ==
  LET t1 == SetParent(t, child, parent)
      u == IF above = n THEN t1
           ELSE [t1 EXCEPT ![above].left = child,
                           ![s].right = t[n].right,
                           ![t[n].right].parent = s]
      v == [u EXCEPT ![s].left = t[n].left,
                     ![s].parent = t[n].parent,
                     ![s].color = t[n].color,
                     ![t[n].left].parent = s]
  IN ReplaceChild(v, t[n].parent, n, s)

Trade(S, n, s) ==
  [m \in S \union {Null} |-> IF m = n THEN s ELSE IF m = s THEN n ELSE m]

(* s is the successor of n, which has two children. *)
DoubleOK(S, A, B, P, root, r, n, s, child, above, parent) ==
  /\ Shape(S, A, B, P, root) /\ Ranking(S, A, B, r)
  /\ n \in S /\ A[n] # Null /\ B[n] # Null
  /\ s \in S /\ A[s] = Null /\ s # n
  /\ child = B[s] /\ above \in S /\ above = P[s]
  /\ parent = IF above = n THEN s ELSE above
  /\ r[s] < r[n]
  /\ above # n => A[above] = s /\ r[above] < r[n]
  /\ above = n => s = B[n]

DoubleLinks(S, A, B, P, C, n, s, child, above, parent, A2, B2, P2, C2) ==
  /\ A2 = [m \in S |-> IF m = s THEN A[n] ELSE IF above # n /\ m = above THEN child
                       ELSE IF A[m] = n THEN s ELSE A[m]]
  /\ B2 = [m \in S |-> IF above # n /\ m = s THEN B[n] ELSE IF B[m] = n THEN s ELSE B[m]]
  /\ P2 = [m \in S |-> IF m = A[n] THEN s ELSE IF m = s THEN P[n]
                       ELSE IF above # n /\ m = B[n] THEN s
                       ELSE IF m = child THEN parent ELSE P[m]]
  /\ C2 = [m \in S |-> IF m = s THEN C[n] ELSE C[m]]

TradeOK(S, A, B, P, C, root, r, n, s, child, above, parent, f, A1, B1, P1, C1, root1,
        A2, B2, P2, C2, A3, B3, P3, C3, root3) ==
  /\ DoubleOK(S, A, B, P, root, r, n, s, child, above, parent)
  /\ C = [m \in S |-> C[m]]
  /\ f = Trade(S, n, s)
  /\ Relabeled(S, A, B, P, root, C, f, A1, B1, P1, root1, C1)
  /\ DoubleLinks(S, A, B, P, C, n, s, child, above, parent, A2, B2, P2, C2)
  /\ A3 = [m \in S \ {n} |-> A2[m]]
  /\ B3 = [m \in S \ {n} |-> B2[m]]
  /\ P3 = [m \in S \ {n} |-> P2[m]]
  /\ C3 = [m \in S \ {n} |-> C2[m]]
  /\ root3 = IF P[n] = Null THEN s ELSE root

DoubleUnlinkedOK(S, t, A, B, P, C, root, r, n, s, child, above, parent, h, v, root3) ==
  /\ View(S, t, "left", A, B, P, C) /\ S \subseteq Node
  /\ DoubleOK(S, A, B, P, root, r, n, s, child, above, parent)
  /\ Heights(S, A, B, C, Null, Null, h) /\ Reds(S, A, B, C, Null)
  /\ v = [m \in S \ {n} |-> DoubleTree(t, n, s, child, above, parent)[m]]
  /\ root3 = IF P[n] = Null THEN s ELSE root

(* What erase finds after a node was unlinked whose place had the color. *)
LostBlack(S, v, parent, child) ==
  /\ parent \in S
  /\ TReds(v, child)
  /\ \E d \in Side : v[parent][d] = child /\ TLacks(v, parent, d)

UnlinkedTree(S, v, root, color, parent, child) ==
  /\ v \in [S -> Fields]
  /\ TShape(v, root)
  /\ TRanked(v)
  /\ color = "red" => TEven(v) /\ TReds(v, Null)
  /\ color = "black" => LostBlack(S, v, parent, child)

(* After the trade n is unlinked from the place of its successor. *)
TradeDone(S, A1, B1, P1, C1, root1, n, A3, B3, P3, C3, root3) ==
  /\ Unlinked(S, A1, B1, P1, root1, n, A3, B3, P3, root3)
  /\ C3 = [m \in S \ {n} |-> C1[m]]

(* The links of t form a tree below root; clear lets the parents go. *)
Hangs(t, root) ==
  \E Q : Shape(DOMAIN t, Links(t, "left"), Links(t, "right"), Q, root)

RootRotated(S, A, B, x, y, A1, B1) ==
  /\ A1 = [m \in S |-> IF m = y THEN x ELSE A[m]]
  /\ B1 = [m \in S |-> IF m = x THEN A[y] ELSE B[m]]

(* The links of a tree below root, with some parents. *)
Grows(S, A, B, root) ==
  /\ \E P : Shape(S, A, B, P, root)
  /\ \E r : Ranking(S, A, B, r)

TurnedUp(t, x, y, c) == [t EXCEPT ![x].left = c, ![y].right = x]

(* The side of p on which n is looked for. *)
SideOf(t, p, n) == IF n # t[p].right THEN "left" ELSE "right"

(* What holds in every state, in the middle of clear as well. *)
WellFormed(t) ==
  /\ t \in [DOMAIN t -> Fields]
  /\ DOMAIN t \subseteq Node
  /\ IsFiniteSet(DOMAIN t)
  /\ TRanked(t)

(* The inductive invariant, over the values of the variables. *)
TreeOK(t, root, size, step, n, p) ==
  /\ WellFormed(t)
  /\ root \in Node \union {Null}
  /\ size \in Nat
  /\ step \in {"idle", "insert", "erase", "clear", "insert_fault"}
  /\ n \in Node \union {Null}
  /\ p \in Node \union {Null}
  /\ step = "clear" => Hangs(t, n)
  /\ step # "clear" => TShape(t, root)
  /\ step = "idle" => /\ TEven(t) /\ TReds(t, Null)
                      /\ size = Cardinality(DOMAIN t)
  /\ step = "insert" => /\ TEven(t) /\ TReds(t, n)
                        /\ n \in DOMAIN t /\ t[n].color = "red" /\ p = t[n].parent
                        /\ size + 1 = Cardinality(DOMAIN t)
  /\ step = "erase" => /\ LostBlack(DOMAIN t, t, p, n)
                       /\ size = Cardinality(DOMAIN t) + 1

(* What the steps of insert and erase find when they begin, seen from one  *)
(* side, and what they leave.                                              *)
RecolorHyp(S, t, side, root, g, p, u, n) ==
  /\ S \subseteq Node /\ t \in [S -> Fields] /\ side \in Side
  /\ g \in S /\ p \in S /\ p = t[g][side] /\ u \in S /\ u = t[g][Other(side)]
  /\ n \in S /\ t[n].parent = p
  /\ TShape(t, root) /\ TRanked(t) /\ TEven(t) /\ TReds(t, n)
  /\ t[p].color = "red" /\ t[u].color = "red"

RedBlack(S, t, root, e) ==
  t \in [S -> Fields] /\ TShape(t, root) /\ TRanked(t) /\ TEven(t) /\ TReds(t, e)

InsertHyp(S, t, side, root, x, y, z) ==
  /\ S \subseteq Node /\ t \in [S -> Fields] /\ side \in Side
  /\ x \in S /\ y \in S /\ y = t[x][Other(side)] /\ z \in S
  /\ TShape(t, root) /\ TRanked(t) /\ TEven(t) /\ TReds(t, z)
  /\ t[y].color = "red" /\ t[z].color = "red"
  /\ t[x][side] # Null => t[t[x][side]].color = "black"

EraseHyp(S, t, side, root, x, y) ==
  /\ S \subseteq Node /\ t \in [S -> Fields] /\ side \in Side
  /\ x \in S /\ y \in S /\ y = t[x][Other(side)]
  /\ TShape(t, root) /\ TRanked(t) /\ TLacks(t, x, side) /\ TReds(t, t[x][side])

LeafHyp(S, A, B, P, root, n, p, r, A1, B1, P1) ==
  /\ p \in S /\ n \notin S /\ n # Null /\ A[p] = Null
  /\ Shape(S, A, B, P, root) /\ Ranking(S, A, B, r)
  /\ A1 = [m \in S \union {n} |-> IF m = n THEN Null ELSE IF m = p THEN n ELSE A[m]]
  /\ B1 = [m \in S \union {n} |-> IF m = n THEN Null ELSE B[m]]
  /\ P1 = [m \in S \union {n} |-> IF m = n THEN p ELSE P[m]]

LeafHeightsHyp(S, A, B, P, root, n, p, C, h, A1, B1, C1) ==
  /\ p \in S /\ n \notin S /\ n # Null /\ A[p] = Null
  /\ Shape(S, A, B, P, root)
  /\ Heights(S, A, B, C, Null, Null, h) /\ Reds(S, A, B, C, Null)
  /\ A1 = [m \in S \union {n} |-> IF m = n THEN Null ELSE IF m = p THEN n ELSE A[m]]
  /\ B1 = [m \in S \union {n} |-> IF m = n THEN Null ELSE B[m]]
  /\ C1 = [m \in S \union {n} |-> IF m = n THEN "red" ELSE C[m]]

HeightsHyp(S, A, B, P, root, x, y, r, C, C1, A1, B1, P1, root1, h, za, zb) ==
  /\ x \in S /\ y \in S
  /\ Shape(S, A, B, P, root) /\ Ranking(S, A, B, r) /\ y = B[x]
  /\ Rotated(S, A, B, P, root, x, y, A1, B1, P1, root1)
  /\ C \in [S -> {"red", "black"}]
  /\ Swapped(S, C, x, y, C1) /\ Heights(S, A, B, C, za, zb, h)
  /\ C[y] = "red" /\ y # za /\ y # zb /\ x # zb

RedsHyp(S, A, B, P, root, x, y, r, C, C1, A1, B1, P1, root1, e, f) ==
  /\ x \in S /\ y \in S
  /\ Shape(S, A, B, P, root) /\ Ranking(S, A, B, r) /\ y = B[x]
  /\ Rotated(S, A, B, P, root, x, y, A1, B1, P1, root1)
  /\ C \in [S -> {"red", "black"}]
  /\ Swapped(S, C, x, y, C1) /\ Reds(S, A, B, C, e)
  /\ C[x] = "black" /\ C[y] = "red"
  /\ A[y] # Null => A[y] # e
  /\ f = e \/ e = B[y]
  /\ A[x] # Null /\ C[A[x]] = "red" => A[x] = f

Kept(S, t, u, k, d) == u \in [S -> Fields] /\ u[k][d] = t[k][d]

(* A node as insert links it. *)
Fresh(p) == [left |-> Null, right |-> Null, parent |-> p, color |-> "red"]

Grown(S, t, n, p) == [m \in S \union {n} |-> IF m = n THEN Fresh(p) ELSE t[m]]

GrownOK(S, v, root, n, p) ==
  RedBlack(S \union {n}, v, root, n) /\ v[n].color = "red" /\ v[n].parent = p

(* Finding and turning three nodes of which the middle one comes up. *)
InnerOK(S, t, side, A, B, P, C, root, r, x, y, z, orphan, moved) ==
  /\ View(S, t, side, A, B, P, C) /\ Shape(S, A, B, P, root) /\ Ranking(S, A, B, r) /\ S \subseteq Node
  /\ x \in S /\ y \in S /\ y = B[x] /\ z \in S /\ z = A[y]
  /\ orphan = B[z] /\ moved = A[z]

InsertTurned(S, A, B, P, root, C, x, y, z, A2, B2, P2, C2, root2) ==
  /\ DoubleRotated(S, A, B, P, root, x, y, z, A2, B2, P2, root2)
  /\ C2 = [m \in S |-> IF m = x THEN "red" ELSE IF m = z THEN C[x]
                       ELSE IF m = y THEN "red"
                       ELSE IF m \in {B[z], A[z]} THEN "black" ELSE C[m]]

EraseTurned(S, A, B, P, root, C, x, y, z, A2, B2, P2, C2, root2) ==
  /\ DoubleRotated(S, A, B, P, root, x, y, z, A2, B2, P2, root2)
  /\ C2 = [m \in S |-> IF m = x THEN "black" ELSE IF m = z THEN C[x]
                       ELSE IF m = y \/ m = B[z] THEN "black" ELSE C[m]]

InsertInnerHyp(S, A, B, P, root, r, h, C, x, y, z) ==
  /\ Shape(S, A, B, P, root) /\ Ranking(S, A, B, r) /\ C \in [S -> {"red", "black"}]
  /\ Heights(S, A, B, C, Null, Null, h) /\ Reds(S, A, B, C, z)
  /\ x \in S /\ y \in S /\ z \in S /\ y = B[x] /\ z = A[y] /\ C[y] = "red" /\ C[z] = "red"
  /\ A[x] # Null => C[A[x]] = "black"

EraseInnerHyp(S, A, B, P, root, r, h, C, x, y, z) ==
  /\ Shape(S, A, B, P, root) /\ Ranking(S, A, B, r) /\ C \in [S -> {"red", "black"}]
  /\ Heights(S, A, B, C, x, Null, h) /\ Reds(S, A, B, C, A[x])
  /\ x \in S /\ y \in S /\ z \in S /\ y = B[x] /\ z = A[y] /\ C[y] = "black" /\ C[z] = "red"
  /\ B[y] # Null => C[B[y]] = "black"

(* A rotation of y and z, towards the side of B, seen from the other side. *)
MirrorHyp(S, A, B, P, root, r, y, z, A1, B1, P1) ==
  /\ Shape(S, A, B, P, root) /\ Ranking(S, A, B, r)
  /\ y \in S /\ z \in S /\ z = A[y]
  /\ Rotated(S, B, A, P, root, y, z, B1, A1, P1, root)

MirrorColors(S, A, B, C, C1, h, y, z, za, zb) ==
  /\ C \in [S -> {"red", "black"}] /\ Swapped(S, C, y, z, C1)
  /\ Heights(S, A, B, C, za, zb, h)
  /\ C[z] = "red" /\ z # za /\ z # zb /\ y # za

Sound(S, A, B, P, root, C) ==
  /\ Shape(S, A, B, P, root)
  /\ \E r : Ranking(S, A, B, r)
  /\ \E h : Heights(S, A, B, C, Null, Null, h)
  /\ Reds(S, A, B, C, Null)

(* What is left of a tree from which n, with at most one child, was taken. *)
UnlinkHyp(S, v, A, B, P, root, n, r, C, h, A1, B1, P1, C1, root1) ==
  /\ View(S \ {n}, v, "left", A1, B1, P1, C1)
  /\ Shape(S, A, B, P, root) /\ Ranking(S, A, B, r) /\ n \in S /\ (A[n] = Null \/ B[n] = Null)
  /\ Unlinked(S, A, B, P, root, n, A1, B1, P1, root1)
  /\ C \in [S -> {"red", "black"}] /\ Heights(S, A, B, C, Null, Null, h) /\ Reds(S, A, B, C, Null)
  /\ C1 = [m \in S \ {n} |-> C[m]]

SingleOK(S, v, root, color, parent, child) ==
  /\ TShape(v, root)
  /\ TRanked(v)
  /\ color = "red" \/ parent = Null => TEven(v) /\ TReds(v, Null)
  /\ color = "black" /\ parent # Null => LostBlack(S, v, parent, child)

-----------------------------------------------------------------------------
(* What a rotation does to links that form a tree, to the ranks, to black  *)
(* heights and to red nodes.                                               *)
LEMMA RotateShape ==
  ASSUME NEW S, NEW A, NEW B, NEW P, NEW root, NEW x \in S, NEW y \in S, NEW r,
         NEW A1, NEW B1, NEW P1, NEW root1,
         Shape(S, A, B, P, root), Ranking(S, A, B, r), y = B[x],
         Rotated(S, A, B, P, root, x, y, A1, B1, P1, root1)
  PROVE  Shape(S, A1, B1, P1, root1)
<1>1. /\ A[y] # x /\ A[y] # y /\ x # y /\ P[x] # x /\ P[x] # y /\ A[x] # x
      /\ B[y] # x /\ B[y] # y /\ A[x] # y
  BY DEF Shape, Ranking
<1>2. /\ A1 \in [S -> S \union {Null}]
      /\ B1 \in [S -> S \union {Null}]
      /\ P1 \in [S -> S \union {Null}]
      /\ root1 \in S \union {Null}
  BY DEF Shape, Rotated
<1>3. \A m \in S : A1[m] # Null => P1[A1[m]] = m /\ A1[m] # B1[m]
  BY <1>1 DEF Shape, Rotated
<1>4. \A m \in S : B1[m] # Null => P1[B1[m]] = m
  BY <1>1 DEF Shape, Rotated
<1>5. \A m \in S : P1[m] # Null => A1[P1[m]] = m \/ B1[P1[m]] = m
  BY <1>1 DEF Shape, Rotated
<1>6. \A m \in S : P1[m] = Null <=> m = root1
  BY <1>1 DEF Shape, Rotated
<1> QED BY <1>2, <1>3, <1>4, <1>5, <1>6 DEF Shape

LEMMA RotateRanking ==
  ASSUME NEW S, NEW A, NEW B, NEW P, NEW root, NEW x \in S, NEW y \in S, NEW r,
         NEW A1, NEW B1, NEW P1, NEW root1, Shape(S, A, B, P, root), Ranking(S, A, B, r), y = B[x],
         Rotated(S, A, B, P, root, x, y, A1, B1, P1, root1)
  PROVE  \E q : Ranking(S, A1, B1, q)
<1> SUFFICES ASSUME NEW q, q = [m \in S |-> IF m = y THEN 2 * r[x] + 1 ELSE 2 * r[m]]
             PROVE  Ranking(S, A1, B1, q)
  OBVIOUS
<1>1. q \in [S -> Nat]
  BY DEF Ranking
<1>2. \A m \in S : A1[m] # Null => q[A1[m]] < q[m]
  BY DEF Ranking, Shape, Rotated
<1>3. \A m \in S : B1[m] # Null => q[B1[m]] < q[m]
  BY DEF Ranking, Shape, Rotated
<1> QED BY <1>1, <1>2, <1>3 DEF Ranking

LEMMA RotateHeights ==
  ASSUME NEW S, NEW A, NEW B, NEW P, NEW root, NEW x \in S, NEW y \in S, NEW r, NEW C, NEW C1,
         NEW A1, NEW B1, NEW P1, NEW root1, NEW h, NEW za, NEW zb,
         Shape(S, A, B, P, root), Ranking(S, A, B, r), y = B[x],
         Rotated(S, A, B, P, root, x, y, A1, B1, P1, root1),
         C \in [S -> {"red", "black"}],
         Swapped(S, C, x, y, C1), Heights(S, A, B, C, za, zb, h),
         C[y] = "red", y # za, y # zb, x # zb
  PROVE  \E h1 : Heights(S, A1, B1, C1, za, zb, h1)
<1> SUFFICES ASSUME NEW h1, h1 = [m \in S |-> IF m = y THEN h[x] ELSE IF m = x THEN At(h, B[y]) ELSE h[m]]
             PROVE  Heights(S, A1, B1, C1, za, zb, h1)
  OBVIOUS
<1>1. /\ A[y] # x /\ A[y] # y /\ x # y /\ A[x] # x
      /\ B[y] # x /\ B[y] # y /\ A[x] # y
  BY DEF Shape, Ranking
<1>2. h1 \in [S -> Nat \ {0}]
  BY DEF Shape, Heights, At
<1>3. /\ At(h, A[y]) = At(h, B[y]) /\ h[y] = At(h, B[y])
      /\ At(h, A[x]) + Lack(x, za) = h[y]
      /\ h[x] = h[y] + Black(C, x)
  BY <1>1 DEF Shape, Heights, At, Lack, Black
<1>4. \A m \in S : /\ A1[m] = IF m = y THEN x ELSE IF A[m] = x THEN y ELSE A[m]
                   /\ B1[m] = IF m = x THEN A[y] ELSE IF B[m] = x THEN y ELSE B[m]
                   /\ C1[m] = IF m = y THEN C[x] ELSE IF m = x THEN C[y] ELSE C[m]
  BY DEF Rotated, Swapped
<1>5. ASSUME NEW m \in S, m # x, m # y
      PROVE  At(h1, A1[m]) = At(h, A[m]) /\ At(h1, B1[m]) = At(h, B[m])
  BY <1>1, <1>4, <1>5 DEF Shape, At
<1>6. At(h1, A1[x]) = At(h, A[x]) /\ At(h1, B1[x]) = At(h, A[y])
  BY <1>1, <1>4 DEF Shape, At
<1>7. At(h1, A1[y]) = h1[x] /\ At(h1, B1[y]) = At(h, B[y])
  BY <1>1, <1>4 DEF Shape, At
<1>8. ASSUME NEW m \in S
      PROVE  /\ At(h1, A1[m]) + Lack(m, za) = At(h1, B1[m]) + Lack(m, zb)
             /\ h1[m] = At(h1, A1[m]) + Lack(m, za) + Black(C1, m)
  <2>1. CASE m = x
    BY <1>1, <1>2, <1>3, <1>4, <1>6, <2>1 DEF Heights, Lack, Black
  <2>2. CASE m = y
    BY <1>1, <1>2, <1>3, <1>4, <1>7, <2>2 DEF Heights, Lack, Black
  <2>3. CASE m # x /\ m # y
    BY <1>4, <1>5, <2>3 DEF Heights, Black
  <2> QED BY <2>1, <2>2, <2>3
<1> QED BY <1>2, <1>8 DEF Heights

LEMMA RotateHeightsOf ==
  ASSUME NEW S, NEW A, NEW B, NEW P, NEW root, NEW x, NEW y, NEW r, NEW C, NEW C1,
         NEW A1, NEW B1, NEW P1, NEW root1, NEW h, NEW za, NEW zb,
         HeightsHyp(S, A, B, P, root, x, y, r, C, C1, A1, B1, P1, root1, h, za, zb)
  PROVE  \E h1 : Heights(S, A1, B1, C1, za, zb, h1)
BY RotateHeights DEF HeightsHyp

LEMMA RotateFixes ==
  ASSUME NEW S, NEW A, NEW B, NEW P, NEW root, NEW x \in S, NEW y \in S, NEW r, NEW C, NEW C1,
         NEW A1, NEW B1, NEW P1, NEW root1, NEW h, NEW z \in S,
         Shape(S, A, B, P, root), Ranking(S, A, B, r), y = B[x],
         Rotated(S, A, B, P, root, x, y, A1, B1, P1, root1),
         C \in [S -> {"red", "black"}], z = B[y], C[z] = "red",
         C1 = [m \in S |-> IF m = y THEN C[x] ELSE IF m = x \/ m = z THEN "black" ELSE C[m]],
         Heights(S, A, B, C, x, Null, h),
         C[y] = "black"
  PROVE  \E h1 : Heights(S, A1, B1, C1, Null, Null, h1)
<1>0. PICK h1 : /\ h1 = [m \in S |-> h1[m]]
                /\ \A m \in S : h1[m] = IF m = y THEN h[x] ELSE IF m = x \/ m = z THEN h[y] ELSE h[m]
  <2> DEFINE f == [m \in S |-> IF m = y THEN h[x] ELSE IF m = x \/ m = z THEN h[y] ELSE h[m]]
  <2>1. f = [m \in S |-> f[m]] /\ \A m \in S : f[m] = IF m = y THEN h[x] ELSE IF m = x \/ m = z THEN h[y] ELSE h[m]
    OBVIOUS
  <2> QED BY <2>1
<1>1. /\ A[y] # x /\ A[y] # y /\ x # y /\ A[x] # x
      /\ z # x /\ z # y /\ A[x] # y /\ A[x] # z /\ A[y] # z /\ A[z] # x /\ A[z] # y /\ A[z] # z
      /\ B[z] # x /\ B[z] # y /\ B[z] # z
  BY DEF Shape, Ranking
<1>2. h1 \in [S -> Nat \ {0}]
  <2>1. \A m \in S : h1[m] \in Nat \ {0}
    BY <1>0 DEF Shape, Heights, At
  <2> QED BY <1>0, <2>1
<1>3. /\ At(h, A[y]) = h[z] /\ h[y] = h[z] + 1
      /\ At(h, A[x]) + 1 = h[y]
      /\ h[x] = h[y] + Black(C, x)
      /\ At(h, A[z]) = h[z] /\ At(h, B[z]) = h[z]
  BY <1>1 DEF Shape, Heights, At, Lack, Black
<1>4. \A m \in S : /\ A1[m] = IF m = y THEN x ELSE IF A[m] = x THEN y ELSE A[m]
                   /\ B1[m] = IF m = x THEN A[y] ELSE IF B[m] = x THEN y ELSE B[m]
                   /\ C1[m] = IF m = y THEN C[x] ELSE IF m = x \/ m = z THEN "black" ELSE C[m]
  BY DEF Rotated
<1>5. ASSUME NEW m \in S, m # x, m # y
      PROVE  At(h1, A1[m]) = At(h, A[m]) /\ At(h1, B1[m]) = At(h, B[m])
  BY <1>0, <1>1, <1>4, <1>5 DEF Shape, At
<1>6. At(h1, A1[x]) = At(h, A[x]) /\ At(h1, B1[x]) = At(h, A[y])
  BY <1>0, <1>1, <1>4 DEF Shape, At
<1>7. At(h1, A1[y]) = h[y] /\ At(h1, B1[y]) = h[y]
  BY <1>0, <1>1, <1>4 DEF Shape, At
<1>8. ASSUME NEW m \in S
      PROVE  /\ At(h1, A1[m]) + Lack(m, Null) = At(h1, B1[m]) + Lack(m, Null)
             /\ h1[m] = At(h1, A1[m]) + Lack(m, Null) + Black(C1, m)
  <2>0. Lack(m, Null) = 0 /\ h[m] \in Nat /\ h[x] \in Nat /\ h[y] \in Nat /\ h[z] \in Nat
         /\ At(h, A[x]) \in Nat
    BY DEF Shape, Lack, Heights, At
  <2>9. /\ Black(C1, x) = 1 /\ Black(C1, z) = 1 /\ Black(C1, y) = Black(C, x) /\ Black(C, x) \in Nat
        /\ h1[x] = h[y] /\ h1[y] = h[x] /\ h1[z] = h[y]
    BY <1>0, <1>1, <1>4 DEF Black
  <2>1. CASE m = x
    <3>1. At(h1, A1[x]) + 1 = h[y] /\ At(h1, B1[x]) + 1 = h[y] /\ At(h1, A1[x]) \in Nat /\ At(h1, B1[x]) \in Nat
      BY <1>3, <1>6, <2>0
    <3>2. At(h1, A1[x]) + 0 = At(h1, B1[x]) + 0 /\ h1[x] = At(h1, A1[x]) + 0 + Black(C1, x)
      BY <2>0, <2>9, <3>1
    <3> QED BY <2>0, <2>1, <3>2
  <2>2. CASE m = y
    <3>1. At(h1, A1[y]) + 0 = At(h1, B1[y]) + 0 /\ h1[y] = At(h1, A1[y]) + 0 + Black(C1, y)
      BY <1>3, <1>7, <2>0, <2>9
    <3> QED BY <2>0, <2>2, <3>1
  <2>4. CASE m = z
    <3>1. At(h1, A1[z]) = h[z] /\ At(h1, B1[z]) = h[z]
      BY <1>1, <1>3, <1>5
    <3>2. At(h1, A1[z]) + 0 = At(h1, B1[z]) + 0 /\ h1[z] = At(h1, A1[z]) + 0 + Black(C1, z)
      BY <1>3, <2>0, <2>9, <3>1
    <3> QED BY <2>0, <2>4, <3>2
  <2>3. CASE m # x /\ m # y /\ m # z
    <3>1. Lack(m, x) = 0
      BY <2>3 DEF Lack
    <3> QED BY <1>0, <1>4, <1>5, <2>3, <2>0, <3>1 DEF Heights, Black
  <2> QED BY <2>1, <2>2, <2>3, <2>4
<1> QED BY <1>2, <1>8 DEF Heights

LEMMA RotateReds ==
  ASSUME NEW S, NEW A, NEW B, NEW P, NEW root, NEW x, NEW y, NEW r, NEW C, NEW C1,
         NEW A1, NEW B1, NEW P1, NEW root1, NEW e, NEW f,
         RedsHyp(S, A, B, P, root, x, y, r, C, C1, A1, B1, P1, root1, e, f)
  PROVE  Reds(S, A1, B1, C1, f)
<1> USE DEF RedsHyp
<1>1. /\ A[y] # x /\ A[y] # y /\ x # y /\ A[x] # x
      /\ B[y] # x /\ B[y] # y /\ A[x] # y
  BY DEF Shape, Ranking
<1>4. \A m \in S : /\ A1[m] = IF m = y THEN x ELSE IF A[m] = x THEN y ELSE A[m]
                   /\ B1[m] = IF m = x THEN A[y] ELSE IF B[m] = x THEN y ELSE B[m]
                   /\ C1[m] = IF m = y THEN C[x] ELSE IF m = x THEN C[y] ELSE C[m]
  BY DEF Rotated, Swapped
<1>2. ASSUME NEW m \in S, C1[m] = "red"
      PROVE  /\ A1[m] # Null /\ C1[A1[m]] = "red" => A1[m] = f
             /\ B1[m] # Null /\ C1[B1[m]] = "red" => B1[m] = f
  <2>1. CASE m = x
    BY <1>1, <1>2, <1>4, <2>1 DEF Shape, Reds
  <2>2. CASE m # x
    <3>1. m # y /\ C[m] = "red"
      BY <1>2, <1>4, <2>2
    <3>2. A[m] # Null /\ C[A[m]] = "red" => A[m] = e /\ (f = e \/ m = y)
      BY <1>1, <2>2, <3>1 DEF Shape, Reds
    <3>3. B[m] # Null /\ C[B[m]] = "red" => B[m] = e /\ (f = e \/ m = y)
      BY <1>1, <2>2, <3>1 DEF Shape, Reds
    <3> QED BY <1>1, <1>4, <2>2, <3>1, <3>2, <3>3 DEF Shape
  <2> QED BY <2>1, <2>2
<1> QED BY <1>2 DEF Reds

LEMMA RotateRedsInward ==
  ASSUME NEW S, NEW A, NEW B, NEW P, NEW root, NEW x \in S, NEW y \in S, NEW r, NEW C, NEW C1,
         NEW A1, NEW B1, NEW P1, NEW root1,
         Shape(S, A, B, P, root), Ranking(S, A, B, r), y = B[x],
         Rotated(S, A, B, P, root, x, y, A1, B1, P1, root1),
         C \in [S -> {"red", "black"}],
         Swapped(S, C, x, y, C1), Reds(S, A, B, C, y),
         C[x] = "red", C[y] = "red"
  PROVE  Reds(S, A1, B1, C1, x)
<1>1. /\ A[y] # x /\ A[y] # y /\ x # y /\ A[x] # x
      /\ B[y] # x /\ B[y] # y /\ A[x] # y
  BY DEF Shape, Ranking
<1>4. \A m \in S : /\ A1[m] = IF m = y THEN x ELSE IF A[m] = x THEN y ELSE A[m]
                   /\ B1[m] = IF m = x THEN A[y] ELSE IF B[m] = x THEN y ELSE B[m]
                   /\ C1[m] = C[m]
  BY DEF Rotated, Swapped
<1>2. ASSUME NEW m \in S, C1[m] = "red"
      PROVE  /\ A1[m] # Null /\ C1[A1[m]] = "red" => A1[m] = x
             /\ B1[m] # Null /\ C1[B1[m]] = "red" => B1[m] = x
  BY <1>1, <1>2, <1>4 DEF Shape, Reds
<1> QED BY <1>2 DEF Reds

LEMMA RotateFixesReds ==
  ASSUME NEW S, NEW A, NEW B, NEW P, NEW root, NEW x \in S, NEW y \in S, NEW r, NEW C, NEW C1,
         NEW A1, NEW B1, NEW P1, NEW root1, NEW z \in S, NEW e,
         Shape(S, A, B, P, root), Ranking(S, A, B, r), y = B[x],
         Rotated(S, A, B, P, root, x, y, A1, B1, P1, root1),
         C \in [S -> {"red", "black"}], z = B[y],
         C1 = [m \in S |-> IF m = y THEN C[x] ELSE IF m = x \/ m = z THEN "black" ELSE C[m]],
         e = A[x], C[y] = "black", Reds(S, A, B, C, e)
  PROVE  Reds(S, A1, B1, C1, Null)
<1>1. /\ A[y] # x /\ A[y] # y /\ x # y /\ A[x] # x
      /\ B[y] # x /\ B[y] # y /\ A[x] # y
  BY DEF Shape, Ranking
<1>4. \A m \in S : /\ A1[m] = IF m = y THEN x ELSE IF A[m] = x THEN y ELSE A[m]
                   /\ B1[m] = IF m = x THEN A[y] ELSE IF B[m] = x THEN y ELSE B[m]
                   /\ C1[m] = IF m = y THEN C[x] ELSE IF m = x \/ m = z THEN "black" ELSE C[m]
  BY DEF Rotated
<1>2. ASSUME NEW m \in S, C1[m] = "red"
      PROVE  /\ A1[m] # Null /\ C1[A1[m]] = "red" => A1[m] = Null
             /\ B1[m] # Null /\ C1[B1[m]] = "red" => B1[m] = Null
  <2>1. CASE m = y
    BY <1>1, <1>2, <1>4, <2>1 DEF Shape, Reds
  <2>2. CASE m # y
    <3>1. m # x /\ m # z /\ C[m] = "red"
      BY <1>2, <1>4, <2>2
    <3> QED BY <1>1, <1>4, <2>2, <3>1 DEF Shape, Reds
  <2> QED BY <2>1, <2>2
<1> QED BY <1>2 DEF Reds

-----------------------------------------------------------------------------
(* A double rotation is two rotations; unlinking a node that has at most   *)
(* one child.                                                              *)
LEMMA DoubleIsTwice ==
  ASSUME NEW S, NEW A, NEW B, NEW P, NEW root, NEW x \in S, NEW y \in S, NEW z \in S, NEW r,
         NEW A1, NEW B1, NEW P1, NEW A2, NEW B2, NEW P2, NEW root2,
         Shape(S, A, B, P, root), Ranking(S, A, B, r), y = B[x], z = A[y],
         Rotated(S, B, A, P, root, y, z, B1, A1, P1, root),
         DoubleRotated(S, A, B, P, root, x, y, z, A2, B2, P2, root2)
  PROVE  Rotated(S, A1, B1, P1, root, x, z, A2, B2, P2, root2) /\ B1[x] = z
<1>1. /\ A[y] # x /\ A[y] # y /\ x # y /\ A[x] # x /\ z # x /\ z # y
      /\ B[y] # x /\ B[y] # y /\ A[x] # y /\ A[z] # x /\ A[z] # y /\ A[z] # z
      /\ B[z] # x /\ B[z] # y /\ B[z] # z /\ P[x] # x /\ P[x] # y /\ P[x] # z
      /\ P[y] = x /\ P[z] = y
  BY DEF Shape, Ranking
<1>2. \A m \in S : /\ A1[m] = IF m = y THEN B[z] ELSE A[m]
                   /\ B1[m] = IF m = z THEN y ELSE IF m = x THEN z ELSE B[m]
                   /\ P1[m] = IF m = B[z] THEN y ELSE IF m = z THEN x ELSE IF m = y THEN z ELSE P[m]
  BY <1>1 DEF Shape, Rotated
<1>3. A2 = [m \in S |-> IF m = z THEN x ELSE IF A1[m] = x THEN z ELSE A1[m]]
  <2>1. A2 = [m \in S |-> IF m = z THEN x ELSE IF m = y THEN B[z]
                       ELSE IF A[m] = x THEN z ELSE A[m]]
    BY DEF DoubleRotated
  <2>2. \A m \in S : (IF m = z THEN x ELSE IF m = y THEN B[z]
                       ELSE IF A[m] = x THEN z ELSE A[m])
           = IF m = z THEN x ELSE IF A1[m] = x THEN z ELSE A1[m]
    BY <1>1, <1>2 DEF Shape
  <2> QED BY <2>1, <2>2
<1>4. B2 = [m \in S |-> IF m = x THEN A1[z] ELSE IF B1[m] = x THEN z ELSE B1[m]]
  <2>1. B2 = [m \in S |-> IF m = x THEN A[z] ELSE IF m = z THEN y
                       ELSE IF B[m] = x THEN z ELSE B[m]]
    BY DEF DoubleRotated
  <2>2. \A m \in S : (IF m = x THEN A[z] ELSE IF m = z THEN y
                       ELSE IF B[m] = x THEN z ELSE B[m])
           = IF m = x THEN A1[z] ELSE IF B1[m] = x THEN z ELSE B1[m]
    BY <1>1, <1>2 DEF Shape
  <2> QED BY <2>1, <2>2
<1>5. P2 = [m \in S |-> IF m = A1[z] THEN x ELSE IF m = z THEN P1[x]
                       ELSE IF m = x THEN z ELSE P1[m]]
  <2>1. P2 = [m \in S |-> IF m = A[z] THEN x ELSE IF m = B[z] THEN y
                       ELSE IF m = z THEN P[x]
                       ELSE IF m = x \/ m = y THEN z ELSE P[m]]
    BY DEF DoubleRotated
  <2>2. \A m \in S : (IF m = A[z] THEN x ELSE IF m = B[z] THEN y
                       ELSE IF m = z THEN P[x]
                       ELSE IF m = x \/ m = y THEN z ELSE P[m])
           = IF m = A1[z] THEN x ELSE IF m = z THEN P1[x]
                       ELSE IF m = x THEN z ELSE P1[m]
    BY <1>1, <1>2 DEF Shape
  <2> QED BY <2>1, <2>2
<1>6. root2 = IF P1[x] = Null THEN z ELSE root
  BY <1>1, <1>2 DEF Shape, DoubleRotated
<1> QED BY <1>1, <1>2, <1>3, <1>4, <1>5, <1>6 DEF Rotated

LEMMA UnlinkShape ==
  ASSUME NEW S, NEW A, NEW B, NEW P, NEW root, NEW n \in S, NEW r,
         NEW A1, NEW B1, NEW P1, NEW root1,
         Shape(S, A, B, P, root), Ranking(S, A, B, r), A[n] = Null \/ B[n] = Null,
         Unlinked(S, A, B, P, root, n, A1, B1, P1, root1)
  PROVE  Shape(S \ {n}, A1, B1, P1, root1)
<1> DEFINE c == IF A[n] = Null THEN B[n] ELSE A[n]
<1>1. (c # n /\ P[n] # n /\ P[n] # c) \/ P[n] = Null
  BY DEF Shape, Ranking
<1>2. /\ A1 = [m \in S \ {n} |-> IF A[m] = n THEN c ELSE A[m]]
      /\ B1 = [m \in S \ {n} |-> IF B[m] = n THEN c ELSE B[m]]
      /\ P1 = [m \in S \ {n} |-> IF m = c THEN P[n] ELSE P[m]]
      /\ root1 = IF P[n] = Null THEN c ELSE root
  BY DEF Unlinked
<1>3. c \in (S \ {n}) \union {Null} /\ (c # Null => P[c] = n)
      /\ \A m \in S : P[m] = n => m = c
  BY DEF Shape, Ranking
<1> HIDE DEF c
<1>4. /\ A1 \in [S \ {n} -> (S \ {n}) \union {Null}]
      /\ B1 \in [S \ {n} -> (S \ {n}) \union {Null}]
  BY <1>2, <1>3 DEF Shape
<1>5. /\ P1 \in [S \ {n} -> (S \ {n}) \union {Null}]
      /\ root1 \in (S \ {n}) \union {Null}
  BY <1>1, <1>2, <1>3 DEF Shape, Ranking
<1>6. \A m \in S \ {n} : A1[m] # Null => P1[A1[m]] = m /\ A1[m] # B1[m]
  BY <1>1, <1>2, <1>3 DEF Shape
<1>7. \A m \in S \ {n} : B1[m] # Null => P1[B1[m]] = m
  BY <1>1, <1>2, <1>3 DEF Shape
<1>8. \A m \in S \ {n} : P1[m] # Null => A1[P1[m]] = m \/ B1[P1[m]] = m
  BY <1>1, <1>2, <1>3 DEF Shape, Ranking
<1>9. \A m \in S \ {n} : P1[m] = Null <=> m = root1
  BY <1>1, <1>2, <1>3 DEF Shape
<1> QED BY <1>4, <1>5, <1>6, <1>7, <1>8, <1>9 DEF Shape

LEMMA UnlinkRanking ==
  ASSUME NEW S, NEW A, NEW B, NEW P, NEW root, NEW n \in S, NEW r, NEW A1, NEW B1, NEW P1, NEW root1,
         Shape(S, A, B, P, root), Ranking(S, A, B, r), A[n] = Null \/ B[n] = Null,
         Unlinked(S, A, B, P, root, n, A1, B1, P1, root1)
  PROVE  \E q : Ranking(S \ {n}, A1, B1, q)
<1> SUFFICES ASSUME NEW q, q = [m \in S \ {n} |-> r[m]]
             PROVE  Ranking(S \ {n}, A1, B1, q)
  OBVIOUS
<1> DEFINE c == IF A[n] = Null THEN B[n] ELSE A[n]
<1>2. /\ A1 = [m \in S \ {n} |-> IF A[m] = n THEN c ELSE A[m]]
      /\ B1 = [m \in S \ {n} |-> IF B[m] = n THEN c ELSE B[m]]
  BY DEF Unlinked
<1>3. c # Null => c \in S \ {n} /\ r[c] < r[n]
  BY DEF Shape, Ranking
<1> HIDE DEF c
<1>4. \A m \in S : r[m] \in Nat /\ A[m] \in S \union {Null} /\ B[m] \in S \union {Null}
  BY DEF Shape, Ranking
<1>5. ASSUME NEW m \in S \ {n}
      PROVE  /\ A1[m] # Null => q[A1[m]] < q[m]
             /\ B1[m] # Null => q[B1[m]] < q[m]
  <2>1. /\ A[m] = n => r[n] < r[m]
        /\ B[m] = n => r[n] < r[m]
        /\ A[m] # Null => A[m] \in S /\ r[A[m]] < r[m]
        /\ B[m] # Null => B[m] \in S /\ r[B[m]] < r[m]
    BY <1>4 DEF Ranking, Shape
  <2>2. /\ A[m] = n => A1[m] = c
        /\ A[m] # n => A1[m] = A[m]
        /\ B[m] = n => B1[m] = c
        /\ B[m] # n => B1[m] = B[m]
    BY <1>2
  <2>3. \A k \in S \ {n} : q[k] = r[k]
    OBVIOUS
  <2> QED BY <1>3, <1>4, <2>1, <2>2, <2>3
<1>6. q \in [S \ {n} -> Nat]
  BY <1>4
<1> QED BY <1>5, <1>6 DEF Ranking

LEMMA UnlinkHeightsAt ==
  ASSUME NEW S, NEW A, NEW B, NEW P, NEW root, NEW n \in S, NEW r, NEW C, NEW h, NEW C1, NEW h1,
         NEW A1, NEW B1, NEW P1, NEW root1,
         UnlinkOK(S, A, B, P, root, n, r, C, h, A1, B1, P1, C1, root1, h1)
  PROVE  /\ C[n] = "red" => Heights(S \ {n}, A1, B1, C1, Null, Null, h1) /\ Reds(S \ {n}, A1, B1, C1, Null)
         /\ C[n] = "black" => /\ Heights(S \ {n}, A1, B1, C1, Above(A, P, n), Above(B, P, n), h1)
                              /\ Reds(S \ {n}, A1, B1, C1, Spare(A, B, n))
<1> USE DEF UnlinkOK, Spare
<1> DEFINE c == IF A[n] = Null THEN B[n] ELSE A[n]
<1>2. /\ A1 = [m \in S \ {n} |-> IF A[m] = n THEN c ELSE A[m]]
      /\ B1 = [m \in S \ {n} |-> IF B[m] = n THEN c ELSE B[m]]
      /\ P1 = [m \in S \ {n} |-> IF m = c THEN P[n] ELSE P[m]]
      /\ root1 = IF P[n] = Null THEN c ELSE root
  BY DEF Unlinked
<1>3. c \in (S \ {n}) \union {Null} /\ (c # Null => P[c] = n)
      /\ \A m \in S : P[m] = n => m = c
  BY DEF Shape, Ranking
<1>4. /\ h[n] = At(h, c) + Black(C, n)
      /\ C[n] = "red" => c = Null
      /\ At(h, c) \in Nat
  BY DEF Heights, At, Black, Lack, Reds, Shape
<1> HIDE DEF c
<1>5. h1 \in [S \ {n} -> Nat \ {0}] /\ h \in [S -> Nat \ {0}]
  BY DEF Heights
<1>6. ASSUME NEW m \in S \ {n}
      PROVE  /\ A[m] # n => At(h1, A1[m]) = At(h, A[m])
             /\ B[m] # n => At(h1, B1[m]) = At(h, B[m])
             /\ A[m] = n => At(h1, A1[m]) = At(h, c) /\ B[m] # n
             /\ B[m] = n => At(h1, B1[m]) = At(h, c) /\ A[m] # n
             /\ Black(C1, m) = Black(C, m)
             /\ h1[m] = h[m]
  BY <1>2, <1>3 DEF Shape, At, Black
<1>7. ASSUME C[n] = "red"
      PROVE  Heights(S \ {n}, A1, B1, C1, Null, Null, h1) /\ Reds(S \ {n}, A1, B1, C1, Null)
  <2>1. c = Null /\ At(h, c) = h[n]
    BY <1>4, <1>7, <1>5 DEF Black
  <2>2. Heights(S \ {n}, A1, B1, C1, Null, Null, h1)
    <3>1. \A m \in S : /\ A[m] = n => At(h, A[m]) = h[n]
                       /\ B[m] = n => At(h, B[m]) = h[n]
      BY DEF At, Shape
    <3>2. \A m \in S \ {n} : At(h1, A1[m]) = At(h, A[m]) /\ At(h1, B1[m]) = At(h, B[m])
      BY <1>6, <2>1, <3>1
    <3> QED BY <1>5, <1>6, <3>2 DEF Heights
  <2>3. Reds(S \ {n}, A1, B1, C1, Null)
    BY <1>2, <2>1 DEF Reds, Shape
  <2> QED BY <2>2, <2>3
<1>8. ASSUME C[n] = "black"
      PROVE  /\ Heights(S \ {n}, A1, B1, C1, Above(A, P, n), Above(B, P, n), h1)
             /\ Reds(S \ {n}, A1, B1, C1, c)
  <2>1. h[n] = At(h, c) + 1
    BY <1>4, <1>8 DEF Black
  <2>2. ASSUME NEW m \in S \ {n}
        PROVE  /\ A[m] # n => Lack(m, Above(A, P, n)) = 0
               /\ B[m] # n => Lack(m, Above(B, P, n)) = 0
               /\ A[m] = n => Lack(m, Above(A, P, n)) = 1
               /\ B[m] = n => Lack(m, Above(B, P, n)) = 1
    BY DEF Lack, Above, Shape
  <2>3. ASSUME NEW m \in S \ {n}
        PROVE  /\ At(h, A[m]) = At(h, B[m])
               /\ h[m] = At(h, A[m]) + Black(C, m)
               /\ At(h, A[m]) \in Nat /\ At(h, B[m]) \in Nat /\ Black(C, m) \in Nat
    BY <1>5 DEF Heights, Lack, Shape, At, Black
  <2>4. ASSUME NEW m \in S \ {n}
        PROVE  /\ At(h1, A1[m]) + Lack(m, Above(A, P, n)) = At(h, A[m])
               /\ At(h1, B1[m]) + Lack(m, Above(B, P, n)) = At(h, B[m])
    <3>1. (A[m] = n => At(h, A[m]) = h[n]) /\ (B[m] = n => At(h, B[m]) = h[n])
      BY DEF At, Shape
    <3>2. At(h, A[m]) \in Nat /\ At(h, B[m]) \in Nat /\ At(h, c) \in Nat
      BY <1>4, <2>3
    <3>3. At(h1, A1[m]) + Lack(m, Above(A, P, n)) = At(h, A[m])
      <4>1. CASE A[m] = n
        BY <1>6, <2>1, <2>2, <3>1, <3>2, <4>1
      <4>2. CASE A[m] # n
        BY <1>6, <2>2, <3>2, <4>2
      <4> QED BY <4>1, <4>2
    <3>4. At(h1, B1[m]) + Lack(m, Above(B, P, n)) = At(h, B[m])
      <4>1. CASE B[m] = n
        BY <1>6, <2>1, <2>2, <3>1, <3>2, <4>1
      <4>2. CASE B[m] # n
        BY <1>6, <2>2, <3>2, <4>2
      <4> QED BY <4>1, <4>2
    <3> QED BY <3>3, <3>4
  <2>5. Heights(S \ {n}, A1, B1, C1, Above(A, P, n), Above(B, P, n), h1)
    <3>1. ASSUME NEW m \in S \ {n}
          PROVE  /\ At(h1, A1[m]) + Lack(m, Above(A, P, n)) = At(h1, B1[m]) + Lack(m, Above(B, P, n))
                 /\ h1[m] = At(h1, A1[m]) + Lack(m, Above(A, P, n)) + Black(C1, m)
      <4>1. Black(C1, m) = Black(C, m) /\ h1[m] = h[m]
        BY <1>6
      <4> QED BY <2>3, <2>4, <4>1
    <3> QED BY <1>5, <3>1 DEF Heights
  <2>6. Reds(S \ {n}, A1, B1, C1, c)
    BY <1>2 DEF Reds, Shape
  <2> QED BY <2>5, <2>6
<1> QED BY <1>7, <1>8 DEF c

-----------------------------------------------------------------------------
(* Trading two nodes, linking a leaf, and changing colors. *)
LEMMA RelabelShape ==
  ASSUME NEW S, NEW A, NEW B, NEW P, NEW root, NEW C, NEW f,
         NEW A1, NEW B1, NEW P1, NEW root1, NEW C1,
         Shape(S, A, B, P, root), Involution(S, f),
         Relabeled(S, A, B, P, root, C, f, A1, B1, P1, root1, C1)
  PROVE  Shape(S, A1, B1, P1, root1)
<1>1. \A m \in S : f[m] \in S /\ f[f[m]] = m /\ f[m] # Null
  BY DEF Involution, Shape
<1>2. f[Null] = Null /\ \A m \in S \union {Null} : f[m] \in S \union {Null} /\ (f[m] = Null <=> m = Null)
  BY <1>1 DEF Involution
<1>3. /\ A1 = [m \in S |-> f[A[f[m]]]]
      /\ B1 = [m \in S |-> f[B[f[m]]]]
      /\ P1 = [m \in S |-> f[P[f[m]]]]
      /\ root1 = f[root]
  BY DEF Relabeled
<1>4. /\ A1 \in [S -> S \union {Null}]
      /\ B1 \in [S -> S \union {Null}]
      /\ P1 \in [S -> S \union {Null}]
      /\ root1 \in S \union {Null}
  BY <1>1, <1>2, <1>3 DEF Shape
<1>5. \A m \in S : A1[m] # Null => P1[A1[m]] = m /\ A1[m] # B1[m]
  BY <1>1, <1>2, <1>3 DEF Shape
<1>6. \A m \in S : B1[m] # Null => P1[B1[m]] = m
  BY <1>1, <1>2, <1>3 DEF Shape
<1>7. \A m \in S : P1[m] # Null => A1[P1[m]] = m \/ B1[P1[m]] = m
  BY <1>1, <1>2, <1>3 DEF Shape
<1>8. \A m \in S : P1[m] = Null <=> m = root1
  BY <1>1, <1>2, <1>3 DEF Shape
<1> QED BY <1>4, <1>5, <1>6, <1>7, <1>8 DEF Shape

LEMMA RelabelRanking ==
  ASSUME NEW S, NEW A, NEW B, NEW P, NEW root, NEW C, NEW f, NEW r, NEW A1, NEW B1, NEW P1, NEW root1, NEW C1,
         Shape(S, A, B, P, root), Ranking(S, A, B, r), Involution(S, f),
         Relabeled(S, A, B, P, root, C, f, A1, B1, P1, root1, C1)
  PROVE  \E q : Ranking(S, A1, B1, q)
<1> SUFFICES ASSUME NEW q, q = [m \in S |-> r[f[m]]]
             PROVE  Ranking(S, A1, B1, q)
  OBVIOUS
<1>1. \A m \in S : f[m] \in S /\ f[f[m]] = m /\ f[m] # Null
  BY DEF Involution, Shape
<1>2. f[Null] = Null
  BY DEF Involution
<1>3. q \in [S -> Nat]
  BY <1>1 DEF Ranking
<1>4. ASSUME NEW m \in S
      PROVE  /\ A1[m] # Null => q[A1[m]] < q[m]
             /\ B1[m] # Null => q[B1[m]] < q[m]
  <2>1. A1[m] = f[A[f[m]]] /\ B1[m] = f[B[f[m]]]
    BY DEF Relabeled
  <2>2. /\ A1[m] # Null => A[f[m]] \in S /\ A1[m] \in S /\ q[A1[m]] = r[A[f[m]]]
        /\ B1[m] # Null => B[f[m]] \in S /\ B1[m] \in S /\ q[B1[m]] = r[B[f[m]]]
    BY <1>1, <1>2, <2>1 DEF Shape
  <2> QED BY <1>1, <1>2, <2>1, <2>2 DEF Ranking
<1> QED BY <1>3, <1>4 DEF Ranking

LEMMA RelabelHeights ==
  ASSUME NEW S, NEW A, NEW B, NEW P, NEW root, NEW C, NEW f, NEW h, NEW A1, NEW B1, NEW P1, NEW root1, NEW C1,
         Shape(S, A, B, P, root), Involution(S, f),
         Relabeled(S, A, B, P, root, C, f, A1, B1, P1, root1, C1),
         Heights(S, A, B, C, Null, Null, h), Reds(S, A, B, C, Null)
  PROVE  \E h1 : Heights(S, A1, B1, C1, Null, Null, h1) /\ Reds(S, A1, B1, C1, Null)
<1> SUFFICES ASSUME NEW h1, h1 = [m \in S |-> h[f[m]]]
             PROVE  Heights(S, A1, B1, C1, Null, Null, h1) /\ Reds(S, A1, B1, C1, Null)
  OBVIOUS
<1>1. \A m \in S : f[m] \in S /\ f[f[m]] = m /\ f[m] # Null /\ Null \notin S
  BY DEF Involution, Shape
<1>2. f[Null] = Null
  BY DEF Involution
<1>3. h1 \in [S -> Nat \ {0}]
  BY <1>1 DEF Heights
<1>4. ASSUME NEW m \in S
      PROVE  /\ At(h1, A1[m]) = At(h, A[f[m]])
             /\ At(h1, B1[m]) = At(h, B[f[m]])
             /\ h1[m] = h[f[m]]
             /\ Lack(m, Null) = 0 /\ Lack(f[m], Null) = 0
             /\ Black(C1, m) = Black(C, f[m])
             /\ f[m] \in S
  <2>1. A1[m] = f[A[f[m]]] /\ B1[m] = f[B[f[m]]] /\ C1[m] = C[f[m]]
    BY DEF Relabeled
  <2>2. /\ A1[m] # Null => A[f[m]] \in S /\ A1[m] \in S /\ h1[A1[m]] = h[A[f[m]]]
        /\ B1[m] # Null => B[f[m]] \in S /\ B1[m] \in S /\ h1[B1[m]] = h[B[f[m]]]
        /\ A1[m] = Null <=> A[f[m]] = Null
        /\ B1[m] = Null <=> B[f[m]] = Null
    BY <1>1, <1>2, <2>1 DEF Shape
  <2> QED BY <1>1, <2>1, <2>2 DEF At, Lack, Black
<1>5. ASSUME NEW m \in S
      PROVE  /\ At(h1, A1[m]) + Lack(m, Null) = At(h1, B1[m]) + Lack(m, Null)
             /\ h1[m] = At(h1, A1[m]) + Lack(m, Null) + Black(C1, m)
  BY <1>4 DEF Heights
<1>6. Heights(S, A1, B1, C1, Null, Null, h1)
  BY <1>3, <1>5 DEF Heights
<1>7. Reds(S, A1, B1, C1, Null)
  <2>1. \A m \in S : A1[m] = f[A[f[m]]] /\ B1[m] = f[B[f[m]]] /\ C1[m] = C[f[m]]
    BY DEF Relabeled
  <2>2. ASSUME NEW m \in S, C1[m] = "red"
        PROVE  /\ A1[m] # Null => C1[A1[m]] # "red"
               /\ B1[m] # Null => C1[B1[m]] # "red"
    <3>1. /\ A1[m] # Null => A[f[m]] \in S /\ C1[A1[m]] = C[A[f[m]]]
          /\ B1[m] # Null => B[f[m]] \in S /\ C1[B1[m]] = C[B[f[m]]]
      BY <1>1, <1>2, <2>1 DEF Shape
    <3> QED BY <1>1, <2>1, <2>2, <3>1 DEF Reds
  <2> QED BY <2>2 DEF Reds
<1> QED BY <1>6, <1>7

LEMMA LeafShape ==
  ASSUME NEW S, NEW A, NEW B, NEW P, NEW root, NEW n, NEW p \in S, NEW r,
         NEW A1, NEW B1, NEW P1, Shape(S, A, B, P, root), Ranking(S, A, B, r), n \notin S, n # Null, A[p] = Null,
         A1 = [m \in S \union {n} |-> IF m = n THEN Null ELSE IF m = p THEN n ELSE A[m]],
         B1 = [m \in S \union {n} |-> IF m = n THEN Null ELSE B[m]],
         P1 = [m \in S \union {n} |-> IF m = n THEN p ELSE P[m]]
  PROVE  \E q : Shape(S \union {n}, A1, B1, P1, root) /\ Ranking(S \union {n}, A1, B1, q)
<1> SUFFICES ASSUME NEW q, q = [m \in S \union {n} |-> IF m = n THEN 0 ELSE r[m] + 1]
             PROVE  Shape(S \union {n}, A1, B1, P1, root) /\ Ranking(S \union {n}, A1, B1, q)
  OBVIOUS
<1>1. /\ A1 \in [S \union {n} -> (S \union {n}) \union {Null}]
      /\ B1 \in [S \union {n} -> (S \union {n}) \union {Null}]
      /\ P1 \in [S \union {n} -> (S \union {n}) \union {Null}]
      /\ root \in (S \union {n}) \union {Null}
      /\ Null \notin S \union {n}
  BY DEF Shape
<1>2. \A m \in S \union {n} : A1[m] # Null => P1[A1[m]] = m /\ A1[m] # B1[m]
  BY DEF Shape
<1>3. \A m \in S \union {n} : B1[m] # Null => P1[B1[m]] = m
  BY DEF Shape
<1>4. \A m \in S \union {n} : P1[m] # Null => A1[P1[m]] = m \/ B1[P1[m]] = m
  BY DEF Shape
<1>5. \A m \in S \union {n} : P1[m] = Null <=> m = root
  BY DEF Shape
<1>6. Shape(S \union {n}, A1, B1, P1, root)
  BY <1>1, <1>2, <1>3, <1>4, <1>5 DEF Shape
<1>7. q \in [S \union {n} -> Nat]
  BY DEF Ranking
<1>8. \A m \in S \union {n} : A1[m] # Null => q[A1[m]] < q[m]
  BY DEF Ranking, Shape
<1>9. \A m \in S \union {n} : B1[m] # Null => q[B1[m]] < q[m]
  BY DEF Ranking, Shape
<1> QED BY <1>6, <1>7, <1>8, <1>9 DEF Ranking

LEMMA LeafShapeOf ==
  ASSUME NEW S, NEW A, NEW B, NEW P, NEW root, NEW n, NEW p, NEW r, NEW A1, NEW B1, NEW P1,
         LeafHyp(S, A, B, P, root, n, p, r, A1, B1, P1)
  PROVE  \E q : Shape(S \union {n}, A1, B1, P1, root) /\ Ranking(S \union {n}, A1, B1, q)
BY LeafShape DEF LeafHyp

LEMMA LeafHeights ==
  ASSUME NEW S, NEW A, NEW B, NEW P, NEW root, NEW n, NEW p \in S, NEW C, NEW h,
         NEW A1, NEW B1, NEW C1, Shape(S, A, B, P, root), n \notin S, n # Null, A[p] = Null,
         Heights(S, A, B, C, Null, Null, h), Reds(S, A, B, C, Null),
         A1 = [m \in S \union {n} |-> IF m = n THEN Null ELSE IF m = p THEN n ELSE A[m]],
         B1 = [m \in S \union {n} |-> IF m = n THEN Null ELSE B[m]],
         C1 = [m \in S \union {n} |-> IF m = n THEN "red" ELSE C[m]]
  PROVE  \E h1 : Heights(S \union {n}, A1, B1, C1, Null, Null, h1) /\ Reds(S \union {n}, A1, B1, C1, n)
<1> SUFFICES ASSUME NEW h1, h1 = [m \in S \union {n} |-> IF m = n THEN 1 ELSE h[m]]
             PROVE  Heights(S \union {n}, A1, B1, C1, Null, Null, h1) /\ Reds(S \union {n}, A1, B1, C1, n)
  OBVIOUS
<1>1. h1 \in [S \union {n} -> Nat \ {0}]
  BY DEF Heights
<1>2. ASSUME NEW m \in S
      PROVE  /\ At(h1, A1[m]) = At(h, A[m]) /\ At(h1, B1[m]) = At(h, B[m])
             /\ Black(C1, m) = Black(C, m) /\ h1[m] = h[m] /\ Lack(m, Null) = 0
  BY DEF Shape, At, Black, Lack
<1>3. At(h1, A1[n]) = 1 /\ At(h1, B1[n]) = 1 /\ h1[n] = 1 /\ Black(C1, n) = 0 /\ Lack(n, Null) = 0
  BY DEF At, Black, Lack
<1>4. Heights(S \union {n}, A1, B1, C1, Null, Null, h1)
  <2>1. ASSUME NEW m \in S \union {n}
        PROVE  /\ At(h1, A1[m]) + Lack(m, Null) = At(h1, B1[m]) + Lack(m, Null)
               /\ h1[m] = At(h1, A1[m]) + Lack(m, Null) + Black(C1, m)
    <3>1. CASE m = n
      BY <1>3, <3>1
    <3>2. CASE m \in S
      BY <1>2, <3>2 DEF Heights
    <3> QED BY <3>1, <3>2
  <2> QED BY <1>1, <2>1 DEF Heights
<1>5. Reds(S \union {n}, A1, B1, C1, n)
  BY DEF Reds, Shape
<1> QED BY <1>4, <1>5

LEMMA LeafHeightsOf ==
  ASSUME NEW S, NEW A, NEW B, NEW P, NEW root, NEW n, NEW p, NEW C, NEW h, NEW A1, NEW B1, NEW C1,
         LeafHeightsHyp(S, A, B, P, root, n, p, C, h, A1, B1, C1)
  PROVE  \E h1 : Heights(S \union {n}, A1, B1, C1, Null, Null, h1) /\ Reds(S \union {n}, A1, B1, C1, n)
BY LeafHeights DEF LeafHeightsHyp

LEMMA RecolorHeightsOK ==
  ASSUME NEW S, NEW A, NEW B, NEW P, NEW root, NEW C, NEW h, NEW r,
         NEW g \in S, NEW p \in S, NEW u \in S, NEW e \in S, NEW C1,
         RecolorOK(S, A, B, P, root, C, h, r, g, p, u, e, C1)
  PROVE  \E h1 : Heights(S, A, B, C1, Null, Null, h1) /\ Reds(S, A, B, C1, g)
<1> USE DEF RecolorOK
<1> SUFFICES ASSUME NEW h1, h1 = [m \in S |-> IF m = p \/ m = u THEN h[m] + 1 ELSE h[m]]
             PROVE  Heights(S, A, B, C1, Null, Null, h1) /\ Reds(S, A, B, C1, g)
  OBVIOUS
<1>1. p # g /\ u # g /\ p # u /\ P[p] = g /\ P[u] = g /\ g # Null /\ p # Null /\ u # Null
  BY DEF Shape, Ranking
<1>2. C[g] = "black"
  BY <1>1 DEF Reds, Shape
<1>3. h1 \in [S -> Nat \ {0}] /\ \A m \in S : Lack(m, Null) = 0 /\ h[m] \in Nat
  BY DEF Heights, Lack, Shape
<1>4. ASSUME NEW m \in S, m # g
      PROVE  At(h1, A[m]) = At(h, A[m]) /\ At(h1, B[m]) = At(h, B[m])
  BY <1>1, <1>4 DEF At, Shape
<1>5. At(h1, A[g]) = At(h, A[g]) + 1 /\ At(h1, B[g]) = At(h, B[g]) + 1
  BY <1>1 DEF At, Shape
<1>6. ASSUME NEW m \in S
      PROVE  /\ At(h1, A[m]) + Lack(m, Null) = At(h1, B[m]) + Lack(m, Null)
             /\ h1[m] = At(h1, A[m]) + Lack(m, Null) + Black(C1, m)
  <2>0. /\ At(h, A[m]) \in Nat /\ At(h, B[m]) \in Nat
        /\ At(h, A[m]) = At(h, B[m])
        /\ h[m] = At(h, A[m]) + Black(C, m)
    BY <1>3 DEF Heights, At, Shape, Black
  <2>1. CASE m = g
    BY <1>1, <1>2, <1>3, <1>5, <2>0, <2>1 DEF Black
  <2>2. CASE m = p \/ m = u
    BY <1>1, <1>3, <1>4, <2>0, <2>2 DEF Black
  <2>3. CASE m # g /\ m # p /\ m # u
    BY <1>3, <1>4, <2>0, <2>3 DEF Black
  <2> QED BY <2>1, <2>2, <2>3
<1>7. Reds(S, A, B, C1, g)
  BY <1>1, <1>2 DEF Reds, Shape
<1> QED BY <1>3, <1>6, <1>7 DEF Heights

LEMMA FlipHeightsAt ==
  ASSUME NEW S, NEW A, NEW B, NEW P, NEW root, NEW C, NEW h, NEW r,
         NEW x \in S, NEW y \in S, NEW C1, NEW h1, NEW e,
         Shape(S, A, B, P, root), Ranking(S, A, B, r), C \in [S -> {"red", "black"}],
         Heights(S, A, B, C, x, Null, h), Reds(S, A, B, C, e),
         y = B[x], C[y] = "black", e = A[x],
         A[y] # Null => C[A[y]] = "black",
         B[y] # Null => C[B[y]] = "black",
         C1 = [m \in S |-> IF m = y THEN "red" ELSE IF m = x THEN "black" ELSE C[m]],
         h1 = [m \in S |-> IF m = y THEN h[y] - 1 ELSE IF m = x THEN h[y] ELSE h[m]]
  PROVE  /\ Reds(S, A, B, C1, Null)
         /\ C[x] = "red" \/ P[x] = Null => Heights(S, A, B, C1, Null, Null, h1)
         /\ C[x] = "black" => Heights(S, A, B, C1, Above(A, P, x), Above(B, P, x), h1)
<1>1. x # y /\ A[y] # y /\ B[y] # y /\ A[y] # x /\ B[y] # x /\ A[x] # y /\ A[x] # x /\ P[y] = x
  BY DEF Shape, Ranking
<1>2. Reds(S, A, B, C1, Null)
  BY <1>1 DEF Reds, Shape
<1>3. \A m \in S : h[m] \in Nat /\ Lack(m, Null) = 0 /\ At(h, A[m]) \in Nat /\ At(h, B[m]) \in Nat
  BY DEF Heights, Lack, Shape, At
<1>4. /\ h[y] = At(h, A[y]) + 1 /\ At(h, A[y]) = At(h, B[y]) /\ At(h, A[y]) >= 1
      /\ At(h, A[x]) + 1 = h[y]
      /\ h[x] = h[y] + Black(C, x)
  BY <1>1, <1>3 DEF Heights, Lack, At, Black, Shape
<1>5. h1 \in [S -> Nat \ {0}]
  BY <1>1, <1>3, <1>4 DEF Heights
<1>6. /\ At(h1, A[y]) = At(h, A[y]) /\ At(h1, B[y]) = At(h, B[y])
      /\ At(h1, A[x]) = At(h, A[x]) /\ At(h1, B[x]) = h[y] - 1
      /\ h1[y] = h[y] - 1 /\ h1[x] = h[y]
      /\ Black(C1, y) = 0 /\ Black(C1, x) = 1
  BY <1>1 DEF At, Black, Shape
<1>7. ASSUME NEW m \in S, m # x, m # y
      PROVE  /\ At(h1, A[m]) = IF A[m] = x THEN h[y] ELSE At(h, A[m])
             /\ At(h1, B[m]) = IF B[m] = x THEN h[y] ELSE At(h, B[m])
             /\ h1[m] = h[m] /\ Black(C1, m) = Black(C, m) /\ Black(C, m) \in Nat
             /\ At(h, A[m]) = At(h, B[m]) /\ h[m] = At(h, A[m]) + Black(C, m)
             /\ A[m] = x => At(h, A[m]) = h[x]
             /\ B[m] = x => At(h, B[m]) = h[x]
             /\ A[m] = x => B[m] # x
  <2>1. A[m] # y /\ B[m] # y
    BY <1>1, <1>7 DEF Shape
  <2>2. At(h, A[m]) = At(h, B[m]) /\ h[m] = At(h, A[m]) + Black(C, m) /\ Black(C, m) \in Nat
    BY <1>3, <1>7 DEF Heights, Lack, Black
  <2> QED BY <1>1, <1>7, <2>1, <2>2 DEF At, Black, Shape
<1>8. ASSUME C[x] = "red" \/ P[x] = Null
      PROVE  Heights(S, A, B, C1, Null, Null, h1)
  <2>1. ASSUME NEW m \in S
        PROVE  /\ At(h1, A[m]) = At(h1, B[m])
               /\ h1[m] = At(h1, A[m]) + Black(C1, m)
    <3>1. CASE m = x
      BY <1>3, <1>4, <1>6, <3>1
    <3>2. CASE m = y
      BY <1>3, <1>4, <1>6, <3>2
    <3>3. CASE m # x /\ m # y
      <4>1. A[m] = x \/ B[m] = x => h[x] = h[y]
        BY <1>3, <1>4, <1>8, <3>3 DEF Black, Shape
      <4>2. h1[m] = h[m] /\ Black(C1, m) = Black(C, m)
            /\ At(h, A[m]) = At(h, B[m]) /\ h[m] = At(h, A[m]) + Black(C, m)
        BY <1>7, <3>3
      <4>3. At(h1, A[m]) = At(h, A[m]) /\ At(h1, B[m]) = At(h, B[m])
        BY <1>7, <3>3, <4>1
      <4> QED BY <4>2, <4>3
    <3> QED BY <3>1, <3>2, <3>3
  <2>2. \A m \in S : At(h1, A[m]) \in Nat /\ At(h1, B[m]) \in Nat
    BY <1>5 DEF At, Shape
  <2> QED BY <1>3, <1>5, <2>1, <2>2 DEF Heights
<1>9. ASSUME C[x] = "black"
      PROVE  Heights(S, A, B, C1, Above(A, P, x), Above(B, P, x), h1)
  <2>0. h[x] = h[y] + 1
    BY <1>3, <1>4, <1>9 DEF Black
  <2>1. ASSUME NEW m \in S
        PROVE  /\ At(h1, A[m]) + Lack(m, Above(A, P, x)) = At(h1, B[m]) + Lack(m, Above(B, P, x))
               /\ h1[m] = At(h1, A[m]) + Lack(m, Above(A, P, x)) + Black(C1, m)
    <3>0. /\ Lack(m, Above(A, P, x)) = IF A[m] = x THEN 1 ELSE 0
          /\ Lack(m, Above(B, P, x)) = IF B[m] = x THEN 1 ELSE 0
      BY DEF Lack, Above, Shape
    <3>1. CASE m = x
      <4>1. A[x] # x /\ B[x] # x
        BY DEF Shape, Ranking
      <4>2. Lack(m, Above(A, P, x)) = 0 /\ Lack(m, Above(B, P, x)) = 0
        BY <3>0, <3>1, <4>1
      <4>3. At(h, A[x]) \in Nat /\ At(h, A[x]) + 1 = h[y] /\ h1[x] = h[y] /\ Black(C1, x) = 1
        BY <1>3, <1>4, <1>6
      <4>4. At(h1, A[x]) = At(h, A[x]) /\ At(h1, B[x]) = At(h, A[x])
        BY <1>6, <4>3
      <4>5. At(h1, A[x]) + 0 = At(h1, B[x]) + 0 /\ h1[x] = At(h1, A[x]) + 0 + Black(C1, x)
        BY <4>3, <4>4
      <4> QED BY <3>1, <4>2, <4>5
    <3>2. CASE m = y
      BY <1>1, <1>3, <1>4, <1>6, <3>0, <3>2
    <3>3. CASE m # x /\ m # y
      <4>1. /\ h[x] = h[y] + 1 /\ At(h, A[m]) \in Nat /\ At(h, B[m]) \in Nat /\ h[y] \in Nat
            /\ At(h, A[m]) = At(h, B[m]) /\ Black(C, m) \in Nat
            /\ h1[m] = At(h, A[m]) + Black(C, m) /\ Black(C1, m) = Black(C, m)
        BY <1>3, <1>7, <2>0, <3>3
      <4>2. CASE A[m] = x
        <5>1. /\ At(h1, A[m]) = h[y] /\ At(h, A[m]) = h[y] + 1 /\ At(h1, B[m]) = At(h, B[m])
              /\ Lack(m, Above(A, P, x)) = 1 /\ Lack(m, Above(B, P, x)) = 0
          BY <1>7, <2>0, <3>0, <3>3, <4>2
        <5> QED BY <4>1, <5>1
      <4>3. CASE B[m] = x
        <5>1. /\ At(h1, B[m]) = h[y] /\ At(h, B[m]) = h[y] + 1 /\ At(h1, A[m]) = At(h, A[m])
              /\ Lack(m, Above(B, P, x)) = 1 /\ Lack(m, Above(A, P, x)) = 0
          BY <1>7, <2>0, <3>0, <3>3, <4>3
        <5> QED BY <4>1, <5>1
      <4>4. CASE A[m] # x /\ B[m] # x
        <5>1. /\ At(h1, B[m]) = At(h, B[m]) /\ At(h1, A[m]) = At(h, A[m])
              /\ Lack(m, Above(B, P, x)) = 0 /\ Lack(m, Above(A, P, x)) = 0
          BY <1>7, <3>0, <3>3, <4>4
        <5> QED BY <4>1, <5>1
      <4> QED BY <4>2, <4>3, <4>4
    <3> QED BY <3>1, <3>2, <3>3
  <2> QED BY <1>5, <2>1 DEF Heights
<1> QED BY <1>2, <1>8, <1>9

-----------------------------------------------------------------------------
(* What single writes do to the view of a tree from one side. *)
LEMMA Sides ==
  ASSUME NEW side \in Side
  PROVE  Other(side) \in Side /\ Other(side) # side /\ Other(Other(side)) = side
BY DEF Side, Other

LEMMA FieldRange ==
  ASSUME NEW S, NEW t \in [S -> Fields], NEW n \in S, NEW side \in Side
  PROVE  /\ t[n][side] \in Node \union {Null}
         /\ t[n].parent \in Node \union {Null}
         /\ t[n].color \in {"red", "black"}
BY DEF Side, Fields

LEMMA ViewFlip ==
  ASSUME NEW S, NEW t, NEW side, NEW A, NEW B, NEW P, NEW C,
         View(S, t, side, A, B, P, C)
  PROVE  View(S, t, Other(side), B, A, P, C)
BY Sides DEF View

LEMMA ViewLink ==
  ASSUME NEW S, NEW t, NEW side, NEW A, NEW B, NEW P, NEW C,
         View(S, t, side, A, B, P, C), NEW p \in S, p # Null, NEW c \in Node \union {Null}
  PROVE  View(S, WithLink(t, p, side, c), side, Put(A, p, c), B, P, C)
<1> DEFINE u == WithLink(t, p, side, c)
<1>1. side \in Side /\ t \in [S -> Fields]
  BY DEF View
<1>2. u \in [S -> Fields]
  BY <1>1 DEF WithLink, Fields, Side
<1>3. \A m \in S : /\ u[m][side] = IF m = p THEN c ELSE t[m][side]
                   /\ u[m][Other(side)] = t[m][Other(side)]
                   /\ u[m].parent = t[m].parent
                   /\ u[m].color = t[m].color
  BY <1>1, Sides DEF WithLink, Fields, Side
<1> HIDE DEF u
<1>4. Put(A, p, c) = [m \in S |-> u[m][side]]
  BY <1>3 DEF View, Put
<1>5. /\ B = [m \in S |-> u[m][Other(side)]]
      /\ P = [m \in S |-> u[m].parent]
      /\ C = [m \in S |-> u[m].color]
  BY <1>3 DEF View
<1> QED BY <1>1, <1>2, <1>4, <1>5 DEF View, u

LEMMA ViewOther ==
  ASSUME NEW S, NEW t, NEW side, NEW A, NEW B, NEW P, NEW C,
         View(S, t, side, A, B, P, C), NEW p \in S, p # Null, NEW c \in Node \union {Null}
  PROVE  View(S, WithLink(t, p, Other(side), c), side, A, Put(B, p, c), P, C)
<1>1. View(S, t, Other(side), B, A, P, C)
  BY ViewFlip
<1>2. View(S, WithLink(t, p, Other(side), c), Other(side), Put(B, p, c), A, P, C)
  BY <1>1, ViewLink
<1>3. Other(Other(side)) = side
  BY Sides DEF View
<1> QED BY <1>2, <1>3, ViewFlip

LEMMA ViewParent ==
  ASSUME NEW S, NEW t, NEW side, NEW A, NEW B, NEW P, NEW C,
         View(S, t, side, A, B, P, C), NEW n \in S \union {Null}, NEW p \in Node \union {Null}
  PROVE  View(S, SetParent(t, n, p), side, A, B, Put(P, n, p), C)
<1>1. CASE n = Null
  BY <1>1 DEF SetParent, Put
<1>2. CASE n # Null
  <2> DEFINE u == [t EXCEPT ![n].parent = p]
  <2>1. side \in Side /\ t \in [S -> Fields]
    BY DEF View
  <2>2. u \in [S -> Fields]
    BY <2>1 DEF Fields
  <2>3. \A m \in S : /\ u[m][side] = t[m][side]
                     /\ u[m][Other(side)] = t[m][Other(side)]
                     /\ u[m].parent = IF m = n THEN p ELSE t[m].parent
                     /\ u[m].color = t[m].color
    BY <2>1, Sides DEF Fields, Side
  <2>4. SetParent(t, n, p) = u
    BY <1>2 DEF SetParent
  <2> HIDE DEF u
  <2> QED BY <1>2, <2>1, <2>2, <2>3, <2>4 DEF View, Put
<1> QED BY <1>1, <1>2

LEMMA ViewColor ==
  ASSUME NEW S, NEW t, NEW side, NEW A, NEW B, NEW P, NEW C,
         View(S, t, side, A, B, P, C), NEW n \in S, n # Null, NEW color \in {"red", "black"}
  PROVE  View(S, WithColor(t, n, color), side, A, B, P, Put(C, n, color))
<1> DEFINE u == WithColor(t, n, color)
<1>1. side \in Side /\ t \in [S -> Fields]
  BY DEF View
<1>2. u \in [S -> Fields]
  BY <1>1 DEF Fields, WithColor
<1>3. \A m \in S : /\ u[m][side] = t[m][side]
                   /\ u[m][Other(side)] = t[m][Other(side)]
                   /\ u[m].parent = t[m].parent
                   /\ u[m].color = IF m = n THEN color ELSE t[m].color
  BY <1>1, Sides DEF Fields, Side, WithColor
<1> HIDE DEF u
<1>4. Put(C, n, color) = [m \in S |-> u[m].color]
  BY <1>3 DEF View, Put
<1>5. /\ A = [m \in S |-> u[m][side]]
      /\ B = [m \in S |-> u[m][Other(side)]]
      /\ P = [m \in S |-> u[m].parent]
  BY <1>3 DEF View
<1> QED BY <1>1, <1>2, <1>4, <1>5 DEF View, u

LEMMA ViewParentColor ==
  ASSUME NEW S, NEW t, NEW side, NEW A, NEW B, NEW P, NEW C,
         View(S, t, side, A, B, P, C), NEW n \in S \union {Null}, NEW p \in Node \union {Null},
         NEW color \in {"red", "black"}
  PROVE  View(S, SetParentColor(t, n, p, color), side, A, B, Put(P, n, p), Put(C, n, color))
<1>1. CASE n = Null
  BY <1>1 DEF SetParentColor, Put
<1>2. CASE n # Null
  <2>1. SetParentColor(t, n, p, color) = WithColor(SetParent(t, n, p), n, color)
    BY <1>2 DEF SetParentColor, SetParent, WithColor
  <2>2. View(S, SetParent(t, n, p), side, A, B, Put(P, n, p), C)
    BY ViewParent
  <2> QED BY <1>2, <2>1, <2>2, ViewColor
<1> QED BY <1>1, <1>2

LEMMA ViewReplace ==
  ASSUME NEW S, NEW t, NEW side, NEW A, NEW B, NEW P, NEW C,
         View(S, t, side, A, B, P, C), NEW p \in S \union {Null}, NEW old, NEW new \in Node \union {Null},
         Null \notin S,
         p # Null => (A[p] = old /\ B[p] # old) \/ (A[p] # old /\ B[p] = old)
  PROVE  View(S, ReplaceChild(t, p, old, new), side, Swing(A, p, old, new), Swing(B, p, old, new), P, C)
<1>1. CASE p = Null
  BY <1>1 DEF ReplaceChild, Swing
<1>2. CASE p # Null
  <2>1. side \in Side /\ A[p] = t[p][side] /\ B[p] = t[p][Other(side)]
    BY <1>2 DEF View
  <2>2. ReplaceChild(t, p, old, new) = IF t[p]["left"] = old THEN WithLink(t, p, "left", new)
                                                             ELSE WithLink(t, p, "right", new)
    BY <1>2 DEF ReplaceChild, WithLink
  <2>3. CASE A[p] = old
    <3>1. ReplaceChild(t, p, old, new) = WithLink(t, p, side, new)
      BY <1>2, <2>1, <2>2, <2>3 DEF Side, Other
    <3>2. Swing(A, p, old, new) = Put(A, p, new) /\ Swing(B, p, old, new) = B
      BY <1>2, <2>3 DEF Swing, Put
    <3> QED BY <1>2, <3>1, <3>2, ViewLink
  <2>4. CASE A[p] # old
    <3>1. ReplaceChild(t, p, old, new) = WithLink(t, p, Other(side), new)
      BY <1>2, <2>1, <2>2, <2>4 DEF Side, Other
    <3>2. Swing(B, p, old, new) = Put(B, p, new) /\ Swing(A, p, old, new) = A
      BY <1>2, <2>4 DEF Swing, Put
    <3> QED BY <1>2, <3>1, <3>2, ViewOther
  <2> QED BY <2>3, <2>4
<1> QED BY <1>1, <1>2

LEMMA ViewRotate ==
  ASSUME NEW S, NEW t, NEW side, NEW A, NEW B, NEW P, NEW C,
         View(S, t, side, A, B, P, C), Null \notin S, S \subseteq Node,
         NEW old \in S, NEW new \in S, NEW color \in {"red", "black"}, old # new,
         P[old] \in S \union {Null},
         P[old] # Null => (A[P[old]] = old /\ B[P[old]] # old) \/ (A[P[old]] # old /\ B[P[old]] = old)
  PROVE  View(S, RotateSetParents(t, old, new, color), side,
              Swing(A, P[old], old, new), Swing(B, P[old], old, new),
              Put(Put(P, new, P[old]), old, new), Put(Put(C, new, C[old]), old, color))
<1> DEFINE u == SetParentColor(SetParentColor(t, new, P[old], C[old]), old, new, color)
<1>1. RotateSetParents(t, old, new, color) = ReplaceChild(u, P[old], old, new)
  <2>1. t[old].parent = P[old] /\ t[old].color = C[old] /\ old # Null /\ new # Null
    BY DEF View
  <2>2. SetParentColor(t, new, P[old], C[old]) = [t EXCEPT ![new].parent = P[old], ![new].color = C[old]]
    BY <2>1 DEF SetParentColor
  <2>3. u = [t EXCEPT ![new].parent = P[old], ![new].color = C[old], ![old].parent = new, ![old].color = color]
    BY <2>1, <2>2 DEF SetParentColor
  <2> QED BY <2>1, <2>3 DEF RotateSetParents
<1>2. C[old] \in {"red", "black"}
  BY FieldRange DEF View
<1>3. View(S, SetParentColor(t, new, P[old], C[old]), side, A, B, Put(P, new, P[old]), Put(C, new, C[old]))
  BY <1>2, ViewParentColor
<1>4. View(S, u, side, A, B, Put(Put(P, new, P[old]), old, new), Put(Put(C, new, C[old]), old, color))
  BY <1>3, ViewParentColor
<1> HIDE DEF u
<1> QED BY <1>1, <1>4, ViewReplace

LEMMA PutIs ==
  ASSUME NEW S, NEW f, f = [m \in S |-> f[m]], Null \notin S, NEW n \in S \union {Null}, NEW v
  PROVE  Put(f, n, v) = [m \in S |-> IF m = n THEN v ELSE f[m]]
<1>1. CASE n = Null
  <2>1. \A m \in S : m # n
    BY <1>1
  <2> QED BY <1>1, <2>1 DEF Put
<1>2. CASE n # Null
  <2>1. Put(f, n, v) = [f EXCEPT ![n] = v]
    BY <1>2 DEF Put
  <2> QED BY <2>1
<1> QED BY <1>1, <1>2

LEMMA ViewRotated ==
  ASSUME NEW S, NEW t, NEW side, NEW A, NEW B, NEW P, NEW C, NEW root, NEW r,
         View(S, t, side, A, B, P, C), Shape(S, A, B, P, root), Ranking(S, A, B, r), S \subseteq Node,
         NEW x \in S, NEW y \in S, y = B[x], NEW moved, moved = A[y], NEW color \in {"red", "black"}
  PROVE  \E A1, B1, P1, C1 :
           /\ View(S, RotatedTree(t, side, x, y, moved, color), side, A1, B1, P1, C1)
           /\ Rotated(S, A, B, P, root, x, y, A1, B1, P1, IF P[x] = Null THEN y ELSE root)
           /\ C1 = [m \in S |-> IF m = x THEN color ELSE IF m = y THEN C[x]
                                ELSE IF m = moved THEN "black" ELSE C[m]]
<1>1. /\ A[y] # x /\ A[y] # y /\ x # y /\ A[x] # x
      /\ B[y] # x /\ B[y] # y /\ A[x] # y /\ P[x] # x /\ P[x] # y /\ (P[x] # moved \/ P[x] = Null)
  BY DEF Shape, Ranking
<1>2. /\ x \in Node /\ y \in Node /\ x # Null /\ y # Null /\ moved \in S \union {Null} /\ Null \notin S
      /\ moved \in Node \union {Null} /\ P[x] \in S \union {Null}
      /\ side \in Side
  BY DEF Shape, View
<1> DEFINE A1 == Put(A, y, x)
           B1 == Put(B, x, moved)
           P1 == Put(P, moved, x)
           C1 == Put(C, moved, "black")
           t1 == WithLink(t, x, Other(side), moved)
           t2 == WithLink(t1, y, side, x)
           t3 == SetParentColor(t2, moved, x, "black")
           A2 == Swing(A1, P1[x], x, y)
           B2 == Swing(B1, P1[x], x, y)
           P2 == Put(Put(P1, y, P1[x]), x, y)
           C2 == Put(Put(C1, y, C1[x]), x, color)
<1>3. View(S, t1, side, A, B1, P, C)
  BY <1>2, ViewOther
<1>4. View(S, t2, side, A1, B1, P, C)
  <2> HIDE DEF t1, B1
  <2> QED BY <1>2, <1>3, ViewLink
<1>5. View(S, t3, side, A1, B1, P1, C1)
  <2> HIDE DEF t2, B1, A1
  <2> QED BY <1>2, <1>4, ViewParentColor
<1>6. /\ A = [m \in S |-> A[m]] /\ DOMAIN A = S
      /\ B = [m \in S |-> B[m]] /\ DOMAIN B = S
      /\ P = [m \in S |-> P[m]] /\ DOMAIN P = S
      /\ C = [m \in S |-> C[m]] /\ DOMAIN C = S
  BY DEF View
<1>7. /\ A1 = [m \in S |-> IF m = y THEN x ELSE A[m]] /\ DOMAIN A1 = S
      /\ B1 = [m \in S |-> IF m = x THEN moved ELSE B[m]] /\ DOMAIN B1 = S
      /\ P1 = [m \in S |-> IF m = moved THEN x ELSE P[m]] /\ DOMAIN P1 = S
      /\ C1 = [m \in S |-> IF m = moved THEN "black" ELSE C[m]] /\ DOMAIN C1 = S
  <2>1. /\ A1 = [m \in S |-> IF m = y THEN x ELSE A[m]] /\ DOMAIN A1 = S
        /\ B1 = [m \in S |-> IF m = x THEN moved ELSE B[m]] /\ DOMAIN B1 = S
    BY <1>2, <1>6 DEF Put
  <2>2. P1 = [m \in S |-> IF m = moved THEN x ELSE P[m]] /\ DOMAIN P1 = S
    BY <1>2, <1>6 DEF Put
  <2>3. C1 = [m \in S |-> IF m = moved THEN "black" ELSE C[m]] /\ DOMAIN C1 = S
    BY <1>2, <1>6 DEF Put
  <2> QED BY <2>1, <2>2, <2>3
<1>8. P1[x] = P[x] /\ C1[x] = C[x]
  BY <1>1, <1>2, <1>7
<1>9. View(S, RotateSetParents(t3, x, y, color), side, A2, B2, P2, C2)
  <2> HIDE DEF t3, A1, B1, P1, C1
  <2>1. P1[x] # Null => (A1[P1[x]] = x /\ B1[P1[x]] # x) \/ (A1[P1[x]] # x /\ B1[P1[x]] = x)
    BY <1>1, <1>2, <1>7, <1>8 DEF Shape
  <2> QED BY <1>1, <1>2, <1>5, <1>8, <2>1, ViewRotate
<1>10. RotateSetParents(t3, x, y, color) = RotatedTree(t, side, x, y, moved, color)
  BY DEF RotatedTree
<1> HIDE DEF t1, t2, t3, A1, B1, P1, C1
<1>11. A2 = [m \in S |-> IF m = y THEN x ELSE IF A[m] = x THEN y ELSE A[m]]
  BY <1>1, <1>2, <1>7, <1>8 DEF Swing, Shape
<1>12. B2 = [m \in S |-> IF m = x THEN A[y] ELSE IF B[m] = x THEN y ELSE B[m]]
  BY <1>1, <1>2, <1>7, <1>8 DEF Swing, Shape
<1>13. P2 = [m \in S |-> IF m = A[y] THEN x ELSE IF m = y THEN P[x]
                       ELSE IF m = x THEN y ELSE P[m]]
  BY <1>1, <1>2, <1>7, <1>8 DEF Put
<1>14. C2 = [m \in S |-> IF m = x THEN color ELSE IF m = y THEN C[x]
                                ELSE IF m = moved THEN "black" ELSE C[m]]
  BY <1>1, <1>2, <1>7, <1>8 DEF Put
<1> HIDE DEF A2, B2, P2, C2
<1>15. Rotated(S, A, B, P, root, x, y, A2, B2, P2, IF P[x] = Null THEN y ELSE root)
  BY <1>11, <1>12, <1>13 DEF Rotated
<1> QED BY <1>9, <1>10, <1>14, <1>15

-----------------------------------------------------------------------------
(* What the writes of the double rotations do to it. *)
LEMMA ViewInsertInner ==
  ASSUME NEW S, NEW t, NEW side, NEW A, NEW B, NEW P, NEW C, NEW root, NEW r,
         View(S, t, side, A, B, P, C), Shape(S, A, B, P, root), Ranking(S, A, B, r), S \subseteq Node,
         NEW x \in S, NEW y \in S, y = B[x], NEW z \in S, z = A[y],
         NEW orphan, orphan = B[z], NEW moved, moved = A[z]
  PROVE  \E A1, B1, P1, C1 :
           /\ View(S, InsertInner(t, side, x, y, z, orphan, moved), side, A1, B1, P1, C1)
           /\ DoubleRotated(S, A, B, P, root, x, y, z, A1, B1, P1, IF P[x] = Null THEN z ELSE root)
           /\ C1 = [m \in S |-> IF m = x THEN "red" ELSE IF m = z THEN C[x]
                                ELSE IF m = y THEN "red"
                                ELSE IF m \in {orphan, moved} THEN "black" ELSE C[m]]
<1>1. /\ A[y] # x /\ A[y] # y /\ x # y /\ A[x] # x /\ z # x /\ z # y
      /\ B[y] # x /\ B[y] # y /\ A[x] # y /\ A[z] # x /\ A[z] # y /\ A[z] # z
      /\ B[z] # x /\ B[z] # y /\ B[z] # z /\ P[x] # x /\ P[x] # y /\ P[x] # z
      /\ P[x] # orphan \/ P[x] = Null
      /\ P[x] # moved \/ P[x] = Null
      /\ orphan # moved \/ moved = Null
  BY DEF Shape, Ranking
<1>2. /\ x \in Node /\ y \in Node /\ z \in Node /\ x # Null /\ y # Null /\ z # Null /\ Null \notin S
      /\ moved \in S \union {Null} /\ orphan \in S \union {Null}
      /\ moved \in Node \union {Null} /\ orphan \in Node \union {Null} /\ P[x] \in S \union {Null}
      /\ side \in Side
  <2>1. /\ Null \notin S /\ A \in [S -> S \union {Null}] /\ P \in [S -> S \union {Null}]
        /\ B \in [S -> S \union {Null}]
    BY DEF Shape
  <2>2. side \in Side
    BY DEF View
  <2>3. moved \in S \union {Null} /\ orphan \in S \union {Null} /\ P[x] \in S \union {Null}
    BY <2>1
  <2> QED BY <2>1, <2>2, <2>3
<1> DEFINE A1 == Put(A, y, orphan)
           B1 == Put(B, z, y)
           P1 == Put(Put(P, orphan, y), y, z)
           C1 == Put(Put(C, orphan, "black"), y, "red")
           t1 == WithLink(WithLink(t, y, side, orphan), z, Other(side), y)
           t2 == SetParentColor(SetParentColor(t1, orphan, y, "black"), y, z, "red")
           A2 == Put(A1, z, x)
           B2 == Put(B1, x, moved)
           t3 == WithLink(WithLink(t2, x, Other(side), moved), z, side, x)
           P2 == Put(P1, moved, x)
           C2 == Put(C1, moved, "black")
           t4 == SetParentColor(t3, moved, x, "black")
           A3 == Swing(A2, P2[x], x, z)
           B3 == Swing(B2, P2[x], x, z)
           P3 == Put(Put(P2, z, P2[x]), x, z)
           C3 == Put(Put(C2, z, C2[x]), x, "red")
<1>3. View(S, t1, side, A1, B1, P, C)
  <2>1. View(S, WithLink(t, y, side, orphan), side, A1, B, P, C)
    BY <1>2, ViewLink
  <2> HIDE DEF A1
  <2> QED BY <1>2, <2>1, ViewOther
<1>4. View(S, t2, side, A1, B1, P1, C1)
  <2> HIDE DEF t1, A1, B1
  <2>1. View(S, SetParentColor(t1, orphan, y, "black"), side, A1, B1, Put(P, orphan, y), Put(C, orphan, "black"))
    BY <1>2, <1>3, ViewParentColor
  <2> QED BY <1>2, <2>1, ViewParentColor
<1>5. View(S, t3, side, A2, B2, P1, C1)
  <2> HIDE DEF t2, A1, B1, P1, C1
  <2>1. View(S, WithLink(t2, x, Other(side), moved), side, A1, B2, P1, C1)
    BY <1>2, <1>4, ViewOther
  <2> HIDE DEF B2
  <2> QED BY <1>2, <2>1, ViewLink
<1>6. View(S, t4, side, A2, B2, P2, C2)
  <2> HIDE DEF t3, A2, B2, P1, C1
  <2> QED BY <1>2, <1>5, ViewParentColor
<1>7. /\ A = [m \in S |-> A[m]] /\ DOMAIN A = S
      /\ B = [m \in S |-> B[m]] /\ DOMAIN B = S
      /\ P = [m \in S |-> P[m]] /\ DOMAIN P = S
      /\ C = [m \in S |-> C[m]] /\ DOMAIN C = S
  BY DEF View
<1>8. A2 = [m \in S |-> IF m = z THEN x ELSE IF m = y THEN orphan ELSE A[m]] /\ DOMAIN A2 = S
  BY <1>2, <1>7 DEF Put
<1>9. B2 = [m \in S |-> IF m = x THEN moved ELSE IF m = z THEN y ELSE B[m]] /\ DOMAIN B2 = S
  BY <1>2, <1>7 DEF Put
<1>10. P2 = [m \in S |-> IF m = moved THEN x ELSE IF m = y THEN z ELSE IF m = orphan THEN y ELSE P[m]] /\ DOMAIN P2 = S
  <2>1. P1 = [m \in S |-> IF m = y THEN z ELSE IF m = orphan THEN y ELSE P[m]] /\ DOMAIN P1 = S
    <3>1. PICK P0 : P0 = Put(P, orphan, y)
      OBVIOUS
    <3>2. P0 = [m \in S |-> IF m = orphan THEN y ELSE P[m]]
      BY <1>2, <1>7, <3>1, PutIs
    <3>3. P1 = Put(P0, y, z)
      BY <3>1
    <3> HIDE DEF P1
    <3>4. P1 = [m \in S |-> IF m = y THEN z ELSE P0[m]]
      BY <1>2, <3>2, <3>3, PutIs
    <3> QED BY <3>2, <3>4
  <2> HIDE DEF P1
  <2> QED BY <1>2, <2>1 DEF Put
<1>11. C2 = [m \in S |-> IF m = moved THEN "black" ELSE IF m = y THEN "red" ELSE IF m = orphan THEN "black" ELSE C[m]] /\ DOMAIN C2 = S
  <2>1. PICK C0 : C0 = Put(C, orphan, "black")
    OBVIOUS
  <2>2. C0 = [m \in S |-> IF m = orphan THEN "black" ELSE C[m]]
    BY <1>2, <1>7, <2>1, PutIs
  <2>3. C1 = Put(C0, y, "red")
    BY <2>1
  <2>4. C1 = [m \in S |-> IF m = y THEN "red" ELSE C0[m]]
    <3> HIDE DEF C1
    <3> QED BY <1>2, <2>2, <2>3, PutIs
  <2> HIDE DEF C1
  <2>5. C2 = [m \in S |-> IF m = moved THEN "black" ELSE C1[m]]
    BY <1>2, <2>4, PutIs
  <2>6. \A m \in S : C1[m] = IF m = y THEN "red" ELSE IF m = orphan THEN "black" ELSE C[m]
    BY <2>2, <2>4
  <2> HIDE DEF C2
  <2> QED BY <2>5, <2>6
<1> HIDE DEF A2, B2, P2, C2
<1>12. P2[x] = P[x] /\ C2[x] = C[x]
  BY <1>1, <1>2, <1>10, <1>11
<1>13. View(S, RotateSetParents(t4, x, z, "red"), side, A3, B3, P3, C3)
  <2> HIDE DEF t4
  <2>1. P2[x] # Null => (A2[P2[x]] = x /\ B2[P2[x]] # x) \/ (A2[P2[x]] # x /\ B2[P2[x]] = x)
    BY <1>1, <1>2, <1>8, <1>9, <1>12 DEF Shape
  <2> QED BY <1>1, <1>2, <1>6, <1>12, <2>1, ViewRotate
<1>14. RotateSetParents(t4, x, z, "red") = InsertInner(t, side, x, y, z, orphan, moved)
  BY DEF InsertInner
<1> HIDE DEF t4
<1>15. A3 = [m \in S |-> IF m = z THEN x ELSE IF m = y THEN B[z]
                       ELSE IF A[m] = x THEN z ELSE A[m]]
  BY <1>1, <1>2, <1>8, <1>12 DEF Swing, Shape
<1>16. B3 = [m \in S |-> IF m = x THEN A[z] ELSE IF m = z THEN y
                       ELSE IF B[m] = x THEN z ELSE B[m]]
  BY <1>1, <1>2, <1>9, <1>12 DEF Swing, Shape
<1>17. P3 = [m \in S |-> IF m = A[z] THEN x ELSE IF m = B[z] THEN y
                       ELSE IF m = z THEN P[x]
                       ELSE IF m = x \/ m = y THEN z ELSE P[m]]
  BY <1>1, <1>2, <1>10, <1>12 DEF Put
<1>18. C3 = [m \in S |-> IF m = x THEN "red" ELSE IF m = z THEN C[x]
                                ELSE IF m = y THEN "red"
                                ELSE IF m \in {orphan, moved} THEN "black" ELSE C[m]]
  BY <1>1, <1>2, <1>11, <1>12 DEF Put
<1> HIDE DEF A3, B3, P3, C3
<1>19. DoubleRotated(S, A, B, P, root, x, y, z, A3, B3, P3, IF P[x] = Null THEN z ELSE root)
  BY <1>15, <1>16, <1>17 DEF DoubleRotated
<1> QED BY <1>13, <1>14, <1>18, <1>19

LEMMA InsertInnerViewed ==
  ASSUME NEW S, NEW t, NEW side, NEW A, NEW B, NEW P, NEW C, NEW root, NEW r, NEW x, NEW y, NEW z,
         NEW orphan, NEW moved, InnerOK(S, t, side, A, B, P, C, root, r, x, y, z, orphan, moved)
  PROVE  \E A1, B1, P1, C1 :
           /\ View(S, InsertInner(t, side, x, y, z, orphan, moved), side, A1, B1, P1, C1)
           /\ InsertTurned(S, A, B, P, root, C, x, y, z, A1, B1, P1, C1, IF P[x] = Null THEN z ELSE root)
BY ViewInsertInner DEF InnerOK, InsertTurned

LEMMA ViewEraseInner ==
  ASSUME NEW S, NEW t, NEW side, NEW A, NEW B, NEW P, NEW C, NEW root, NEW r,
         View(S, t, side, A, B, P, C), Shape(S, A, B, P, root), Ranking(S, A, B, r), S \subseteq Node,
         NEW x \in S, NEW y \in S, y = B[x], NEW z \in S, z = A[y],
         NEW orphan, orphan = B[z], NEW moved, moved = A[z]
  PROVE  \E A1, B1, P1, C1 :
           /\ View(S, EraseInner(t, side, x, y, z, orphan, moved), side, A1, B1, P1, C1)
           /\ DoubleRotated(S, A, B, P, root, x, y, z, A1, B1, P1, IF P[x] = Null THEN z ELSE root)
           /\ C1 = [m \in S |-> IF m = x THEN "black" ELSE IF m = z THEN C[x]
                                ELSE IF m = y \/ m = orphan THEN "black" ELSE C[m]]
<1>1. /\ A[y] # x /\ A[y] # y /\ x # y /\ A[x] # x /\ z # x /\ z # y
      /\ B[y] # x /\ B[y] # y /\ A[x] # y /\ A[z] # x /\ A[z] # y /\ A[z] # z
      /\ B[z] # x /\ B[z] # y /\ B[z] # z /\ P[x] # x /\ P[x] # y /\ P[x] # z
      /\ P[x] # orphan \/ P[x] = Null
      /\ P[x] # moved \/ P[x] = Null
      /\ orphan # moved \/ moved = Null
  BY DEF Shape, Ranking
<1>2. /\ x \in Node /\ y \in Node /\ z \in Node /\ x # Null /\ y # Null /\ z # Null /\ Null \notin S
      /\ moved \in S \union {Null} /\ orphan \in S \union {Null}
      /\ moved \in Node \union {Null} /\ orphan \in Node \union {Null} /\ P[x] \in S \union {Null}
      /\ side \in Side
  <2>1. /\ Null \notin S /\ A \in [S -> S \union {Null}] /\ P \in [S -> S \union {Null}]
        /\ B \in [S -> S \union {Null}]
    BY DEF Shape
  <2>2. side \in Side
    BY DEF View
  <2>3. moved \in S \union {Null} /\ orphan \in S \union {Null} /\ P[x] \in S \union {Null}
    BY <2>1
  <2> QED BY <2>1, <2>2, <2>3
<1> DEFINE A1 == Put(A, y, orphan)
           B1 == Put(Put(B, z, y), x, z)
           t1 == WithLink(WithLink(WithLink(t, y, side, orphan), z, Other(side), y), x, Other(side), z)
           P1 == Put(P, orphan, y)
           C1 == Put(C, orphan, "black")
           t2 == SetParentColor(t1, orphan, y, "black")
           A2 == Put(A1, z, x)
           B2 == Put(B1, x, moved)
           t3 == WithLink(WithLink(t2, x, Other(side), moved), z, side, x)
           P2 == Put(Put(P1, y, z), moved, x)
           C2 == Put(C1, y, "black")
           t4 == SetParent(SetParentColor(t3, y, z, "black"), moved, x)
           A3 == Swing(A2, P2[x], x, z)
           B3 == Swing(B2, P2[x], x, z)
           P3 == Put(Put(P2, z, P2[x]), x, z)
           C3 == Put(Put(C2, z, C2[x]), x, "black")
<1>3. View(S, t1, side, A1, B1, P, C)
  <2>1. View(S, WithLink(t, y, side, orphan), side, A1, B, P, C)
    BY <1>2, ViewLink
  <2> HIDE DEF A1
  <2>2. View(S, WithLink(WithLink(t, y, side, orphan), z, Other(side), y), side, A1, Put(B, z, y), P, C)
    BY <1>2, <2>1, ViewOther
  <2> QED BY <1>2, <2>2, ViewOther
<1>4. View(S, t2, side, A1, B1, P1, C1)
  <2> HIDE DEF t1, A1, B1
  <2> QED BY <1>2, <1>3, ViewParentColor
<1>5. View(S, t3, side, A2, B2, P1, C1)
  <2> HIDE DEF t2, A1, B1, P1, C1
  <2>1. View(S, WithLink(t2, x, Other(side), moved), side, A1, B2, P1, C1)
    BY <1>2, <1>4, ViewOther
  <2> HIDE DEF B2
  <2> QED BY <1>2, <2>1, ViewLink
<1>6. View(S, t4, side, A2, B2, P2, C2)
  <2> HIDE DEF t3, A2, B2, P1, C1
  <2>1. View(S, SetParentColor(t3, y, z, "black"), side, A2, B2, Put(P1, y, z), C2)
    BY <1>2, <1>5, ViewParentColor
  <2> HIDE DEF C2
  <2> QED BY <1>2, <2>1, ViewParent
<1>7. /\ A = [m \in S |-> A[m]] /\ DOMAIN A = S
      /\ B = [m \in S |-> B[m]] /\ DOMAIN B = S
      /\ P = [m \in S |-> P[m]] /\ DOMAIN P = S
      /\ C = [m \in S |-> C[m]] /\ DOMAIN C = S
  BY DEF View
<1>8. A2 = [m \in S |-> IF m = z THEN x ELSE IF m = y THEN orphan ELSE A[m]] /\ DOMAIN A2 = S
  BY <1>2, <1>7 DEF Put
<1>9. B2 = [m \in S |-> IF m = x THEN moved ELSE IF m = z THEN y ELSE B[m]] /\ DOMAIN B2 = S
  <2>1. B1 = [m \in S |-> IF m = x THEN z ELSE IF m = z THEN y ELSE B[m]] /\ DOMAIN B1 = S
    BY <1>2, <1>7 DEF Put
  <2> HIDE DEF B1
  <2> QED BY <1>2, <2>1 DEF Put
<1>10. P2 = [m \in S |-> IF m = moved THEN x ELSE IF m = y THEN z ELSE IF m = orphan THEN y ELSE P[m]] /\ DOMAIN P2 = S
  <2>1. P1 = [m \in S |-> IF m = orphan THEN y ELSE P[m]] /\ DOMAIN P1 = S
    BY <1>2, <1>7 DEF Put
  <2> HIDE DEF P1
  <2> QED BY <1>2, <2>1 DEF Put
<1>11. C2 = [m \in S |-> IF m = y \/ m = orphan THEN "black" ELSE C[m]] /\ DOMAIN C2 = S
  <2>1. C1 = [m \in S |-> IF m = orphan THEN "black" ELSE C[m]] /\ DOMAIN C1 = S
    BY <1>2, <1>7 DEF Put
  <2> HIDE DEF C1
  <2> QED BY <1>2, <2>1 DEF Put
<1> HIDE DEF A2, B2, P2, C2
<1>12. P2[x] = P[x] /\ C2[x] = C[x]
  BY <1>1, <1>2, <1>10, <1>11
<1>13. View(S, RotateSetParents(t4, x, z, "black"), side, A3, B3, P3, C3)
  <2> HIDE DEF t4
  <2>1. P2[x] # Null => (A2[P2[x]] = x /\ B2[P2[x]] # x) \/ (A2[P2[x]] # x /\ B2[P2[x]] = x)
    BY <1>1, <1>2, <1>8, <1>9, <1>12 DEF Shape
  <2> QED BY <1>1, <1>2, <1>6, <1>12, <2>1, ViewRotate
<1>14. RotateSetParents(t4, x, z, "black") = EraseInner(t, side, x, y, z, orphan, moved)
  BY DEF EraseInner
<1> HIDE DEF t4
<1>15. A3 = [m \in S |-> IF m = z THEN x ELSE IF m = y THEN B[z]
                       ELSE IF A[m] = x THEN z ELSE A[m]]
  BY <1>1, <1>2, <1>8, <1>12 DEF Swing, Shape
<1>16. B3 = [m \in S |-> IF m = x THEN A[z] ELSE IF m = z THEN y
                       ELSE IF B[m] = x THEN z ELSE B[m]]
  BY <1>1, <1>2, <1>9, <1>12 DEF Swing, Shape
<1>17. P3 = [m \in S |-> IF m = A[z] THEN x ELSE IF m = B[z] THEN y
                       ELSE IF m = z THEN P[x]
                       ELSE IF m = x \/ m = y THEN z ELSE P[m]]
  BY <1>1, <1>2, <1>10, <1>12 DEF Put
<1>18. C3 = [m \in S |-> IF m = x THEN "black" ELSE IF m = z THEN C[x]
                                ELSE IF m = y \/ m = orphan THEN "black" ELSE C[m]]
  BY <1>1, <1>2, <1>11, <1>12 DEF Put
<1> HIDE DEF A3, B3, P3, C3
<1>19. DoubleRotated(S, A, B, P, root, x, y, z, A3, B3, P3, IF P[x] = Null THEN z ELSE root)
  BY <1>15, <1>16, <1>17 DEF DoubleRotated
<1> QED BY <1>13, <1>14, <1>18, <1>19

LEMMA EraseInnerViewed ==
  ASSUME NEW S, NEW t, NEW side, NEW A, NEW B, NEW P, NEW C, NEW root, NEW r, NEW x, NEW y, NEW z,
         NEW orphan, NEW moved, InnerOK(S, t, side, A, B, P, C, root, r, x, y, z, orphan, moved)
  PROVE  \E A1, B1, P1, C1 :
           /\ View(S, EraseInner(t, side, x, y, z, orphan, moved), side, A1, B1, P1, C1)
           /\ EraseTurned(S, A, B, P, root, C, x, y, z, A1, B1, P1, C1, IF P[x] = Null THEN z ELSE root)
BY ViewEraseInner DEF InnerOK, EraseTurned

LEMMA ViewEraseOuter ==
  ASSUME NEW S, NEW t, NEW side, NEW A, NEW B, NEW P, NEW C, NEW root, NEW r,
         View(S, t, side, A, B, P, C), Shape(S, A, B, P, root), Ranking(S, A, B, r), S \subseteq Node,
         NEW x \in S, NEW y \in S, y = B[x], NEW z \in S, z = B[y],
         NEW moved, moved = A[y]
  PROVE  \E A1, B1, P1, C1 :
           /\ View(S, EraseOuter(t, side, x, y, z, moved), side, A1, B1, P1, C1)
           /\ Rotated(S, A, B, P, root, x, y, A1, B1, P1, IF P[x] = Null THEN y ELSE root)
           /\ C1 = [m \in S |-> IF m = y THEN C[x] ELSE IF m = x \/ m = z THEN "black" ELSE C[m]]
<1>1. /\ A[y] # x /\ A[y] # y /\ x # y /\ A[x] # x /\ z # x /\ z # y /\ P[z] = y
      /\ B[y] # x /\ B[y] # y /\ A[x] # y /\ P[x] # x /\ P[x] # y /\ P[x] # z
      /\ P[x] # moved \/ P[x] = Null
      /\ z # moved
  BY DEF Shape, Ranking
<1>2. /\ x \in Node /\ y \in Node /\ z \in Node /\ x # Null /\ y # Null /\ z # Null /\ Null \notin S
      /\ moved \in S \union {Null} /\ moved \in Node \union {Null} /\ P[x] \in S \union {Null}
      /\ side \in Side
  <2>1. /\ Null \notin S /\ A \in [S -> S \union {Null}] /\ P \in [S -> S \union {Null}]
        /\ B \in [S -> S \union {Null}]
    BY DEF Shape
  <2>2. side \in Side
    BY DEF View
  <2>3. moved \in S \union {Null} /\ P[x] \in S \union {Null}
    BY <2>1
  <2> QED BY <2>1, <2>2, <2>3
<1> DEFINE A2 == Put(A, y, x)
           B2 == Put(B, x, moved)
           t3 == WithLink(WithLink(t, x, Other(side), moved), y, side, x)
           P2 == Put(Put(P, z, y), moved, x)
           C2 == Put(C, z, "black")
           t4 == SetParent(SetParentColor(t3, z, y, "black"), moved, x)
           A3 == Swing(A2, P2[x], x, y)
           B3 == Swing(B2, P2[x], x, y)
           P3 == Put(Put(P2, y, P2[x]), x, y)
           C3 == Put(Put(C2, y, C2[x]), x, "black")
<1>5. View(S, t3, side, A2, B2, P, C)
  <2>1. View(S, WithLink(t, x, Other(side), moved), side, A, B2, P, C)
    BY <1>2, ViewOther
  <2> HIDE DEF B2
  <2> QED BY <1>2, <2>1, ViewLink
<1>6. View(S, t4, side, A2, B2, P2, C2)
  <2> HIDE DEF t3, A2, B2
  <2>1. View(S, SetParentColor(t3, z, y, "black"), side, A2, B2, Put(P, z, y), C2)
    BY <1>2, <1>5, ViewParentColor
  <2> HIDE DEF C2
  <2> QED BY <1>2, <2>1, ViewParent
<1>7. /\ A = [m \in S |-> A[m]] /\ DOMAIN A = S
      /\ B = [m \in S |-> B[m]] /\ DOMAIN B = S
      /\ P = [m \in S |-> P[m]] /\ DOMAIN P = S
      /\ C = [m \in S |-> C[m]] /\ DOMAIN C = S
  BY DEF View
<1>8. A2 = [m \in S |-> IF m = y THEN x ELSE A[m]] /\ DOMAIN A2 = S
  BY <1>2, <1>7 DEF Put
<1>9. B2 = [m \in S |-> IF m = x THEN moved ELSE B[m]] /\ DOMAIN B2 = S
  BY <1>2, <1>7 DEF Put
<1>10. P2 = [m \in S |-> IF m = moved THEN x ELSE IF m = z THEN y ELSE P[m]] /\ DOMAIN P2 = S
  <2> DEFINE Q == Put(P, z, y)
  <2>1. Q = [m \in S |-> IF m = z THEN y ELSE P[m]] /\ DOMAIN Q = S
    BY <1>2, <1>7 DEF Put
  <2> HIDE DEF Q
  <2>2. P2 = Put(Q, moved, x)
    BY DEF Q
  <2>3. CASE moved = Null
    BY <1>2, <2>1, <2>2, <2>3 DEF Put
  <2>4. CASE moved # Null
    BY <1>2, <2>1, <2>2, <2>4 DEF Put
  <2> QED BY <2>3, <2>4
<1>11. C2 = [m \in S |-> IF m = z THEN "black" ELSE C[m]] /\ DOMAIN C2 = S
  BY <1>2, <1>7 DEF Put
<1> HIDE DEF A2, B2, P2, C2
<1>12. P2[x] = P[x] /\ C2[x] = C[x]
  BY <1>1, <1>2, <1>10, <1>11
<1>13. View(S, RotateSetParents(t4, x, y, "black"), side, A3, B3, P3, C3)
  <2> HIDE DEF t4
  <2>1. P2[x] # Null => (A2[P2[x]] = x /\ B2[P2[x]] # x) \/ (A2[P2[x]] # x /\ B2[P2[x]] = x)
    BY <1>1, <1>2, <1>8, <1>9, <1>12 DEF Shape
  <2> QED BY <1>1, <1>2, <1>6, <1>12, <2>1, ViewRotate
<1>14. RotateSetParents(t4, x, y, "black") = EraseOuter(t, side, x, y, z, moved)
  BY DEF EraseOuter
<1> HIDE DEF t4
<1>15. A3 = [m \in S |-> IF m = y THEN x ELSE IF A[m] = x THEN y ELSE A[m]]
  BY <1>1, <1>2, <1>8, <1>12 DEF Swing, Shape
<1>16. B3 = [m \in S |-> IF m = x THEN A[y] ELSE IF B[m] = x THEN y ELSE B[m]]
  BY <1>1, <1>2, <1>9, <1>12 DEF Swing, Shape
<1>17. P3 = [m \in S |-> IF m = A[y] THEN x ELSE IF m = y THEN P[x]
                       ELSE IF m = x THEN y ELSE P[m]]
  BY <1>1, <1>2, <1>10, <1>12 DEF Put
<1>18. C3 = [m \in S |-> IF m = y THEN C[x] ELSE IF m = x \/ m = z THEN "black" ELSE C[m]]
  BY <1>1, <1>2, <1>11, <1>12 DEF Put
<1> HIDE DEF A3, B3, P3, C3
<1>19. Rotated(S, A, B, P, root, x, y, A3, B3, P3, IF P[x] = Null THEN y ELSE root)
  BY <1>15, <1>16, <1>17 DEF Rotated
<1> QED BY <1>13, <1>14, <1>18, <1>19

-----------------------------------------------------------------------------
(* A tree and its mirror image. *)
LEMMA MirrorShape ==
  ASSUME NEW S, NEW A, NEW B, NEW P, NEW root, Shape(S, A, B, P, root)
  PROVE  Shape(S, B, A, P, root)
BY DEF Shape

LEMMA MirrorRanking ==
  ASSUME NEW S, NEW A, NEW B, NEW r, Ranking(S, A, B, r)
  PROVE  Ranking(S, B, A, r)
BY DEF Ranking

LEMMA MirrorHeights ==
  ASSUME NEW S, NEW A, NEW B, NEW C, NEW za, NEW zb, NEW h, Heights(S, A, B, C, za, zb, h)
  PROVE  Heights(S, B, A, C, zb, za, h)
BY DEF Heights

LEMMA MirrorReds ==
  ASSUME NEW S, NEW A, NEW B, NEW C, NEW e, Reds(S, A, B, C, e)
  PROVE  Reds(S, B, A, C, e)
BY DEF Reds

LEMMA ViewLinks ==
  ASSUME NEW S, NEW t, NEW side, NEW A, NEW B, NEW P, NEW C, View(S, t, side, A, B, P, C)
  PROVE  /\ DOMAIN t = S
         /\ A = Links(t, side)
         /\ B = Links(t, Other(side))
         /\ P = Parents(t)
         /\ C = Colors(t)
         /\ C \in [S -> {"red", "black"}]
         /\ side = "left" => A = Links(t, "left") /\ B = Links(t, "right")
         /\ side = "right" => A = Links(t, "right") /\ B = Links(t, "left")
         /\ side \in {"left", "right"}
<1>1. DOMAIN t = S /\ side \in {"left", "right"}
  BY DEF View, Side
<1>2. /\ A = Links(t, side)
      /\ B = Links(t, Other(side))
      /\ P = Parents(t)
      /\ C = Colors(t)
  BY <1>1 DEF View, Links, Parents, Colors
<1>3. C \in [S -> {"red", "black"}]
  BY DEF View, Fields
<1>4. Other("left") = "right" /\ Other("right") = "left"
  BY DEF Other
<1> QED BY <1>1, <1>2, <1>3, <1>4

LEMMA ViewShape ==
  ASSUME NEW S, NEW t, NEW side, NEW A, NEW B, NEW P, NEW C, View(S, t, side, A, B, P, C), NEW root
  PROVE  TShape(t, root) <=> Shape(S, A, B, P, root)
BY ViewLinks, MirrorShape DEF TShape

LEMMA ViewRanked ==
  ASSUME NEW S, NEW t, NEW side, NEW A, NEW B, NEW P, NEW C, View(S, t, side, A, B, P, C)
  PROVE  TRanked(t) <=> \E r : Ranking(S, A, B, r)
BY ViewLinks, MirrorRanking DEF TRanked

LEMMA ViewReds ==
  ASSUME NEW S, NEW t, NEW side, NEW A, NEW B, NEW P, NEW C, View(S, t, side, A, B, P, C), NEW e
  PROVE  TReds(t, e) <=> Reds(S, A, B, C, e)
BY ViewLinks, MirrorReds DEF TReds

LEMMA ViewEven ==
  ASSUME NEW S, NEW t, NEW side, NEW A, NEW B, NEW P, NEW C, View(S, t, side, A, B, P, C)
  PROVE  TEven(t) <=> \E h : Heights(S, A, B, C, Null, Null, h)
BY ViewLinks, MirrorHeights DEF TEven

LEMMA ViewLacks ==
  ASSUME NEW S, NEW t, NEW side, NEW A, NEW B, NEW P, NEW C, View(S, t, side, A, B, P, C), NEW p
  PROVE  /\ TLacks(t, p, side) <=> \E h : Heights(S, A, B, C, p, Null, h)
         /\ TLacks(t, p, Other(side)) <=> \E h : Heights(S, A, B, C, Null, p, h)
<1>1. Other(Other(side)) = side
  BY Sides DEF View
<1> QED BY <1>1, ViewLinks, MirrorHeights DEF TLacks

LEMMA ViewOf ==
  ASSUME NEW t, t \in [DOMAIN t -> Fields], NEW side \in Side
  PROVE  View(DOMAIN t, t, side, Links(t, side), Links(t, Other(side)), Parents(t), Colors(t))
BY DEF View, Links, Parents, Colors

-----------------------------------------------------------------------------
(* The steps of erase and insert, each from what it finds to what it       *)
(* leaves behind.                                                          *)
LEMMA Basics ==
  ASSUME NEW S, NEW A, NEW B, NEW P, NEW root, NEW r, NEW x \in S,
         Shape(S, A, B, P, root), Ranking(S, A, B, r)
  PROVE  /\ Null \notin S /\ x # Null
         /\ B[x] # Null => /\ B[x] \in S /\ B[x] # x /\ P[B[x]] = x /\ A[B[x]] # x /\ A[B[x]] # B[x] /\ A[x] # B[x]
                           /\ A[B[x]] # Null => P[A[B[x]]] = B[x] /\ A[B[x]] # A[x]
                           /\ B[B[x]] # Null => P[B[B[x]]] = B[x] /\ B[B[x]] # A[x]
         /\ A[x] # Null => A[x] \in S /\ A[x] # x /\ P[A[x]] = x /\ A[x] # B[x]
         /\ P[x] # Null => P[x] \in S /\ P[x] # x
BY DEF Shape, Ranking

(* Case 1 of erase: the rotation leaves a black sibling, and the inner     *)
(* child that is dereferenced is there.                                    *)
LEMMA TRedSibling ==
  ASSUME NEW S, NEW t, NEW side, NEW root, NEW x, NEW y, EraseHyp(S, t, side, root, x, y),
         NEW moved, moved = t[y][side], t[y].color = "red",
         NEW u, u = RotatedTree(t, side, x, y, moved, "red")
  PROVE  /\ u \in [S -> Fields]
         /\ TShape(u, IF t[x].parent = Null THEN y ELSE root)
         /\ TRanked(u)
         /\ u[x][side] = t[x][side]
         /\ u[x][Other(side)] = t[y][side]
         /\ LostBlack(S, u, x, t[x][side])
         /\ moved # Null
<1>a. /\ S \subseteq Node /\ t \in [S -> Fields] /\ side \in Side
      /\ x \in S /\ y \in S /\ y = t[x][Other(side)]
      /\ TShape(t, root) /\ TRanked(t) /\ TLacks(t, x, side) /\ TReds(t, t[x][side])
  BY DEF EraseHyp
<1> USE <1>a
<1> DEFINE A == Links(t, side)
           B == Links(t, Other(side))
           P == Parents(t)
           C == Colors(t)
           root1 == IF P[x] = Null THEN y ELSE root
<1>1. /\ View(S, t, side, A, B, P, C)
      /\ y = B[x] /\ moved = A[y] /\ t[x][side] = A[x] /\ t[x].parent = P[x] /\ C[y] = "red"
  BY ViewOf DEF Links, Parents, Colors
<1> HIDE DEF A, B, P, C
<1>2. Shape(S, A, B, P, root) /\ Reds(S, A, B, C, A[x]) /\ C \in [S -> {"red", "black"}]
  BY <1>1, ViewShape, ViewReds, ViewLinks
<1>3. PICK r : Ranking(S, A, B, r)
  BY <1>1, ViewRanked
<1>4. PICK h : Heights(S, A, B, C, x, Null, h)
  BY <1>1, ViewLacks
<1>5. PICK A1, B1, P1, C1 :
           /\ View(S, u, side, A1, B1, P1, C1)
           /\ Rotated(S, A, B, P, root, x, y, A1, B1, P1, root1)
           /\ C1 = [m \in S |-> IF m = x THEN "red" ELSE IF m = y THEN C[x]
                                ELSE IF m = moved THEN "black" ELSE C[m]]
  BY <1>1, <1>2, <1>3, ViewRotated
<1>6. /\ Null \notin S /\ x # Null /\ y # x /\ P[y] = x /\ A[y] # x /\ A[y] # y /\ A[x] # y
      /\ A[y] # Null => P[A[y]] = y /\ A[y] # A[x]
      /\ y # Null /\ A[x] # x
  <2>1. /\ Null \notin S /\ x # Null
        /\ y # Null => /\ y # x /\ P[y] = x /\ A[y] # x /\ A[y] # y /\ A[x] # y
                       /\ A[y] # Null => P[A[y]] = y /\ A[y] # A[x]
    BY <1>1, <1>2, <1>3, Basics
  <2>2. y # Null
    BY <2>1
  <2>3. A[x] # x
    BY <1>2, <1>3, <2>1 DEF Ranking
  <2> QED BY <2>1, <2>2, <2>3
<1>7. C[x] = "black" /\ (moved # Null => C[moved] = "black")
  BY <1>1, <1>2, <1>6 DEF Reds, Shape
<1>8. Swapped(S, C, x, y, C1)
  BY <1>1, <1>2, <1>5, <1>6, <1>7 DEF Swapped, Shape
<1>9. Shape(S, A1, B1, P1, root1)
  <2> HIDE DEF root1
  <2> QED BY <1>1, <1>2, <1>3, <1>5, RotateShape
<1>10. \E q : Ranking(S, A1, B1, q)
  <2> HIDE DEF root1
  <2> QED BY <1>1, <1>2, <1>3, <1>5, RotateRanking
<1>11. \E q : Heights(S, A1, B1, C1, x, Null, q)
  <2> HIDE DEF root1
  <2>2. y # x /\ y # Null /\ x # Null
    BY <1>6
  <2>3. HeightsHyp(S, A, B, P, root, x, y, r, C, C1, A1, B1, P1, root1, h, x, Null)
    BY <1>1, <1>2, <1>3, <1>4, <1>5, <1>8, <2>2 DEF HeightsHyp
  <2> QED BY <2>3, RotateHeightsOf
<1>12. Reds(S, A1, B1, C1, A[x])
  <2> HIDE DEF root1
  <2>1. A[y] # Null => A[y] # A[x]
    BY <1>6
  <2>2. RedsHyp(S, A, B, P, root, x, y, r, C, C1, A1, B1, P1, root1, A[x], A[x])
    BY <1>1, <1>2, <1>3, <1>5, <1>7, <1>8, <2>1 DEF RedsHyp
  <2> QED BY <2>2, RotateReds
<1>13. TShape(u, root1) /\ TRanked(u) /\ TLacks(u, x, side) /\ TReds(u, A[x])
  <2> HIDE DEF root1
  <2>1. View(S, u, side, A1, B1, P1, C1)
    BY <1>5
  <2>2. TShape(u, root1)
    BY <2>1, <1>9, ViewShape
  <2>3. TRanked(u)
    BY <2>1, <1>10, ViewRanked
  <2>4. TLacks(u, x, side)
    BY <2>1, <1>11, ViewLacks
  <2>5. TReds(u, A[x])
    BY <2>1, <1>12, ViewReds
  <2> QED BY <2>2, <2>3, <2>4, <2>5
<1>14. A1[x] = A[x] /\ B1[x] = A[y]
  BY <1>5, <1>6 DEF Rotated
<1>15. u \in [S -> Fields] /\ u[x][side] = A1[x] /\ u[x][Other(side)] = B1[x]
  BY <1>5 DEF View
<1>16. A[y] # Null
  <2>1. Heights(S, A, B, C, x, Null, h) /\ y = B[x] /\ C[y] = "red" /\ x # y /\ x # Null /\ y # Null
    BY <1>1, <1>4, <1>6
  <2>2. Lack(x, x) = 1 /\ Lack(x, Null) = 0 /\ Lack(y, x) = 0 /\ Black(C, y) = 0
    BY <2>1 DEF Lack, Black
  <2>3. At(h, A[x]) \in Nat \ {0} /\ At(h, B[x]) = h[y]
    BY <1>2, <2>1 DEF Heights, At, Shape
  <2>4. At(h, A[x]) + 1 = h[y] /\ h[y] = At(h, A[y])
    <3>1. At(h, A[x]) + Lack(x, x) = At(h, B[x]) + Lack(x, Null) /\ h[y] = At(h, A[y]) + Lack(y, x) + Black(C, y)
      BY <2>1 DEF Heights
    <3>2. At(h, A[y]) \in Nat /\ h[y] \in Nat
      BY <1>2, <2>1 DEF Heights, At, Shape
    <3> QED BY <2>2, <2>3, <3>1, <3>2
  <2> QED BY <2>3, <2>4 DEF At
<1> QED BY <1>1, <1>13, <1>14, <1>15, <1>16 DEF LostBlack

LEMMA DoubleTwice ==
  ASSUME NEW S, NEW A, NEW B, NEW P, NEW root, NEW x \in S, NEW y \in S, NEW z \in S, NEW r,
         NEW A1, NEW B1, NEW P1, NEW A2, NEW B2, NEW P2, NEW root2,
         TwiceOK(S, A, B, P, root, x, y, z, r, A1, B1, P1, A2, B2, P2, root2)
  PROVE  Rotated(S, A1, B1, P1, root, x, z, A2, B2, P2, root2) /\ B1[x] = z
BY DoubleIsTwice DEF TwiceOK

LEMMA RotateOut ==
  ASSUME NEW S, NEW A, NEW B, NEW P, NEW root, NEW x \in S, NEW y \in S, NEW r, NEW C, NEW C1,
         NEW A1, NEW B1, NEW P1, NEW root1, NEW h,
         Shape(S, A, B, P, root), Ranking(S, A, B, r), y = B[x],
         Rotated(S, A, B, P, root, x, y, A1, B1, P1, root1),
         C \in [S -> {"red", "black"}], Swapped(S, C, x, y, C1),
         Heights(S, A, B, C, Null, Null, h), Reds(S, A, B, C, B[y]),
         C[y] = "red", A[x] # Null => C[A[x]] = "black"
  PROVE  /\ Shape(S, A1, B1, P1, root1)
         /\ \E q : Ranking(S, A1, B1, q)
         /\ \E h1 : Heights(S, A1, B1, C1, Null, Null, h1)
         /\ Reds(S, A1, B1, C1, Null)
<1>1. /\ Null \notin S /\ x # Null /\ y # Null /\ y # x
      /\ A[y] # Null => A[y] # B[y]
      /\ B[x] # B[y]
  BY DEF Shape, Ranking
<1>2. C[x] = "black"
  BY <1>1 DEF Reds
<1>3. Reds(S, A1, B1, C1, Null)
  <2>1. A[x] # Null /\ C[A[x]] = "red" => A[x] = Null
    OBVIOUS
  <2>2. RedsHyp(S, A, B, P, root, x, y, r, C, C1, A1, B1, P1, root1, B[y], Null)
    BY <1>1, <1>2, <2>1 DEF RedsHyp
  <2> QED BY <2>2, RotateReds
<1> QED BY <1>1, <1>3, RotateShape, RotateRanking, RotateHeights

(* Case 3 of insert. *)
LEMMA TInsertOuter ==
  ASSUME NEW S, NEW t, NEW side, NEW root, NEW x, NEW y, NEW z, InsertHyp(S, t, side, root, x, y, z),
         z = t[y][Other(side)], NEW moved, moved = t[y][side],
         NEW u, u = RotatedTree(t, side, x, y, moved, "red")
  PROVE  RedBlack(S, u, IF t[x].parent = Null THEN y ELSE root, Null)
<1>a. /\ S \subseteq Node /\ t \in [S -> Fields] /\ side \in Side
      /\ x \in S /\ y \in S /\ y = t[x][Other(side)] /\ z \in S
      /\ TShape(t, root) /\ TRanked(t) /\ TEven(t) /\ TReds(t, z)
      /\ t[y].color = "red" /\ t[z].color = "red"
      /\ t[x][side] # Null => t[t[x][side]].color = "black"
  BY DEF InsertHyp
<1> USE <1>a
<1> DEFINE A == Links(t, side)
           B == Links(t, Other(side))
           P == Parents(t)
           C == Colors(t)
           root1 == IF P[x] = Null THEN y ELSE root
<1>1. /\ View(S, t, side, A, B, P, C)
      /\ y = B[x] /\ moved = A[y] /\ t[x][side] = A[x] /\ t[x].parent = P[x] /\ C[y] = "red" /\ z = B[y] /\ C[z] = "red"
  BY ViewOf DEF Links, Parents, Colors
<1>0. A[x] # Null /\ A[x] \in S => C[A[x]] = "black"
  BY <1>1 DEF Colors
<1> HIDE DEF A, B, P, C
<1>2. Shape(S, A, B, P, root) /\ Reds(S, A, B, C, z) /\ C \in [S -> {"red", "black"}]
  BY <1>1, ViewShape, ViewReds, ViewLinks
<1>3. PICK r : Ranking(S, A, B, r)
  BY <1>1, ViewRanked
<1>4. PICK h : Heights(S, A, B, C, Null, Null, h)
  BY <1>1, ViewEven
<1>5. PICK A1, B1, P1, C1 :
           /\ View(S, u, side, A1, B1, P1, C1)
           /\ Rotated(S, A, B, P, root, x, y, A1, B1, P1, root1)
           /\ C1 = [m \in S |-> IF m = x THEN "red" ELSE IF m = y THEN C[x]
                                ELSE IF m = moved THEN "black" ELSE C[m]]
  BY <1>1, <1>2, <1>3, ViewRotated
<1>6. /\ Null \notin S /\ x # Null /\ y # x
      /\ y # z /\ A[y] # y /\ A[y] # x
      /\ A[y] # Null => A[y] # z /\ A[y] \in S
      /\ A[x] # Null => A[x] \in S
  BY <1>1, <1>2, <1>3 DEF Shape, Ranking
<1>7. moved # Null => C[moved] = "black"
  BY <1>1, <1>2, <1>6 DEF Reds
<1>8. Swapped(S, C, x, y, C1)
  BY <1>1, <1>2, <1>5, <1>6, <1>7 DEF Swapped
<1>9. /\ Shape(S, A1, B1, P1, root1)
      /\ \E q : Ranking(S, A1, B1, q)
      /\ \E h1 : Heights(S, A1, B1, C1, Null, Null, h1)
      /\ Reds(S, A1, B1, C1, Null)
  <2> HIDE DEF root1
  <2>1. A[x] # Null => C[A[x]] = "black"
    BY <1>0, <1>6
  <2>2. Reds(S, A, B, C, B[y])
    BY <1>1, <1>2
  <2>3. /\ Shape(S, A, B, P, root) /\ Ranking(S, A, B, r) /\ y = B[x]
        /\ Rotated(S, A, B, P, root, x, y, A1, B1, P1, root1)
        /\ C \in [S -> {"red", "black"}] /\ Swapped(S, C, x, y, C1)
        /\ Heights(S, A, B, C, Null, Null, h) /\ C[y] = "red"
    BY <1>1, <1>2, <1>3, <1>4, <1>5, <1>8
  <2> QED BY <2>1, <2>2, <2>3, RotateOut
<1>13. TShape(u, root1) /\ TRanked(u) /\ TEven(u) /\ TReds(u, Null)
  <2> HIDE DEF root1
  <2>1. View(S, u, side, A1, B1, P1, C1)
    BY <1>5
  <2>2. TShape(u, root1)
    BY <2>1, <1>9, ViewShape
  <2>3. TRanked(u)
    BY <2>1, <1>9, ViewRanked
  <2>4. TEven(u)
    BY <2>1, <1>9, ViewEven
  <2>5. TReds(u, Null)
    BY <2>1, <1>9, ViewReds
  <2> QED BY <2>2, <2>3, <2>4, <2>5
<1>15. u \in [S -> Fields]
  BY <1>5 DEF View
<1> QED BY <1>1, <1>13, <1>15 DEF RedBlack

LEMMA RedBlackOf ==
  ASSUME NEW S, NEW u, NEW side, NEW A, NEW B, NEW P, NEW C, NEW root,
         View(S, u, side, A, B, P, C), Sound(S, A, B, P, root, C)
  PROVE  RedBlack(S, u, root, Null)
<1>1. TShape(u, root)
  BY ViewShape DEF Sound
<1>2. TRanked(u)
  BY ViewRanked DEF Sound
<1>3. TEven(u)
  BY ViewEven DEF Sound
<1>4. TReds(u, Null)
  BY ViewReds DEF Sound
<1>5. u \in [S -> Fields]
  BY DEF View
<1> QED BY <1>1, <1>2, <1>3, <1>4, <1>5 DEF RedBlack

LEMMA MirrorRotates ==
  ASSUME NEW S, NEW A, NEW B, NEW P, NEW root, NEW r, NEW y, NEW z, NEW A1, NEW B1, NEW P1,
         MirrorHyp(S, A, B, P, root, r, y, z, A1, B1, P1)
  PROVE  /\ Shape(S, A1, B1, P1, root)
         /\ \E q : Ranking(S, A1, B1, q)
<1>1. /\ Shape(S, B, A, P, root) /\ Ranking(S, B, A, r) /\ y \in S /\ z \in S /\ z = A[y]
      /\ Rotated(S, B, A, P, root, y, z, B1, A1, P1, root)
  BY MirrorShape, MirrorRanking DEF MirrorHyp
<1>2. Shape(S, B1, A1, P1, root)
  BY <1>1, RotateShape
<1>3. \E q : Ranking(S, B1, A1, q)
  BY <1>1, RotateRanking
<1> QED BY <1>2, <1>3, MirrorShape, MirrorRanking

LEMMA MirrorKeepsHeights ==
  ASSUME NEW S, NEW A, NEW B, NEW P, NEW root, NEW r, NEW y, NEW z, NEW A1, NEW B1, NEW P1,
         NEW C, NEW C1, NEW h, NEW za, NEW zb,
         MirrorHyp(S, A, B, P, root, r, y, z, A1, B1, P1),
         MirrorColors(S, A, B, C, C1, h, y, z, za, zb)
  PROVE  \E h1 : Heights(S, A1, B1, C1, za, zb, h1)
<1>1. /\ Shape(S, B, A, P, root) /\ Ranking(S, B, A, r) /\ y \in S /\ z \in S /\ z = A[y]
      /\ Rotated(S, B, A, P, root, y, z, B1, A1, P1, root)
  BY MirrorShape, MirrorRanking DEF MirrorHyp
<1>2. /\ C \in [S -> {"red", "black"}] /\ Swapped(S, C, y, z, C1) /\ Heights(S, B, A, C, zb, za, h)
      /\ C[z] = "red" /\ z # zb /\ z # za /\ y # za
  BY MirrorHeights DEF MirrorColors
<1>3. \E h1 : Heights(S, B1, A1, C1, zb, za, h1)
  BY <1>1, <1>2, RotateHeights
<1> QED BY <1>3, MirrorHeights

LEMMA MirrorExists ==
  ASSUME NEW S, NEW A, NEW B, NEW P, NEW root, NEW r, NEW y \in S, NEW z \in S,
         Shape(S, A, B, P, root), Ranking(S, A, B, r), z = A[y], P[y] # Null
  PROVE  \E A1, B1, P1 : MirrorHyp(S, A, B, P, root, r, y, z, A1, B1, P1)
<1>1. P[y] # z /\ y # z /\ P[z] = y /\ A[z] # y /\ Null \notin S
  BY DEF Shape, Ranking
<1>2. PICK A1 : A1 = [m \in S |-> IF m = y THEN B[z] ELSE IF A[m] = y THEN z ELSE A[m]]
  OBVIOUS
<1>3. PICK B1 : B1 = [m \in S |-> IF m = z THEN y ELSE IF B[m] = y THEN z ELSE B[m]]
  OBVIOUS
<1>4. PICK P1 : P1 = [m \in S |-> IF m = B[z] THEN y ELSE IF m = z THEN P[y]
                       ELSE IF m = y THEN z ELSE P[m]]
  OBVIOUS
<1> QED BY <1>1, <1>2, <1>3, <1>4 DEF MirrorHyp, Rotated

(* The first rotation of case 2 of insert keeps the tree as sound as it    *)
(* was, the second one mends it.                                           *)
LEMMA DoubleFixesInsert ==
  ASSUME NEW S, NEW A, NEW B, NEW P, NEW root, NEW r, NEW h, NEW C, NEW x, NEW y, NEW z,
         NEW A2, NEW B2, NEW P2, NEW C2, NEW root2,
         InsertInnerHyp(S, A, B, P, root, r, h, C, x, y, z),
         InsertTurned(S, A, B, P, root, C, x, y, z, A2, B2, P2, C2, root2)
  PROVE  Sound(S, A2, B2, P2, root2, C2)
<1>1. /\ Shape(S, A, B, P, root) /\ Ranking(S, A, B, r)
      /\ x \in S /\ y \in S /\ z \in S /\ y = B[x] /\ z = A[y]
  BY DEF InsertInnerHyp
<1>2. /\ C \in [S -> {"red", "black"}] /\ Heights(S, A, B, C, Null, Null, h) /\ Reds(S, A, B, C, z)
      /\ C[y] = "red" /\ C[z] = "red"
      /\ A[x] # Null => C[A[x]] = "black"
  BY DEF InsertInnerHyp
<1>3. /\ DoubleRotated(S, A, B, P, root, x, y, z, A2, B2, P2, root2)
      /\ C2 = [m \in S |-> IF m = x THEN "red" ELSE IF m = z THEN C[x]
                           ELSE IF m = y THEN "red"
                           ELSE IF m \in {B[z], A[z]} THEN "black" ELSE C[m]]
  BY DEF InsertTurned
<1>4. /\ Null \notin S /\ y # x /\ z # x /\ y # z /\ P[y] = x
      /\ A[z] # z /\ B[z] # z /\ A[z] # y /\ A[z] # x /\ B[z] # x /\ B[z] # y
      /\ A[x] # y /\ A[x] # z
      /\ A[z] # Null => A[z] \in S
      /\ B[z] # Null => B[z] \in S
  BY <1>1 DEF Shape, Ranking
<1>5. /\ A[z] # Null => C[A[z]] = "black"
      /\ B[z] # Null => C[B[z]] = "black"
      /\ C[x] = "black"
  BY <1>1, <1>2, <1>4 DEF Reds
<1>6. PICK A1, B1, P1 : MirrorHyp(S, A, B, P, root, r, y, z, A1, B1, P1)
  <2>1. P[y] # Null
    BY <1>1, <1>4
  <2> QED BY <1>1, <2>1, MirrorExists
<1>7. Rotated(S, A1, B1, P1, root, x, z, A2, B2, P2, root2) /\ B1[x] = z
  <2>1. TwiceOK(S, A, B, P, root, x, y, z, r, A1, B1, P1, A2, B2, P2, root2)
    BY <1>1, <1>3, <1>6 DEF TwiceOK, MirrorHyp
  <2> QED BY <1>1, <2>1, DoubleTwice
<1>8. Shape(S, A1, B1, P1, root)
  BY <1>6, MirrorRotates
<1>9. PICK r1 : Ranking(S, A1, B1, r1)
  BY <1>6, MirrorRotates
<1>10. PICK h1 : Heights(S, A1, B1, C, Null, Null, h1)
  <2>1. Swapped(S, C, y, z, C)
    BY <1>1, <1>2 DEF Swapped
  <2>2. MirrorColors(S, A, B, C, C, h, y, z, Null, Null)
    BY <1>1, <1>2, <1>4, <2>1 DEF MirrorColors
  <2> QED BY <1>6, <2>2, MirrorKeepsHeights
<1>11. Reds(S, A1, B1, C, y)
  <2>1. /\ Shape(S, B, A, P, root) /\ Ranking(S, B, A, r) /\ Reds(S, B, A, C, z)
        /\ Rotated(S, B, A, P, root, y, z, B1, A1, P1, root)
    BY <1>1, <1>2, <1>6, MirrorShape, MirrorRanking, MirrorReds DEF MirrorHyp
  <2>2. Swapped(S, C, y, z, C)
    BY <1>1, <1>2 DEF Swapped
  <2>3. Reds(S, B1, A1, C, y)
    BY <1>1, <1>2, <2>1, <2>2, RotateRedsInward
  <2> QED BY <2>3, MirrorReds
<1>12. B1[z] = y /\ A1[x] = A[x]
  BY <1>1, <1>4, <1>6 DEF MirrorHyp, Rotated
<1>13. Swapped(S, C, x, z, C2)
  <2>1. \A m \in S : C2[m] = IF m = z THEN C[x] ELSE IF m = x THEN C[z] ELSE C[m]
    <3> SUFFICES ASSUME NEW m \in S
                 PROVE  C2[m] = IF m = z THEN C[x] ELSE IF m = x THEN C[z] ELSE C[m]
      OBVIOUS
    <3>1. C2[m] = IF m = x THEN "red" ELSE IF m = z THEN C[x] ELSE IF m = y THEN "red"
                  ELSE IF m \in {B[z], A[z]} THEN "black" ELSE C[m]
      BY <1>3
    <3> QED BY <3>1, <1>1, <1>2, <1>4, <1>5
  <2>2. C2 = [m \in S |-> C2[m]]
    BY <1>3
  <2> QED BY <2>1, <2>2 DEF Swapped
<1>14. /\ Shape(S, A2, B2, P2, root2)
       /\ \E q : Ranking(S, A2, B2, q)
       /\ \E h2 : Heights(S, A2, B2, C2, Null, Null, h2)
       /\ Reds(S, A2, B2, C2, Null)
  <2>1. A1[x] # Null => C[A1[x]] = "black"
    BY <1>2, <1>12
  <2>2. Reds(S, A1, B1, C, B1[z])
    BY <1>11, <1>12
  <2>3. x \in S /\ z \in S /\ z = B1[x] /\ C \in [S -> {"red", "black"}] /\ C[z] = "red"
    BY <1>1, <1>2, <1>7
  <2> QED BY <1>7, <1>8, <1>9, <1>10, <1>13, <2>1, <2>2, <2>3, RotateOut
<1> QED BY <1>14 DEF Sound

(* Cases 2 and 3 of insert together. *)
LEMMA TInsertInner ==
  ASSUME NEW S, NEW t, NEW side, NEW root, NEW x, NEW y, NEW z, InsertHyp(S, t, side, root, x, y, z),
         NEW orphan, NEW moved, z = t[y][side], orphan = t[z][Other(side)], moved = t[z][side]
  PROVE  RedBlack(S, InsertInner(t, side, x, y, z, orphan, moved), IF t[x].parent = Null THEN z ELSE root, Null)
<1>a. /\ S \subseteq Node /\ t \in [S -> Fields] /\ side \in Side
      /\ x \in S /\ y \in S /\ y = t[x][Other(side)] /\ z \in S
      /\ TShape(t, root) /\ TRanked(t) /\ TEven(t) /\ TReds(t, z)
      /\ t[y].color = "red" /\ t[z].color = "red"
      /\ t[x][side] # Null => t[t[x][side]].color = "black"
  BY DEF InsertHyp
<1> DEFINE A == Links(t, side)
           B == Links(t, Other(side))
           P == Parents(t)
           C == Colors(t)
<1>1. /\ View(S, t, side, A, B, P, C)
      /\ y = B[x] /\ z = A[y] /\ t[x][side] = A[x] /\ t[x].parent = P[x] /\ C[y] = "red" /\ C[z] = "red"
      /\ moved = A[z] /\ orphan = B[z]
  BY <1>a, ViewOf DEF Links, Parents, Colors
<1>2. A[x] # Null /\ A[x] \in S => C[A[x]] = "black"
  BY <1>a, <1>1 DEF Colors
<1> HIDE DEF A, B, P, C
<1>3. Shape(S, A, B, P, root) /\ Reds(S, A, B, C, z) /\ C \in [S -> {"red", "black"}]
  BY <1>a, <1>1, ViewShape, ViewReds, ViewLinks
<1>4. PICK r : Ranking(S, A, B, r)
  BY <1>a, <1>1, ViewRanked
<1>5. PICK h : Heights(S, A, B, C, Null, Null, h)
  BY <1>a, <1>1, ViewEven
<1>6. InnerOK(S, t, side, A, B, P, C, root, r, x, y, z, orphan, moved)
  BY <1>a, <1>1, <1>3, <1>4 DEF InnerOK
<1>7. InsertInnerHyp(S, A, B, P, root, r, h, C, x, y, z)
  <2>1. A[x] \in S \union {Null}
    BY <1>a, <1>3 DEF Shape
  <2> QED BY <1>a, <1>1, <1>2, <1>3, <1>4, <1>5, <2>1 DEF InsertInnerHyp
<1>8. PICK A2, B2, P2, C2 :
           /\ View(S, InsertInner(t, side, x, y, z, orphan, moved), side, A2, B2, P2, C2)
           /\ InsertTurned(S, A, B, P, root, C, x, y, z, A2, B2, P2, C2, IF P[x] = Null THEN z ELSE root)
  BY <1>6, InsertInnerViewed
<1>9. Sound(S, A2, B2, P2, IF P[x] = Null THEN z ELSE root, C2)
  BY <1>7, <1>8, DoubleFixesInsert
<1>10. (IF P[x] = Null THEN z ELSE root) = IF t[x].parent = Null THEN z ELSE root
  BY <1>1
<1> QED BY <1>8, <1>9, <1>10, RedBlackOf

LEMMA RotateFixOK ==
  ASSUME NEW S, NEW A, NEW B, NEW P, NEW root, NEW x \in S, NEW y \in S, NEW z \in S, NEW r, NEW C, NEW C1,
         NEW A1, NEW B1, NEW P1, NEW root1, NEW h,
         FixOK(S, A, B, P, root, x, y, z, r, C, C1, A1, B1, P1, root1, h)
  PROVE  /\ Shape(S, A1, B1, P1, root1)
         /\ \E q : Ranking(S, A1, B1, q)
         /\ \E h1 : Heights(S, A1, B1, C1, Null, Null, h1)
         /\ Reds(S, A1, B1, C1, Null)
<1>1. /\ Shape(S, A, B, P, root) /\ Ranking(S, A, B, r) /\ y = B[x]
      /\ Rotated(S, A, B, P, root, x, y, A1, B1, P1, root1)
  BY DEF FixOK
<1>2. /\ z = B[y] /\ C \in [S -> {"red", "black"}]
      /\ Heights(S, A, B, C, x, Null, h) /\ C[y] = "black" /\ C[z] = "red"
      /\ C1 = [m \in S |-> IF m = y THEN C[x] ELSE IF m = x \/ m = z THEN "black" ELSE C[m]]
  BY DEF FixOK
<1>3. PICK e : e = A[x] /\ Reds(S, A, B, C, e)
  BY DEF FixOK
<1>4. Shape(S, A1, B1, P1, root1) /\ \E q : Ranking(S, A1, B1, q)
  BY <1>1, RotateShape, RotateRanking
<1>5. \E h1 : Heights(S, A1, B1, C1, Null, Null, h1)
  BY <1>1, <1>2, RotateFixes
<1>6. Reds(S, A1, B1, C1, Null)
  BY <1>1, <1>2, <1>3, RotateFixesReds
<1> QED BY <1>4, <1>5, <1>6

(* Case 4 of erase. *)
LEMMA TEraseOuter ==
  ASSUME NEW S, NEW t, NEW side, NEW root, NEW x, NEW y, EraseHyp(S, t, side, root, x, y),
         NEW moved, moved = t[y][side], NEW z \in S, z = t[y][Other(side)],
         t[y].color = "black", t[z].color = "red",
         NEW u, u = EraseOuter(t, side, x, y, z, moved)
  PROVE  RedBlack(S, u, IF t[x].parent = Null THEN y ELSE root, Null)
<1>a. /\ S \subseteq Node /\ t \in [S -> Fields] /\ side \in Side
      /\ x \in S /\ y \in S /\ y = t[x][Other(side)]
      /\ TShape(t, root) /\ TRanked(t) /\ TLacks(t, x, side) /\ TReds(t, t[x][side])
  BY DEF EraseHyp
<1> USE <1>a
<1> DEFINE A == Links(t, side)
           B == Links(t, Other(side))
           P == Parents(t)
           C == Colors(t)
           root1 == IF P[x] = Null THEN y ELSE root
<1>1. /\ View(S, t, side, A, B, P, C)
      /\ y = B[x] /\ moved = A[y] /\ t[x][side] = A[x] /\ t[x].parent = P[x] /\ C[y] = "black" /\ z = B[y] /\ C[z] = "red"
  BY ViewOf DEF Links, Parents, Colors
<1> HIDE DEF A, B, P, C
<1>2. Shape(S, A, B, P, root) /\ Reds(S, A, B, C, A[x]) /\ C \in [S -> {"red", "black"}]
  BY <1>1, ViewShape, ViewReds, ViewLinks
<1>3. PICK r : Ranking(S, A, B, r)
  BY <1>1, ViewRanked
<1>4. PICK h : Heights(S, A, B, C, x, Null, h)
  BY <1>1, ViewLacks
<1>5. PICK A1, B1, P1, C1 :
           /\ View(S, u, side, A1, B1, P1, C1)
           /\ Rotated(S, A, B, P, root, x, y, A1, B1, P1, root1)
           /\ C1 = [m \in S |-> IF m = y THEN C[x] ELSE IF m = x \/ m = z THEN "black" ELSE C[m]]
  BY <1>1, <1>2, <1>3, ViewEraseOuter
<1>9. /\ Shape(S, A1, B1, P1, root1)
      /\ \E q : Ranking(S, A1, B1, q)
      /\ \E h1 : Heights(S, A1, B1, C1, Null, Null, h1)
      /\ Reds(S, A1, B1, C1, Null)
  <2> HIDE DEF root1
  <2>3. /\ Shape(S, A, B, P, root) /\ Ranking(S, A, B, r) /\ y = B[x] /\ z = B[y]
        /\ Rotated(S, A, B, P, root, x, y, A1, B1, P1, root1)
        /\ C \in [S -> {"red", "black"}]
        /\ Heights(S, A, B, C, x, Null, h) /\ C[y] = "black" /\ C[z] = "red"
        /\ Reds(S, A, B, C, A[x])
    BY <1>1, <1>2, <1>3, <1>4, <1>5
  <2>4. C1 = [m \in S |-> IF m = y THEN C[x] ELSE IF m = x \/ m = z THEN "black" ELSE C[m]]
    BY <1>5
  <2>5. FixOK(S, A, B, P, root, x, y, z, r, C, C1, A1, B1, P1, root1, h)
    BY <2>3, <2>4 DEF FixOK
  <2> QED BY <2>5, RotateFixOK
<1>13. TShape(u, root1) /\ TRanked(u) /\ TEven(u) /\ TReds(u, Null)
  <2> HIDE DEF root1
  <2>1. View(S, u, side, A1, B1, P1, C1)
    BY <1>5
  <2>2. TShape(u, root1)
    BY <2>1, <1>9, ViewShape
  <2>3. TRanked(u)
    BY <2>1, <1>9, ViewRanked
  <2>4. TEven(u)
    BY <2>1, <1>9, ViewEven
  <2>5. TReds(u, Null)
    BY <2>1, <1>9, ViewReds
  <2> QED BY <2>2, <2>3, <2>4, <2>5
<1>15. u \in [S -> Fields]
  BY <1>5 DEF View
<1> QED BY <1>1, <1>13, <1>15 DEF RedBlack

LEMMA DoubleFixesErase ==
  ASSUME NEW S, NEW A, NEW B, NEW P, NEW root, NEW r, NEW h, NEW C, NEW x, NEW y, NEW z,
         NEW A2, NEW B2, NEW P2, NEW C2, NEW root2,
         EraseInnerHyp(S, A, B, P, root, r, h, C, x, y, z),
         EraseTurned(S, A, B, P, root, C, x, y, z, A2, B2, P2, C2, root2)
  PROVE  Sound(S, A2, B2, P2, root2, C2)
<1>1. /\ Shape(S, A, B, P, root) /\ Ranking(S, A, B, r)
      /\ x \in S /\ y \in S /\ z \in S /\ y = B[x] /\ z = A[y]
  BY DEF EraseInnerHyp
<1>2. /\ C \in [S -> {"red", "black"}] /\ Heights(S, A, B, C, x, Null, h) /\ Reds(S, A, B, C, A[x])
      /\ C[y] = "black" /\ C[z] = "red"
      /\ B[y] # Null => C[B[y]] = "black"
  BY DEF EraseInnerHyp
<1>3. /\ DoubleRotated(S, A, B, P, root, x, y, z, A2, B2, P2, root2)
      /\ C2 = [m \in S |-> IF m = x THEN "black" ELSE IF m = z THEN C[x]
                           ELSE IF m = y \/ m = B[z] THEN "black" ELSE C[m]]
  BY DEF EraseTurned
<1>4. /\ Null \notin S /\ y # x /\ z # x /\ y # z /\ P[y] = x /\ x # Null /\ z # Null
      /\ B[z] # z /\ B[z] # x /\ B[z] # y /\ A[x] # y /\ A[x] # z
      /\ B[z] # Null => B[z] \in S /\ B[z] # A[x]
  BY <1>1 DEF Shape, Ranking
<1>5. B[z] # Null => C[B[z]] = "black"
  BY <1>1, <1>2, <1>4 DEF Reds
<1>6. PICK A1, B1, P1 : MirrorHyp(S, A, B, P, root, r, y, z, A1, B1, P1)
  <2>1. P[y] # Null
    BY <1>1, <1>4
  <2> QED BY <1>1, <2>1, MirrorExists
<1>7. PICK C1 : C1 = [m \in S |-> IF m = z THEN C[y] ELSE IF m = y THEN C[z] ELSE C[m]]
  OBVIOUS
<1>8. /\ Swapped(S, C, y, z, C1)
      /\ C1[z] = "black" /\ C1[y] = "red" /\ C1[x] = C[x]
      /\ C1 \in [S -> {"red", "black"}]
  BY <1>1, <1>2, <1>4, <1>7 DEF Swapped
<1>9. Rotated(S, A1, B1, P1, root, x, z, A2, B2, P2, root2) /\ B1[x] = z
  <2>1. TwiceOK(S, A, B, P, root, x, y, z, r, A1, B1, P1, A2, B2, P2, root2)
    BY <1>1, <1>3, <1>6 DEF TwiceOK, MirrorHyp
  <2> QED BY <1>1, <2>1, DoubleTwice
<1>10. Shape(S, A1, B1, P1, root)
  BY <1>6, MirrorRotates
<1>11. PICK r1 : Ranking(S, A1, B1, r1)
  BY <1>6, MirrorRotates
<1>12. PICK h1 : Heights(S, A1, B1, C1, x, Null, h1)
  <2>1. MirrorColors(S, A, B, C, C1, h, y, z, x, Null)
    BY <1>1, <1>2, <1>4, <1>8 DEF MirrorColors
  <2> QED BY <1>6, <2>1, MirrorKeepsHeights
<1>13. Reds(S, A1, B1, C1, A[x])
  <2>1. /\ Shape(S, B, A, P, root) /\ Ranking(S, B, A, r) /\ Reds(S, B, A, C, A[x])
        /\ Rotated(S, B, A, P, root, y, z, B1, A1, P1, root)
    BY <1>1, <1>2, <1>6, MirrorShape, MirrorRanking, MirrorReds DEF MirrorHyp
  <2>2. /\ B[z] # Null => B[z] # A[x]
        /\ B[y] # Null /\ C[B[y]] = "red" => B[y] = A[x]
    BY <1>2, <1>4
  <2>3. RedsHyp(S, B, A, P, root, y, z, r, C, C1, B1, A1, P1, root, A[x], A[x])
    BY <1>1, <1>2, <1>8, <2>1, <2>2 DEF RedsHyp
  <2>4. Reds(S, B1, A1, C1, A[x])
    BY <2>3, RotateReds
  <2> QED BY <2>4, MirrorReds
<1>14. B1[z] = y /\ A1[x] = A[x]
  BY <1>1, <1>4, <1>6 DEF MirrorHyp, Rotated
<1>15. C2 = [m \in S |-> IF m = z THEN C1[x] ELSE IF m = x \/ m = y THEN "black" ELSE C1[m]]
  <2>1. ASSUME NEW m \in S
        PROVE  C2[m] = IF m = z THEN C1[x] ELSE IF m = x \/ m = y THEN "black" ELSE C1[m]
    <3>1. C2[m] = IF m = x THEN "black" ELSE IF m = z THEN C[x]
                  ELSE IF m = y \/ m = B[z] THEN "black" ELSE C[m]
      BY <1>3
    <3>2. C1[m] = IF m = z THEN C[y] ELSE IF m = y THEN C[z] ELSE C[m]
      BY <1>7
    <3> QED BY <3>1, <3>2, <1>4, <1>5, <1>8
  <2>2. C2 = [m \in S |-> C2[m]]
    BY <1>3
  <2> QED BY <2>1, <2>2
<1>16. /\ Shape(S, A2, B2, P2, root2)
       /\ \E q : Ranking(S, A2, B2, q)
       /\ \E h2 : Heights(S, A2, B2, C2, Null, Null, h2)
       /\ Reds(S, A2, B2, C2, Null)
  <2>1. Reds(S, A1, B1, C1, A1[x]) /\ z = B1[x] /\ y = B1[z]
    BY <1>9, <1>13, <1>14
  <2>2. FixOK(S, A1, B1, P1, root, x, z, y, r1, C1, C2, A2, B2, P2, root2, h1)
    BY <1>8, <1>9, <1>10, <1>11, <1>12, <1>15, <2>1 DEF FixOK
  <2> QED BY <1>1, <2>2, RotateFixOK
<1> QED BY <1>16 DEF Sound

(* Cases 3 and 4 of erase together. *)
LEMMA TEraseInner ==
  ASSUME NEW S, NEW t, NEW side, NEW root, NEW x, NEW y, EraseHyp(S, t, side, root, x, y),
         NEW z \in S, NEW orphan, NEW moved, z = t[y][side], orphan = t[z][Other(side)], moved = t[z][side],
         t[y].color = "black", t[z].color = "red",
         t[y][Other(side)] # Null => t[t[y][Other(side)]].color = "black"
  PROVE  RedBlack(S, EraseInner(t, side, x, y, z, orphan, moved), IF t[x].parent = Null THEN z ELSE root, Null)
<1>a. /\ S \subseteq Node /\ t \in [S -> Fields] /\ side \in Side
      /\ x \in S /\ y \in S /\ y = t[x][Other(side)]
      /\ TShape(t, root) /\ TRanked(t) /\ TLacks(t, x, side) /\ TReds(t, t[x][side])
  BY DEF EraseHyp
<1> DEFINE A == Links(t, side)
           B == Links(t, Other(side))
           P == Parents(t)
           C == Colors(t)
<1>1. /\ View(S, t, side, A, B, P, C)
      /\ y = B[x] /\ z = A[y] /\ t[x][side] = A[x] /\ t[x].parent = P[x] /\ C[y] = "black" /\ C[z] = "red"
      /\ moved = A[z] /\ orphan = B[z] /\ B[y] = t[y][Other(side)]
  BY <1>a, ViewOf DEF Links, Parents, Colors
<1>2. B[y] # Null /\ B[y] \in S => C[B[y]] = "black"
  BY <1>a, <1>1 DEF Colors
<1> HIDE DEF A, B, P, C
<1>3. Shape(S, A, B, P, root) /\ Reds(S, A, B, C, A[x]) /\ C \in [S -> {"red", "black"}]
  BY <1>a, <1>1, ViewShape, ViewReds, ViewLinks
<1>4. PICK r : Ranking(S, A, B, r)
  BY <1>a, <1>1, ViewRanked
<1>5. PICK h : Heights(S, A, B, C, x, Null, h)
  BY <1>a, <1>1, ViewLacks
<1>6. InnerOK(S, t, side, A, B, P, C, root, r, x, y, z, orphan, moved)
  BY <1>a, <1>1, <1>3, <1>4 DEF InnerOK
<1>7. EraseInnerHyp(S, A, B, P, root, r, h, C, x, y, z)
  <2>1. B[y] \in S \union {Null}
    BY <1>a, <1>3 DEF Shape
  <2> QED BY <1>a, <1>1, <1>2, <1>3, <1>4, <1>5, <2>1 DEF EraseInnerHyp
<1>8. PICK A2, B2, P2, C2 :
           /\ View(S, EraseInner(t, side, x, y, z, orphan, moved), side, A2, B2, P2, C2)
           /\ EraseTurned(S, A, B, P, root, C, x, y, z, A2, B2, P2, C2, IF P[x] = Null THEN z ELSE root)
  BY <1>6, EraseInnerViewed
<1>9. Sound(S, A2, B2, P2, IF P[x] = Null THEN z ELSE root, C2)
  BY <1>7, <1>8, DoubleFixesErase
<1>10. (IF P[x] = Null THEN z ELSE root) = IF t[x].parent = Null THEN z ELSE root
  BY <1>1
<1> QED BY <1>8, <1>9, <1>10, RedBlackOf

LEMMA PutSame ==
  ASSUME NEW S, NEW f, f = [m \in S |-> f[m]], DOMAIN f = S, NEW n \in S, n # Null
  PROVE  Put(f, n, f[n]) = f
BY DEF Put

LEMMA TWeakReds ==
  ASSUME NEW t, TReds(t, Null), NEW e
  PROVE  TReds(t, e)
BY DEF TReds, Reds

LEMMA FlipHeightsOK ==
  ASSUME NEW S, NEW A, NEW B, NEW P, NEW root, NEW C, NEW h, NEW r,
         NEW x \in S, NEW y \in S, NEW C1, FlipOK(S, A, B, P, root, C, h, r, x, y, C1)
  PROVE  \E h1 :
         /\ Reds(S, A, B, C1, Null)
         /\ C[x] = "red" \/ P[x] = Null => Heights(S, A, B, C1, Null, Null, h1)
         /\ C[x] = "black" => Heights(S, A, B, C1, Above(A, P, x), Above(B, P, x), h1)
<1>1. /\ Shape(S, A, B, P, root) /\ Ranking(S, A, B, r) /\ C \in [S -> {"red", "black"}]
      /\ Heights(S, A, B, C, x, Null, h)
      /\ y = B[x] /\ C[y] = "black"
      /\ A[y] # Null => C[A[y]] = "black"
      /\ B[y] # Null => C[B[y]] = "black"
  BY DEF FlipOK
<1>2. PICK e : e = A[x] /\ Reds(S, A, B, C, e)
  BY DEF FlipOK
<1>3. C1 = [m \in S |-> IF m = y THEN "red" ELSE IF m = x THEN "black" ELSE C[m]]
  BY DEF FlipOK
<1>4. PICK w : w = [m \in S |-> IF m = y THEN h[y] - 1 ELSE IF m = x THEN h[y] ELSE h[m]]
  OBVIOUS
<1> WITNESS w
<1>5. Reds(S, A, B, C1, Null)
  BY <1>1, <1>2, <1>3, <1>4, FlipHeightsAt
<1>6. C[x] = "red" \/ P[x] = Null => Heights(S, A, B, C1, Null, Null, w)
  BY <1>1, <1>2, <1>3, <1>4, FlipHeightsAt
<1>7. C[x] = "black" => Heights(S, A, B, C1, Above(A, P, x), Above(B, P, x), w)
  BY <1>1, <1>2, <1>3, <1>4, FlipHeightsAt
<1> QED BY <1>5, <1>6, <1>7

(* Case 1 of insert: the grandparent becomes red and may now be the        *)
(* exception.                                                              *)
LEMMA TRecolor ==
  ASSUME NEW S, NEW t, NEW side, NEW root, NEW g, NEW p, NEW u, NEW n, RecolorHyp(S, t, side, root, g, p, u, n),
         NEW v, v = WithColor(SetParentColor(SetParentColor(t, u, g, "black"), p, g, "black"), g, "red")
  PROVE  RedBlack(S, v, root, g) /\ v[g].color = "red" /\ v[g].parent = t[g].parent
<1>a. /\ S \subseteq Node /\ t \in [S -> Fields] /\ side \in Side
      /\ g \in S /\ p \in S /\ p = t[g][side] /\ u \in S /\ u = t[g][Other(side)]
      /\ n \in S /\ t[n].parent = p
      /\ TShape(t, root) /\ TRanked(t) /\ TEven(t) /\ TReds(t, n)
      /\ t[p].color = "red" /\ t[u].color = "red"
  BY DEF RecolorHyp
<1> USE <1>a
<1> DEFINE A == Links(t, side)
           B == Links(t, Other(side))
           P == Parents(t)
           C == Colors(t)
           C1 == Put(Put(Put(C, u, "black"), p, "black"), g, "red")
<1>1. /\ View(S, t, side, A, B, P, C)
      /\ p = A[g] /\ u = B[g] /\ C[p] = "red" /\ C[u] = "red" /\ P[n] = p /\ P[g] = t[g].parent
  BY ViewOf DEF Links, Parents, Colors
<1> HIDE DEF A, B, P, C
<1>2. Shape(S, A, B, P, root) /\ Reds(S, A, B, C, n) /\ C \in [S -> {"red", "black"}]
  BY <1>1, ViewShape, ViewReds, ViewLinks
<1>3. PICK r : Ranking(S, A, B, r)
  BY <1>1, ViewRanked
<1>4. PICK h : Heights(S, A, B, C, Null, Null, h)
  BY <1>1, ViewEven
<1>5. /\ P[p] = g /\ P[u] = g /\ p # g /\ u # g /\ p # u /\ g # Null /\ p # Null /\ u # Null
      /\ g \in Node /\ u \in S \union {Null} /\ p \in S \union {Null}
  BY <1>1, <1>2, <1>3 DEF Shape, Ranking
<1>6. /\ P = [m \in S |-> P[m]] /\ DOMAIN P = S
      /\ C = [m \in S |-> C[m]] /\ DOMAIN C = S
  BY <1>1 DEF View
<1>7. View(S, v, side, A, B, P, C1)
  <2> DEFINE t1 == SetParentColor(t, u, g, "black")
             t2 == SetParentColor(t1, p, g, "black")
             C2 == Put(C, u, "black")
             C3 == Put(C2, p, "black")
  <2>1. Put(P, u, g) = P /\ Put(P, p, g) = P
    BY <1>5, <1>6, PutSame
  <2>2. View(S, t1, side, A, B, P, C2)
    <3>1. View(S, t1, side, A, B, Put(P, u, g), C2)
      BY <1>1, <1>5, ViewParentColor
    <3> HIDE DEF t1, C2
    <3> QED BY <2>1, <3>1
  <2> HIDE DEF t1, C2
  <2>3. View(S, t2, side, A, B, P, C3)
    <3>1. View(S, t2, side, A, B, Put(P, p, g), C3)
      BY <2>2, <1>5, ViewParentColor
    <3> HIDE DEF t2, C3
    <3> QED BY <2>1, <3>1
  <2>4. v = WithColor(t2, g, "red") /\ C1 = Put(C3, g, "red")
    BY DEF t1, C2
  <2> HIDE DEF t2, C3, C1
  <2>5. View(S, WithColor(t2, g, "red"), side, A, B, P, Put(C3, g, "red"))
    BY <1>5, <2>3, ViewColor
  <2> QED BY <2>4, <2>5
<1>8. C1 = [m \in S |-> IF m = g THEN "red" ELSE IF m = p \/ m = u THEN "black" ELSE C[m]]
  <2> DEFINE C2 == Put(C, u, "black")
             C3 == Put(C2, p, "black")
  <2>1. C2 = [m \in S |-> IF m = u THEN "black" ELSE C[m]] /\ DOMAIN C2 = S
    BY <1>5, <1>6 DEF Put
  <2> HIDE DEF C2
  <2>2. C3 = [m \in S |-> IF m = p \/ m = u THEN "black" ELSE C[m]] /\ DOMAIN C3 = S
    BY <1>5, <2>1 DEF Put
  <2>3. C1 = Put(C3, g, "red")
    BY DEF C2
  <2> HIDE DEF C3, C1
  <2> QED BY <1>5, <2>2, <2>3 DEF Put
<1> HIDE DEF C1
<1>9. \E h1 : Heights(S, A, B, C1, Null, Null, h1) /\ Reds(S, A, B, C1, g)
  <2>1. RecolorOK(S, A, B, P, root, C, h, r, g, p, u, n, C1)
    BY <1>1, <1>2, <1>3, <1>4, <1>8 DEF RecolorOK
  <2> QED BY <2>1, RecolorHeightsOK
<1>10. TShape(v, root) /\ TRanked(v)
  BY <1>2, <1>3, <1>7, ViewShape, ViewRanked
<1>11. TEven(v)
  BY <1>7, <1>9, ViewEven
<1>12. TReds(v, g)
  BY <1>7, <1>9, ViewReds
<1>13. v \in [S -> Fields] /\ v[g].color = C1[g] /\ v[g].parent = P[g]
  BY <1>7 DEF View
<1>14. C1[g] = "red"
  BY <1>8
<1> QED BY <1>1, <1>10, <1>11, <1>12, <1>13, <1>14 DEF RedBlack

(* Case 2 of erase: the sibling becomes red, and what lacks a black node   *)
(* is now all that is below the parent.                                    *)
LEMMA TFlip ==
  ASSUME NEW S, NEW t, NEW side, NEW root, NEW x, NEW y, EraseHyp(S, t, side, root, x, y),
         t[y].color = "black", \A s \in Side : t[y][s] # Null => t[t[y][s]].color = "black",
         NEW v, v = WithColor(SetParentColor(t, y, x, "red"), x, "black")
  PROVE  /\ v \in [S -> Fields] /\ TShape(v, root) /\ TRanked(v) /\ TReds(v, Null)
         /\ t[x].color = "red" \/ t[x].parent = Null => TEven(v)
         /\ \A s \in Side : t[x].color = "black" /\ t[x].parent # Null /\ t[t[x].parent][s] = x
                             => TLacks(v, t[x].parent, s)
         /\ \A m \in S, s \in Side : v[m][s] = t[m][s]
         /\ \A m \in S : v[m].parent = t[m].parent
<1>a. /\ S \subseteq Node /\ t \in [S -> Fields] /\ side \in Side
      /\ x \in S /\ y \in S /\ y = t[x][Other(side)]
      /\ TShape(t, root) /\ TRanked(t) /\ TLacks(t, x, side) /\ TReds(t, t[x][side])
  BY DEF EraseHyp
<1> USE <1>a
<1> DEFINE A == Links(t, side)
           B == Links(t, Other(side))
           P == Parents(t)
           C == Colors(t)
           C1 == Put(Put(C, y, "red"), x, "black")
<1>1. /\ View(S, t, side, A, B, P, C)
      /\ y = B[x] /\ C[y] = "black" /\ t[x][side] = A[x] /\ t[x].parent = P[x] /\ t[x].color = C[x]
  BY ViewOf DEF Links, Parents, Colors
<1>0. /\ A[y] # Null /\ A[y] \in S => C[A[y]] = "black"
      /\ B[y] # Null /\ B[y] \in S => C[B[y]] = "black"
  BY Sides DEF Links, Colors
<1>00. \A m \in S : A[m] = t[m][side] /\ B[m] = t[m][Other(side)] /\ P[m] = t[m].parent
  BY DEF Links, Parents
<1> HIDE DEF A, B, P, C
<1>2. Shape(S, A, B, P, root) /\ Reds(S, A, B, C, A[x]) /\ C \in [S -> {"red", "black"}]
  BY <1>1, ViewShape, ViewReds, ViewLinks
<1>3. PICK r : Ranking(S, A, B, r)
  BY <1>1, ViewRanked
<1>4. PICK h : Heights(S, A, B, C, x, Null, h)
  BY <1>1, ViewLacks
<1>5. /\ P[y] = x /\ x # y /\ x # Null /\ y # Null /\ x \in Node /\ y \in S \union {Null} /\ x \in S \union {Null}
      /\ A[y] # Null => C[A[y]] = "black"
      /\ B[y] # Null => C[B[y]] = "black"
  BY <1>0, <1>1, <1>2, <1>3 DEF Shape, Ranking
<1>6. /\ P = [m \in S |-> P[m]] /\ DOMAIN P = S
      /\ C = [m \in S |-> C[m]] /\ DOMAIN C = S
  BY <1>1 DEF View
<1>7. View(S, v, side, A, B, P, C1)
  <2> DEFINE t1 == SetParentColor(t, y, x, "red")
             C2 == Put(C, y, "red")
  <2>1. Put(P, y, x) = P
    BY <1>5, <1>6, PutSame
  <2>2. View(S, t1, side, A, B, P, C2)
    <3>1. View(S, t1, side, A, B, Put(P, y, x), C2)
      BY <1>1, <1>5, ViewParentColor
    <3> HIDE DEF t1, C2
    <3> QED BY <2>1, <3>1
  <2>4. v = WithColor(t1, x, "black") /\ C1 = Put(C2, x, "black")
    OBVIOUS
  <2> HIDE DEF t1, C2, C1
  <2>5. View(S, WithColor(t1, x, "black"), side, A, B, P, Put(C2, x, "black"))
    BY <1>5, <2>2, ViewColor
  <2> QED BY <2>4, <2>5
<1>8. C1 = [m \in S |-> IF m = y THEN "red" ELSE IF m = x THEN "black" ELSE C[m]]
  <2> DEFINE C2 == Put(C, y, "red")
  <2>1. C2 = [m \in S |-> IF m = y THEN "red" ELSE C[m]] /\ DOMAIN C2 = S
    BY <1>5, <1>6 DEF Put
  <2>3. C1 = Put(C2, x, "black")
    OBVIOUS
  <2> HIDE DEF C2, C1
  <2> QED BY <1>5, <2>1, <2>3 DEF Put
<1> HIDE DEF C1
<1>9. PICK h1 : 
         /\ Reds(S, A, B, C1, Null)
         /\ C[x] = "red" \/ P[x] = Null => Heights(S, A, B, C1, Null, Null, h1)
         /\ C[x] = "black" => Heights(S, A, B, C1, Above(A, P, x), Above(B, P, x), h1)
  <2>1. FlipOK(S, A, B, P, root, C, h, r, x, y, C1)
    BY <1>1, <1>2, <1>3, <1>4, <1>5, <1>8 DEF FlipOK
  <2> QED BY <2>1, FlipHeightsOK
<1>10. TShape(v, root) /\ TRanked(v)
  BY <1>2, <1>3, <1>7, ViewShape, ViewRanked
<1>11. C[x] = "red" \/ P[x] = Null => TEven(v)
  BY <1>7, <1>9, ViewEven
<1>12. TReds(v, Null)
  BY <1>7, <1>9, ViewReds
<1>13. ASSUME NEW s \in Side, C[x] = "black", P[x] # Null, t[P[x]][s] = x
       PROVE  TLacks(v, P[x], s)
  <2>1. Heights(S, A, B, C1, Above(A, P, x), Above(B, P, x), h1)
    BY <1>9, <1>13
  <2>2. P[x] \in S /\ A[P[x]] = t[P[x]][side] /\ B[P[x]] = t[P[x]][Other(side)] /\ A[P[x]] # B[P[x]]
    BY <1>00, <1>2, <1>13, <1>5 DEF Shape
  <2>3. CASE s = side
    <3>1. Above(A, P, x) = P[x] /\ Above(B, P, x) = Null
      BY <1>13, <2>2, <2>3 DEF Above
    <3> QED BY <1>7, <2>1, <2>3, <3>1, ViewLacks
  <2>4. CASE s = Other(side)
    <3>1. Above(A, P, x) = Null /\ Above(B, P, x) = P[x]
      BY <1>13, <2>2, <2>4 DEF Above
    <3> QED BY <1>7, <2>1, <2>4, <3>1, ViewLacks
  <2>5. s = side \/ s = Other(side)
    BY DEF Side, Other
  <2> QED BY <2>3, <2>4, <2>5
<1>14. v \in [S -> Fields] /\ \A m \in S : v[m][side] = A[m] /\ v[m][Other(side)] = B[m] /\ v[m].parent = P[m]
  BY <1>7 DEF View
<1>15. \A m \in S, s \in Side : v[m][s] = t[m][s]
  <2>1. \A s \in Side : s = side \/ s = Other(side)
    BY DEF Side, Other
  <2> QED BY <1>00, <1>14, <2>1
<1>16. \A m \in S : v[m].parent = t[m].parent
  BY <1>00, <1>14
<1> QED BY <1>1, <1>10, <1>11, <1>12, <1>13, <1>14, <1>15, <1>16

LEMMA TRootColor ==
  ASSUME NEW S, NEW t, NEW root, S \subseteq Node, t \in [S -> Fields],
         NEW n \in S, t[n].parent = Null,
         TShape(t, root), TRanked(t), TEven(t), TReds(t, n),
         NEW v, v = SetParentColor(t, n, Null, "black")
  PROVE  /\ v \in [S -> Fields]
         /\ TShape(v, root)
         /\ TRanked(v)
         /\ TEven(v)
         /\ TReds(v, Null)
<1> DEFINE A == Links(t, "left")
           B == Links(t, "right")
           P == Parents(t)
           C == Colors(t)
           C1 == Put(C, n, "black")
<1>1. /\ View(S, t, "left", A, B, P, C)
      /\ P[n] = Null
  <2>1. "left" \in Side /\ Other("left") = "right"
    BY DEF Side, Other
  <2> QED BY <2>1, ViewOf DEF Parents
<1> HIDE DEF A, B, P, C
<1>2. Shape(S, A, B, P, root) /\ Reds(S, A, B, C, n) /\ C \in [S -> {"red", "black"}]
  BY <1>1, ViewShape, ViewReds, ViewLinks
<1>3. PICK r : Ranking(S, A, B, r)
  BY <1>1, ViewRanked
<1>4. PICK h : Heights(S, A, B, C, Null, Null, h)
  BY <1>1, ViewEven
<1>5. /\ n # Null /\ n \in S \union {Null} /\ \A m \in S : A[m] # n /\ B[m] # n
      /\ A \in [S -> S \union {Null}] /\ B \in [S -> S \union {Null}] /\ Null \notin S
  BY <1>1, <1>2 DEF Shape
<1>6. /\ P = [m \in S |-> P[m]] /\ DOMAIN P = S
      /\ C = [m \in S |-> C[m]] /\ DOMAIN C = S
  BY <1>1 DEF View
<1>7. View(S, v, "left", A, B, P, C1)
  <2>1. Put(P, n, Null) = P
    BY <1>1, <1>5, <1>6, PutSame
  <2>2. View(S, v, "left", A, B, Put(P, n, Null), C1)
    BY <1>1, <1>5, ViewParentColor
  <2> HIDE DEF C1
  <2> QED BY <2>1, <2>2
<1>8. C1 = [m \in S |-> IF m = n THEN "black" ELSE C[m]]
  BY <1>5, <1>6 DEF Put
<1> HIDE DEF C1
<1>9. Reds(S, A, B, C1, Null)
  BY <1>2, <1>5, <1>8 DEF Reds
<1>10. \E h1 : Heights(S, A, B, C1, Null, Null, h1)
  <2>1. PICK h1 : h1 = [m \in S |-> IF m = n THEN At(h, A[n]) + 1 ELSE h[m]]
    OBVIOUS
  <2>2. h \in [S -> Nat \ {0}] /\ \A m \in S : At(h, A[m]) \in Nat \ {0} /\ At(h, B[m]) \in Nat \ {0}
    BY <1>4, <1>5 DEF Heights, At
  <2>3. h1 \in [S -> Nat \ {0}]
    BY <2>1, <2>2
  <2>4. \A m \in S : At(h1, A[m]) = At(h, A[m]) /\ At(h1, B[m]) = At(h, B[m])
    BY <1>5, <2>1 DEF At
  <2>5. ASSUME NEW m \in S
        PROVE  At(h1, A[m]) + Lack(m, Null) = At(h1, B[m]) + Lack(m, Null)
    BY <1>4, <2>4 DEF Heights
  <2>6. ASSUME NEW m \in S
        PROVE  h1[m] = At(h1, A[m]) + Lack(m, Null) + Black(C1, m)
    <3>1. CASE m = n
      <4>1. Lack(m, Null) = 0 /\ Black(C1, m) = 1
        BY <1>5, <1>8, <3>1 DEF Lack, Black
      <4>2. h1[m] = At(h, A[m]) + 1 /\ At(h1, A[m]) = At(h, A[m]) /\ At(h, A[m]) \in Nat
        BY <2>1, <2>2, <2>4, <3>1
      <4> QED BY <4>1, <4>2
    <3>2. CASE m # n
      <4>1. Black(C1, m) = Black(C, m) /\ h1[m] = h[m]
        BY <1>8, <2>1, <3>2 DEF Black
      <4> QED BY <1>4, <2>4, <4>1 DEF Heights
    <3> QED BY <3>1, <3>2
  <2> QED BY <2>3, <2>5, <2>6 DEF Heights
<1>11. TShape(v, root) /\ TRanked(v)
  BY <1>2, <1>3, <1>7, ViewShape, ViewRanked
<1>12. TEven(v)
  BY <1>7, <1>10, ViewEven
<1>13. TReds(v, Null)
  BY <1>7, <1>9, ViewReds
<1>14. v \in [S -> Fields]
  BY <1>7 DEF View
<1> QED BY <1>11, <1>12, <1>13, <1>14

-----------------------------------------------------------------------------
(* Recursive functions on the nodes: the natural numbers are well-ordered, *)
(* ranks are bounded in a finite tree, so a walk along the links ends and  *)
(* defines one function.                                                   *)
LEMMA LeastNumber ==
  ASSUME NEW S \in SUBSET Nat, S # {}
  PROVE  \E m \in S : \A k \in S : m <= k
<1>1. IsWellFoundedOn(OpToRel(<, Nat), Nat)
  BY NatLessThanWellFounded
<1>2. PICK m \in S : \A k \in S : ~(<<k, m>> \in OpToRel(<, Nat))
  BY <1>1, WFMin
<1>3. \A k \in S : <<k, m>> \in OpToRel(<, Nat) <=> k < m
  BY DEF OpToRel
<1>4. \A k \in S : ~(k < m) /\ k \in Nat /\ m \in Nat
  BY <1>2, <1>3
<1> QED BY <1>4

LEMMA LeastRank ==
  ASSUME NEW S, NEW r \in [S -> Nat], NEW T \in SUBSET S, T # {}
  PROVE  \E m \in T : \A k \in T : r[m] <= r[k]
<1> DEFINE D == {r[m] : m \in T}
<1>1. D \in SUBSET Nat /\ D # {}
  OBVIOUS
<1>2. \E d \in D : \A k \in D : d <= k
  <2> HIDE DEF D
  <2> QED BY <1>1, LeastNumber
<1> QED BY <1>2

(* A finite set has a bound on its ranks: else there is a smallest set     *)
(* that has none.                                                          *)
LEMMA RanksBounded ==
  ASSUME NEW S, NEW r \in [S -> Nat], IsFiniteSet(S)
  PROVE  \E n \in Nat : \A m \in S : r[m] < n
<1> DEFINE Bounded(T) == \E n \in Nat : \A m \in T : r[m] < n
           D == {c \in Nat : \E T \in SUBSET S : Cardinality(T) = c /\ ~Bounded(T)}
<1>1. \A T \in SUBSET S : IsFiniteSet(T) /\ Cardinality(T) \in Nat
  BY FS_Subset, FS_CardinalityType
<1>2. ASSUME D # {}
      PROVE  FALSE
  <2>1. PICK c \in D : \A k \in D : c <= k
    <3>1. D \in SUBSET Nat
      OBVIOUS
    <3> HIDE DEF D
    <3> QED BY <1>2, <3>1, LeastNumber
  <2>2. PICK T \in SUBSET S : Cardinality(T) = c /\ ~Bounded(T)
    BY <2>1
  <2>3. T # {}
    <3>1. Bounded({})
      OBVIOUS
    <3> QED BY <2>2, <3>1
  <2>4. PICK x \in T : TRUE
    BY <2>3
  <2>5. T \ {x} \in SUBSET S /\ Cardinality(T \ {x}) = c - 1 /\ c \in Nat /\ c - 1 \in Nat
    <3>1. Cardinality(T \ {x}) = c - 1
      BY <1>1, <2>2, <2>4, FS_RemoveElement
    <3>2. Cardinality(T \ {x}) \in Nat
      BY <1>1
    <3> QED BY <2>1, <3>1, <3>2
  <2>6. Bounded(T \ {x})
    <3>1. c - 1 \notin D
      BY <2>1, <2>5
    <3> QED BY <2>5, <3>1
  <2>7. PICK n \in Nat : \A m \in T \ {x} : r[m] < n
    BY <2>6
  <2>8. \A m \in T : r[m] < n + r[x] + 1
    BY <2>7, <2>4
  <2>9. n + r[x] + 1 \in Nat
    BY <2>7, <2>4
  <2> QED BY <2>2, <2>8, <2>9
<1>3. Bounded(S)
  <2>1. Cardinality(S) \in Nat
    BY <1>1
  <2> QED BY <1>2, <2>1
<1> QED BY <1>3

LEMMA MostRank ==
  ASSUME NEW S, NEW r \in [S -> Nat], IsFiniteSet(S), S # {}
  PROVE  \E m \in S : \A k \in S : r[k] <= r[m]
<1>1. PICK n \in Nat : \A m \in S : r[m] < n
  BY RanksBounded
<1> DEFINE q == [m \in S |-> n - r[m]]
<1>2. q \in [S -> Nat]
  BY <1>1
<1>3. \E m \in S : \A k \in S : q[m] <= q[k]
  <2> HIDE DEF q
  <2> QED BY <1>2, LeastRank
<1> QED BY <1>1, <1>3

LEMMA RootExists ==
  ASSUME NEW S, NEW A, NEW B, NEW P, NEW root, NEW r, IsFiniteSet(S),
         Shape(S, A, B, P, root), Ranking(S, A, B, r), root = Null
  PROVE  S = {}
<1> SUFFICES ASSUME S # {} PROVE FALSE
  OBVIOUS
<1>1. PICK m \in S : \A k \in S : r[k] <= r[m]
  BY MostRank DEF Ranking
<1>2. P[m] # Null /\ P[m] \in S
  BY DEF Shape
<1> QED BY <1>1, <1>2 DEF Shape, Ranking

(* Walks of any number of steps have an end. *)
LEMMA LeadsBelow ==
  ASSUME NEW S, NEW next, NEW stop, NEW val, NEW r, Descends(S, next, stop, r)
  PROVE  \A n \in Nat : \E f : Leads(Below(S, r, n), next, stop, val, f)
<1> DEFINE D == {n \in Nat : ~\E f : Leads(Below(S, r, n), next, stop, val, f)}
<1> SUFFICES ASSUME D # {} PROVE FALSE
  OBVIOUS
<1>1. PICK n \in D : \A k \in D : n <= k
  <2>1. D \in SUBSET Nat
    OBVIOUS
  <2> HIDE DEF D
  <2> QED BY <2>1, LeastNumber
<1>2. n \in Nat /\ ~\E f : Leads(Below(S, r, n), next, stop, val, f)
  BY <1>1
<1>3. CASE n = 0
  <2>1. Below(S, r, n) = {}
    BY <1>3 DEF Below, Descends
  <2>2. PICK f : f = [p \in {} |-> val]
    OBVIOUS
  <2>3. Leads({}, next, stop, val, f)
    BY <2>2 DEF Leads
  <2> QED BY <1>2, <2>1, <2>3
<1>4. CASE n # 0
  <2>1. n - 1 \in Nat /\ n - 1 \notin D
    BY <1>1, <1>2, <1>4
  <2>2. PICK g : Leads(Below(S, r, n - 1), next, stop, val, g)
    BY <2>1
  <2>3. PICK f : f = [p \in Below(S, r, n) |-> IF p \in stop THEN val[p] ELSE g[next[p]]]
    OBVIOUS
  <2>4. \A p \in Below(S, r, n - 1) : p \in Below(S, r, n) /\ (p \in stop \/ next[p] \in Below(S, r, n - 1))
    BY <1>2, <2>1 DEF Below, Descends
  <2>5. \A p \in Below(S, r, n) : p \in stop \/ next[p] \in Below(S, r, n - 1)
    BY <1>2, <2>1 DEF Below, Descends
  <2>6. \A p \in Below(S, r, n - 1) : g[p] = IF p \in stop THEN val[p] ELSE g[next[p]]
    BY <2>2 DEF Leads
  <2>7. \A p \in Below(S, r, n - 1) : f[p] = g[p]
    BY <2>3, <2>4, <2>6
  <2>8. \A p \in Below(S, r, n) : f[p] = IF p \in stop THEN val[p] ELSE f[next[p]]
    BY <2>3, <2>5, <2>7
  <2>9. Leads(Below(S, r, n), next, stop, val, f)
    BY <2>3, <2>8 DEF Leads
  <2> QED BY <1>2, <2>9
<1> QED BY <1>3, <1>4

LEMMA LeadsExists ==
  ASSUME NEW S, NEW next, NEW stop, NEW val, NEW r, IsFiniteSet(S), Descends(S, next, stop, r)
  PROVE  \E f : Leads(S, next, stop, val, f)
<1>1. PICK n \in Nat : \A m \in S : r[m] < n
  BY RanksBounded DEF Descends
<1>2. Below(S, r, n) = S
  BY <1>1 DEF Below
<1>3. \A k \in Nat : \E f : Leads(Below(S, r, k), next, stop, val, f)
  BY LeadsBelow
<1>4. \E f : Leads(Below(S, r, n), next, stop, val, f)
  BY <1>1, <1>3
<1> QED BY <1>2, <1>4

-----------------------------------------------------------------------------
(* Leftmost and rightmost nodes end a way outward; the place that insert   *)
(* finds is free; black heights are what BlackHeight counts.               *)
LEMMA LeadsEnds ==
  ASSUME NEW S, NEW next, NEW stop, NEW val, NEW r, NEW f,
         Descends(S, next, stop, r), Leads(S, next, stop, val, f), NEW p \in S
  PROVE  \E e \in S : e \in stop /\ f[p] = val[e]
<1> DEFINE T == {m \in S : ~\E e \in S : e \in stop /\ f[m] = val[e]}
<1>1. ASSUME T # {} PROVE FALSE
  <2>1. PICK m \in T : \A k \in T : r[m] <= r[k]
    <3>1. T \in SUBSET S /\ r \in [S -> Nat]
      BY DEF Descends
    <3> HIDE DEF T
    <3> QED BY <1>1, <3>1, LeastRank
  <2>2. m \in S /\ f[m] = IF m \in stop THEN val[m] ELSE f[next[m]]
    BY <2>1 DEF Leads
  <2>3. m \notin stop
    BY <2>1, <2>2
  <2>4. next[m] \in S /\ r[next[m]] < r[m] /\ r[m] \in Nat /\ r[next[m]] \in Nat
    BY <2>2, <2>3 DEF Descends
  <2>5. next[m] \notin T
    BY <2>1, <2>4
  <2> QED BY <2>1, <2>2, <2>3, <2>4, <2>5
<1> QED BY <1>1

LEMMA LeadsOutward ==
  ASSUME NEW S, NEW A, NEW B, NEW P, NEW root, NEW r, NEW stop, NEW val, NEW f,
         Shape(S, A, B, P, root), Ranking(S, A, B, r),
         stop = {m \in S : A[m] = Null}, val = [m \in S |-> m],
         Leads(S, A, stop, val, f), NEW p \in S
  PROVE  /\ f[p] \in S
         /\ A[f[p]] = Null
         /\ f[p] = p \/ (P[f[p]] \in S /\ A[P[f[p]]] = f[p] /\ r[P[f[p]]] <= r[p])
<1> DEFINE Good(m) == /\ f[m] \in S
                      /\ A[f[m]] = Null
                      /\ f[m] = m \/ (P[f[m]] \in S /\ A[P[f[m]]] = f[m] /\ r[P[f[m]]] <= r[m])
           T == {m \in S : ~Good(m)}
<1>1. ASSUME T # {} PROVE FALSE
  <2>1. PICK m \in T : \A k \in T : r[m] <= r[k]
    <3>1. T \in SUBSET S /\ r \in [S -> Nat]
      BY DEF Ranking
    <3> HIDE DEF T
    <3> QED BY <1>1, <3>1, LeastRank
  <2>2. m \in S /\ f[m] = IF A[m] = Null THEN m ELSE f[A[m]]
    BY <2>1 DEF Leads
  <2>3. A[m] # Null
    BY <2>1, <2>2
  <2>4. A[m] \in S /\ r[A[m]] < r[m] /\ P[A[m]] = m /\ r[m] \in Nat /\ r[A[m]] \in Nat
    BY <2>2, <2>3 DEF Shape, Ranking
  <2>5. Good(A[m])
    BY <2>1, <2>4
  <2>6. f[m] = f[A[m]]
    BY <2>2, <2>3
  <2>7. CASE f[A[m]] = A[m]
    BY <2>1, <2>2, <2>4, <2>5, <2>6, <2>7
  <2>8. CASE P[f[A[m]]] \in S /\ A[P[f[A[m]]]] = f[A[m]] /\ r[P[f[A[m]]]] <= r[A[m]]
    <3>1. r[P[f[A[m]]]] \in Nat
      BY <2>8 DEF Ranking
    <3> QED BY <2>1, <2>2, <2>4, <2>5, <2>6, <2>8, <3>1
  <2> QED BY <2>5, <2>7, <2>8
<1> QED BY <1>1

LEMMA UtmostIsOutward ==
  ASSUME NEW S, NEW P, NEW A, NEW B, NEW root, NEW r, NEW side \in Side, NEW n \in S,
         S = Linked, A = Links(tree, side), IsFiniteSet(S),
         Shape(S, A, B, P, root), Ranking(S, A, B, r)
  PROVE  \E e \in S : /\ Utmost(side, n) = e
                      /\ A[e] = Null
                      /\ e = n \/ (P[e] \in S /\ A[P[e]] = e /\ r[P[e]] <= r[n])
<1>1. PICK stop, val : stop = {m \in S : A[m] = Null} /\ val = [m \in S |-> m]
  OBVIOUS
<1>2. Descends(S, A, stop, r)
  BY <1>1 DEF Descends, Ranking, Shape
<1>3. PICK g : Leads(S, A, stop, val, g)
  BY <1>2, LeadsExists
<1> DEFINE f == CHOOSE f : f = [m \in Linked |-> IF tree[m][side] = Null THEN m ELSE f[tree[m][side]]]
<1>4. \A k : Leads(S, A, stop, val, k) <=>
               k = [m \in Linked |-> IF tree[m][side] = Null THEN m ELSE k[tree[m][side]]]
  BY <1>1 DEF Leads, Links, Linked
<1>5. Leads(S, A, stop, val, f)
  <2>1. \E k : k = [m \in Linked |-> IF tree[m][side] = Null THEN m ELSE k[tree[m][side]]]
    BY <1>3, <1>4
  <2>2. f = [m \in Linked |-> IF tree[m][side] = Null THEN m ELSE f[tree[m][side]]]
    BY <2>1
  <2> HIDE DEF f
  <2> QED BY <1>4, <2>2
<1>6. Utmost(side, n) = f[n]
  <2>1. n # Null
    BY DEF Shape
  <2> QED BY <2>1 DEF Utmost
<1> HIDE DEF f
<1> QED BY <1>1, <1>5, <1>6, LeadsOutward

(* Insert is given a null link, or the node with an equal key of a set. *)
LEMMA PlaceIsFree ==
  ASSUME IsFiniteSet(Linked), TShape(tree, m_root_), TRanked(tree), NEW n
  PROVE  \/ m_root_ = Null /\ Place(n) = [parent |-> Null, side |-> "root"]
         \/ /\ m_root_ # Null
            /\ \E p \in Linked, s \in {"left", "right", "equal"} :
                 /\ Place(n) = [parent |-> p, side |-> s]
                 /\ s # "equal" => tree[p][s] = Null
<1> DEFINE S == Linked
           side(p) == IF Key[n] < Key[p] THEN "left" ELSE "right"
           equal(p) == Key[n] = Key[p] /\ ~Multi
<1>1. PICK stop, val, next :
        /\ stop = {p \in S : equal(p) \/ tree[p][side(p)] = Null}
        /\ val = [p \in S |-> IF equal(p) THEN [parent |-> p, side |-> "equal"]
                                          ELSE [parent |-> p, side |-> side(p)]]
        /\ next = [p \in S |-> tree[p][side(p)]]
  OBVIOUS
<1>2. PICK r : Ranking(S, Links(tree, "left"), Links(tree, "right"), r)
  BY DEF TRanked, Linked
<1>3. Descends(S, next, stop, r)
  <2>1. r \in [S -> Nat]
    BY <1>2 DEF Ranking
  <2>2. ASSUME NEW p \in S \ stop PROVE next[p] \in S /\ r[next[p]] < r[p]
    <3>1. tree[p][side(p)] # Null /\ next[p] = tree[p][side(p)]
      BY <1>1, <2>2
    <3>2. Links(tree, "left")[p] = tree[p].left /\ Links(tree, "right")[p] = tree[p].right
      BY DEF Links, Linked
    <3>3. CASE side(p) = "left"
      <4>1. tree[p][side(p)] = tree[p].left
        BY <3>3
      <4> HIDE DEF side
      <4> QED BY <1>2, <2>2, <3>1, <3>2, <4>1 DEF Ranking, TShape, Shape, Linked
    <3>4. CASE side(p) = "right"
      <4>1. tree[p][side(p)] = tree[p].right
        BY <3>4
      <4> HIDE DEF side
      <4> QED BY <1>2, <2>2, <3>1, <3>2, <4>1 DEF Ranking, TShape, Shape, Linked
    <3> QED BY <3>3, <3>4
  <2> QED BY <2>1, <2>2 DEF Descends
<1>4. PICK g : Leads(S, next, stop, val, g)
  BY <1>3, LeadsExists
<1> DEFINE f == CHOOSE f : f = [p \in Linked |->
                  LET s == IF Key[n] < Key[p] THEN "left" ELSE "right"
                  IN IF Key[n] = Key[p] /\ ~Multi THEN [parent |-> p, side |-> "equal"]
                     ELSE IF tree[p][s] = Null THEN [parent |-> p, side |-> s]
                     ELSE f[tree[p][s]]]
<1>5. ASSUME NEW k
      PROVE  Leads(S, next, stop, val, k) <=>
               k = [p \in Linked |->
                  LET s == IF Key[n] < Key[p] THEN "left" ELSE "right"
                  IN IF Key[n] = Key[p] /\ ~Multi THEN [parent |-> p, side |-> "equal"]
                     ELSE IF tree[p][s] = Null THEN [parent |-> p, side |-> s]
                     ELSE k[tree[p][s]]]
  <2>1. ASSUME NEW p \in S
        PROVE  (IF p \in stop THEN val[p] ELSE k[next[p]]) =
                  LET s == IF Key[n] < Key[p] THEN "left" ELSE "right"
                  IN IF Key[n] = Key[p] /\ ~Multi THEN [parent |-> p, side |-> "equal"]
                     ELSE IF tree[p][s] = Null THEN [parent |-> p, side |-> s]
                     ELSE k[tree[p][s]]
    BY <1>1
  <2> QED BY <2>1 DEF Leads
<1>6. Leads(S, next, stop, val, f)
  <2>1. \E k : k = [p \in Linked |->
                  LET s == IF Key[n] < Key[p] THEN "left" ELSE "right"
                  IN IF Key[n] = Key[p] /\ ~Multi THEN [parent |-> p, side |-> "equal"]
                     ELSE IF tree[p][s] = Null THEN [parent |-> p, side |-> s]
                     ELSE k[tree[p][s]]]
    BY <1>4, <1>5
  <2>2. f = [p \in Linked |->
                  LET s == IF Key[n] < Key[p] THEN "left" ELSE "right"
                  IN IF Key[n] = Key[p] /\ ~Multi THEN [parent |-> p, side |-> "equal"]
                     ELSE IF tree[p][s] = Null THEN [parent |-> p, side |-> s]
                     ELSE f[tree[p][s]]]
    BY <2>1
  <2> HIDE DEF f
  <2> QED BY <1>5, <2>2
<1>7. Place(n) = IF m_root_ = Null THEN [parent |-> Null, side |-> "root"] ELSE f[m_root_]
  BY DEF Place
<1> HIDE DEF f
<1>8. m_root_ \in S \union {Null}
  BY DEF TShape, Shape, Linked
<1>9. CASE m_root_ # Null
  <2>1. PICK e \in S : e \in stop /\ f[m_root_] = val[e]
    BY <1>3, <1>6, <1>8, <1>9, LeadsEnds
  <2>2. CASE equal(e)
    BY <1>1, <1>7, <1>9, <2>1, <2>2
  <2>3. CASE ~equal(e)
    <3>1. tree[e][side(e)] = Null /\ f[m_root_] = [parent |-> e, side |-> side(e)]
      BY <1>1, <2>1, <2>3
    <3>2. side(e) \in {"left", "right", "equal"}
      OBVIOUS
    <3> HIDE DEF side
    <3> QED BY <1>7, <1>9, <2>1, <3>1, <3>2
  <2> QED BY <2>2, <2>3
<1> QED BY <1>7, <1>9

LEMMA EvenTreeHasHeight ==
  ASSUME TShape(tree, m_root_), TRanked(tree), TEven(tree)
  PROVE  BlackHeight > 0
<1> DEFINE S == Linked
           A == Links(tree, "left")
           B == Links(tree, "right")
           C == Colors(tree)
<1>1. PICK r : Ranking(S, A, B, r)
  BY DEF TRanked, Linked
<1>2. PICK h : Heights(S, A, B, C, Null, Null, h)
  BY DEF TEven, Linked
<1>3. /\ Null \notin S /\ m_root_ \in S \union {Null}
      /\ \A m \in S : A[m] \in S \union {Null} /\ B[m] \in S \union {Null}
  BY DEF TShape, Shape, Linked
<1>4. \A m \in S : A[m] = tree[m].left /\ B[m] = tree[m].right /\ C[m] = tree[m].color
  BY DEF Links, Colors, Linked
<1> DEFINE Is(f) == f = [n \in Linked \union {Null} |->
                           IF n = Null THEN 1
                           ELSE LET l == f[tree[n].left]
                                    m == f[tree[n].right]
                                IN IF l # m \/ l = 0 THEN 0
                                   ELSE IF tree[n].color = "black" THEN l + 1 ELSE l]
<1>5. /\ \A m \in S : h[m] \in Nat \ {0}
      /\ \A m \in S : At(h, A[m]) = At(h, B[m])
      /\ \A m \in S : h[m] = IF C[m] = "black" THEN At(h, A[m]) + 1 ELSE At(h, A[m])
  <2>1. \A m \in S : At(h, A[m]) \in Nat \ {0} /\ At(h, B[m]) \in Nat \ {0} /\ Lack(m, Null) = 0
    BY <1>2, <1>3 DEF Heights, At, Lack
  <2>2. \A m \in S : At(h, A[m]) + 0 = At(h, B[m]) + 0 /\ h[m] = At(h, A[m]) + 0 + Black(C, m) /\ h[m] \in Nat \ {0}
    BY <1>2, <2>1 DEF Heights
  <2> HIDE DEF A, B, C
  <2>3. ASSUME NEW m \in S
        PROVE  At(h, A[m]) = At(h, B[m]) /\ h[m] = IF C[m] = "black" THEN At(h, A[m]) + 1 ELSE At(h, A[m])
    BY <2>1, <2>2 DEF Black
  <2> QED BY <2>2, <2>3
<1> HIDE DEF A, B, C
<1>6. \E f : Is(f)
  <2>1. PICK f : f = [m \in S \union {Null} |-> At(h, m)]
    OBVIOUS
  <2>2. ASSUME NEW n \in S \union {Null}
        PROVE  f[n] = IF n = Null THEN 1
                           ELSE LET l == f[tree[n].left]
                                    m == f[tree[n].right]
                                IN IF l # m \/ l = 0 THEN 0
                                   ELSE IF tree[n].color = "black" THEN l + 1 ELSE l
    <3>1. CASE n = Null
      BY <2>1, <3>1 DEF At
    <3>2. CASE n # Null
      <4>1. f[n] = h[n] /\ f[tree[n].left] = At(h, A[n]) /\ f[tree[n].right] = At(h, B[n])
        BY <1>3, <1>4, <2>1, <3>2 DEF At
      <4>2. At(h, A[n]) \in Nat \ {0}
        BY <1>3, <1>5, <3>2 DEF At
      <4> QED BY <1>4, <1>5, <3>2, <4>1, <4>2
    <3> QED BY <3>1, <3>2
  <2>3. Is(f)
    BY <2>1, <2>2
  <2> QED BY <2>3
<1> DEFINE f == CHOOSE f : Is(f)
<1>7. Is(f)
  BY <1>6
<1>8. BlackHeight = f[m_root_]
  BY DEF BlackHeight
<1> HIDE DEF f
<1>9. \A n \in S \union {Null} :
        f[n] = IF n = Null THEN 1
                           ELSE LET l == f[tree[n].left]
                                    m == f[tree[n].right]
                                IN IF l # m \/ l = 0 THEN 0
                                   ELSE IF tree[n].color = "black" THEN l + 1 ELSE l
  BY <1>7
<1> DEFINE T == {m \in S : f[m] # h[m]}
<1>10. ASSUME T # {} PROVE FALSE
  <2>1. PICK m \in T : \A k \in T : r[m] <= r[k]
    <3>1. T \in SUBSET S /\ r \in [S -> Nat]
      BY <1>1 DEF Ranking
    <3> HIDE DEF T
    <3> QED BY <1>10, <3>1, LeastRank
  <2>2. /\ A[m] # Null => A[m] \in S /\ r[A[m]] < r[m] /\ r[m] \in Nat /\ r[A[m]] \in Nat
        /\ B[m] # Null => B[m] \in S /\ r[B[m]] < r[m] /\ r[m] \in Nat /\ r[B[m]] \in Nat
    BY <1>1, <1>3, <2>1 DEF Ranking
  <2>3. f[A[m]] = At(h, A[m])
    BY <1>9, <2>1, <2>2 DEF At
  <2>4. f[B[m]] = At(h, B[m])
    BY <1>9, <2>1, <2>2 DEF At
  <2>5. At(h, A[m]) \in Nat \ {0} /\ m \in S /\ m # Null
    BY <1>3, <1>5, <2>1 DEF At
  <2>6. f[m] = h[m]
    BY <1>4, <1>5, <1>9, <2>3, <2>4, <2>5
  <2> QED BY <2>1, <2>6
<1>11. CASE m_root_ = Null
  BY <1>8, <1>9, <1>11
<1>12. CASE m_root_ # Null
  BY <1>3, <1>5, <1>8, <1>10, <1>12
<1> QED BY <1>11, <1>12

-----------------------------------------------------------------------------
(* The nodes in order are all of the nodes, each once. *)
LEMMA WalksBelow ==
  ASSUME NEW S, NEW A, NEW B, NEW P, NEW root, NEW r, Shape(S, A, B, P, root), Ranking(S, A, B, r)
  PROVE  \A n \in Nat : \E w : Walks(Below(S, r, n), A, B, w)
<1> DEFINE D == {n \in Nat : ~\E w : Walks(Below(S, r, n), A, B, w)}
<1> SUFFICES ASSUME D # {} PROVE FALSE
  OBVIOUS
<1>1. PICK n \in D : \A k \in D : n <= k
  <2>1. D \in SUBSET Nat
    OBVIOUS
  <2> HIDE DEF D
  <2> QED BY <2>1, LeastNumber
<1>2. n \in Nat /\ ~\E w : Walks(Below(S, r, n), A, B, w)
  BY <1>1
<1>0. Null \notin S /\ \A p \in S : A[p] \in S \union {Null} /\ B[p] \in S \union {Null}
  BY DEF Shape
<1>3. CASE n = 0
  <2>1. Below(S, r, n) = {}
    BY <1>3 DEF Below, Ranking
  <2>2. PICK w : w = [p \in {} \union {Null} |-> <<>>]
    OBVIOUS
  <2>3. Walks({}, A, B, w)
    BY <2>2 DEF Walks
  <2> QED BY <1>2, <2>1, <2>3
<1>4. CASE n # 0
  <2> DEFINE L == Below(S, r, n - 1) \union {Null}
             M == Below(S, r, n) \union {Null}
  <2>1. n - 1 \in Nat /\ n - 1 \notin D
    BY <1>1, <1>2, <1>4
  <2>2. PICK g : Walks(Below(S, r, n - 1), A, B, g)
    BY <2>1
  <2>3. PICK f : f = [p \in M |-> IF p = Null THEN <<>> ELSE g[A[p]] \o <<p>> \o g[B[p]]]
    OBVIOUS
  <2>4. L \subseteq M
    BY <1>2, <2>1 DEF Below, Ranking
  <2>5. \A p \in M : p = Null \/ (A[p] \in L /\ B[p] \in L)
    BY <1>0, <1>2, <2>1 DEF Below, Ranking
  <2>6. \A p \in L : g[p] = IF p = Null THEN <<>> ELSE g[A[p]] \o <<p>> \o g[B[p]]
    BY <2>2 DEF Walks
  <2> HIDE DEF L, M
  <2>7. \A p \in L : f[p] = g[p]
    BY <2>3, <2>4, <2>6
  <2>8. \A p \in M : f[p] = IF p = Null THEN <<>> ELSE f[A[p]] \o <<p>> \o f[B[p]]
    BY <2>3, <2>5, <2>7
  <2>9. Walks(Below(S, r, n), A, B, f)
    BY <2>3, <2>8 DEF Walks, M
  <2> QED BY <1>2, <2>9
<1> QED BY <1>3, <1>4

LEMMA WalksExist ==
  ASSUME NEW S, NEW A, NEW B, NEW P, NEW root, NEW r, Shape(S, A, B, P, root), Ranking(S, A, B, r),
         IsFiniteSet(S)
  PROVE  \E w : Walks(S, A, B, w)
<1>1. PICK n \in Nat : \A m \in S : r[m] < n
  BY RanksBounded DEF Ranking
<1>2. Below(S, r, n) = S
  BY <1>1 DEF Below
<1>3. \A k \in Nat : \E w : Walks(Below(S, r, k), A, B, w)
  BY WalksBelow
<1>4. \E w : Walks(Below(S, r, n), A, B, w)
  BY <1>1, <1>3
<1> QED BY <1>2, <1>4

(* What a sequence of a left part, a node and a right part holds. *)
LEMMA RangeOfThree ==
  ASSUME NEW S, NEW s \in Seq(S), NEW u \in Seq(S), NEW n \in S
  PROVE  /\ s \o <<n>> \o u \in Seq(S)
         /\ Len(s \o <<n>> \o u) = Len(s) + 1 + Len(u)
         /\ Range(s \o <<n>> \o u) = Range(s) \union {n} \union Range(u)
<1> DEFINE v == s \o <<n>> \o u
<1>1. v \in Seq(S) /\ Len(v) = Len(s) + 1 + Len(u) /\ Len(s) \in Nat /\ Len(u) \in Nat
  OBVIOUS
<1>2. \A i \in 1..Len(v) : v[i] = IF i <= Len(s) THEN s[i]
                                  ELSE IF i = Len(s) + 1 THEN n ELSE u[i - Len(s) - 1]
  OBVIOUS
<1>3. DOMAIN v = 1..Len(v) /\ DOMAIN s = 1..Len(s) /\ DOMAIN u = 1..Len(u)
  OBVIOUS
<1> HIDE DEF v
<1>4. Range(v) \subseteq Range(s) \union {n} \union Range(u)
  <2>1. ASSUME NEW i \in 1..Len(v)
        PROVE  v[i] \in Range(s) \union {n} \union Range(u)
    <3>1. CASE i <= Len(s)
      <4>1. i \in 1..Len(s) /\ v[i] = s[i]
        BY <1>1, <1>2, <3>1
      <4> QED BY <1>3, <4>1 DEF Range
    <3>2. CASE i = Len(s) + 1
      BY <1>1, <1>2, <3>2
    <3>3. CASE i > Len(s) + 1
      <4>1. i - Len(s) - 1 \in 1..Len(u) /\ v[i] = u[i - Len(s) - 1]
        BY <1>1, <1>2, <3>3
      <4> QED BY <1>3, <4>1 DEF Range
    <3> QED BY <1>1, <3>1, <3>2, <3>3
  <2> QED BY <1>3, <2>1 DEF Range
<1>5. Range(s) \subseteq Range(v)
  <2>1. ASSUME NEW i \in 1..Len(s) PROVE i \in 1..Len(v) /\ v[i] = s[i]
    BY <1>1, <1>2
  <2> QED BY <1>3, <2>1 DEF Range
<1>6. n \in Range(v)
  <2>1. Len(s) + 1 \in 1..Len(v) /\ v[Len(s) + 1] = n
    BY <1>1, <1>2
  <2> QED BY <1>3, <2>1 DEF Range
<1>7. Range(u) \subseteq Range(v)
  <2>1. ASSUME NEW i \in 1..Len(u) PROVE i + Len(s) + 1 \in 1..Len(v) /\ v[i + Len(s) + 1] = u[i]
    <3>1. i + Len(s) + 1 \in 1..Len(v)
      BY <1>1
    <3>2. ~(i + Len(s) + 1 <= Len(s)) /\ i + Len(s) + 1 # Len(s) + 1 /\ i + Len(s) + 1 - Len(s) - 1 = i
      BY <1>1
    <3> QED BY <1>2, <3>1, <3>2
  <2> QED BY <1>3, <2>1 DEF Range
<1> QED BY <1>1, <1>4, <1>5, <1>6, <1>7 DEF v

(* What the walk below a node is, node by node. *)
LEMMA WalkBelowNode ==
  ASSUME NEW S, NEW A, NEW B, NEW P, NEW root, NEW r, NEW w,
         Shape(S, A, B, P, root), Ranking(S, A, B, r), IsFiniteSet(S), Walks(S, A, B, w), NEW n \in S
  PROVE  /\ w[n] \in Seq(S)
         /\ n \in Range(w[n])
         /\ \A m \in Range(w[n]) :
              /\ m \in S /\ r[m] <= r[n]
              /\ m = n \/ P[m] \in Range(w[n])
              /\ A[m] # Null => A[m] \in Range(w[n])
              /\ B[m] # Null => B[m] \in Range(w[n])
         /\ Len(w[n]) = Cardinality(Range(w[n]))
<1> DEFINE Good(k) ==
         /\ w[k] \in Seq(S)
         /\ k \in Range(w[k])
         /\ \A m \in Range(w[k]) :
              /\ m \in S /\ r[m] <= r[k]
              /\ m = k \/ P[m] \in Range(w[k])
              /\ A[m] # Null => A[m] \in Range(w[k])
              /\ B[m] # Null => B[m] \in Range(w[k])
         /\ Len(w[k]) = Cardinality(Range(w[k]))
           T == {k \in S : ~Good(k)}
<1>0. Null \notin S
  BY DEF Shape
<1>1. ASSUME T # {} PROVE FALSE
  <2>1. PICK k \in T : \A j \in T : r[k] <= r[j]
    <3>1. T \in SUBSET S /\ r \in [S -> Nat]
      BY DEF Ranking
    <3> HIDE DEF T
    <3> QED BY <1>1, <3>1, LeastRank
  <2>2. PICK s, u : s = w[A[k]] /\ u = w[B[k]]
    OBVIOUS
  <2>3. k \in S /\ w[k] = s \o <<k>> \o u
    BY <1>0, <2>1, <2>2 DEF Walks
  <2>4. w[Null] = <<>> /\ Range(<<>>) = {} /\ Len(<<>>) = 0 /\ <<>> \in Seq(S)
    <3>1. w[Null] = <<>>
      BY DEF Walks
    <3> QED BY <3>1 DEF Range
  <2>5. /\ A[k] # Null => A[k] \in S /\ r[A[k]] < r[k] /\ P[A[k]] = k /\ A[k] # B[k]
        /\ B[k] # Null => B[k] \in S /\ r[B[k]] < r[k] /\ P[B[k]] = k
        /\ \A j \in S : r[j] \in Nat
    BY <2>3 DEF Shape, Ranking
  <2>6. A[k] # Null => Good(A[k])
    BY <2>1, <2>5
  <2>7. B[k] # Null => Good(B[k])
    BY <2>1, <2>5
  <2>8. s \in Seq(S) /\ u \in Seq(S)
    BY <2>2, <2>4, <2>6, <2>7
  <2>9. /\ w[k] \in Seq(S)
        /\ Len(w[k]) = Len(s) + 1 + Len(u)
        /\ Range(w[k]) = Range(s) \union {k} \union Range(u)
    BY <2>3, <2>8, RangeOfThree
  <2> DEFINE RA == Range(s)
             RB == Range(u)
  <2>10. /\ \A m \in RA : /\ A[k] # Null /\ m \in S /\ r[m] <= r[A[k]]
                          /\ m = A[k] \/ P[m] \in RA
                          /\ A[m] # Null => A[m] \in RA
                          /\ B[m] # Null => B[m] \in RA
         /\ A[k] # Null => A[k] \in RA
         /\ Len(s) = Cardinality(RA)
    <3>1. CASE A[k] = Null
      <4>1. s = <<>> /\ RA = {} /\ Len(s) = 0
        BY <2>2, <2>4, <3>1
      <4>2. Cardinality({}) = 0
        BY FS_EmptySet
      <4> QED BY <3>1, <4>1, <4>2
    <3>2. CASE A[k] # Null
      BY <2>2, <2>6, <3>2
    <3> QED BY <3>1, <3>2
  <2>11. /\ \A m \in RB : /\ B[k] # Null /\ m \in S /\ r[m] <= r[B[k]]
                          /\ m = B[k] \/ P[m] \in RB
                          /\ A[m] # Null => A[m] \in RB
                          /\ B[m] # Null => B[m] \in RB
         /\ B[k] # Null => B[k] \in RB
         /\ Len(u) = Cardinality(RB)
    <3>1. CASE B[k] = Null
      <4>1. u = <<>> /\ RB = {} /\ Len(u) = 0
        BY <2>2, <2>4, <3>1
      <4>2. Cardinality({}) = 0
        BY FS_EmptySet
      <4> QED BY <3>1, <4>1, <4>2
    <3>2. CASE B[k] # Null
      BY <2>2, <2>7, <3>2
    <3> QED BY <3>1, <3>2
  <2>12. Range(w[k]) = RA \union {k} \union RB
    BY <2>9
  <2> HIDE DEF RA, RB
  <2>13. k \notin RA /\ k \notin RB
    BY <2>3, <2>5, <2>10, <2>11
  <2>14. RA \cap RB = {}
    <3> SUFFICES ASSUME RA \cap RB # {} PROVE FALSE
      OBVIOUS
    <3>1. RA \cap RB \in SUBSET S
      BY <2>10
    <3>2. IsFiniteSet(RA \cap RB)
      BY <3>1, FS_Subset
    <3>3. PICK q : q = [j \in RA \cap RB |-> r[j]]
      OBVIOUS
    <3>4. q \in [RA \cap RB -> Nat]
      BY <2>5, <3>1, <3>3
    <3>5. PICK m \in RA \cap RB : \A j \in RA \cap RB : q[j] <= q[m]
      BY <3>2, <3>4, MostRank
    <3>6. m \in S /\ r[m] \in Nat /\ \A j \in RA \cap RB : r[j] <= r[m]
      BY <2>5, <3>1, <3>3, <3>5
    <3>7. m # A[k]
      <4>1. m = A[k] => P[m] = k /\ m # B[k] /\ k \in RB
        BY <2>5, <2>10, <2>11, <3>5
      <4> QED BY <2>13, <4>1
    <3>8. m # B[k]
      <4>1. m = B[k] => P[m] = k /\ m # A[k] /\ k \in RA
        BY <2>5, <2>10, <2>11, <3>5
      <4> QED BY <2>13, <4>1
    <3>9. P[m] \in RA \cap RB
      BY <2>10, <2>11, <3>5, <3>7, <3>8
    <3>10. P[m] \in S /\ r[m] < r[P[m]] /\ r[P[m]] \in Nat
      <4>1. P[m] \in S /\ P[m] # Null /\ m # Null
        BY <1>0, <3>1, <3>6, <3>9
      <4>2. A[P[m]] = m \/ B[P[m]] = m
        BY <3>6, <4>1 DEF Shape
      <4> QED BY <2>5, <4>1, <4>2 DEF Ranking
    <3> QED BY <3>6, <3>9, <3>10
  <2>15. RA \in SUBSET S /\ RB \in SUBSET S /\ IsFiniteSet(RA) /\ IsFiniteSet(RB)
    BY <2>10, <2>11, FS_Subset
  <2>16. Cardinality(RA \union {k} \union RB) = Cardinality(RA) + 1 + Cardinality(RB)
    <3>1. IsFiniteSet(RA \union {k}) /\ Cardinality(RA \union {k}) = Cardinality(RA) + 1
      BY <2>13, <2>15, FS_AddElement
    <3>2. (RA \union {k}) \cap RB = {}
      BY <2>13, <2>14
    <3>3. Cardinality((RA \union {k}) \union RB) = Cardinality(RA \union {k}) + Cardinality(RB) - Cardinality((RA \union {k}) \cap RB)
      BY <3>1, <2>15, FS_Union
    <3>4. Cardinality({}) = 0
      BY FS_EmptySet
    <3>5. Cardinality(RA) \in Nat /\ Cardinality(RB) \in Nat
      BY <2>15, FS_CardinalityType
    <3>6. Cardinality((RA \union {k}) \union RB) = Cardinality(RA \union {k}) + Cardinality(RB) - 0
      BY <3>2, <3>3, <3>4
    <3> QED BY <3>1, <3>5, <3>6
  <2>17. Len(w[k]) = Cardinality(Range(w[k]))
    BY <2>9, <2>10, <2>11, <2>12, <2>16
  <2>18. ASSUME NEW m \in Range(w[k])
         PROVE  /\ m \in S /\ r[m] <= r[k]
                /\ m = k \/ P[m] \in Range(w[k])
                /\ A[m] # Null => A[m] \in Range(w[k])
                /\ B[m] # Null => B[m] \in Range(w[k])
    <3>1. CASE m = k
      BY <2>3, <2>5, <2>10, <2>11, <2>12, <3>1
    <3>2. CASE m \in RA
      <4>1. m \in S /\ r[m] <= r[A[k]] /\ A[k] \in S /\ r[A[k]] < r[k] /\ r[m] \in Nat /\ r[A[k]] \in Nat /\ r[k] \in Nat
        BY <2>3, <2>5, <2>10, <3>2
      <4>2. m = A[k] => P[m] = k
        BY <2>5, <2>10, <3>2
      <4> QED BY <2>10, <2>12, <3>2, <4>1, <4>2
    <3>3. CASE m \in RB
      <4>1. m \in S /\ r[m] <= r[B[k]] /\ B[k] \in S /\ r[B[k]] < r[k] /\ r[m] \in Nat /\ r[B[k]] \in Nat /\ r[k] \in Nat
        BY <2>3, <2>5, <2>11, <3>3
      <4>2. m = B[k] => P[m] = k
        BY <2>5, <2>11, <3>3
      <4> QED BY <2>11, <2>12, <3>3, <4>1, <4>2
    <3> QED BY <2>12, <2>18, <3>1, <3>2, <3>3
  <2>19. k \in Range(w[k])
    BY <2>12
  <2>20. Good(k)
    BY <2>9, <2>17, <2>18, <2>19
  <2> QED BY <2>1, <2>20
<1>2. Good(n)
  BY <1>1
<1> QED BY <1>2

LEMMA WalkIsWhole ==
  ASSUME NEW S, NEW A, NEW B, NEW P, NEW root, NEW r, NEW w,
         Shape(S, A, B, P, root), Ranking(S, A, B, r), IsFiniteSet(S), Walks(S, A, B, w)
  PROVE  Range(w[root]) = S /\ Len(w[root]) = Cardinality(S)
<1>1. CASE root = Null
  <2>1. S = {}
    BY <1>1, RootExists
  <2>2. w[root] = <<>>
    BY <1>1 DEF Walks
  <2>3. Cardinality({}) = 0
    BY FS_EmptySet
  <2> QED BY <2>1, <2>2, <2>3 DEF Range
<1>2. CASE root # Null
  <2> DEFINE R == Range(w[root])
             T == S \ R
  <2>1. root \in S
    BY <1>2 DEF Shape
  <2>2. /\ root \in R
        /\ \A m \in R : /\ m \in S
                        /\ A[m] # Null => A[m] \in R
                        /\ B[m] # Null => B[m] \in R
        /\ Len(w[root]) = Cardinality(R)
    BY <2>1, WalkBelowNode
  <2> HIDE DEF R
  <2>3. ASSUME T # {} PROVE FALSE
    <3>1. T \in SUBSET S /\ IsFiniteSet(T)
      BY FS_Subset
    <3>2. PICK q : q = [j \in T |-> r[j]]
      OBVIOUS
    <3>3. q \in [T -> Nat]
      BY <3>2 DEF Ranking
    <3>4. PICK m \in T : \A j \in T : q[j] <= q[m]
      <4> HIDE DEF T
      <4> QED BY <2>3, <3>1, <3>3, MostRank
    <3>5. m \in S /\ m \notin R /\ m # root /\ \A j \in T : r[j] <= r[m]
      BY <2>2, <3>2, <3>4
    <3>6. P[m] \in S /\ P[m] # Null /\ (A[P[m]] = m \/ B[P[m]] = m) /\ m # Null
      BY <3>5 DEF Shape
    <3>7. r[m] < r[P[m]] /\ r[m] \in Nat /\ r[P[m]] \in Nat
      BY <3>5, <3>6 DEF Ranking
    <3>8. P[m] \in R
      BY <3>5, <3>6, <3>7
    <3> QED BY <2>2, <3>5, <3>6, <3>8
  <2>4. R = S
    BY <2>2, <2>3
  <2> QED BY <2>2, <2>4 DEF R
<1> QED BY <1>1, <1>2

(* The walk of the iterators visits every node once. *)
LEMMA InOrderIsWhole ==
  ASSUME IsFiniteSet(Linked), TShape(tree, m_root_), TRanked(tree)
  PROVE  Range(InOrder) = Linked /\ Len(InOrder) = Cardinality(Linked)
<1> DEFINE S == Linked
           A == Links(tree, "left")
           B == Links(tree, "right")
           P == Parents(tree)
<1>1. Shape(S, A, B, P, m_root_)
  BY DEF TShape, Linked
<1>2. PICK r : Ranking(S, A, B, r)
  BY DEF TRanked, Linked
<1>3. PICK g : Walks(S, A, B, g)
  <2> HIDE DEF A, B, P, S
  <2> QED BY <1>1, <1>2, WalksExist DEF S
<1>4. ASSUME NEW k
      PROVE  Walks(S, A, B, k) <=>
               k = [n \in Linked \union {Null} |->
                      IF n = Null THEN <<>> ELSE k[tree[n].left] \o <<n>> \o k[tree[n].right]]
  <2>1. \A n \in Linked : A[n] = tree[n].left /\ B[n] = tree[n].right
    BY DEF Links, Linked
  <2> HIDE DEF A, B
  <2>2. ASSUME NEW n \in Linked \union {Null}
        PROVE  (IF n = Null THEN <<>> ELSE k[tree[n].left] \o <<n>> \o k[tree[n].right])
                 = (IF n = Null THEN <<>> ELSE k[A[n]] \o <<n>> \o k[B[n]])
    BY <2>1
  <2> QED BY <2>2 DEF Walks
<1> DEFINE f == CHOOSE f : f = [n \in Linked \union {Null} |->
                      IF n = Null THEN <<>> ELSE f[tree[n].left] \o <<n>> \o f[tree[n].right]]
<1>5. f = [n \in Linked \union {Null} |->
                      IF n = Null THEN <<>> ELSE f[tree[n].left] \o <<n>> \o f[tree[n].right]]
  <2>1. \E k : k = [n \in Linked \union {Null} |->
                      IF n = Null THEN <<>> ELSE k[tree[n].left] \o <<n>> \o k[tree[n].right]]
    <3> HIDE DEF A, B
    <3> QED BY <1>3, <1>4
  <2> QED BY <2>1
<1>6. InOrder = f[m_root_]
  BY DEF InOrder
<1> HIDE DEF f, A, B, P
<1>7. Walks(S, A, B, f)
  BY <1>4, <1>5
<1>8. Range(f[m_root_]) = S /\ Len(f[m_root_]) = Cardinality(S)
  <2> HIDE DEF S
  <2> QED BY <1>1, <1>2, <1>7, WalkIsWhole DEF S
<1> QED BY <1>6, <1>8

-----------------------------------------------------------------------------
(* Linking a node, and unlinking one that has at most one child. *)
LEMMA TInsertLeaf ==
  ASSUME NEW S, NEW t, NEW side \in Side, NEW root, S \subseteq Node, t \in [S -> Fields],
         NEW n \in Node, n \notin S, n # Null, NEW p \in S, t[p][side] = Null,
         TShape(t, root), TRanked(t), TEven(t), TReds(t, Null)
  PROVE  GrownOK(S, WithLink(Grown(S, t, n, p), p, side, n), root, n, p)
<1> SUFFICES ASSUME NEW w, w = [m \in S \union {n} |->
                       IF m = n THEN [left |-> Null, right |-> Null, parent |-> p, color |-> "red"]
                                ELSE t[m]],
                    NEW v, v = WithLink(w, p, side, n)
             PROVE  /\ v \in [S \union {n} -> Fields]
                    /\ TShape(v, root)
                    /\ TRanked(v)
                    /\ TEven(v)
                    /\ TReds(v, n)
                    /\ v[n].color = "red"
                    /\ v[n].parent = p
  BY DEF Grown, Fresh, GrownOK, RedBlack
<1> DEFINE A == Links(t, side)
           B == Links(t, Other(side))
           P == Parents(t)
           C == Colors(t)
           M == S \union {n}
           A0 == [m \in M |-> IF m = n THEN Null ELSE A[m]]
           A1 == Put(A0, p, n)
           B1 == [m \in M |-> IF m = n THEN Null ELSE B[m]]
           P1 == [m \in M |-> IF m = n THEN p ELSE P[m]]
           C1 == [m \in M |-> IF m = n THEN "red" ELSE C[m]]
<1>1. View(S, t, side, A, B, P, C) /\ A[p] = Null
  BY ViewOf DEF Links
<1>2. Shape(S, A, B, P, root) /\ Reds(S, A, B, C, Null) /\ C \in [S -> {"red", "black"}]
  <2> HIDE DEF A, B, P, C
  <2> QED BY <1>1, ViewShape, ViewReds, ViewLinks
<1>3. PICK r : Ranking(S, A, B, r)
  <2> HIDE DEF A, B, P, C
  <2> QED BY <1>1, ViewRanked
<1>4. PICK h : Heights(S, A, B, C, Null, Null, h)
  <2> HIDE DEF A, B, P, C
  <2> QED BY <1>1, ViewEven
<1>5. Null \notin S /\ p # Null /\ p # n /\ p \in M /\ n \in Node \union {Null} /\ M \subseteq Node /\ p \in Node
  BY <1>2 DEF Shape
<1>6. View(M, w, side, A0, B1, P1, C1)
  <2>1. w \in [M -> Fields]
    <3>1. [left |-> Null, right |-> Null, parent |-> p, color |-> "red"] \in Fields
      BY <1>5 DEF Fields
    <3> QED BY <3>1
  <2>2. ASSUME NEW m \in M
        PROVE  w[m][side] = A0[m] /\ w[m][Other(side)] = B1[m] /\ w[m].parent = P1[m] /\ w[m].color = C1[m]
    <3>1. CASE m = n
      BY <3>1 DEF Side, Other
    <3>2. CASE m # n
      BY <3>2 DEF Links, Parents, Colors
    <3> QED BY <3>1, <3>2
  <2> HIDE DEF A, B, P, C
  <2> QED BY <2>1, <2>2 DEF View
<1> HIDE DEF A, B, P, C
<1>7. View(M, v, side, A1, B1, P1, C1)
  <2> HIDE DEF M, A0, B1, P1, C1
  <2> QED BY <1>5, <1>6, ViewLink
<1>8. A1 = [m \in M |-> IF m = n THEN Null ELSE IF m = p THEN n ELSE A[m]]
  BY <1>5 DEF Put
<1>9. v \in [M -> Fields] /\ v[n].color = C1[n] /\ v[n].parent = P1[n]
  <2> HIDE DEF A1, B1, P1, C1
  <2> QED BY <1>7 DEF View
<1>10. C1[n] = "red" /\ P1[n] = p
  OBVIOUS
<1>11. B1 = [m \in S \union {n} |-> IF m = n THEN Null ELSE B[m]]
       /\ P1 = [m \in S \union {n} |-> IF m = n THEN p ELSE P[m]]
       /\ C1 = [m \in S \union {n} |-> IF m = n THEN "red" ELSE C[m]]
  OBVIOUS
<1> HIDE DEF A1, B1, P1, C1
<1>12. \E q : Shape(M, A1, B1, P1, root) /\ Ranking(M, A1, B1, q)
  <2>1. LeafHyp(S, A, B, P, root, n, p, r, A1, B1, P1)
    BY <1>1, <1>2, <1>3, <1>5, <1>8, <1>11 DEF LeafHyp
  <2> QED BY <2>1, LeafShapeOf
<1>13. \E h1 : Heights(M, A1, B1, C1, Null, Null, h1) /\ Reds(M, A1, B1, C1, n)
  <2>1. LeafHeightsHyp(S, A, B, P, root, n, p, C, h, A1, B1, C1)
    BY <1>1, <1>2, <1>4, <1>5, <1>8, <1>11 DEF LeafHeightsHyp
  <2> QED BY <2>1, LeafHeightsOf
<1> HIDE DEF M
<1>14. TShape(v, root) /\ TRanked(v)
  BY <1>7, <1>12, ViewShape, ViewRanked
<1>15. TEven(v)
  BY <1>7, <1>13, ViewEven
<1>16. TReds(v, n)
  BY <1>7, <1>13, ViewReds
<1> QED BY <1>9, <1>10, <1>14, <1>15, <1>16 DEF M

LEMMA TInsertRoot ==
  ASSUME NEW n \in Node, n # Null, Null \notin Node,
         NEW v, v = [m \in {n} |-> [left |-> Null, right |-> Null, parent |-> Null, color |-> "red"]]
  PROVE  /\ v \in [{n} -> Fields]
         /\ TShape(v, n)
         /\ TRanked(v)
         /\ TEven(v)
         /\ TReds(v, n)
         /\ v[n].color = "red"
         /\ v[n].parent = Null
<1>1. DOMAIN v = {n} /\ v[n] = [left |-> Null, right |-> Null, parent |-> Null, color |-> "red"]
  OBVIOUS
<1>2. v \in [{n} -> Fields] /\ v[n].color = "red" /\ v[n].parent = Null
  BY DEF Fields
<1>3. /\ Links(v, "left") = [m \in {n} |-> Null] /\ Links(v, "right") = [m \in {n} |-> Null]
      /\ Parents(v) = [m \in {n} |-> Null] /\ Colors(v) = [m \in {n} |-> "red"]
  BY <1>1 DEF Links, Parents, Colors
<1>4. TShape(v, n)
  BY <1>1, <1>3 DEF TShape, Shape
<1>5. TRanked(v)
  <2>1. Ranking({n}, [m \in {n} |-> Null], [m \in {n} |-> Null], [m \in {n} |-> 0])
    BY DEF Ranking
  <2> QED BY <1>1, <1>3, <2>1 DEF TRanked
<1>6. TEven(v)
  <2>1. Heights({n}, [m \in {n} |-> Null], [m \in {n} |-> Null], [m \in {n} |-> "red"], Null, Null, [m \in {n} |-> 1])
    BY DEF Heights, At, Lack, Black
  <2> QED BY <1>1, <1>3, <2>1 DEF TEven
<1>7. TReds(v, n)
  BY <1>1, <1>3 DEF TReds, Reds
<1> QED BY <1>2, <1>4, <1>5, <1>6, <1>7

LEMMA ViewRestrict ==
  ASSUME NEW S, NEW t, NEW side, NEW A, NEW B, NEW P, NEW C, View(S, t, side, A, B, P, C), NEW T \in SUBSET S
  PROVE  View(T, Restrict(t, T), side, Restrict(A, T), Restrict(B, T), Restrict(P, T), Restrict(C, T))
BY DEF View, Restrict

LEMMA TUnlinked ==
  ASSUME NEW S, NEW A, NEW B, NEW P, NEW C, NEW root, NEW n \in S, NEW r, NEW h,
         NEW A1, NEW B1, NEW P1, NEW C1, NEW root1, NEW c, NEW v, NEW side \in Side,
         View(S \ {n}, v, side, A1, B1, P1, C1),
         Shape(S, A, B, P, root), Ranking(S, A, B, r), A[n] = Null \/ B[n] = Null,
         Unlinked(S, A, B, P, root, n, A1, B1, P1, root1),
         C \in [S -> {"red", "black"}], Heights(S, A, B, C, Null, Null, h), Reds(S, A, B, C, Null),
         C1 = [m \in S \ {n} |-> C[m]],
         c = IF A[n] = Null THEN B[n] ELSE A[n]
  PROVE  /\ TShape(v, root1)
         /\ TRanked(v)
         /\ C[n] = "red" \/ P[n] = Null => TEven(v) /\ TReds(v, Null)
         /\ C[n] = "black" /\ P[n] # Null =>
              /\ P[n] \in S \ {n}
              /\ TReds(v, c)
              /\ \E s \in Side : v[P[n]][s] = c /\ TLacks(v, P[n], s)
<1>1. Shape(S \ {n}, A1, B1, P1, root1)
  BY UnlinkShape
<1>2. \E q : Ranking(S \ {n}, A1, B1, q)
  BY UnlinkRanking
<1>3. PICK h1 :
         /\ C[n] = "red" => Heights(S \ {n}, A1, B1, C1, Null, Null, h1) /\ Reds(S \ {n}, A1, B1, C1, Null)
         /\ C[n] = "black" => /\ Heights(S \ {n}, A1, B1, C1, Above(A, P, n), Above(B, P, n), h1)
                              /\ Reds(S \ {n}, A1, B1, C1, Spare(A, B, n))
  <2>1. PICK w : w = [m \in S \ {n} |-> h[m]]
    OBVIOUS
  <2>2. UnlinkOK(S, A, B, P, root, n, r, C, h, A1, B1, P1, C1, root1, w)
    BY <2>1 DEF UnlinkOK
  <2> WITNESS w
  <2> QED BY <2>2, UnlinkHeightsAt
<1>0. c = Spare(A, B, n)
  BY DEF Spare
<1>4. TShape(v, root1) /\ TRanked(v)
  BY <1>1, <1>2, ViewShape, ViewRanked
<1>5. C[n] = "red" => TEven(v) /\ TReds(v, Null)
  BY <1>3, ViewEven, ViewReds
<1>6. /\ n # Null /\ Null \notin S
      /\ P[n] # Null => /\ P[n] \in S \ {n}
                        /\ (A[P[n]] = n /\ B[P[n]] # n) \/ (A[P[n]] # n /\ B[P[n]] = n)
  BY DEF Shape, Ranking
<1>7. ASSUME C[n] = "black" PROVE TReds(v, c)
  BY <1>0, <1>3, <1>7, ViewReds
<1>8. ASSUME C[n] = "black", P[n] = Null
      PROVE  TEven(v) /\ TReds(v, Null)
  <2>1. Above(A, P, n) = Null /\ Above(B, P, n) = Null
    BY <1>8 DEF Above
  <2>2. Heights(S \ {n}, A1, B1, C1, Null, Null, h1)
    BY <1>3, <1>8, <2>1
  <2>3. Reds(S \ {n}, A1, B1, C1, c)
    BY <1>0, <1>3, <1>8
  <2>4. c \in S \ {n} => P1[c] = Null
    BY <1>8 DEF Unlinked
  <2>5. \A m \in S \ {n} : (A1[m] # Null => A1[m] # c) /\ (B1[m] # Null => B1[m] # c)
    BY <1>1, <1>6, <2>4 DEF Shape
  <2>6. Reds(S \ {n}, A1, B1, C1, Null)
    BY <2>3, <2>5 DEF Reds
  <2> QED BY <2>2, <2>6, ViewEven, ViewReds
<1>9. ASSUME C[n] = "black", P[n] # Null
      PROVE  \E s \in Side : v[P[n]][s] = c /\ TLacks(v, P[n], s)
  <2>1. Heights(S \ {n}, A1, B1, C1, Above(A, P, n), Above(B, P, n), h1)
    BY <1>3, <1>9
  <2>2. v[P[n]][side] = A1[P[n]] /\ v[P[n]][Other(side)] = B1[P[n]] /\ P[n] \in S \ {n}
    BY <1>6, <1>9 DEF View
  <2>3. CASE A[P[n]] = n
    <3>1. Above(A, P, n) = P[n] /\ Above(B, P, n) = Null
      BY <1>6, <1>9, <2>3 DEF Above
    <3>2. A1[P[n]] = c
      BY <2>2, <2>3 DEF Unlinked
    <3>3. TLacks(v, P[n], side)
      BY <2>1, <3>1, ViewLacks
    <3> QED BY <2>2, <3>2, <3>3
  <2>4. CASE B[P[n]] = n
    <3>1. Above(A, P, n) = Null /\ Above(B, P, n) = P[n]
      BY <1>6, <1>9, <2>4 DEF Above
    <3>2. B1[P[n]] = c
      BY <2>2, <2>4 DEF Unlinked
    <3>3. TLacks(v, P[n], Other(side))
      BY <2>1, <3>1, ViewLacks
    <3> QED BY <2>2, <3>2, <3>3, Sides
  <2> QED BY <1>6, <1>9, <2>3, <2>4
<1>10. C[n] = "red" \/ C[n] = "black"
  OBVIOUS
<1> QED BY <1>4, <1>5, <1>6, <1>7, <1>8, <1>9, <1>10

LEMMA TUnlinkedOK ==
  ASSUME NEW S, NEW v, NEW A, NEW B, NEW P, NEW C, NEW root, NEW n, NEW r, NEW h,
         NEW A1, NEW B1, NEW P1, NEW C1, NEW root1,
         UnlinkHyp(S, v, A, B, P, root, n, r, C, h, A1, B1, P1, C1, root1)
  PROVE  SingleOK(S \ {n}, v, root1, C[n], P[n], IF A[n] = Null THEN B[n] ELSE A[n])
<1> SUFFICES ASSUME NEW c, c = IF A[n] = Null THEN B[n] ELSE A[n]
             PROVE  SingleOK(S \ {n}, v, root1, C[n], P[n], c)
  OBVIOUS
<1>1. "left" \in Side
  BY DEF Side
<1>2. /\ TShape(v, root1)
      /\ TRanked(v)
      /\ C[n] = "red" \/ P[n] = Null => TEven(v) /\ TReds(v, Null)
      /\ C[n] = "black" /\ P[n] # Null =>
            /\ P[n] \in S \ {n}
            /\ TReds(v, c)
            /\ \E s \in Side : v[P[n]][s] = c /\ TLacks(v, P[n], s)
  BY <1>1, TUnlinked DEF UnlinkHyp
<1> QED BY <1>2 DEF SingleOK, LostBlack

LEMMA TUnlinkSingle ==
  ASSUME NEW S, NEW t, NEW root, S \subseteq Node, t \in [S -> Fields],
         NEW n \in S, t[n].left = Null \/ t[n].right = Null,
         TShape(t, root), TRanked(t), TEven(t), TReds(t, Null),
         NEW c, c = IF t[n].left = Null THEN t[n].right ELSE t[n].left,
         NEW p, p = t[n].parent,
         NEW v, v = [m \in S \ {n} |-> ReplaceChild(SetParent(t, c, p), p, n, c)[m]]
  PROVE  /\ v \in [S \ {n} -> Fields]
         /\ TShape(v, IF p = Null THEN c ELSE root)
         /\ TRanked(v)
         /\ t[n].color = "red" \/ p = Null => TEven(v) /\ TReds(v, Null)
         /\ t[n].color = "black" /\ p # Null =>
              /\ p \in S \ {n}
              /\ TReds(v, c)
              /\ \E s \in Side : v[p][s] = c /\ TLacks(v, p, s)
<1> DEFINE A == Links(t, "left")
           B == Links(t, "right")
           P == Parents(t)
           C == Colors(t)
           u == ReplaceChild(SetParent(t, c, p), p, n, c)
           P2 == Put(P, c, p)
           A2 == Swing(A, p, n, c)
           B2 == Swing(B, p, n, c)
           A1 == [m \in S \ {n} |-> A2[m]]
           B1 == [m \in S \ {n} |-> B2[m]]
           P1 == [m \in S \ {n} |-> P2[m]]
           C1 == [m \in S \ {n} |-> C[m]]
           root1 == IF p = Null THEN c ELSE root
<1>0. "left" \in Side /\ Other("left") = "right"
  BY DEF Side, Other
<1>1. /\ View(S, t, "left", A, B, P, C)
      /\ p = P[n] /\ A[n] = t[n].left /\ B[n] = t[n].right /\ C[n] = t[n].color
      /\ c = (IF A[n] = Null THEN B[n] ELSE A[n])
  BY <1>0, ViewOf DEF Links, Parents, Colors
<1> HIDE DEF A, B, P, C
<1>2. Shape(S, A, B, P, root) /\ Reds(S, A, B, C, Null) /\ C \in [S -> {"red", "black"}]
  BY <1>1, ViewShape, ViewReds, ViewLinks
<1>3. PICK r : Ranking(S, A, B, r)
  BY <1>1, ViewRanked
<1>4. PICK h : Heights(S, A, B, C, Null, Null, h)
  BY <1>1, ViewEven
<1>5. /\ c \in S \union {Null} /\ p \in S \union {Null} /\ c \in Node \union {Null} /\ p \in Node \union {Null}
      /\ Null \notin S /\ n # Null
      /\ p # Null => (A[p] = n /\ B[p] # n) \/ (A[p] # n /\ B[p] = n)
      /\ \A m \in S : (A[m] = n => m = p) /\ (B[m] = n => m = p)
      /\ p # n /\ c # n
  BY <1>1, <1>2, <1>3 DEF Shape, Ranking
<1>6. /\ A = [m \in S |-> A[m]] /\ DOMAIN A = S
      /\ B = [m \in S |-> B[m]] /\ DOMAIN B = S
      /\ P = [m \in S |-> P[m]] /\ DOMAIN P = S
  BY <1>1 DEF View
<1>7. View(S, u, "left", A2, B2, P2, C)
  <2>1. View(S, SetParent(t, c, p), "left", A, B, P2, C)
    BY <1>1, <1>5, ViewParent
  <2> HIDE DEF P2
  <2> QED BY <1>5, <2>1, ViewReplace
<1>8. View(S \ {n}, v, "left", A1, B1, P1, C1)
  <2>1. v = [m \in S \ {n} |-> u[m]]
    OBVIOUS
  <2> HIDE DEF u, A2, B2, P2
  <2>2. PICK T \in SUBSET S : T = S \ {n}
    OBVIOUS
  <2>3. View(T, Restrict(u, T), "left", Restrict(A2, T), Restrict(B2, T), Restrict(P2, T), Restrict(C, T))
    BY <1>7, ViewRestrict
  <2>4. /\ v = Restrict(u, T) /\ A1 = Restrict(A2, T) /\ B1 = Restrict(B2, T)
        /\ P1 = Restrict(P2, T) /\ C1 = Restrict(C, T)
    BY <2>1, <2>2 DEF Restrict
  <2> QED BY <2>2, <2>3, <2>4
<1>9. A1 = [m \in S \ {n} |-> IF A[m] = n THEN c ELSE A[m]]
  BY <1>5, <1>6 DEF Swing
<1>10. B1 = [m \in S \ {n} |-> IF B[m] = n THEN c ELSE B[m]]
  BY <1>5, <1>6 DEF Swing
<1>11. P1 = [m \in S \ {n} |-> IF m = c THEN P[n] ELSE P[m]]
  BY <1>1, <1>5, <1>6 DEF Put
<1> HIDE DEF A1, B1, P1
<1>12. Unlinked(S, A, B, P, root, n, A1, B1, P1, root1)
  BY <1>1, <1>9, <1>10, <1>11 DEF Unlinked
<1>13. C1 = [m \in S \ {n} |-> C[m]]
  OBVIOUS
<1> HIDE DEF C1, root1
<1>14. /\ TShape(v, root1)
       /\ TRanked(v)
       /\ C[n] = "red" \/ P[n] = Null => TEven(v) /\ TReds(v, Null)
       /\ C[n] = "black" /\ P[n] # Null =>
              /\ P[n] \in S \ {n}
              /\ TReds(v, c)
              /\ \E s \in Side : v[P[n]][s] = c /\ TLacks(v, P[n], s)
  <2>1. A[n] = Null \/ B[n] = Null
    BY <1>1
  <2>2. UnlinkHyp(S, v, A, B, P, root, n, r, C, h, A1, B1, P1, C1, root1)
    BY <1>2, <1>3, <1>4, <1>8, <1>12, <1>13, <2>1 DEF UnlinkHyp
  <2>3. SingleOK(S \ {n}, v, root1, C[n], P[n], IF A[n] = Null THEN B[n] ELSE A[n])
    BY <2>2, TUnlinkedOK
  <2>4. SingleOK(S \ {n}, v, root1, C[n], P[n], c)
    BY <1>1, <2>3
  <2> QED BY <2>4 DEF SingleOK, LostBlack
<1>15. v \in [S \ {n} -> Fields]
  BY <1>8 DEF View
<1> QED BY <1>1, <1>14, <1>15 DEF root1

-----------------------------------------------------------------------------
(* Unlinking a node that has two children: the successor trades places     *)
(* with it, and the node is then unlinked from there.                      *)
LEMMA ViewDouble ==
  ASSUME NEW S, NEW t, NEW A, NEW B, NEW P, NEW C, NEW root, NEW r,
         NEW n, NEW s, NEW child, NEW above, NEW parent,
         NEW A2, NEW B2, NEW P2, NEW C2,
         View(S, t, "left", A, B, P, C), S \subseteq Node,
         DoubleOK(S, A, B, P, root, r, n, s, child, above, parent),
         DoubleLinks(S, A, B, P, C, n, s, child, above, parent, A2, B2, P2, C2)
  PROVE  View(S, DoubleTree(t, n, s, child, above, parent), "left", A2, B2, P2, C2)
<1>a. /\ Null \notin S /\ Shape(S, A, B, P, root) /\ Ranking(S, A, B, r)
      /\ n \in S /\ A[n] # Null /\ B[n] # Null
      /\ s \in S /\ A[s] = Null /\ s # n /\ child = B[s] /\ above \in S /\ above = P[s]
      /\ parent = IF above = n THEN s ELSE above
      /\ r[s] < r[n]
      /\ above # n => A[above] = s /\ r[above] < r[n]
      /\ above = n => s = B[n]
  BY DEF DoubleOK, Shape
<1>b. /\ A2 = [m \in S |-> IF m = s THEN A[n] ELSE IF above # n /\ m = above THEN child
                       ELSE IF A[m] = n THEN s ELSE A[m]]
      /\ B2 = [m \in S |-> IF above # n /\ m = s THEN B[n] ELSE IF B[m] = n THEN s ELSE B[m]]
      /\ P2 = [m \in S |-> IF m = A[n] THEN s ELSE IF m = s THEN P[n]
                       ELSE IF above # n /\ m = B[n] THEN s
                       ELSE IF m = child THEN parent ELSE P[m]]
      /\ C2 = [m \in S |-> IF m = s THEN C[n] ELSE C[m]]
  BY DEF DoubleLinks
<1> USE <1>a, <1>b
<1>0. "left" \in Side /\ Other("left") = "right"
  BY DEF Side, Other
<1>1. /\ A = [m \in S |-> A[m]] /\ DOMAIN A = S
      /\ B = [m \in S |-> B[m]] /\ DOMAIN B = S
      /\ P = [m \in S |-> P[m]] /\ DOMAIN P = S
      /\ C = [m \in S |-> C[m]] /\ DOMAIN C = S
      /\ t[n].left = A[n] /\ t[n].right = B[n] /\ t[n].parent = P[n] /\ t[n].color = C[n]
      /\ C[n] \in {"red", "black"}
  BY <1>0 DEF View, Fields
<1>2. /\ A[n] \in S /\ B[n] \in S /\ child \in S \union {Null} /\ P[n] \in S \union {Null}
      /\ child \in Node \union {Null} /\ parent \in S /\ parent \in Node \union {Null}
      /\ A[n] \in Node \union {Null} /\ B[n] \in Node \union {Null} /\ P[n] \in Node \union {Null}
      /\ s \in Node \union {Null} /\ s # Null /\ n # Null /\ above # Null
      /\ A[n] # B[n] /\ A[n] # s /\ A[n] # n /\ B[n] # n /\ P[n] # n /\ P[n] # s
      /\ P[n] # Null => (A[P[n]] = n /\ B[P[n]] # n) \/ (A[P[n]] # n /\ B[P[n]] = n)
      /\ child # s /\ child # n /\ child # A[n] /\ child # B[n]
      /\ above # s
      /\ \A m \in S : (A[m] = n => m = P[n]) /\ (B[m] = n => m = P[n])
      /\ above # n => P[n] # above /\ B[n] # s
  BY DEF Shape, Ranking
<1> DEFINE t1 == SetParent(t, child, parent)
           t2 == IF above = n THEN t1
                 ELSE SetParent(WithLink(WithLink(t1, above, "left", child), s, "right", B[n]), B[n], s)
           t3 == SetParentColor(WithLink(t2, s, "left", A[n]), s, P[n], C[n])
           t4 == SetParent(t3, A[n], s)
           t5 == ReplaceChild(t4, P[n], n, s)
           Pa == Put(P, child, parent)
           Pb == IF above = n THEN Pa ELSE Put(Pa, B[n], s)
           Ab == IF above = n THEN A ELSE Put(A, above, child)
           Bb == IF above = n THEN B ELSE Put(B, s, B[n])
           Ac == Put(Ab, s, A[n])
           Pc == Put(Pb, s, P[n])
           Cc == Put(C, s, C[n])
           Pd == Put(Pc, A[n], s)
           Ae == Swing(Ac, P[n], n, s)
           Be == Swing(Bb, P[n], n, s)
<1>3. View(S, t1, "left", A, B, Pa, C)
  BY <1>2, ViewParent
<1>4. View(S, t2, "left", Ab, Bb, Pb, C)
  <2> HIDE DEF t1, Pa
  <2>1. CASE above = n
    BY <1>3, <2>1
  <2>2. CASE above # n
    <3> DEFINE ta == WithLink(t1, above, "left", child)
               tb == WithLink(ta, s, "right", B[n])
               Aq == Put(A, above, child)
               Bq == Put(B, s, B[n])
    <3>1. View(S, ta, "left", Aq, B, Pa, C)
      BY <1>2, <1>3, ViewLink
    <3> HIDE DEF ta, Aq
    <3>2. View(S, tb, "left", Aq, Bq, Pa, C)
      <4>1. View(S, WithLink(ta, s, Other("left"), B[n]), "left", Aq, Bq, Pa, C)
        BY <1>2, <3>1, ViewOther
      <4> QED BY <1>0, <4>1
    <3> HIDE DEF tb, Bq
    <3>3. View(S, SetParent(tb, B[n], s), "left", Aq, Bq, Put(Pa, B[n], s), C)
      BY <1>2, <3>2, ViewParent
    <3>4. t2 = SetParent(tb, B[n], s) /\ Ab = Aq /\ Bb = Bq /\ Pb = Put(Pa, B[n], s)
      BY <2>2 DEF ta, tb, Aq, Bq
    <3> QED BY <3>3, <3>4
  <2> QED BY <2>1, <2>2
<1> HIDE DEF t2, Ab, Bb, Pb
<1>5. View(S, t3, "left", Ac, Bb, Pc, Cc)
  <2>1. View(S, WithLink(t2, s, "left", A[n]), "left", Ac, Bb, Pb, C)
    BY <1>2, <1>4, ViewLink
  <2> HIDE DEF Ac
  <2> QED BY <1>1, <1>2, <2>1, ViewParentColor
<1>6. View(S, t4, "left", Ac, Bb, Pd, Cc)
  <2> HIDE DEF t3, Ac, Pc, Cc
  <2> QED BY <1>2, <1>5, ViewParent
<1>7. Ab = [m \in S |-> IF above # n /\ m = above THEN child ELSE A[m]] /\ DOMAIN Ab = S
  BY <1>1, <1>2 DEF Ab, Put
<1>8. Bb = [m \in S |-> IF above # n /\ m = s THEN B[n] ELSE B[m]] /\ DOMAIN Bb = S
  BY <1>1, <1>2 DEF Bb, Put
<1>9. Pa = [m \in S |-> IF m = child THEN parent ELSE P[m]] /\ DOMAIN Pa = S
  BY <1>1, <1>2 DEF Put
<1>10. Pb = [m \in S |-> IF above # n /\ m = B[n] THEN s ELSE IF m = child THEN parent ELSE P[m]] /\ DOMAIN Pb = S
  <2> HIDE DEF Pa
  <2> QED BY <1>2, <1>9 DEF Pb, Put
<1>11. Ac = [m \in S |-> IF m = s THEN A[n] ELSE IF above # n /\ m = above THEN child ELSE A[m]] /\ DOMAIN Ac = S
  BY <1>2, <1>7 DEF Put
<1>12. Pc = [m \in S |-> IF m = s THEN P[n] ELSE IF above # n /\ m = B[n] THEN s
                        ELSE IF m = child THEN parent ELSE P[m]] /\ DOMAIN Pc = S
  BY <1>2, <1>10 DEF Put
<1>13. Cc = C2
  BY <1>1, <1>2 DEF Put
<1> HIDE DEF Ac, Pc, Cc
<1>14. Pd = P2
  BY <1>2, <1>12 DEF Put
<1> HIDE DEF Pd
<1>15. P[n] # Null => (Ac[P[n]] = n /\ Bb[P[n]] # n) \/ (Ac[P[n]] # n /\ Bb[P[n]] = n)
  BY <1>2, <1>8, <1>11
<1>16. View(S, t5, "left", Ae, Be, P2, C2)
  <2> HIDE DEF t4
  <2>1. View(S, t4, "left", Ac, Bb, P2, C2)
    BY <1>6, <1>13, <1>14
  <2> QED BY <1>2, <1>15, <2>1, ViewReplace
<1>17. Ae = A2
  <2>1. \A m \in S : Ac[m] = n => m = P[n]
    BY <1>2, <1>11
  <2>2. Ae = [m \in S |-> IF Ac[m] = n THEN s ELSE Ac[m]]
    BY <1>2, <1>11, <2>1 DEF Swing
  <2>3. ASSUME NEW m \in S PROVE (IF Ac[m] = n THEN s ELSE Ac[m]) = A2[m]
    BY <1>2, <1>11
  <2> HIDE DEF Ae
  <2> QED BY <2>2, <2>3
<1>18. Be = B2
  <2>1. \A m \in S : Bb[m] = n => m = P[n]
    BY <1>2, <1>8
  <2>2. Be = [m \in S |-> IF Bb[m] = n THEN s ELSE Bb[m]]
    BY <1>2, <1>8, <2>1 DEF Swing
  <2>3. ASSUME NEW m \in S PROVE (IF Bb[m] = n THEN s ELSE Bb[m]) = B2[m]
    BY <1>2, <1>8
  <2> HIDE DEF Be
  <2> QED BY <2>2, <2>3
<1>19. t5 = DoubleTree(t, n, s, child, above, parent)
  <2>0. DOMAIN t2 = S /\ DOMAIN t1 = S
    BY <1>3, <1>4 DEF View
  <2>1. t2 = IF above = n THEN t1
             ELSE [t1 EXCEPT ![above].left = child,
                           ![s].right = t[n].right,
                           ![t[n].right].parent = s]
    <3> HIDE DEF t1
    <3>1. CASE above = n
      BY <3>1 DEF t2
    <3>2. CASE above # n
      <4>1. t2 = SetParent(WithLink(WithLink(t1, above, "left", child), s, "right", B[n]), B[n], s)
        BY <3>2 DEF t2
      <4>2. t2 = [WithLink(WithLink(t1, above, "left", child), s, "right", B[n]) EXCEPT ![B[n]].parent = s]
        <5> HIDE DEF t2
        <5> QED BY <1>2, <4>1 DEF SetParent
      <4>3. t2 = [t1 EXCEPT ![above].left = child, ![s].right = B[n], ![B[n]].parent = s]
        <5> HIDE DEF t2
        <5> QED BY <4>2 DEF WithLink
      <4>4. t[n].right = B[n]
        BY <1>1
      <4> HIDE DEF t2
      <4> QED BY <3>2, <4>3, <4>4
    <3> QED BY <3>1, <3>2
  <2>2. t4 = [t2 EXCEPT ![s].left = t[n].left,
                     ![s].parent = t[n].parent,
                     ![s].color = t[n].color,
                     ![t[n].left].parent = s]
    <3>1. t3 = [WithLink(t2, s, "left", A[n]) EXCEPT ![s].parent = P[n], ![s].color = C[n]]
      BY <1>2 DEF SetParentColor
    <3>2. t4 = [t3 EXCEPT ![A[n]].parent = s]
      BY <1>2 DEF SetParent
    <3> HIDE DEF t3, t4
    <3> QED BY <1>1, <3>1, <3>2 DEF WithLink
  <2> HIDE DEF t4, t1
  <2> QED BY <1>1, <2>1, <2>2 DEF DoubleTree, t1
<1> QED BY <1>16, <1>17, <1>18, <1>19

(* What trading the places of n and its successor does to the links. *)
(* The successor in the place of n, and n in the place of its successor. *)
LEMMA TradeLinks ==
  ASSUME NEW S, NEW A, NEW B, NEW P, NEW C, NEW root, NEW r, NEW n, NEW s, NEW child, NEW above, NEW parent,
         DoubleOK(S, A, B, P, root, r, n, s, child, above, parent), C = [m \in S |-> C[m]],
         NEW f, f = Trade(S, n, s),
         NEW A1, NEW B1, NEW P1, NEW C1, NEW root1, Relabeled(S, A, B, P, root, C, f, A1, B1, P1, root1, C1)
  PROVE  /\ Involution(S, f)
         /\ A1[n] = Null /\ B1[n] = child /\ P1[n] = parent /\ C1[n] = C[s]
         /\ A1[s] = A[n] /\ B1[s] = (IF above = n THEN n ELSE B[n]) /\ P1[s] = P[n] /\ C1[s] = C[n]
         /\ \A m \in S : m # n /\ m # s =>
              /\ A1[m] = (IF A[m] = n THEN s ELSE IF above # n /\ m = above THEN n ELSE A[m])
              /\ B1[m] = (IF B[m] = n THEN s ELSE B[m])
              /\ P1[m] = (IF P[m] = n THEN s ELSE IF m = child THEN n ELSE P[m])
              /\ C1[m] = C[m]
         /\ root1 = IF P[n] = Null THEN s ELSE root
<1> USE DEF DoubleOK
<1>1. /\ Null \notin S /\ n \in S /\ s \in S /\ n # Null /\ s # Null
      /\ A[n] \in S /\ A[n] # n /\ A[n] # s /\ child \in S \union {Null} /\ child # n /\ child # s
      /\ P[n] \in S \union {Null} /\ P[n] # n /\ P[n] # s /\ above # s
      /\ B[n] \in S /\ B[n] # n
      /\ root \in S \union {Null} /\ root # s /\ (root = n <=> P[n] = Null)
  BY DEF Shape, Ranking
<1>2. /\ DOMAIN f = S \union {Null}
      /\ f[n] = s /\ f[s] = n /\ \A m \in S \union {Null} : m # n /\ m # s => f[m] = m
  BY <1>1 DEF Trade
<1>3. Involution(S, f)
  <2>1. f \in [S \union {Null} -> S \union {Null}]
    BY <1>1 DEF Trade
  <2> QED BY <1>1, <1>2, <2>1 DEF Involution
<1>4. \A m \in S : /\ A1[m] = f[A[f[m]]] /\ B1[m] = f[B[f[m]]] /\ P1[m] = f[P[f[m]]] /\ C1[m] = C[f[m]]
                   /\ A[m] \in S \union {Null} /\ B[m] \in S \union {Null} /\ P[m] \in S \union {Null}
  BY DEF Relabeled, Shape
<1>5. A1[n] = Null /\ B1[n] = child /\ P1[n] = parent /\ C1[n] = C[s]
  BY <1>1, <1>2, <1>4
<1>6. A1[s] = A[n] /\ B1[s] = (IF above = n THEN n ELSE B[n]) /\ P1[s] = P[n] /\ C1[s] = C[n]
  <2>1. above # n => B[n] # s
    BY DEF Shape
  <2> QED BY <1>1, <1>2, <1>4, <2>1
<1>7. ASSUME NEW m \in S, m # n, m # s
      PROVE  /\ A1[m] = (IF A[m] = n THEN s ELSE IF above # n /\ m = above THEN n ELSE A[m])
             /\ B1[m] = (IF B[m] = n THEN s ELSE B[m])
             /\ P1[m] = (IF P[m] = n THEN s ELSE IF m = child THEN n ELSE P[m])
             /\ C1[m] = C[m]
  <2>1. A1[m] = f[A[m]] /\ B1[m] = f[B[m]] /\ P1[m] = f[P[m]] /\ C1[m] = C[m]
    BY <1>2, <1>4, <1>7
  <2>2. (A[m] = s <=> above # n /\ m = above) /\ B[m] # s /\ (P[m] = s <=> m = child)
    BY <1>1, <1>7 DEF Shape
  <2> QED BY <1>1, <1>2, <1>4, <2>1, <2>2
<1>8. root1 = IF P[n] = Null THEN s ELSE root
  BY <1>1, <1>2 DEF Relabeled
<1> QED BY <1>3, <1>5, <1>6, <1>7, <1>8

LEMMA TradeUnlinks ==
  ASSUME NEW S, NEW A, NEW B, NEW P, NEW C, NEW root, NEW r, NEW n, NEW s, NEW child, NEW above, NEW parent,
         NEW f, NEW A1, NEW B1, NEW P1, NEW C1, NEW root1, NEW A2, NEW B2, NEW P2, NEW C2,
         NEW A3, NEW B3, NEW P3, NEW C3, NEW root3,
         TradeOK(S, A, B, P, C, root, r, n, s, child, above, parent, f, A1, B1, P1, C1, root1,
                 A2, B2, P2, C2, A3, B3, P3, C3, root3)
  PROVE  TradeDone(S, A1, B1, P1, C1, root1, n, A3, B3, P3, C3, root3)
<1> USE DEF TradeOK
<1>1. /\ A1[n] = Null /\ B1[n] = child /\ P1[n] = parent /\ C1[n] = C[s]
      /\ A1[s] = A[n] /\ B1[s] = (IF above = n THEN n ELSE B[n]) /\ P1[s] = P[n] /\ C1[s] = C[n]
      /\ \A m \in S : m # n /\ m # s =>
              /\ A1[m] = (IF A[m] = n THEN s ELSE IF above # n /\ m = above THEN n ELSE A[m])
              /\ B1[m] = (IF B[m] = n THEN s ELSE B[m])
              /\ P1[m] = (IF P[m] = n THEN s ELSE IF m = child THEN n ELSE P[m])
              /\ C1[m] = C[m]
      /\ root1 = IF P[n] = Null THEN s ELSE root
  BY TradeLinks
<1>2. /\ Null \notin S /\ n \in S /\ s \in S /\ n # Null /\ s # Null
      /\ A[n] \in S /\ A[n] # n /\ A[n] # s /\ child \in S \union {Null} /\ child # n /\ child # s
      /\ child # A[n] /\ child # B[n] /\ child = B[s] /\ A[s] = Null
      /\ above \in S /\ above # s /\ (above = n => s = B[n]) /\ (above # n => A[above] = s /\ B[n] # s)
      /\ parent = (IF above = n THEN s ELSE above) /\ parent # Null
      /\ B[n] \in S /\ B[n] # n /\ A[n] # B[n]
  BY DEF DoubleOK, Shape, Ranking
<1>3. ASSUME NEW m \in S \ {n} PROVE A3[m] = (IF A1[m] = n THEN child ELSE A1[m])
  <2>1. A3[m] = (IF m = s THEN A[n] ELSE IF above # n /\ m = above THEN child
                 ELSE IF A[m] = n THEN s ELSE A[m])
    BY DEF DoubleLinks
  <2> QED BY <1>1, <1>2, <2>1
<1>4. ASSUME NEW m \in S \ {n} PROVE B3[m] = (IF B1[m] = n THEN child ELSE B1[m])
  <2>1. B3[m] = (IF above # n /\ m = s THEN B[n] ELSE IF B[m] = n THEN s ELSE B[m])
    BY DEF DoubleLinks
  <2> QED BY <1>1, <1>2, <2>1
<1>5. ASSUME NEW m \in S \ {n} PROVE P3[m] = (IF m = child THEN P1[n] ELSE P1[m])
  <2>1. P3[m] = (IF m = A[n] THEN s ELSE IF m = s THEN P[n]
                       ELSE IF above # n /\ m = B[n] THEN s
                       ELSE IF m = child THEN parent ELSE P[m])
    BY DEF DoubleLinks
  <2>2. P[m] = n <=> m = A[n] \/ m = B[n]
    BY DEF DoubleOK, Shape
  <2> QED BY <1>1, <1>2, <2>1, <2>2
<1>6. ASSUME NEW m \in S \ {n} PROVE C3[m] = C1[m]
  <2>1. C3[m] = (IF m = s THEN C[n] ELSE C[m])
    BY DEF DoubleLinks
  <2> QED BY <1>1, <1>2, <2>1
<1>7. A3 = [m \in S \ {n} |-> IF A1[m] = n THEN child ELSE A1[m]]
  BY <1>3
<1>8. B3 = [m \in S \ {n} |-> IF B1[m] = n THEN child ELSE B1[m]]
  BY <1>4
<1>9. P3 = [m \in S \ {n} |-> IF m = child THEN P1[n] ELSE P1[m]]
  BY <1>5
<1>10. C3 = [m \in S \ {n} |-> C1[m]]
  BY <1>6
<1>11. root3 = IF P1[n] = Null THEN child ELSE root1
  BY <1>1, <1>2
<1> QED BY <1>1, <1>7, <1>8, <1>9, <1>10, <1>11 DEF Unlinked, TradeDone

LEMMA DoubleUnlinked ==
  ASSUME NEW S, NEW t, NEW A, NEW B, NEW P, NEW C, NEW root, NEW r,
         NEW n, NEW s, NEW child, NEW above, NEW parent, NEW h, NEW v, NEW root3,
         DoubleUnlinkedOK(S, t, A, B, P, C, root, r, n, s, child, above, parent, h, v, root3)
  PROVE  UnlinkedTree(S \ {n}, v, root3, C[s], parent, child)
<1> USE DEF DoubleUnlinkedOK
<1>1. /\ Shape(S, A, B, P, root) /\ Ranking(S, A, B, r) /\ Null \notin S /\ n \in S /\ s \in S
      /\ parent # Null /\ C = [m \in S |-> C[m]] /\ C \in [S -> {"red", "black"}]
  BY DEF DoubleOK, Shape, View, Fields
<1>2. PICK f : f = Trade(S, n, s)
  OBVIOUS
<1>3. PICK A1, B1, P1, C1, root1 : Relabeled(S, A, B, P, root, C, f, A1, B1, P1, root1, C1)
  <2>1. \E A1, B1, P1, C1, root1 :
           /\ A1 = [m \in S |-> f[A[f[m]]]]
           /\ B1 = [m \in S |-> f[B[f[m]]]]
           /\ P1 = [m \in S |-> f[P[f[m]]]]
           /\ C1 = [m \in S |-> C[f[m]]]
           /\ root1 = f[root]
    OBVIOUS
  <2> QED BY <2>1 DEF Relabeled
<1>4. PICK A2, B2, P2, C2 : DoubleLinks(S, A, B, P, C, n, s, child, above, parent, A2, B2, P2, C2)
  <2>1. \E A2, B2, P2, C2 :
    /\ A2 = [m \in S |-> IF m = s THEN A[n] ELSE IF above # n /\ m = above THEN child
                       ELSE IF A[m] = n THEN s ELSE A[m]]
    /\ B2 = [m \in S |-> IF above # n /\ m = s THEN B[n] ELSE IF B[m] = n THEN s ELSE B[m]]
    /\ P2 = [m \in S |-> IF m = A[n] THEN s ELSE IF m = s THEN P[n]
                       ELSE IF above # n /\ m = B[n] THEN s
                       ELSE IF m = child THEN parent ELSE P[m]]
    /\ C2 = [m \in S |-> IF m = s THEN C[n] ELSE C[m]]
    OBVIOUS
  <2> QED BY <2>1 DEF DoubleLinks
<1>5. PICK A3, B3, P3, C3 : /\ A3 = [m \in S \ {n} |-> A2[m]] /\ B3 = [m \in S \ {n} |-> B2[m]]
                            /\ P3 = [m \in S \ {n} |-> P2[m]] /\ C3 = [m \in S \ {n} |-> C2[m]]
  OBVIOUS
<1>6. Unlinked(S, A1, B1, P1, root1, n, A3, B3, P3, root3) /\ C3 = [m \in S \ {n} |-> C1[m]]
  <2>1. TradeOK(S, A, B, P, C, root, r, n, s, child, above, parent, f, A1, B1, P1, C1, root1,
                A2, B2, P2, C2, A3, B3, P3, C3, root3)
    BY <1>1, <1>2, <1>3, <1>4, <1>5 DEF TradeOK
  <2> HIDE DEF DoubleUnlinkedOK
  <2>2. TradeDone(S, A1, B1, P1, C1, root1, n, A3, B3, P3, C3, root3)
    BY <2>1, TradeUnlinks
  <2> QED BY <2>2 DEF TradeDone
<1>7. /\ Involution(S, f)
      /\ A1[n] = Null /\ B1[n] = child /\ P1[n] = parent /\ C1[n] = C[s]
  BY <1>1, <1>2, <1>3, TradeLinks
<1>8. Shape(S, A1, B1, P1, root1)
  BY <1>1, <1>3, <1>7, RelabelShape
<1>9. PICK q : Ranking(S, A1, B1, q)
  BY <1>1, <1>3, <1>7, RelabelRanking
<1>10. PICK h1 : Heights(S, A1, B1, C1, Null, Null, h1) /\ Reds(S, A1, B1, C1, Null)
  BY <1>1, <1>3, <1>7, RelabelHeights
<1>11. C1 \in [S -> {"red", "black"}]
  <2>1. \A m \in S : f[m] \in S
    BY <1>7 DEF Involution
  <2> QED BY <1>1, <1>3, <2>1 DEF Relabeled
<1>12. View(S, DoubleTree(t, n, s, child, above, parent), "left", A2, B2, P2, C2)
  BY <1>4, ViewDouble
<1>13. View(S \ {n}, v, "left", A3, B3, P3, C3)
  <2>1. PICK T \in SUBSET S : T = S \ {n}
    OBVIOUS
  <2>2. PICK w : w = DoubleTree(t, n, s, child, above, parent)
    OBVIOUS
  <2>3. View(T, Restrict(w, T), "left", Restrict(A2, T), Restrict(B2, T), Restrict(P2, T), Restrict(C2, T))
    BY <1>12, <2>2, ViewRestrict
  <2>4. /\ v = Restrict(w, T) /\ A3 = Restrict(A2, T) /\ B3 = Restrict(B2, T)
        /\ P3 = Restrict(P2, T) /\ C3 = Restrict(C2, T)
    BY <1>1, <1>5, <2>1, <2>2 DEF Restrict
  <2> QED BY <2>1, <2>3, <2>4
<1>14. v \in [S \ {n} -> Fields]
  BY <1>13 DEF View
<1>15. /\ TShape(v, root3)
       /\ TRanked(v)
       /\ C1[n] = "red" \/ P1[n] = Null => TEven(v) /\ TReds(v, Null)
       /\ C1[n] = "black" /\ P1[n] # Null =>
              /\ P1[n] \in S \ {n}
              /\ TReds(v, child)
              /\ \E d \in Side : v[P1[n]][d] = child /\ TLacks(v, P1[n], d)
  <2>1. "left" \in Side /\ child = IF A1[n] = Null THEN B1[n] ELSE A1[n]
    BY <1>7 DEF Side
  <2>2. UnlinkHyp(S, v, A1, B1, P1, root1, n, q, C1, h1, A3, B3, P3, C3, root3)
    BY <1>1, <1>6, <1>7, <1>8, <1>9, <1>10, <1>11, <1>13, <2>1 DEF UnlinkHyp
  <2>3. SingleOK(S \ {n}, v, root3, C1[n], P1[n], IF A1[n] = Null THEN B1[n] ELSE A1[n])
    BY <2>2, TUnlinkedOK
  <2> QED BY <2>1, <2>3 DEF SingleOK, LostBlack
<1> QED BY <1>1, <1>7, <1>14, <1>15 DEF UnlinkedTree, LostBlack

LEMMA TUnlinkDouble ==
  ASSUME NEW root, Linked \subseteq Node, tree \in [Linked -> Fields], IsFiniteSet(Linked),
         NEW n \in Linked, tree[n].left # Null, tree[n].right # Null,
         TShape(tree, root), TRanked(tree), TEven(tree), TReds(tree, Null),
         NEW u, u = UnlinkDouble(n),
         NEW v, v = [m \in Linked \ {n} |-> u.tree[m]]
  PROVE  /\ v \in [Linked \ {n} -> Fields]
         /\ TShape(v, IF tree[n].parent = Null THEN Leftmost(tree[n].right) ELSE root)
         /\ u.root = RootAfter(n, Leftmost(tree[n].right))
         /\ TRanked(v)
         /\ u.child \in Node \union {Null} /\ u.parent \in Linked \ {n} /\ u.parent # Null
         /\ u.root \in Node \union {Null, m_root_}
         /\ u.color \in {"red", "black"}
         /\ u.color = "red" => TEven(v) /\ TReds(v, Null)
         /\ u.color = "black" =>
              /\ TReds(v, u.child)
              /\ \E d \in Side : v[u.parent][d] = u.child /\ TLacks(v, u.parent, d)
<1> DEFINE S == Linked
           A == Links(tree, "left")
           B == Links(tree, "right")
           P == Parents(tree)
           C == Colors(tree)
           s == Leftmost(tree[n].right)
           child == tree[s].right
           above == tree[s].parent
           parent == IF above = n THEN s ELSE above
<1>0. "left" \in Side /\ Other("left") = "right"
  BY DEF Side, Other
<1>1. View(S, tree, "left", A, B, P, C)
  BY <1>0, ViewOf DEF Linked
<1>2. Shape(S, A, B, P, root)
  BY DEF TShape, Linked
<1>3. PICK r : Ranking(S, A, B, r)
  BY DEF TRanked, Linked
<1>4. PICK h : Heights(S, A, B, C, Null, Null, h)
  BY DEF TEven, Linked
<1>5. Reds(S, A, B, C, Null)
  BY DEF TReds, Linked
<1>6. /\ A[n] = tree[n].left /\ B[n] = tree[n].right /\ P[n] = tree[n].parent /\ C[n] = tree[n].color
      /\ \A m \in S : A[m] = tree[m].left /\ B[m] = tree[m].right /\ P[m] = tree[m].parent /\ C[m] = tree[m].color
  BY DEF Linked, Links, Parents, Colors
<1>7. B[n] \in S /\ B[n] # n /\ P[B[n]] = n
  BY <1>2, <1>3, <1>6 DEF Shape, Ranking
<1>8. PICK e \in S : /\ Utmost("left", B[n]) = e
                     /\ A[e] = Null
                     /\ e = B[n] \/ (P[e] \in S /\ A[P[e]] = e /\ r[P[e]] <= r[B[n]])
  <2> HIDE DEF P, B
  <2> QED BY <1>0, <1>2, <1>3, <1>7, UtmostIsOutward
<1>9. s = e
  BY <1>6, <1>8 DEF Leftmost
<1>10. DoubleOK(S, A, B, P, root, r, n, s, child, above, parent)
  <2>1. child = B[s] /\ above = P[s] /\ s \in S
    BY <1>6, <1>8, <1>9
  <2>2. r \in [S -> Nat] /\ r[B[n]] < r[n]
    <3> HIDE DEF A, B, P
    <3>1. B[n] # Null
      BY <1>2, <1>7 DEF Shape
    <3> QED BY <1>3, <3>1 DEF Ranking
  <2>3. s = B[n] \/ (P[s] \in S /\ A[P[s]] = s /\ r[P[s]] <= r[B[n]])
    BY <1>8, <1>9
  <2> HIDE DEF A, B, P, s, child, above, parent
  <2>4. CASE s = B[n]
    <3>1. above = n /\ s # n /\ r[s] < r[n]
      BY <1>7, <2>1, <2>2, <2>4
    <3> QED BY <1>2, <1>3, <1>6, <1>8, <1>9, <2>1, <2>4, <3>1 DEF DoubleOK, parent
  <2>5. CASE s # B[n]
    <3>1. P[s] \in S /\ A[P[s]] = s /\ r[P[s]] <= r[B[n]]
      BY <2>3, <2>5
    <3>2. r[P[s]] < r[n] /\ P[s] # n
      BY <2>2, <3>1, <1>7
    <3>3. r[s] < r[P[s]]
      BY <1>2, <1>3, <2>1, <3>1 DEF Ranking, Shape
    <3>4. r[s] < r[n] /\ s # n
      BY <2>1, <2>2, <3>1, <3>2, <3>3
    <3> QED BY <1>2, <1>3, <1>6, <1>8, <1>9, <2>1, <3>1, <3>2, <3>4 DEF DoubleOK, parent
  <2> QED BY <2>4, <2>5
<1>11. u = [tree |-> DoubleTree(tree, n, s, child, above, parent), root |-> RootAfter(n, s),
            child |-> child, parent |-> parent, color |-> tree[s].color]
  BY DEF UnlinkDouble, DoubleTree
<1>12. s \in S /\ child \in Node \union {Null} /\ tree[s].color = C[s] /\ C[s] \in {"red", "black"} /\ parent \in S \ {n} /\ Null \notin S
  <2>1. s \in S /\ s # n /\ above \in S /\ Null \notin S
    BY <1>10, <1>2 DEF DoubleOK, Shape
  <2>2. tree[s] \in Fields
    BY <2>1
  <2> QED BY <1>6, <2>1, <2>2 DEF Fields
<1> HIDE DEF A, B, P, C, s, child, above, parent
<1>13. v = [m \in S \ {n} |-> DoubleTree(tree, n, s, child, above, parent)[m]]
  BY <1>11
<1>14. PICK root3 : root3 = IF P[n] = Null THEN s ELSE root
  OBVIOUS
<1>15. UnlinkedTree(S \ {n}, v, root3, C[s], parent, child)
  <2>1. DoubleUnlinkedOK(S, tree, A, B, P, C, root, r, n, s, child, above, parent, h, v, root3)
    BY <1>1, <1>4, <1>5, <1>10, <1>13, <1>14 DEF DoubleUnlinkedOK
  <2> HIDE DEF S
  <2> QED BY <2>1, DoubleUnlinked
<1>16. root3 = IF tree[n].parent = Null THEN s ELSE root
  BY <1>6, <1>14
<1>17. u.root = RootAfter(n, s) /\ u.child = child /\ u.parent = parent /\ u.color = C[s]
  BY <1>11, <1>12
<1>18. u.root \in Node \union {Null, m_root_}
  BY <1>12, <1>17 DEF RootAfter
<1> QED BY <1>12, <1>15, <1>16, <1>17, <1>18 DEF s, UnlinkedTree, LostBlack

-----------------------------------------------------------------------------
(* The steps of clear. *)
LEMMA RotateRoot ==
  ASSUME NEW S, NEW A, NEW B, NEW P, NEW x \in S, NEW y, NEW r,
         Shape(S, A, B, P, x), Ranking(S, A, B, r), y = B[x], y # Null,
         NEW A1, NEW B1, RootRotated(S, A, B, x, y, A1, B1)
  PROVE  y \in S /\ y # x /\ A[y] \in S \union {Null} /\ Grows(S, A1, B1, y)
<1> USE DEF RootRotated
<1>1. /\ Null \notin S /\ y \in S /\ x # Null /\ A \in [S -> S \union {Null}] /\ P[x] = Null
      /\ A[y] \in S \union {Null}
  BY DEF Shape
<1>2. y # x
  BY <1>1 DEF Ranking
<1>3. \A m \in S : A[m] # x /\ B[m] # x
  BY <1>1 DEF Shape
<1>4. PICK P1 : P1 = [m \in S |-> IF m = A[y] THEN x ELSE IF m = y THEN P[x]
                       ELSE IF m = x THEN y ELSE P[m]]
  OBVIOUS
<1>5. A1 = [m \in S |-> IF m = y THEN x ELSE IF A[m] = x THEN y ELSE A[m]]
  BY <1>3
<1>6. B1 = [m \in S |-> IF m = x THEN A[y] ELSE IF B[m] = x THEN y ELSE B[m]]
  BY <1>3
<1>7. Rotated(S, A, B, P, x, x, y, A1, B1, P1, y)
  BY <1>1, <1>4, <1>5, <1>6 DEF Rotated
<1>8. Shape(S, A1, B1, P1, y)
  BY <1>1, <1>7, RotateShape
<1>9. \E q : Ranking(S, A1, B1, q)
  BY <1>1, <1>7, RotateRanking
<1> QED BY <1>1, <1>2, <1>8, <1>9 DEF Grows

(* The fields that a rotation of clear writes. *)
LEMMA ClearFields ==
  ASSUME NEW S, NEW t, t \in [S -> Fields], S \subseteq Node, NEW x \in S, NEW y \in S, y # x,
         NEW c \in S \union {Null}, NEW u, u = TurnedUp(t, x, y, c),
         NEW A, A = Links(t, "right"), NEW B, B = Links(t, "left"), c = A[y],
         NEW A1, NEW B1, RootRotated(S, A, B, x, y, A1, B1)
  PROVE  u \in [S -> Fields] /\ Links(u, "left") = B1 /\ Links(u, "right") = A1
<1> USE DEF TurnedUp
<1>1. PICK w : w = [t EXCEPT ![x].left = c]
  OBVIOUS
<1>2. u = [w EXCEPT ![y].right = x]
  BY <1>1
<1>3. DOMAIN w = S /\ w[x] = [t[x] EXCEPT !.left = c] /\ \A m \in S : m # x => w[m] = t[m]
  BY <1>1
<1>4. u[y] = [w[y] EXCEPT !.right = x] /\ DOMAIN u = S /\ \A m \in S : m # y => u[m] = w[m]
  BY <1>2, <1>3
<1>5. ASSUME NEW m \in S
      PROVE  /\ u[m] \in Fields
             /\ u[m].left = (IF m = x THEN c ELSE t[m].left)
             /\ u[m].right = (IF m = y THEN x ELSE t[m].right)
  <2>1. t[m] \in Fields
    OBVIOUS
  <2>2. c \in Node \union {Null} /\ x \in Node \union {Null}
    OBVIOUS
  <2>3. CASE m = x
    <3>1. u[m] = [t[m] EXCEPT !.left = c]
      BY <1>3, <1>4, <2>3
    <3> QED BY <2>1, <2>2, <2>3, <3>1 DEF Fields
  <2>4. CASE m = y
    <3>1. u[m] = [t[m] EXCEPT !.right = x]
      BY <1>3, <1>4, <2>4
    <3> QED BY <2>1, <2>2, <2>4, <3>1 DEF Fields
  <2>5. CASE m # x /\ m # y
    BY <1>3, <1>4, <2>1, <2>5
  <2> QED BY <2>3, <2>4, <2>5
<1>6. u \in [S -> Fields]
  <2>1. u = [m \in S |-> u[m]]
    BY <1>2, <1>3
  <2> QED BY <1>5, <2>1
<1>7. DOMAIN t = S /\ DOMAIN u = S
  BY <1>4
<1> QED BY <1>5, <1>6, <1>7 DEF Links, RootRotated

LEMMA TClearRotate ==
  ASSUME NEW S, NEW t, t \in [S -> Fields], S \subseteq Node,
         NEW x \in S, NEW y, y = t[x].left, y # Null, Hangs(t, x), TRanked(t),
         NEW u, u = TurnedUp(t, x, y, t[y].right)
  PROVE  /\ u \in [S -> Fields]
         /\ Hangs(u, y)
         /\ TRanked(u)
<1>1. PICK A, B : A = Links(t, "right") /\ B = Links(t, "left")
  OBVIOUS
<1>2. DOMAIN t = S /\ \A m \in S : A[m] = t[m].right /\ B[m] = t[m].left
  BY <1>1 DEF Links
<1>3. PICK Q : Shape(S, A, B, Q, x)
  BY <1>1, <1>2, MirrorShape DEF Hangs
<1>4. PICK r : Ranking(S, A, B, r)
  BY <1>1, <1>2, MirrorRanking DEF TRanked
<1>5. PICK A1, B1 : RootRotated(S, A, B, x, y, A1, B1)
  <2>1. \E A1, B1 : /\ A1 = [m \in S |-> IF m = y THEN x ELSE A[m]]
                    /\ B1 = [m \in S |-> IF m = x THEN A[y] ELSE B[m]]
    OBVIOUS
  <2> QED BY <2>1 DEF RootRotated
<1>6. y = B[x]
  BY <1>2
<1>7. y \in S /\ y # x /\ A[y] \in S \union {Null} /\ Grows(S, A1, B1, y)
  BY <1>3, <1>4, <1>5, <1>6, RotateRoot
<1>8. u = TurnedUp(t, x, y, A[y])
  BY <1>2, <1>7
<1>9. u \in [S -> Fields] /\ Links(u, "left") = B1 /\ Links(u, "right") = A1
  <2>1. x \in S /\ y \in S /\ A[y] \in S \union {Null} /\ y # x
    BY <1>7
  <2>2. PICK c : c = A[y]
    OBVIOUS
  <2>3. u = TurnedUp(t, x, y, c) /\ c \in S \union {Null}
    BY <1>8, <2>1, <2>2
  <2> QED BY <1>1, <1>5, <2>1, <2>2, <2>3, ClearFields
<1>10. DOMAIN u = S
  BY <1>9
<1>11. Hangs(u, y)
  <2>1. PICK P1 : Shape(S, A1, B1, P1, y)
    BY <1>7 DEF Grows
  <2>2. Shape(S, B1, A1, P1, y)
    BY <2>1, MirrorShape
  <2> QED BY <1>9, <1>10, <2>2 DEF Hangs
<1>12. TRanked(u)
  <2>1. PICK q : Ranking(S, A1, B1, q)
    BY <1>7 DEF Grows
  <2>2. Ranking(S, B1, A1, q)
    BY <2>1, MirrorRanking
  <2> QED BY <1>9, <1>10, <2>2 DEF TRanked
<1> QED BY <1>9, <1>11, <1>12

LEMMA TClearDelete ==
  ASSUME NEW S, NEW t, t \in [S -> Fields], NEW x \in S, t[x].left = Null,
         Hangs(t, x), TRanked(t), NEW v, v = [m \in S \ {x} |-> t[m]]
  PROVE  /\ v \in [S \ {x} -> Fields]
         /\ Hangs(v, t[x].right)
         /\ TRanked(v)
<1> DEFINE A == Links(t, "left")
           B == Links(t, "right")
<1>0. DOMAIN t = S /\ \A m \in S : t[m] \in Fields /\ A[m] = t[m].left /\ B[m] = t[m].right
  BY DEF Links
<1>1. PICK Q : Shape(S, A, B, Q, x)
  BY <1>0 DEF Hangs
<1>2. PICK r : Ranking(S, A, B, r)
  BY <1>0 DEF TRanked
<1>3. A[x] = Null /\ B[x] = t[x].right
  BY <1>0
<1>4. PICK A1, B1, P1, root1 : Unlinked(S, A, B, Q, x, x, A1, B1, P1, root1)
  <2> HIDE DEF A, B
  <2>1. PICK c : c = IF A[x] = Null THEN B[x] ELSE A[x]
    OBVIOUS
  <2>2. \E A1, B1, P1, root1 :
     /\ A1 = [m \in S \ {x} |-> IF A[m] = x THEN c ELSE A[m]]
     /\ B1 = [m \in S \ {x} |-> IF B[m] = x THEN c ELSE B[m]]
     /\ P1 = [m \in S \ {x} |-> IF m = c THEN Q[x] ELSE Q[m]]
     /\ root1 = IF Q[x] = Null THEN c ELSE x
    OBVIOUS
  <2> QED BY <2>1, <2>2 DEF Unlinked
<1>5. Shape(S \ {x}, A1, B1, P1, root1) /\ \E q : Ranking(S \ {x}, A1, B1, q)
  <2> HIDE DEF A, B
  <2>1. Shape(S \ {x}, A1, B1, P1, root1)
    BY <1>1, <1>2, <1>3, <1>4, UnlinkShape
  <2>2. \E q : Ranking(S \ {x}, A1, B1, q)
    BY <1>1, <1>2, <1>3, <1>4, UnlinkRanking
  <2> QED BY <2>1, <2>2
<1>6. /\ root1 = B[x]
      /\ A1 = [m \in S \ {x} |-> A[m]]
      /\ B1 = [m \in S \ {x} |-> B[m]]
  <2> HIDE DEF A, B
  <2>1. /\ Q[x] = Null /\ x # Null
        /\ \A m \in S : A[m] # x /\ B[m] # x
    BY <1>1 DEF Shape
  <2> QED BY <1>3, <1>4, <2>1 DEF Unlinked
<1>7. DOMAIN v = S \ {x} /\ Links(v, "left") = A1 /\ Links(v, "right") = B1
  BY <1>0, <1>6 DEF Links
<1>8. v \in [S \ {x} -> Fields]
  BY <1>0
<1>9. Hangs(v, t[x].right)
  BY <1>3, <1>5, <1>6, <1>7 DEF Hangs
<1>10. TRanked(v)
  BY <1>5, <1>7 DEF TRanked
<1> QED BY <1>8, <1>9, <1>10

-----------------------------------------------------------------------------
(* What is around a node. *)
(* The places around a node of a tree. *)
LEMMA TAround ==
  ASSUME NEW S, NEW t, t \in [S -> Fields], NEW root, TShape(t, root), TRanked(t), NEW m \in S
  PROVE  /\ Null \notin S
         /\ \A d \in Side : /\ t[m][d] \in S \union {Null} /\ t[m][d] # m
                            /\ t[m][d] # Null => t[t[m][d]].parent = m /\ t[m][d] # t[m][Other(d)]
         /\ t[m].parent \in S \union {Null} /\ t[m].parent # m
         /\ t[m].parent # Null => /\ t[t[m].parent][SideOf(t, t[m].parent, m)] = m
                                  /\ SideOf(t, t[m].parent, m) \in Side
         /\ t[m].parent = Null <=> m = root
         /\ t[m].color \in {"red", "black"}
<1>1. PICK A, B, P : A = Links(t, "left") /\ B = Links(t, "right") /\ P = Parents(t)
  OBVIOUS
<1>2. DOMAIN t = S /\ \A k \in S : A[k] = t[k].left /\ B[k] = t[k].right /\ P[k] = t[k].parent
  BY <1>1 DEF Links, Parents
<1>3. Shape(S, A, B, P, root)
  BY <1>1, <1>2 DEF TShape
<1>4. PICK r : Ranking(S, A, B, r)
  BY <1>1, <1>2 DEF TRanked
<1>5. /\ Null \notin S /\ m # Null
      /\ A[m] \in S \union {Null} /\ B[m] \in S \union {Null} /\ P[m] \in S \union {Null}
      /\ A[m] # Null => P[A[m]] = m /\ A[m] # B[m]
      /\ B[m] # Null => P[B[m]] = m
      /\ P[m] # Null => A[P[m]] = m \/ B[P[m]] = m
      /\ P[m] = Null <=> m = root
  BY <1>3 DEF Shape
<1>6. A[m] # m /\ B[m] # m
  BY <1>4, <1>5 DEF Ranking
<1>7. P[m] # m
  BY <1>5, <1>6
<1>8. ASSUME NEW d \in Side
      PROVE  /\ t[m][d] \in S \union {Null} /\ t[m][d] # m
             /\ t[m][d] # Null => t[t[m][d]].parent = m /\ t[m][d] # t[m][Other(d)]
  <2>1. \/ d = "left" /\ Other(d) = "right"
        \/ d = "right" /\ Other(d) = "left"
    BY DEF Side, Other
  <2>2. \/ t[m][d] = A[m] /\ t[m][Other(d)] = B[m]
        \/ t[m][d] = B[m] /\ t[m][Other(d)] = A[m]
    BY <1>2, <2>1
  <2> QED BY <1>2, <1>5, <1>6, <2>2
<1>9. ASSUME t[m].parent # Null
      PROVE  /\ t[t[m].parent][SideOf(t, t[m].parent, m)] = m
             /\ SideOf(t, t[m].parent, m) \in Side
  <2>1. P[m] \in S /\ (A[P[m]] = m \/ B[P[m]] = m) /\ P[m] = t[m].parent
    BY <1>2, <1>5, <1>9
  <2>2. t[P[m]].left = A[P[m]] /\ t[P[m]].right = B[P[m]]
    BY <1>2, <2>1
  <2>3. CASE m # t[P[m]].right
    BY <2>1, <2>2, <2>3 DEF SideOf, Side
  <2>4. CASE m = t[P[m]].right
    BY <2>1, <2>2, <2>4 DEF SideOf, Side
  <2> QED BY <2>3, <2>4
<1>10. t[m].color \in {"red", "black"}
  <2>1. t[m] \in Fields
    OBVIOUS
  <2> QED BY <2>1 DEF Fields
<1> QED BY <1>2, <1>5, <1>7, <1>8, <1>9, <1>10

LEMMA TParent ==
  ASSUME NEW S, NEW t, t \in [S -> Fields], NEW root, TShape(t, root), TRanked(t), NEW m \in S,
         NEW p, p = t[m].parent, p # Null, NEW d, d = SideOf(t, p, m)
  PROVE  p \in S /\ p # m /\ d \in Side /\ t[p][d] = m
<1>1. /\ t[m].parent \in S \union {Null} /\ t[m].parent # m
      /\ t[m].parent # Null => /\ t[t[m].parent][SideOf(t, t[m].parent, m)] = m
                               /\ SideOf(t, t[m].parent, m) \in Side
  BY TAround
<1> QED BY <1>1

LEMMA TChild ==
  ASSUME NEW S, NEW t, t \in [S -> Fields], NEW root, TShape(t, root), TRanked(t), NEW m \in S,
         NEW d \in Side, NEW c, c = t[m][d], c # Null
  PROVE  c \in S /\ c # m /\ t[c].parent = m /\ c # t[m][Other(d)]
<1>1. \A e \in Side : /\ t[m][e] \in S \union {Null} /\ t[m][e] # m
                      /\ t[m][e] # Null => t[t[m][e]].parent = m /\ t[m][e] # t[m][Other(e)]
  BY TAround
<1> QED BY <1>1

LEMMA TGrandChild ==
  ASSUME NEW S, NEW t, t \in [S -> Fields], NEW root, TShape(t, root), TRanked(t), NEW m \in S,
         NEW d \in Side, NEW c \in S, c = t[m][d], NEW e \in Side, NEW k \in S, k = t[c][e]
  PROVE  k # m
<1>1. PICK r : Ranking(S, Links(t, "left"), Links(t, "right"), r)
  BY DEF TRanked
<1>2. Null \notin S
  BY TAround
<1>3. (d = "left" \/ d = "right") /\ (e = "left" \/ e = "right")
  BY DEF Side
<1>4. r \in [S -> Nat] /\ r[c] < r[m]
  <2>1. c # Null /\ c = Links(t, d)[m]
    BY <1>2 DEF Links
  <2> QED BY <1>1, <1>3, <2>1 DEF Ranking
<1>5. r[k] < r[c]
  <2>1. k # Null /\ k = Links(t, e)[c]
    BY <1>2 DEF Links
  <2> QED BY <1>1, <1>3, <2>1 DEF Ranking
<1>6. r[k] \in Nat /\ r[c] \in Nat /\ r[m] \in Nat
  BY <1>4
<1> QED BY <1>4, <1>5, <1>6

(* Where a black node is missing there is a sibling to take it from. *)
LEMMA TLackSide ==
  ASSUME NEW S, NEW t, t \in [S -> Fields], NEW root, TShape(t, root), TRanked(t),
         NEW p \in S, NEW d \in Side, NEW c, c = t[p][d], TLacks(t, p, d)
  PROVE  t[p][Other(d)] \in S /\ SideOf(t, p, c) = d
<1>1. PICK A, B, C : A = Links(t, d) /\ B = Links(t, Other(d)) /\ C = Colors(t)
  OBVIOUS
<1>2. DOMAIN t = S /\ A[p] = t[p][d] /\ B[p] = t[p][Other(d)]
  BY <1>1 DEF Links
<1>3. PICK h : Heights(S, A, B, C, p, Null, h)
  BY <1>1, <1>2 DEF TLacks
<1>4. /\ Null \notin S /\ p # Null /\ A[p] \in S \union {Null} /\ B[p] \in S \union {Null}
      /\ A[p] # Null => A[p] # B[p]
  <2>1. /\ Null \notin S
        /\ \A e \in Side : /\ t[p][e] \in S \union {Null} /\ t[p][e] # p
                           /\ t[p][e] # Null => t[t[p][e]].parent = p /\ t[p][e] # t[p][Other(e)]
    BY TAround
  <2>2. Other(d) \in Side
    BY DEF Other, Side
  <2> QED BY <1>2, <2>1, <2>2
<1>5. h \in [S -> Nat \ {0}] /\ At(h, A[p]) + Lack(p, p) = At(h, B[p]) + Lack(p, Null)
  BY <1>3 DEF Heights
<1>6. At(h, A[p]) + 1 = At(h, B[p])
  <2>1. At(h, A[p]) \in Nat /\ At(h, B[p]) \in Nat
    BY <1>4, <1>5 DEF At
  <2>2. Lack(p, p) = 1 /\ Lack(p, Null) = 0
    BY <1>4 DEF Lack
  <2> QED BY <1>5, <2>1, <2>2
<1>7. B[p] # Null
  <2>1. At(h, A[p]) \in Nat /\ At(h, A[p]) # 0
    BY <1>4, <1>5 DEF At
  <2> QED BY <1>6, <2>1 DEF At
<1>8. c # B[p]
  BY <1>2, <1>4, <1>7
<1>9. \/ d = "left" /\ Other(d) = "right"
      \/ d = "right" /\ Other(d) = "left"
  BY DEF Side, Other
<1>10. SideOf(t, p, c) = d
  <2>1. CASE d = "left"
    <3>1. t[p].right = B[p]
      BY <1>2, <1>9, <2>1
    <3> QED BY <1>8, <2>1, <3>1 DEF SideOf
  <2>2. CASE d = "right"
    <3>1. t[p].right = c
      BY <1>2, <1>9, <2>2
    <3> QED BY <2>2, <3>1 DEF SideOf
  <2> QED BY <1>9, <2>1, <2>2
<1> QED BY <1>2, <1>4, <1>7, <1>10

-----------------------------------------------------------------------------
(* Each action keeps the invariant. *)
LEMMA TRedsDone ==
  ASSUME NEW S, NEW t, t \in [S -> Fields], NEW root, TShape(t, root), NEW n, TReds(t, n),
         n # Null => t[n].parent = Null \/ t[t[n].parent].color # "red"
  PROVE  TReds(t, Null)
<1>1. PICK A, B, P, C : A = Links(t, "left") /\ B = Links(t, "right") /\ P = Parents(t) /\ C = Colors(t)
  OBVIOUS
<1>2. DOMAIN t = S /\ \A k \in S : P[k] = t[k].parent /\ C[k] = t[k].color
  BY <1>1 DEF Parents, Colors
<1>3. Shape(S, A, B, P, root) /\ Reds(S, A, B, C, n)
  BY <1>1, <1>2 DEF TShape, TReds
<1>4. ASSUME NEW m \in S, C[m] = "red"
      PROVE  /\ A[m] # Null /\ C[A[m]] = "red" => A[m] = Null
             /\ B[m] # Null /\ C[B[m]] = "red" => B[m] = Null
  <2>1. /\ Null \notin S /\ m # Null
        /\ A[m] # Null => A[m] \in S /\ P[A[m]] = m
        /\ B[m] # Null => B[m] \in S /\ P[B[m]] = m
    BY <1>3 DEF Shape
  <2>2. /\ A[m] # Null /\ C[A[m]] = "red" => A[m] = n
        /\ B[m] # Null /\ C[B[m]] = "red" => B[m] = n
    BY <1>3, <1>4 DEF Reds
  <2>3. n \in S => P[n] # m
    BY <1>2, <1>4, <2>1
  <2> QED BY <2>1, <2>2, <2>3
<1>5. Reds(S, A, B, C, Null)
  BY <1>4 DEF Reds
<1> QED BY <1>1, <1>2, <1>5 DEF TReds

LEMMA TreeIdle ==
  ASSUME NEW S, NEW t, t \in [S -> Fields], S \subseteq Node, IsFiniteSet(S), NEW root,
         TShape(t, root), TRanked(t), TEven(t), TReds(t, Null), NEW size, size = Cardinality(S)
  PROVE  TreeOK(t, root, size, "idle", Null, Null)
<1>1. DOMAIN t = S
  OBVIOUS
<1>2. root \in Node \union {Null}
  BY <1>1 DEF TShape, Shape
<1>3. size \in Nat
  BY FS_CardinalityType
<1> QED BY <1>1, <1>2, <1>3 DEF TreeOK, WellFormed

LEMMA KeepInsertDone ==
  ASSUME TreeOK(tree, m_root_, m_size_, pc, node_, parent_), InsertDone
  PROVE  TreeOK(tree', m_root_', m_size_', pc', node_', parent_')
<1> USE DEF TreeOK, WellFormed, InsertDone, Return
<1>1. PICK S : S = DOMAIN tree
  OBVIOUS
<1>2. /\ tree \in [S -> Fields] /\ S \subseteq Node /\ IsFiniteSet(S) /\ TRanked(tree) /\ TShape(tree, m_root_)
      /\ TEven(tree) /\ TReds(tree, node_) /\ node_ \in S /\ parent_ = tree[node_].parent
      /\ m_size_' = Cardinality(S)
      /\ m_root_' = m_root_ /\ pc' = "idle" /\ node_' = Null /\ parent_' = Null
  BY <1>1
<1>0. /\ parent_ = Null => tree' = SetParentColor(tree, node_, Null, "black")
      /\ parent_ # Null => tree' = tree /\ tree[parent_].color # "red"
  BY DEF RedParent
<1> HIDE DEF TreeOK, WellFormed, InsertDone, Return
<1>3. CASE parent_ = Null
  <2>1. tree' = SetParentColor(tree, node_, Null, "black") /\ tree[node_].parent = Null
    BY <1>0, <1>2, <1>3
  <2>2. /\ tree' \in [S -> Fields] /\ TShape(tree', m_root_) /\ TRanked(tree') /\ TEven(tree') /\ TReds(tree', Null)
    BY <1>2, <2>1, TRootColor
  <2> QED BY <1>2, <2>2, TreeIdle
<1>4. CASE parent_ # Null
  <2>1. tree' = tree /\ tree[parent_].color # "red"
    BY <1>0, <1>4
  <2>2. TReds(tree, Null)
    BY <1>2, <2>1, TRedsDone
  <2> QED BY <1>2, <2>1, <2>2, TreeIdle
<1> QED BY <1>3, <1>4

LEMMA KeepInsertFaults ==
  ASSUME TreeOK(tree, m_root_, m_size_, pc, node_, parent_), InsertFaults
  PROVE  TreeOK(tree', m_root_', m_size_', pc', node_', parent_')
BY DEF TreeOK, InsertFaults

LEMMA KeepRecolor ==
  ASSUME TreeOK(tree, m_root_, m_size_, pc, node_, parent_), Recolor
  PROVE  TreeOK(tree', m_root_', m_size_', pc', node_', parent_')
<1>1. PICK S : S = DOMAIN tree
  OBVIOUS
<1>2. PICK g, u, side : g = GrandParent /\ u = Uncle /\ side = ParentSide
  OBVIOUS
<1>3. /\ tree \in [S -> Fields] /\ S \subseteq Node /\ IsFiniteSet(S) /\ TRanked(tree) /\ TShape(tree, m_root_)
      /\ TEven(tree) /\ TReds(tree, node_) /\ node_ \in S /\ parent_ = tree[node_].parent
      /\ m_size_ + 1 = Cardinality(S) /\ m_size_ \in Nat
      /\ m_root_ \in Node \union {Null}
  BY <1>1 DEF TreeOK, WellFormed, Recolor
<1>4. /\ parent_ # Null /\ tree[parent_].color = "red" /\ g # Null /\ u # Null /\ tree[u].color = "red"
      /\ node_' = g /\ parent_' = tree[g].parent
      /\ tree' = WithColor(SetParentColor(SetParentColor(tree, u, g, "black"), parent_, g, "black"), g, "red")
      /\ m_root_' = m_root_ /\ m_size_' = m_size_ /\ pc' = "insert"
  BY <1>2 DEF Recolor, RedParent, IsRed, WithColor
<1>5. parent_ \in S /\ g = tree[parent_].parent
  BY <1>2, <1>3, <1>4, TParent DEF GrandParent
<1>6. side = SideOf(tree, g, parent_) /\ u = tree[g][Other(side)]
  BY <1>2 DEF ParentSide, Uncle, SideOf
<1>7. g \in S /\ side \in Side /\ tree[g][side] = parent_
  <2>1. g # Null /\ g = tree[parent_].parent /\ side = SideOf(tree, g, parent_) /\ parent_ \in S
    BY <1>4, <1>5, <1>6
  <2>2. tree \in [S -> Fields] /\ TRanked(tree) /\ TShape(tree, m_root_)
    BY <1>3
  <2> QED BY <2>1, <2>2, TParent
<1>8. u \in S
  <2>1. Other(side) \in Side
    BY <1>7 DEF Other, Side
  <2> QED BY <1>3, <1>4, <1>6, <1>7, <2>1, TChild
<1>9. /\ tree' \in [S -> Fields] /\ TShape(tree', m_root_) /\ TRanked(tree') /\ TEven(tree') /\ TReds(tree', g)
      /\ tree'[g].color = "red" /\ tree'[g].parent = tree[g].parent
  <2>1. RecolorHyp(S, tree, side, m_root_, g, parent_, u, node_)
    BY <1>3, <1>4, <1>5, <1>6, <1>7, <1>8 DEF RecolorHyp
  <2>2. RedBlack(S, tree', m_root_, g) /\ tree'[g].color = "red" /\ tree'[g].parent = tree[g].parent
    BY <1>4, <2>1, TRecolor
  <2> QED BY <2>2 DEF RedBlack
<1>10. tree[g].parent \in Node \union {Null} /\ g \in Node /\ DOMAIN tree' = S
  <2>1. tree[g] \in Fields
    BY <1>3, <1>7
  <2>2. tree[g].parent \in Node \union {Null}
    BY <2>1 DEF Fields
  <2> QED BY <1>3, <1>7, <1>9, <2>2
<1>11. WellFormed(tree')
  BY <1>3, <1>9, <1>10 DEF WellFormed
<1> QED BY <1>3, <1>4, <1>7, <1>9, <1>10, <1>11 DEF TreeOK

(* Writes to other fields leave a link alone. *)
LEMMA LinkKept ==
  ASSUME NEW S, NEW t, t \in [S -> Fields], NEW k \in S, NEW d \in Side, NEW p \in S,
         NEW side \in Side, p # k \/ side # d, NEW c \in Node \union {Null},
         NEW u, u = WithLink(t, p, side, c)
  PROVE  Kept(S, t, u, k, d)
<1> USE DEF Kept
<1>1. /\ DOMAIN u = S /\ u[p] = [t[p] EXCEPT ![side] = c]
      /\ \A m \in S : m # p => u[m] = t[m]
      /\ u = [m \in S |-> u[m]]
  BY DEF WithLink
<1>2. (d = "left" \/ d = "right") /\ (side = "left" \/ side = "right")
  BY DEF Side
<1>3. t[p] \in Fields
  OBVIOUS
<1>4. u[p] \in Fields /\ (side # d => u[p][d] = t[p][d])
  BY <1>1, <1>2, <1>3 DEF Fields
<1>5. u \in [S -> Fields]
  BY <1>1, <1>4
<1> QED BY <1>1, <1>4, <1>5

LEMMA ColorKept ==
  ASSUME NEW S, NEW t, t \in [S -> Fields], NEW k \in S, NEW d \in Side, NEW n \in S \union {Null},
         NEW p \in Node \union {Null}, NEW color \in {"red", "black"},
         NEW u, u = SetParentColor(t, n, p, color)
  PROVE  Kept(S, t, u, k, d)
<1> USE DEF Kept
<1>1. d = "left" \/ d = "right"
  BY DEF Side
<1>2. CASE n = Null
  BY <1>2 DEF SetParentColor
<1>3. CASE n # Null
  <2>1. t[n] \in Fields /\ n \in S
    BY <1>3
  <2>2. /\ DOMAIN u = S /\ u[n] = [t[n] EXCEPT !.parent = p, !.color = color]
        /\ \A m \in S : m # n => u[m] = t[m]
        /\ u = [m \in S |-> u[m]]
    BY <1>3, <2>1 DEF SetParentColor
  <2>3. u[n] \in Fields /\ u[n][d] = t[n][d]
    BY <1>1, <2>1, <2>2 DEF Fields
  <2>4. u \in [S -> Fields]
    BY <2>2, <2>3
  <2> QED BY <2>2, <2>3, <2>4
<1> QED BY <1>2, <1>3

LEMMA InnerMoved ==
  ASSUME NEW S, NEW t, t \in [S -> Fields], S \subseteq Node, NEW y \in S, NEW z \in S, y # z, NEW s \in Side,
         NEW orphan \in S \union {Null},
         NEW t1, t1 = WithLink(WithLink(t, y, s, orphan), z, Other(s), y)
  PROVE  /\ t1 \in [S -> Fields] /\ t1[z][s] = t[z][s]
         /\ SetParentColor(SetParentColor(t1, orphan, y, "black"), y, z, "red")[z][s] = t[z][s]
<1>1. orphan \in Node \union {Null} /\ Other(s) \in Side /\ Other(s) # s
      /\ y \in Node \union {Null} /\ z \in Node \union {Null} /\ y \in S \union {Null}
  BY DEF Other, Side
<1>2. PICK w : w = WithLink(t, y, s, orphan)
  OBVIOUS
<1>3. Kept(S, t, w, z, s)
  BY <1>1, <1>2, LinkKept
<1>4. t1 = WithLink(w, z, Other(s), y)
  BY <1>2
<1>5. Kept(S, w, t1, z, s)
  <2>1. w \in [S -> Fields]
    BY <1>3 DEF Kept
  <2> QED BY <2>1, <1>1, <1>3, <1>4, LinkKept
<1>6. PICK w1 : w1 = SetParentColor(t1, orphan, y, "black")
  OBVIOUS
<1>7. Kept(S, t1, w1, z, s)
  <2>1. t1 \in [S -> Fields]
    BY <1>5 DEF Kept
  <2> QED BY <2>1, <1>1, <1>5, <1>6, ColorKept
<1>8. PICK w2 : w2 = SetParentColor(w1, y, z, "red")
  OBVIOUS
<1>9. Kept(S, w1, w2, z, s)
  <2>1. w1 \in [S -> Fields]
    BY <1>7 DEF Kept
  <2> QED BY <2>1, <1>1, <1>7, <1>8, ColorKept
<1> QED BY <1>3, <1>5, <1>6, <1>7, <1>8, <1>9 DEF Kept

LEMMA InnerMovedBack ==
  ASSUME NEW S, NEW t, t \in [S -> Fields], S \subseteq Node, NEW x \in S, NEW y \in S, NEW z \in S, y # z, x # z,
         NEW s \in Side, NEW orphan \in S \union {Null}
  PROVE  SetParentColor(WithLink(WithLink(WithLink(t, y, s, orphan), z, Other(s), y), x, Other(s), z),
                        orphan, y, "black")[z][s] = t[z][s]
<1>1. Other(s) \in Side /\ Other(s) # s /\ y \in Node \union {Null} /\ z \in Node \union {Null}
  BY DEF Other, Side
<1>2. PICK t1 : t1 = WithLink(WithLink(t, y, s, orphan), z, Other(s), y)
  OBVIOUS
<1>3. t1 \in [S -> Fields] /\ t1[z][s] = t[z][s]
  BY <1>2, InnerMoved
<1>4. PICK t2 : t2 = WithLink(t1, x, Other(s), z)
  OBVIOUS
<1>5. Kept(S, t1, t2, z, s)
  <2>1. t1 \in [S -> Fields]
    BY <1>3 DEF Kept
  <2> QED BY <2>1, <1>1, <1>3, <1>4, LinkKept
<1>6. PICK t3 : t3 = SetParentColor(t2, orphan, y, "black")
  OBVIOUS
<1>7. Kept(S, t2, t3, z, s)
  <2>1. t2 \in [S -> Fields]
    BY <1>5 DEF Kept
  <2> QED BY <2>1, <1>1, <1>5, <1>6, ColorKept
<1> QED BY <1>2, <1>3, <1>4, <1>5, <1>6, <1>7 DEF Kept

LEMMA KeepInsertRotate ==
  ASSUME TreeOK(tree, m_root_, m_size_, pc, node_, parent_), InsertRotate
  PROVE  TreeOK(tree', m_root_', m_size_', pc', node_', parent_')
<1>1. PICK S : S = DOMAIN tree
  OBVIOUS
<1>2. PICK g, u, side, s : g = GrandParent /\ u = Uncle /\ side = ParentSide /\ s = Other(side)
  OBVIOUS
<1>3. /\ tree \in [S -> Fields] /\ S \subseteq Node /\ IsFiniteSet(S) /\ TRanked(tree) /\ TShape(tree, m_root_)
      /\ TEven(tree) /\ TReds(tree, node_) /\ node_ \in S /\ parent_ = tree[node_].parent
      /\ tree[node_].color = "red"
      /\ m_size_ + 1 = Cardinality(S) /\ m_size_ \in Nat
      /\ m_root_ \in Node \union {Null}
  BY <1>1 DEF TreeOK, WellFormed, InsertRotate
<1>4. /\ parent_ # Null /\ tree[parent_].color = "red" /\ g # Null
      /\ u = Null \/ tree[u].color # "red"
      /\ node_' = Null /\ parent_' = Null /\ pc' = "idle" /\ m_size_' = m_size_ + 1
  BY <1>2 DEF InsertRotate, RedParent, IsRed, Return
<1>5. parent_ \in S /\ g = tree[parent_].parent
  BY <1>2, <1>3, <1>4, TParent DEF GrandParent
<1>6. side = SideOf(tree, g, parent_) /\ u = tree[g][Other(side)]
  BY <1>2 DEF ParentSide, Uncle, SideOf
<1>7. g \in S /\ side \in Side /\ tree[g][side] = parent_
  <2>1. g # Null /\ g = tree[parent_].parent /\ side = SideOf(tree, g, parent_) /\ parent_ \in S
    BY <1>4, <1>5, <1>6
  <2>2. tree \in [S -> Fields] /\ TRanked(tree) /\ TShape(tree, m_root_)
    BY <1>3
  <2> QED BY <2>1, <2>2, TParent
<1>8. s \in Side /\ Other(s) = side /\ s # side
  BY <1>2, <1>7 DEF Other, Side
<1>9. u # Null => tree[u].color = "black"
  <2>1. ASSUME u # Null PROVE tree[u].color = "black"
    <3>1. u \in S
      <4>1. u = tree[g][s]
        BY <1>2, <1>6
      <4>2. tree \in [S -> Fields] /\ TRanked(tree) /\ TShape(tree, m_root_)
        BY <1>3
      <4> QED BY <1>7, <1>8, <2>1, <4>1, <4>2, TChild
    <3>2. tree[u] \in Fields
      BY <1>3, <3>1
    <3> QED BY <1>4, <2>1, <3>2 DEF Fields
  <2> QED BY <2>1
<1>10. InsertHyp(S, tree, s, m_root_, g, parent_, node_)
  <2>1. parent_ = tree[g][Other(s)] /\ tree[g][s] = u
    BY <1>2, <1>6, <1>7, <1>8
  <2> QED BY <1>3, <1>4, <1>5, <1>7, <1>8, <1>9, <2>1 DEF InsertHyp
<1>11. /\ tree[parent_][side] = node_ \/ tree[parent_][s] = node_
       /\ node_ # parent_
  <2>1. PICK d : d = SideOf(tree, parent_, node_)
    OBVIOUS
  <2>2. tree \in [S -> Fields] /\ TRanked(tree) /\ TShape(tree, m_root_) /\ node_ \in S /\ parent_ = tree[node_].parent
    BY <1>3
  <2>3. parent_ # node_ /\ d \in Side /\ tree[parent_][d] = node_
    BY <1>4, <2>1, <2>2, TParent
  <2>4. d = s \/ d = side
    BY <1>7, <1>8, <2>3 DEF Side
  <2> QED BY <2>3, <2>4
<1>12. PICK top : top = IF tree[parent_][s] = node_ THEN node_ ELSE parent_
  OBVIOUS
<1>13. top \in S /\ m_root_' = (IF tree[g].parent = Null THEN top ELSE m_root_)
  BY <1>2, <1>3, <1>5, <1>12 DEF InsertRotate, RootAfter
<1>14. RedBlack(S, tree', m_root_', Null)
  <2>1. CASE tree[parent_][s] = node_
    <3>1. PICK orphan, moved : orphan = tree[node_][side] /\ moved = tree[node_][s]
      OBVIOUS
    <3>2. orphan \in S \union {Null}
      BY <1>3, <1>7, <3>1, TChild
    <3>3. PICK t1 : t1 = WithLink(WithLink(tree, parent_, s, orphan), node_, Other(s), parent_)
      OBVIOUS
    <3>4. PICK t2 : t2 = SetParentColor(SetParentColor(t1, orphan, parent_, "black"), parent_, node_, "red")
      OBVIOUS
    <3>5. t2[node_][s] = moved
      <4>1. /\ tree \in [S -> Fields] /\ S \subseteq Node /\ parent_ \in S /\ node_ \in S /\ parent_ # node_
            /\ s \in Side /\ orphan \in S \union {Null}
        BY <1>3, <1>5, <1>8, <1>11, <3>2
      <4>2. t2[node_][s] = tree[node_][s]
        BY <3>3, <3>4, <4>1, InnerMoved
      <4> QED BY <3>1, <4>2
    <3>6. tree' = InsertInner(tree, s, g, parent_, node_, orphan, moved)
      <4>1. t1 = [tree EXCEPT ![parent_][s] = orphan, ![node_][side] = parent_]
        BY <1>8, <3>3 DEF WithLink
      <4>2. tree' = RotateSetParents(SetParentColor([t2 EXCEPT ![g][side] = t2[node_][s], ![node_][s] = g],
                                                    t2[node_][s], g, "black"), g, node_, "red")
        BY <1>2, <2>1, <3>1, <3>4, <4>1 DEF InsertRotate
      <4>3. tree' = RotateSetParents(SetParentColor([t2 EXCEPT ![g][side] = moved, ![node_][s] = g],
                                                    moved, g, "black"), g, node_, "red")
        BY <3>5, <4>2
      <4>4. [t2 EXCEPT ![g][side] = moved, ![node_][s] = g] = WithLink(WithLink(t2, g, Other(s), moved), node_, s, g)
        BY <1>8 DEF WithLink
      <4> QED BY <3>3, <3>4, <4>3, <4>4 DEF InsertInner
    <3>7. orphan = tree[node_][Other(s)] /\ node_ = tree[parent_][s]
      BY <1>8, <2>1, <3>1
    <3>8. RedBlack(S, tree', IF tree[g].parent = Null THEN node_ ELSE m_root_, Null)
      <4>1. InsertHyp(S, tree, s, m_root_, g, parent_, node_)
        BY <1>10
      <4>2. node_ = tree[parent_][s] /\ orphan = tree[node_][Other(s)] /\ moved = tree[node_][s]
        BY <3>1, <3>7
      <4>3. RedBlack(S, InsertInner(tree, s, g, parent_, node_, orphan, moved),
                     IF tree[g].parent = Null THEN node_ ELSE m_root_, Null)
        BY <4>1, <4>2, TInsertInner
      <4> QED BY <3>6, <4>3
    <3> QED BY <1>12, <1>13, <2>1, <3>8
  <2>2. CASE tree[parent_][s] # node_
    <3>1. PICK moved : moved = tree[parent_][s]
      OBVIOUS
    <3>2. tree' = RotateSetParents(SetParentColor([tree EXCEPT ![g][side] = moved, ![parent_][s] = g],
                                                  moved, g, "black"), g, parent_, "red")
      BY <1>2, <2>2, <3>1 DEF InsertRotate
    <3>3. tree' = RotatedTree(tree, s, g, parent_, moved, "red")
      <4>1. [tree EXCEPT ![g][side] = moved, ![parent_][s] = g] = WithLink(WithLink(tree, g, Other(s), moved), parent_, s, g)
        BY <1>8 DEF WithLink
      <4> QED BY <3>2, <4>1 DEF RotatedTree
    <3>4. node_ = tree[parent_][Other(s)]
      BY <1>8, <1>11, <2>2
    <3>5. RedBlack(S, tree', IF tree[g].parent = Null THEN parent_ ELSE m_root_, Null)
      BY <1>10, <3>1, <3>3, <3>4, TInsertOuter
    <3> QED BY <1>12, <1>13, <2>2, <3>5
  <2> QED BY <2>1, <2>2
<1> QED
  <2>1. m_size_' = Cardinality(S)
    BY <1>3, <1>4
  <2> QED BY <1>3, <1>4, <1>14, <2>1, TreeIdle DEF RedBlack

(* What the loop of erase finds: the sibling exists because the other side *)
(* of the parent has one black node more.                                  *)
LEMMA EraseSetup ==
  ASSUME TreeOK(tree, m_root_, m_size_, pc, node_, parent_), pc = "erase",
         NEW S, S = Linked, NEW d, d = ChildSide, NEW y, y = Sibling
  PROVE  /\ EraseHyp(S, tree, d, m_root_, parent_, y)
         /\ tree[parent_][d] = node_
         /\ IsFiniteSet(S) /\ m_size_ = Cardinality(S) + 1
         /\ m_root_ \in Node \union {Null} /\ node_ \in Node \union {Null}
<1>1. /\ tree \in [S -> Fields] /\ S \subseteq Node /\ IsFiniteSet(S) /\ TRanked(tree) /\ TShape(tree, m_root_)
      /\ LostBlack(S, tree, parent_, node_)
      /\ m_size_ = Cardinality(S) + 1
      /\ m_root_ \in Node \union {Null} /\ node_ \in Node \union {Null}
  BY DEF TreeOK, WellFormed, Linked
<1>2. PICK e \in Side : tree[parent_][e] = node_ /\ TLacks(tree, parent_, e)
  BY <1>1 DEF LostBlack
<1>3. parent_ \in S /\ TReds(tree, node_)
  BY <1>1 DEF LostBlack
<1>4. tree[parent_][Other(e)] \in S /\ SideOf(tree, parent_, node_) = e
  BY <1>1, <1>2, <1>3, TLackSide
<1>5. d = e
  BY <1>4 DEF ChildSide, SideOf
<1>6. y = tree[parent_][Other(e)]
  BY <1>5 DEF Sibling
<1> QED BY <1>1, <1>2, <1>3, <1>4, <1>5, <1>6 DEF EraseHyp

LEMMA KeepRedSibling ==
  ASSUME TreeOK(tree, m_root_, m_size_, pc, node_, parent_), RedSibling
  PROVE  TreeOK(tree', m_root_', m_size_', pc', node_', parent_')
<1>1. PICK S, d, y, moved : S = Linked /\ d = ChildSide /\ y = Sibling /\ moved = InnerNephew
  OBVIOUS
<1>2. /\ EraseHyp(S, tree, d, m_root_, parent_, y)
      /\ tree[parent_][d] = node_
      /\ IsFiniteSet(S) /\ m_size_ = Cardinality(S) + 1
      /\ m_root_ \in Node \union {Null} /\ node_ \in Node \union {Null}
  BY <1>1, EraseSetup DEF RedSibling
<1>3. /\ tree[y].color = "red" /\ moved = tree[y][d]
      /\ m_root_' = (IF tree[parent_].parent = Null THEN y ELSE m_root_)
      /\ pc' = "erase" /\ m_size_' = m_size_ /\ node_' = node_ /\ parent_' = parent_
  BY <1>1 DEF RedSibling, IsRed, InnerNephew, RootAfter
<1>4. tree' = RotatedTree(tree, d, parent_, y, moved, "red")
  <2>1. tree' = RotateSetParents(SetParentColor([tree EXCEPT ![parent_][Other(d)] = moved, ![y][d] = parent_],
                                                moved, parent_, "black"), parent_, y, "red")
    BY <1>1 DEF RedSibling
  <2> QED BY <2>1 DEF RotatedTree, WithLink
<1>5. /\ tree' \in [S -> Fields]
      /\ TShape(tree', m_root_')
      /\ TRanked(tree')
      /\ LostBlack(S, tree', parent_, tree[parent_][d])
  BY <1>2, <1>3, <1>4, TRedSibling
<1>6. /\ DOMAIN tree' = S /\ S \subseteq Node /\ y \in Node /\ parent_ \in Node
  <2>1. S \subseteq Node /\ y \in S /\ parent_ \in S
    BY <1>2 DEF EraseHyp
  <2> QED BY <1>5, <2>1
<1>7. m_root_' \in Node \union {Null}
  BY <1>2, <1>3, <1>6
<1>8. m_size_ \in Nat
  BY DEF TreeOK
<1> QED BY <1>2, <1>3, <1>5, <1>6, <1>7, <1>8 DEF TreeOK, WellFormed

LEMMA KeepFlipSibling ==
  ASSUME TreeOK(tree, m_root_, m_size_, pc, node_, parent_), FlipSibling
  PROVE  TreeOK(tree', m_root_', m_size_', pc', node_', parent_')
<1>1. PICK S, d, y : S = Linked /\ d = ChildSide /\ y = Sibling
  OBVIOUS
<1>2. /\ EraseHyp(S, tree, d, m_root_, parent_, y)
      /\ IsFiniteSet(S) /\ m_size_ = Cardinality(S) + 1
      /\ m_root_ \in Node \union {Null} /\ node_ \in Node \union {Null}
  BY <1>1, EraseSetup DEF FlipSibling
<1>3. /\ S \subseteq Node /\ tree \in [S -> Fields] /\ d \in Side /\ parent_ \in S /\ y \in S
      /\ TShape(tree, m_root_) /\ TRanked(tree)
  BY <1>2 DEF EraseHyp
<1>4. tree[y].color = "black" /\ m_root_' = m_root_ /\ m_size_ \in Nat
  BY <1>1 DEF FlipSibling, BlackSibling, TreeOK
<1>5. \A s \in Side : tree[y][s] # Null => tree[tree[y][s]].color = "black"
  <2>1. ASSUME NEW s \in Side, tree[y][s] # Null PROVE tree[tree[y][s]].color = "black"
    <3>1. s = d \/ s = Other(d)
      BY <1>3 DEF Side, Other
    <3>2. tree[y][s] = InnerNephew \/ tree[y][s] = OuterNephew
      BY <1>1, <3>1 DEF InnerNephew, OuterNephew
    <3>3. tree[tree[y][s]].color # "red"
      BY <2>1, <3>2 DEF FlipSibling, IsRed
    <3>4. PICK c : c = tree[y][s]
      OBVIOUS
    <3>5. c \in S
      BY <1>3, <2>1, <3>4, TChild
    <3>6. tree[c] \in Fields
      BY <1>3, <3>5
    <3> QED BY <3>3, <3>4, <3>6 DEF Fields
  <2> QED BY <2>1
<1>6. tree' = WithColor(SetParentColor(tree, y, parent_, "red"), parent_, "black")
  <2>1. y # Null
    BY <1>1 DEF FlipSibling, BlackSibling
  <2>2. tree' = [tree EXCEPT ![y].parent = parent_, ![y].color = "red", ![parent_].color = "black"]
    BY <1>1 DEF FlipSibling
  <2> QED BY <2>1, <2>2 DEF WithColor, SetParentColor
<1>7. /\ tree' \in [S -> Fields] /\ TShape(tree', m_root_) /\ TRanked(tree') /\ TReds(tree', Null)
      /\ tree[parent_].color = "red" \/ tree[parent_].parent = Null => TEven(tree')
      /\ \A s \in Side : tree[parent_].color = "black" /\ tree[parent_].parent # Null /\ tree[tree[parent_].parent][s] = parent_
                             => TLacks(tree', tree[parent_].parent, s)
      /\ \A m \in S, s \in Side : tree'[m][s] = tree[m][s]
  BY <1>2, <1>4, <1>5, <1>6, TFlip
<1>8. parent_ # Null
  BY <1>3, TAround
<1>9. CASE tree[parent_].color = "red" \/ tree[parent_].parent = Null
  <2>1. pc' = "idle" /\ node_' = Null /\ parent_' = Null /\ m_size_' = m_size_ - 1
    BY <1>8, <1>9 DEF FlipSibling, IsRed, Return
  <2>2. m_size_' = Cardinality(S)
    BY <1>2, <2>1, FS_CardinalityType
  <2>3. TEven(tree')
    BY <1>7, <1>9
  <2>4. TreeOK(tree', m_root_, m_size_', "idle", Null, Null)
    BY <1>2, <1>3, <1>7, <2>2, <2>3, TreeIdle
  <2> QED BY <1>4, <2>1, <2>4
<1>10. CASE tree[parent_].color # "red" /\ tree[parent_].parent # Null
  <2>1. pc' = "erase" /\ node_' = parent_ /\ parent_' = tree[parent_].parent /\ m_size_' = m_size_
    BY <1>8, <1>10 DEF FlipSibling, IsRed
  <2>2. PICK g, s : g = tree[parent_].parent /\ s = SideOf(tree, g, parent_)
    OBVIOUS
  <2>3. g \in S /\ s \in Side /\ tree[g][s] = parent_
    BY <1>3, <1>10, <2>2, TParent
  <2>4. tree[parent_].color = "black"
    <3>1. tree[parent_] \in Fields
      BY <1>3
    <3> QED BY <1>10, <3>1 DEF Fields
  <2>5. TLacks(tree', g, s) /\ tree'[g][s] = parent_
    BY <1>7, <1>10, <2>2, <2>3, <2>4
  <2>6. TReds(tree', parent_)
    BY <1>7, TWeakReds
  <2>7. LostBlack(S, tree', g, parent_)
    BY <2>3, <2>5, <2>6 DEF LostBlack
  <2>8. DOMAIN tree' = S /\ g \in Node /\ parent_ \in Node
    BY <1>3, <1>7, <2>3
  <2> QED BY <1>2, <1>3, <1>4, <1>7, <2>1, <2>2, <2>7, <2>8 DEF TreeOK, WellFormed
<1> QED BY <1>9, <1>10

LEMMA KeepEraseRotate ==
  ASSUME TreeOK(tree, m_root_, m_size_, pc, node_, parent_), EraseRotate
  PROVE  TreeOK(tree', m_root_', m_size_', pc', node_', parent_')
<1>1. PICK S, d, y, s : S = Linked /\ d = ChildSide /\ y = Sibling /\ s = Other(d)
  OBVIOUS
<1>2. /\ EraseHyp(S, tree, d, m_root_, parent_, y)
      /\ IsFiniteSet(S) /\ m_size_ = Cardinality(S) + 1
      /\ m_root_ \in Node \union {Null} /\ node_ \in Node \union {Null}
  BY <1>1, EraseSetup DEF EraseRotate
<1>3. /\ S \subseteq Node /\ tree \in [S -> Fields] /\ d \in Side /\ parent_ \in S /\ y \in S
      /\ TShape(tree, m_root_) /\ TRanked(tree) /\ y = tree[parent_][s]
  BY <1>1, <1>2 DEF EraseHyp
<1>4. /\ tree[y].color = "black" /\ pc' = "idle" /\ node_' = Null /\ parent_' = Null /\ m_size_' = m_size_ - 1
  BY <1>1 DEF EraseRotate, BlackSibling, Return
<1>5. PICK inner, outer : inner = tree[y][d] /\ outer = tree[y][s]
  OBVIOUS
<1>6. inner = InnerNephew /\ outer = OuterNephew
  BY <1>1, <1>5 DEF InnerNephew, OuterNephew
<1>7. s \in Side /\ s # d /\ Other(d) = s
  BY <1>1, <1>3 DEF Side, Other
<1>8. PICK top : top = IF IsRed(outer) THEN y ELSE inner
  OBVIOUS
<1>9. m_root_' = (IF tree[parent_].parent = Null THEN top ELSE m_root_)
  BY <1>1, <1>6, <1>8 DEF EraseRotate, RootAfter
<1>10. RedBlack(S, tree', m_root_', Null)
  <2>1. CASE IsRed(outer)
    <3>1. outer \in S /\ tree[outer].color = "red"
      BY <1>3, <1>5, <1>7, <2>1, TChild DEF IsRed
    <3>2. PICK moved : moved = tree[y][d]
      OBVIOUS
    <3>3. tree' = RotateSetParents(SetParent(SetParentColor([tree EXCEPT ![parent_][s] = moved, ![y][d] = parent_],
                                                            outer, y, "black"), moved, parent_), parent_, y, "black")
      BY <1>1, <1>6, <2>1, <3>2 DEF EraseRotate
    <3>4. tree' = EraseOuter(tree, d, parent_, y, outer, moved)
      BY <1>7, <3>3 DEF EraseOuter, WithLink
    <3>5. RedBlack(S, tree', IF tree[parent_].parent = Null THEN y ELSE m_root_, Null)
      BY <1>2, <1>4, <1>5, <1>7, <3>1, <3>2, <3>4, TEraseOuter
    <3> QED BY <1>8, <1>9, <2>1, <3>5
  <2>2. CASE ~IsRed(outer)
    <3>1. IsRed(inner)
      BY <1>6, <2>2 DEF EraseRotate
    <3>2. inner \in S /\ tree[inner].color = "red" /\ tree[inner].parent = y /\ inner # y
      BY <1>3, <1>5, <3>1, TChild DEF IsRed
    <3>3. outer # Null => tree[outer].color = "black"
      <4>1. ASSUME outer # Null PROVE tree[outer].color = "black"
        <5>1. outer \in S
          BY <1>3, <1>5, <1>7, <4>1, TChild
        <5>2. tree[outer] \in Fields
          BY <1>3, <5>1
        <5> QED BY <2>2, <4>1, <5>2 DEF Fields, IsRed
      <4> QED BY <4>1
    <3>4. PICK orphan, moved : orphan = tree[inner][s] /\ moved = tree[inner][d]
      OBVIOUS
    <3>5. orphan \in S \union {Null}
      BY <1>3, <1>7, <3>2, <3>4, TChild
    <3>6. parent_ # inner
      BY <1>3, <1>5, <1>7, <3>2, TGrandChild
    <3>7. PICK t2 : t2 = SetParentColor(WithLink(WithLink(WithLink(tree, y, d, orphan), inner, Other(d), y),
                                                 parent_, Other(d), inner), orphan, y, "black")
      OBVIOUS
    <3>8. t2[inner][d] = moved
      BY <1>3, <3>2, <3>4, <3>5, <3>6, <3>7, InnerMovedBack
    <3>9. tree' = EraseInner(tree, d, parent_, y, inner, orphan, moved)
      <4>1. t2 = SetParentColor([tree EXCEPT ![y][d] = orphan, ![inner][s] = y, ![parent_][s] = inner],
                                orphan, y, "black")
        BY <1>7, <3>7 DEF WithLink
      <4>2. tree' = RotateSetParents(SetParent(SetParentColor([t2 EXCEPT ![parent_][s] = t2[inner][d], ![inner][d] = parent_],
                                                              y, inner, "black"), t2[inner][d], parent_), parent_, inner, "black")
        BY <1>1, <1>6, <2>2, <3>4, <4>1 DEF EraseRotate
      <4>3. tree' = RotateSetParents(SetParent(SetParentColor([t2 EXCEPT ![parent_][s] = moved, ![inner][d] = parent_],
                                                              y, inner, "black"), moved, parent_), parent_, inner, "black")
        BY <3>8, <4>2
      <4>4. [t2 EXCEPT ![parent_][s] = moved, ![inner][d] = parent_] = WithLink(WithLink(t2, parent_, Other(d), moved), inner, d, parent_)
        BY <1>7 DEF WithLink
      <4> QED BY <3>7, <4>3, <4>4 DEF EraseInner
    <3>10. RedBlack(S, EraseInner(tree, d, parent_, y, inner, orphan, moved),
                    IF tree[parent_].parent = Null THEN inner ELSE m_root_, Null)
      <4>1. /\ inner = tree[y][d] /\ orphan = tree[inner][Other(d)] /\ moved = tree[inner][d]
            /\ tree[y][Other(d)] # Null => tree[tree[y][Other(d)]].color = "black"
        BY <1>5, <1>7, <3>3, <3>4
      <4> QED BY <1>2, <1>4, <3>2, <4>1, TEraseInner
    <3> QED BY <1>8, <1>9, <2>2, <3>9, <3>10
  <2> QED BY <2>1, <2>2
<1> QED
  <2>1. m_size_' = Cardinality(S)
    BY <1>2, <1>4, FS_CardinalityType
  <2> QED BY <1>2, <1>3, <1>4, <1>10, <2>1, TreeIdle DEF RedBlack

LEMMA KeepInsert ==
  ASSUME TreeOK(tree, m_root_, m_size_, pc, node_, parent_), NEW n \in Node, Insert(n)
  PROVE  TreeOK(tree', m_root_', m_size_', pc', node_', parent_')
<1>1. PICK S : S = Linked
  OBVIOUS
<1>2. pc = "idle" /\ n \notin S /\ pc' = "insert" /\ node_' = n /\ parent_' = Place(n).parent /\ m_size_' = m_size_
      /\ Place(n).side # "equal"
  BY <1>1 DEF Insert
<1>3. /\ tree \in [S -> Fields] /\ S \subseteq Node /\ IsFiniteSet(S) /\ TRanked(tree) /\ TShape(tree, m_root_)
      /\ TEven(tree) /\ TReds(tree, Null) /\ m_size_ = Cardinality(S) /\ m_size_ \in Nat
      /\ m_root_ \in Node \union {Null}
  BY <1>1, <1>2 DEF TreeOK, WellFormed, Linked
<1>4. n # Null /\ Null \notin Node
  BY NodeAssumption
<1>5. IsFiniteSet(S \union {n}) /\ m_size_' + 1 = Cardinality(S \union {n})
  BY <1>2, <1>3, FS_AddElement
<1>6. PICK w : w = [m \in S \union {n} |->
                      IF m = n THEN [left |-> Null, right |-> Null, parent |-> Place(n).parent, color |-> "red"]
                               ELSE tree[m]]
  OBVIOUS
<1>7. IF Place(n).side = "root" THEN tree' = w /\ m_root_' = n
      ELSE tree' = [w EXCEPT ![Place(n).parent][Place(n).side] = n] /\ m_root_' = m_root_
  BY <1>1, <1>6 DEF Insert
<1>8. /\ RedBlack(S \union {n}, tree', m_root_', n)
      /\ tree'[n].color = "red" /\ tree'[n].parent = Place(n).parent
      /\ m_root_' \in Node \union {Null} /\ Place(n).parent \in Node \union {Null}
  <2>1. CASE m_root_ = Null /\ Place(n) = [parent |-> Null, side |-> "root"]
    <3>1. S = {}
      <4>1. Shape(S, Links(tree, "left"), Links(tree, "right"), Parents(tree), m_root_)
        BY <1>1, <1>3 DEF TShape, Linked
      <4>2. PICK r : Ranking(S, Links(tree, "left"), Links(tree, "right"), r)
        BY <1>1, <1>3 DEF TRanked, Linked
      <4> QED BY <1>3, <2>1, <4>1, <4>2, RootExists
    <3>2. tree' = w /\ m_root_' = n
      BY <1>7, <2>1
    <3>3. w = [m \in {n} |-> [left |-> Null, right |-> Null, parent |-> Null, color |-> "red"]]
      BY <1>6, <2>1, <3>1
    <3>4. /\ w \in [{n} -> Fields] /\ TShape(w, n) /\ TRanked(w) /\ TEven(w) /\ TReds(w, n)
          /\ w[n].color = "red" /\ w[n].parent = Null
      BY <1>4, <3>3, TInsertRoot
    <3>5. S \union {n} = {n}
      BY <3>1
    <3> QED BY <2>1, <3>2, <3>4, <3>5 DEF RedBlack
  <2>2. CASE \E p \in Linked, s \in {"left", "right", "equal"} :
                 /\ Place(n) = [parent |-> p, side |-> s]
                 /\ s # "equal" => tree[p][s] = Null
    <3>1. PICK p \in Linked, s \in {"left", "right", "equal"} :
                 /\ Place(n) = [parent |-> p, side |-> s]
                 /\ s # "equal" => tree[p][s] = Null
      BY <2>2
    <3>2. p \in S /\ s \in Side /\ tree[p][s] = Null /\ Place(n).parent = p /\ Place(n).side = s
      BY <1>1, <1>2, <3>1 DEF Side
    <3>3. w = Grown(S, tree, n, p)
      BY <1>6, <3>2 DEF Grown, Fresh
    <3>4. tree' = WithLink(Grown(S, tree, n, p), p, s, n) /\ m_root_' = m_root_
      BY <1>7, <3>2, <3>3 DEF WithLink, Side
    <3>5. GrownOK(S, WithLink(Grown(S, tree, n, p), p, s, n), m_root_, n, p)
      BY <1>2, <1>3, <1>4, <3>2, TInsertLeaf
    <3>6. p \in Node
      BY <1>3, <3>2
    <3> QED BY <1>3, <3>2, <3>4, <3>5, <3>6 DEF GrownOK
  <2> QED BY <1>1, <1>3, <2>1, <2>2, PlaceIsFree
<1>9. DOMAIN tree' = S \union {n} /\ n \in S \union {n} /\ S \union {n} \subseteq Node
  BY <1>3, <1>8 DEF RedBlack
<1> QED BY <1>2, <1>3, <1>5, <1>8, <1>9 DEF TreeOK, WellFormed, RedBlack

LEMMA KeepErase ==
  ASSUME TreeOK(tree, m_root_, m_size_, pc, node_, parent_), NEW n, Erase(n)
  PROVE  TreeOK(tree', m_root_', m_size_', pc', node_', parent_')
<1>1. PICK S : S = Linked
  OBVIOUS
<1>2. PICK u : u = Unlink(n)
  OBVIOUS
<1>3. pc = "idle" /\ n \in S /\ tree' = [m \in S \ {n} |-> u.tree[m]] /\ m_root_' = u.root
      /\ IF u.color = "red" \/ u.parent = Null
           THEN pc' = "idle" /\ node_' = Null /\ parent_' = Null /\ m_size_' = m_size_ - 1
           ELSE pc' = "erase" /\ node_' = u.child /\ parent_' = u.parent /\ m_size_' = m_size_
  BY <1>1, <1>2 DEF Erase, Return
<1>4. /\ tree \in [S -> Fields] /\ S \subseteq Node /\ IsFiniteSet(S) /\ TRanked(tree) /\ TShape(tree, m_root_)
      /\ TEven(tree) /\ TReds(tree, Null) /\ m_size_ = Cardinality(S) /\ m_size_ \in Nat
      /\ m_root_ \in Node \union {Null}
  BY <1>1, <1>3 DEF TreeOK, WellFormed, Linked
<1>5. IsFiniteSet(S \ {n}) /\ m_size_ = Cardinality(S \ {n}) + 1 /\ Cardinality(S \ {n}) \in Nat
  <2>1. IsFiniteSet(S \ {n}) /\ Cardinality(S \ {n}) = Cardinality(S) - 1
    BY <1>3, <1>4, FS_RemoveElement
  <2> QED BY <1>4, <2>1, FS_CardinalityType
<1>6. /\ tree' \in [S \ {n} -> Fields] /\ TShape(tree', m_root_') /\ TRanked(tree')
      /\ u.child \in Node \union {Null} /\ u.parent \in Node \union {Null}
      /\ u.color = "red" \/ u.parent = Null => TEven(tree') /\ TReds(tree', Null)
      /\ u.color # "red" /\ u.parent # Null => LostBlack(S \ {n}, tree', u.parent, u.child)
  <2>1. CASE tree[n].left # Null /\ tree[n].right # Null
    <3>1. u = UnlinkDouble(n)
      BY <1>2, <2>1 DEF Unlink
    <3>2. PICK e : e = Leftmost(tree[n].right)
      OBVIOUS
    <3>3. /\ tree' \in [S \ {n} -> Fields]
          /\ TShape(tree', IF tree[n].parent = Null THEN Leftmost(tree[n].right) ELSE m_root_)
          /\ u.root = RootAfter(n, Leftmost(tree[n].right))
          /\ TRanked(tree')
          /\ u.child \in Node \union {Null} /\ u.parent \in S \ {n} /\ u.parent # Null
          /\ u.color \in {"red", "black"}
          /\ u.color = "red" => TEven(tree') /\ TReds(tree', Null)
          /\ u.color = "black" =>
              /\ TReds(tree', u.child)
              /\ \E d \in Side : tree'[u.parent][d] = u.child /\ TLacks(tree', u.parent, d)
      BY <1>1, <1>3, <1>4, <2>1, <3>1, TUnlinkDouble
    <3>4. m_root_' = IF tree[n].parent = Null THEN Leftmost(tree[n].right) ELSE m_root_
      BY <1>3, <3>3 DEF RootAfter
    <3> QED BY <1>4, <3>3, <3>4 DEF LostBlack
  <2>2. CASE ~(tree[n].left # Null /\ tree[n].right # Null)
    <3>1. u = UnlinkSingle(n)
      BY <1>2, <2>2 DEF Unlink
    <3>2. PICK c, p : c = (IF tree[n].left = Null THEN tree[n].right ELSE tree[n].left) /\ p = tree[n].parent
      OBVIOUS
    <3>3. u = [tree |-> ReplaceChild(SetParent(tree, c, p), p, n, c), root |-> RootAfter(n, c),
               child |-> c, parent |-> p, color |-> tree[n].color]
      BY <3>1, <3>2 DEF UnlinkSingle
    <3>4. tree' = [m \in S \ {n} |-> ReplaceChild(SetParent(tree, c, p), p, n, c)[m]]
      BY <1>3, <3>3
    <3>5. m_root_' = IF p = Null THEN c ELSE m_root_
      BY <1>3, <3>2, <3>3 DEF RootAfter
    <3>6. u.child = c /\ u.parent = p /\ u.color = tree[n].color
      BY <3>3
    <3>7. /\ tree' \in [S \ {n} -> Fields]
          /\ TShape(tree', IF p = Null THEN c ELSE m_root_)
          /\ TRanked(tree')
          /\ tree[n].color = "red" \/ p = Null => TEven(tree') /\ TReds(tree', Null)
          /\ tree[n].color = "black" /\ p # Null =>
              /\ p \in S \ {n}
              /\ TReds(tree', c)
              /\ \E s \in Side : tree'[p][s] = c /\ TLacks(tree', p, s)
      BY <1>3, <1>4, <2>2, <3>2, <3>4, TUnlinkSingle
    <3>8. tree[n] \in Fields
      BY <1>3, <1>4
    <3>9. c \in Node \union {Null} /\ p \in Node \union {Null} /\ tree[n].color \in {"red", "black"}
      BY <3>2, <3>8 DEF Fields
    <3>10. tree[n].color # "red" /\ p # Null => LostBlack(S \ {n}, tree', p, c)
      BY <3>7, <3>9 DEF LostBlack
    <3> HIDE DEF LostBlack
    <3> QED BY <3>5, <3>6, <3>7, <3>9, <3>10
  <2> QED BY <2>1, <2>2
<1>7. DOMAIN tree' = S \ {n} /\ S \ {n} \subseteq Node
  BY <1>4, <1>6
<1>8. m_root_' \in Node \union {Null}
  BY <1>4, <1>6, <1>7 DEF TShape, Shape
<1>9. CASE u.color = "red" \/ u.parent = Null
  <2>1. TreeOK(tree', m_root_', m_size_', "idle", Null, Null)
    <3>1. m_size_' = Cardinality(S \ {n})
      BY <1>3, <1>5, <1>9
    <3> QED BY <1>5, <1>6, <1>7, <1>9, <3>1, TreeIdle
  <2> QED BY <1>3, <1>9, <2>1
<1>10. CASE ~(u.color = "red" \/ u.parent = Null)
  BY <1>3, <1>4, <1>5, <1>6, <1>7, <1>8, <1>10 DEF TreeOK, WellFormed
<1> QED BY <1>9, <1>10

LEMMA KeepClear ==
  ASSUME TreeOK(tree, m_root_, m_size_, pc, node_, parent_), Clear
  PROVE  TreeOK(tree', m_root_', m_size_', pc', node_', parent_')
<1>1. /\ TShape(tree, m_root_) /\ m_root_ # Null
      /\ tree' = tree /\ m_root_' = m_root_ /\ m_size_' = m_size_ /\ parent_' = parent_
      /\ pc' = "clear" /\ node_' = m_root_
  BY DEF Clear, TreeOK
<1>2. Hangs(tree, m_root_)
  BY <1>1 DEF TShape, Hangs
<1> QED BY <1>1, <1>2 DEF TreeOK

LEMMA NoneHangs ==
  ASSUME NEW t, IsFiniteSet(DOMAIN t), TRanked(t), Hangs(t, Null)
  PROVE  DOMAIN t = {}
<1>1. PICK Q : Shape(DOMAIN t, Links(t, "left"), Links(t, "right"), Q, Null)
  BY DEF Hangs
<1>2. PICK r : Ranking(DOMAIN t, Links(t, "left"), Links(t, "right"), r)
  BY DEF TRanked
<1> QED BY <1>1, <1>2, RootExists

LEMMA HangsBelow ==
  ASSUME NEW t, NEW n, Hangs(t, n)
  PROVE  n \in DOMAIN t \union {Null} /\ Null \notin DOMAIN t
BY DEF Hangs, Shape

LEMMA KeepClearRotate ==
  ASSUME TreeOK(tree, m_root_, m_size_, pc, node_, parent_), ClearRotate
  PROVE  TreeOK(tree', m_root_', m_size_', pc', node_', parent_')
<1>1. PICK S, y : S = DOMAIN tree /\ y = tree[node_].left
  OBVIOUS
<1>2. /\ pc = "clear" /\ node_ # Null /\ y # Null
      /\ tree' = TurnedUp(tree, node_, y, tree[y].right) /\ node_' = y
      /\ m_root_' = m_root_ /\ m_size_' = m_size_ /\ pc' = pc /\ parent_' = parent_
  BY <1>1 DEF ClearRotate, TurnedUp
<1>3. /\ tree \in [S -> Fields] /\ S \subseteq Node /\ IsFiniteSet(S) /\ TRanked(tree) /\ Hangs(tree, node_)
  BY <1>1, <1>2 DEF TreeOK, WellFormed
<1>4. node_ \in S
  BY <1>1, <1>2, <1>3, HangsBelow
<1>5. tree' \in [S -> Fields] /\ Hangs(tree', y) /\ TRanked(tree')
  BY <1>1, <1>2, <1>3, <1>4, TClearRotate
<1>6. DOMAIN tree' = S
  BY <1>5
<1>7. y \in Node \union {Null}
  BY <1>3, <1>5, <1>6, HangsBelow
<1> QED BY <1>2, <1>3, <1>5, <1>6, <1>7 DEF TreeOK, WellFormed

LEMMA KeepClearDelete ==
  ASSUME TreeOK(tree, m_root_, m_size_, pc, node_, parent_), ClearDelete
  PROVE  TreeOK(tree', m_root_', m_size_', pc', node_', parent_')
<1>1. PICK S, y : S = DOMAIN tree /\ y = tree[node_].right
  OBVIOUS
<1>2. /\ pc = "clear" /\ node_ # Null /\ tree[node_].left = Null
      /\ tree' = [m \in S \ {node_} |-> tree[m]] /\ node_' = y
      /\ m_root_' = m_root_ /\ m_size_' = m_size_ /\ pc' = pc /\ parent_' = parent_
  BY <1>1 DEF ClearDelete, Linked
<1>3. /\ tree \in [S -> Fields] /\ S \subseteq Node /\ IsFiniteSet(S) /\ TRanked(tree) /\ Hangs(tree, node_)
  BY <1>1, <1>2 DEF TreeOK, WellFormed
<1>4. node_ \in S
  BY <1>1, <1>2, <1>3, HangsBelow
<1>5. tree' \in [S \ {node_} -> Fields] /\ Hangs(tree', y) /\ TRanked(tree')
  BY <1>1, <1>2, <1>3, <1>4, TClearDelete
<1>6. DOMAIN tree' = S \ {node_} /\ IsFiniteSet(S \ {node_})
  BY <1>3, <1>5, FS_RemoveElement, FS_Subset
<1>7. y \in Node \union {Null}
  BY <1>3, <1>5, <1>6, HangsBelow
<1> QED BY <1>2, <1>3, <1>5, <1>6, <1>7 DEF TreeOK, WellFormed

(* A tree without nodes. *)
LEMMA EmptyTree ==
  ASSUME NEW t, DOMAIN t = {}, t = [m \in {} |-> t[m]]
  PROVE  TreeOK(t, Null, 0, "idle", Null, Null)
<1>1. t \in [{} -> Fields]
  OBVIOUS
<1>2. TShape(t, Null)
  BY DEF TShape, Shape, Links, Parents
<1>3. TRanked(t)
  <2>1. Ranking({}, Links(t, "left"), Links(t, "right"), [m \in {} |-> 0])
    BY DEF Ranking
  <2> QED BY <2>1 DEF TRanked
<1>4. TEven(t)
  <2>1. Heights({}, Links(t, "left"), Links(t, "right"), Colors(t), Null, Null, [m \in {} |-> 1])
    BY DEF Heights
  <2> QED BY <2>1 DEF TEven
<1>5. TReds(t, Null)
  BY DEF TReds, Reds
<1>6. IsFiniteSet({}) /\ Cardinality({}) = 0 /\ {} \subseteq Node
  BY FS_EmptySet
<1> QED BY <1>1, <1>2, <1>3, <1>4, <1>5, <1>6, TreeIdle

LEMMA KeepClearDone ==
  ASSUME TreeOK(tree, m_root_, m_size_, pc, node_, parent_), ClearDone
  PROVE  TreeOK(tree', m_root_', m_size_', pc', node_', parent_')
<1>1. /\ pc = "clear" /\ node_ = Null /\ tree' = tree
      /\ m_root_' = Null /\ m_size_' = 0 /\ pc' = "idle" /\ node_' = Null /\ parent_' = Null
  BY DEF ClearDone, Return
<1>2. tree \in [DOMAIN tree -> Fields] /\ IsFiniteSet(DOMAIN tree) /\ TRanked(tree) /\ Hangs(tree, Null)
  BY <1>1 DEF TreeOK, WellFormed
<1>3. DOMAIN tree = {}
  BY <1>2, NoneHangs
<1>4. tree = [m \in {} |-> tree[m]]
  BY <1>2, <1>3
<1> QED BY <1>1, <1>3, <1>4, EmptyTree

LEMMA KeepReleaseAll ==
  ASSUME TreeOK(tree, m_root_, m_size_, pc, node_, parent_), ReleaseAll
  PROVE  TreeOK(tree', m_root_', m_size_', pc', node_', parent_')
<1>1. /\ pc = "idle" /\ tree' = [n \in {} |-> Null] /\ m_root_' = Null /\ m_size_' = 0
      /\ pc' = "idle" /\ node_' = node_ /\ parent_' = parent_
  BY DEF ReleaseAll
<1>2. DOMAIN tree' = {} /\ tree' = [m \in {} |-> tree'[m]]
  BY <1>1
<1>3. TreeOK(tree', Null, 0, "idle", Null, Null)
  BY <1>2, EmptyTree
<1>4. node_ \in Node \union {Null} /\ parent_ \in Node \union {Null}
  BY DEF TreeOK
<1> QED BY <1>1, <1>3, <1>4 DEF TreeOK

(* The inductive invariant. *)
LEMMA TreeInit ==
  Init => TreeOK(tree, m_root_, m_size_, pc, node_, parent_)
<1> SUFFICES ASSUME Init PROVE TreeOK(tree, m_root_, m_size_, pc, node_, parent_)
  OBVIOUS
<1>1. DOMAIN tree = {} /\ tree = [m \in {} |-> tree[m]]
  BY DEF Init
<1> QED BY <1>1, EmptyTree DEF Init

LEMMA TreeNext ==
  ASSUME TreeOK(tree, m_root_, m_size_, pc, node_, parent_), [Next]_vars
  PROVE  TreeOK(tree', m_root_', m_size_', pc', node_', parent_')
<1>1. CASE UNCHANGED vars
  BY <1>1 DEF vars
<1>2. ASSUME NEW n \in Node, Insert(n)
      PROVE  TreeOK(tree', m_root_', m_size_', pc', node_', parent_')
  BY <1>2, KeepInsert
<1>3. ASSUME NEW n \in Node, InsertExisting(n)
      PROVE  TreeOK(tree', m_root_', m_size_', pc', node_', parent_')
  BY <1>3 DEF InsertExisting, vars
<1>4. ASSUME NEW n \in Node, Erase(n)
      PROVE  TreeOK(tree', m_root_', m_size_', pc', node_', parent_')
  BY <1>4, KeepErase
<1>5. CASE PopFront
  BY <1>5, KeepErase DEF PopFront
<1>6. CASE PopBack
  BY <1>6, KeepErase DEF PopBack
<1>7. CASE Clear
  BY <1>7, KeepClear
<1>8. CASE ReleaseAll
  BY <1>8, KeepReleaseAll
<1>9. CASE InsertDone \/ InsertFaults \/ Recolor \/ InsertRotate
  BY <1>9, KeepInsertDone, KeepInsertFaults, KeepRecolor, KeepInsertRotate
<1>10. CASE RedSibling \/ FlipSibling \/ EraseRotate
  BY <1>10, KeepRedSibling, KeepFlipSibling, KeepEraseRotate
<1>11. CASE ClearRotate \/ ClearDelete \/ ClearDone
  BY <1>11, KeepClearRotate, KeepClearDelete, KeepClearDone
<1> QED BY <1>1, <1>2, <1>3, <1>4, <1>5, <1>6, <1>7, <1>8, <1>9, <1>10, <1>11 DEF Next, CallStep

(* The inductive invariant. *)
TreeInv == TreeOK(tree, m_root_, m_size_, pc, node_, parent_)

(* The invariant holds in every state. *)
LEMMA TreeInvariant == Spec => []TreeInv
<1>1. Init => TreeInv
  BY TreeInit DEF TreeInv
<1>2. TreeInv /\ [Next]_vars => TreeInv'
  BY TreeNext DEF TreeInv
<1> QED BY <1>1, <1>2, PTL DEF Spec

(* The fields of the nodes, the root, the size and the local variables of  *)
(* the loops keep their types, for any nodes and keys, in a set and in a   *)
(* multiset.                                                               *)
THEOREM TreeTypes == Spec => []TypeOK
<1>1. TreeInv => TypeOK
  BY DEF TreeInv, TreeOK, WellFormed, TypeOK, Linked
<1> QED BY <1>1, TreeInvariant, PTL

-----------------------------------------------------------------------------
(* The invariant implies what the run checks. *)
LEMMA ParentsAgree == TreeInv => ParentsMatch
<1> SUFFICES ASSUME TreeInv, pc # "clear", NEW n \in Linked
             PROVE  LET parent == tree[n].parent
                    IN IF parent = Null THEN n = m_root_
                       ELSE parent \in Linked /\ n \in {tree[parent].left, tree[parent].right}
  BY DEF ParentsMatch
<1>1. tree \in [Linked -> Fields] /\ TShape(tree, m_root_) /\ TRanked(tree)
  BY DEF TreeInv, TreeOK, WellFormed, Linked
<1>2. CASE tree[n].parent = Null
  <2>1. tree[n].parent = Null <=> n = m_root_
    BY <1>1, TAround
  <2> QED BY <1>2, <2>1
<1>3. CASE tree[n].parent # Null
  <2>1. PICK d : d = SideOf(tree, tree[n].parent, n)
    OBVIOUS
  <2>2. tree[n].parent \in Linked /\ d \in Side /\ tree[tree[n].parent][d] = n
    BY <1>1, <1>3, <2>1, TParent
  <2> QED BY <1>3, <2>2 DEF Side
<1> QED BY <1>2, <1>3

LEMMA LinksKeepAll == TreeInv => NothingIsLost
<1> SUFFICES ASSUME TreeInv, Idle
             PROVE  /\ m_root_ = Null => Linked = {}
                    /\ Range(InOrder) = Linked
                    /\ Len(InOrder) = Cardinality(Linked)
                    /\ m_size_ = Cardinality(Linked)
  BY DEF NothingIsLost
<1>1. /\ IsFiniteSet(Linked) /\ TShape(tree, m_root_) /\ TRanked(tree)
      /\ m_size_ = Cardinality(Linked)
  BY DEF TreeInv, TreeOK, WellFormed, Linked, Idle
<1>2. Range(InOrder) = Linked /\ Len(InOrder) = Cardinality(Linked)
  BY <1>1, InOrderIsWhole
<1>3. ASSUME m_root_ = Null PROVE Linked = {}
  <2>1. PICK r : Ranking(Linked, Links(tree, "left"), Links(tree, "right"), r)
    BY <1>1 DEF TRanked, Linked
  <2>2. Shape(Linked, Links(tree, "left"), Links(tree, "right"), Parents(tree), m_root_)
    BY <1>1 DEF TShape, Linked
  <2> QED BY <1>1, <1>3, <2>1, <2>2, RootExists
<1> QED BY <1>1, <1>2, <1>3

LEMMA RedsAndHeights == TreeInv => Balanced
<1> SUFFICES ASSUME TreeInv, Idle
             PROVE  /\ \A n \in Linked :
                         IsRed(n) => ~IsRed(tree[n].left) /\ ~IsRed(tree[n].right)
                    /\ BlackHeight > 0
  BY DEF Balanced
<1>1. /\ tree \in [Linked -> Fields] /\ TShape(tree, m_root_) /\ TRanked(tree)
      /\ TEven(tree) /\ TReds(tree, Null)
  BY DEF TreeInv, TreeOK, WellFormed, Linked, Idle
<1>2. BlackHeight > 0
  BY <1>1, EvenTreeHasHeight
<1>3. ASSUME NEW n \in Linked, IsRed(n)
      PROVE  ~IsRed(tree[n].left) /\ ~IsRed(tree[n].right)
  <2>1. /\ tree[n].left \in Linked \union {Null} /\ tree[n].right \in Linked \union {Null}
    <3>1. \A d \in Side : tree[n][d] \in Linked \union {Null}
      BY <1>1, TAround
    <3> QED BY <3>1 DEF Side
  <2>2. PICK A, B, C : A = Links(tree, "left") /\ B = Links(tree, "right") /\ C = Colors(tree)
    OBVIOUS
  <2>3. /\ A[n] = tree[n].left /\ B[n] = tree[n].right
        /\ \A m \in Linked : C[m] = tree[m].color
    BY <2>2 DEF Links, Colors, Linked
  <2>4. Reds(Linked, A, B, C, Null)
    BY <1>1, <2>2 DEF TReds, Linked
  <2> QED BY <1>3, <2>1, <2>3, <2>4 DEF Reds, IsRed
<1> QED BY <1>2, <1>3

LEMMA SiblingsAreThere == TreeInv => SiblingExists
<1> SUFFICES ASSUME TreeInv, pc = "erase"
             PROVE  Sibling # Null /\ (IsRed(Sibling) => InnerNephew # Null)
  BY DEF SiblingExists
<1>1. PICK S, d, y, moved : S = Linked /\ d = ChildSide /\ y = Sibling /\ moved = tree[y][d]
  OBVIOUS
<1>2. EraseHyp(S, tree, d, m_root_, parent_, y)
  BY <1>1, EraseSetup DEF TreeInv
<1>3. y \in S /\ Null \notin S
  <2>1. tree \in [S -> Fields] /\ TShape(tree, m_root_) /\ TRanked(tree) /\ y \in S
    BY <1>2 DEF EraseHyp
  <2> QED BY <2>1, TAround
<1>4. ASSUME IsRed(y) PROVE moved # Null
  <2>1. tree[y].color = "red"
    BY <1>4 DEF IsRed
  <2>2. PICK u : u = RotatedTree(tree, d, parent_, y, moved, "red")
    OBVIOUS
  <2> QED BY <1>1, <1>2, <2>1, <2>2, TRedSibling
<1> QED BY <1>1, <1>3, <1>4 DEF InnerNephew

(* For any nodes and keys, in a set and in a multiset: every call leaves a *)
(* balanced tree, in which parents and children refer to each other in the *)
(* middle of a call as well; the nodes that the walk visits are exactly    *)
(* those that are linked, and m_size_ counts them; and the sibling and the *)
(* inner child that erase dereferences without a test are never null.      *)
THEOREM TreesStayRedBlack == Spec => []RedBlackTree
<1>1. TreeInv => RedBlackTree
  BY ParentsAgree, LinksKeepAll, RedsAndHeights, SiblingsAreThere DEF RedBlackTree
<1> QED BY <1>1, TreeInvariant, PTL

=============================================================================
