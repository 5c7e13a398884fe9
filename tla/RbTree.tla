------------------------------- MODULE RbTree -------------------------------
(***************************************************************************)
(* hxrbtree: an intrusive red-black tree with parent pointers.             *)
(*                                                                         *)
(* tree maps every linked node to its fields.  A node that is unlinked     *)
(* leaves the domain: its fields are not read again before insert writes   *)
(* them.  The code writes every case of a loop twice, once for each side;  *)
(* here the side is a parameter.  One action is one iteration of a loop.   *)
(*                                                                         *)
(* Where insert dereferences a null pointer it stops at "insert_fault".    *)
(***************************************************************************)
EXTENDS Naturals, SequencesExt

CONSTANTS Node,   (* the objects that may be linked *)
          Key,    (* the key of each node *)
          Multi,  (* multi_t *)
          Null    (* hxnull *)

Side == {"left", "right"}
Other(side) == IF side = "left" THEN "right" ELSE "left"

ASSUME NodeAssumption ==
  /\ Null \notin Node
  /\ Key \in [Node -> Nat]
  /\ Multi \in BOOLEAN

VARIABLES
  tree,     (* the fields of the linked nodes *)
  m_root_,
  m_size_,
  pc,       (* the loop that is executing *)
  node_,    (* node_ of insert and clear, child_ of erase *)
  parent_   (* parent_ of insert and erase *)

vars == <<tree, m_root_, m_size_, pc, node_, parent_>>

Linked == DOMAIN tree

Fields == [left : Node \union {Null}, right : Node \union {Null},
           parent : Node \union {Null}, color : {"red", "black"}]

(***************************************************************************)
(* Reading and writing nodes.  A write through a null pointer is skipped,  *)
(* as the tests around these calls do.                                     *)
(***************************************************************************)
IsRed(n) == n # Null /\ tree[n].color = "red"

SetParent(t, n, parent) ==
  IF n = Null THEN t ELSE [t EXCEPT ![n].parent = parent]

SetParentColor(t, n, parent, color) ==
  IF n = Null THEN t
  ELSE [t EXCEPT ![n].parent = parent, ![n].color = color]

(* The link of parent that leads to old is redirected to new. *)
ReplaceChild(t, parent, old, new) ==
  IF parent = Null THEN t
  ELSE IF t[parent].left = old THEN [t EXCEPT ![parent].left = new]
                               ELSE [t EXCEPT ![parent].right = new]

(* Mutant of RotateSetParents: the nodes keep their colors. *)
RotateKeepingColors(t, old, new, color) ==
  LET parent == t[old].parent
      u == [t EXCEPT ![new].parent = parent, ![old].parent = new]
  IN ReplaceChild(u, parent, old, new)

(* new takes the place of old, which becomes its child. *)
RotateSetParents(t, old, new, color) ==
  LET parent == t[old].parent
      u == [t EXCEPT ![new].parent = parent, ![new].color = t[old].color,
                     ![old].parent = new, ![old].color = color]
  IN ReplaceChild(u, parent, old, new)

RootAfter(old, new) == IF tree[old].parent = Null THEN new ELSE m_root_

(***************************************************************************)
(* Traversal and search.                                                   *)
(***************************************************************************)
Utmost(side, n) ==
  LET end[m \in Linked] == IF tree[m][side] = Null THEN m
                                                   ELSE end[tree[m][side]]
  IN IF n = Null THEN Null ELSE end[n]

Leftmost(n) == Utmost("left", n)
Rightmost(n) == Utmost("right", n)

(* hxrbtree_next_ for "right", hxrbtree_prev_ for "left". *)
Neighbor(side, n) ==
  LET climb[m \in Linked] ==
        IF tree[m].parent # Null /\ m = tree[tree[m].parent][side]
          THEN climb[tree[m].parent] ELSE tree[m].parent
  IN IF tree[n][side] # Null THEN Utmost(Other(side), tree[n][side])
                             ELSE climb[n]

Find(k) ==
  LET at[n \in Linked \union {Null}] ==
        IF n = Null THEN Null
        ELSE IF Key[n] < k THEN at[tree[n].right]
        ELSE IF k < Key[n] THEN at[tree[n].left]
        ELSE n
  IN at[m_root_]

LowerBound(k) ==
  LET at[n \in Linked \union {Null}] ==
        IF n = Null THEN Null
        ELSE IF Key[n] < k THEN at[tree[n].right]
        ELSE IF at[tree[n].left] = Null THEN n ELSE at[tree[n].left]
  IN at[m_root_]

(* Mutant of UpperBound: a node with key k is taken as greater. *)
UpperBoundInclusive(k) == LowerBound(k)

UpperBound(k) ==
  LET at[n \in Linked \union {Null}] ==
        IF n = Null THEN Null
        ELSE IF k < Key[n]
          THEN IF at[tree[n].left] = Null THEN n ELSE at[tree[n].left]
        ELSE at[tree[n].right]
  IN at[m_root_]

(***************************************************************************)
(* insert.                                                                 *)
(***************************************************************************)
Init ==
  /\ tree = [n \in {} |-> Null]
  /\ m_root_ = Null
  /\ m_size_ = 0
  /\ pc = "idle"
  /\ node_ = Null
  /\ parent_ = Null

Return == pc' = "idle" /\ node_' = Null /\ parent_' = Null

(* Mutant of Place: equal keys go to the left. *)
PlaceBeforeEqual(n) ==
  LET descend[p \in Linked] ==
        LET side == IF Key[n] <= Key[p] THEN "left" ELSE "right"
        IN IF tree[p][side] = Null THEN [parent |-> p, side |-> side]
           ELSE descend[tree[p][side]]
  IN IF m_root_ = Null THEN [parent |-> Null, side |-> "root"]
                       ELSE descend[m_root_]

(* The link that the search for the place of n ends at, as its node and    *)
(* side, or the node that already has the key.                             *)
Place(n) ==
  LET descend[p \in Linked] ==
        LET side == IF Key[n] < Key[p] THEN "left" ELSE "right"
        IN IF Key[n] = Key[p] /\ ~Multi THEN [parent |-> p, side |-> "equal"]
           ELSE IF tree[p][side] = Null THEN [parent |-> p, side |-> side]
           ELSE descend[tree[p][side]]
  IN IF m_root_ = Null THEN [parent |-> Null, side |-> "root"]
                       ELSE descend[m_root_]

Insert(n) ==
  LET place == Place(n)
      fresh == [left |-> Null, right |-> Null,
                parent |-> place.parent, color |-> "red"]
      t == [m \in Linked \union {n} |-> IF m = n THEN fresh ELSE tree[m]]
  IN /\ pc = "idle"
     /\ n \notin Linked
     /\ place.side # "equal"
     /\ IF place.side = "root"
          THEN tree' = t /\ m_root_' = n
          ELSE /\ tree' = [t EXCEPT ![place.parent][place.side] = n]
               /\ m_root_' = m_root_
     /\ pc' = "insert"
     /\ node_' = n
     /\ parent_' = place.parent
     /\ UNCHANGED m_size_

(* The existing node is returned and n is not linked. *)
InsertExisting(n) ==
  /\ pc = "idle"
  /\ n \notin Linked
  /\ Place(n).side = "equal"
  /\ UNCHANGED vars

(***************************************************************************)
(* hxrbtree_insert_color_: node_ is red, its parent may be red as well.    *)
(***************************************************************************)
GrandParent == tree[parent_].parent

(* The grandparent's link to parent_, the other one leads to the uncle. *)
ParentSide ==
  IF parent_ # tree[GrandParent].right THEN "left" ELSE "right"

Uncle == tree[GrandParent][Other(ParentSide)]

RedParent == parent_ # Null /\ tree[parent_].color = "red"

(* Mutant of InsertDone: m_size_ is not incremented. *)
InsertDoneUncounted ==
  /\ pc = "insert"
  /\ ~RedParent
  /\ tree' = IF parent_ = Null THEN SetParentColor(tree, node_, Null, "black")
                               ELSE tree
  /\ Return
  /\ UNCHANGED <<m_root_, m_size_>>

InsertDone ==
  /\ pc = "insert"
  /\ ~RedParent
  /\ tree' = IF parent_ = Null THEN SetParentColor(tree, node_, Null, "black")
                               ELSE tree
  /\ m_size_' = m_size_ + 1
  /\ Return
  /\ UNCHANGED m_root_

(* A red parent that is the root has no parent to read m_right_ of. *)
InsertFaults ==
  /\ pc = "insert"
  /\ RedParent
  /\ GrandParent = Null
  /\ pc' = "insert_fault"
  /\ UNCHANGED <<tree, m_root_, m_size_, node_, parent_>>

(* Case 1: uncle is red. *)
Recolor ==
  LET g == GrandParent
      t == SetParentColor(SetParentColor(tree, Uncle, g, "black"),
                          parent_, g, "black")
  IN /\ pc = "insert"
     /\ RedParent
     /\ g # Null
     /\ IsRed(Uncle)
     /\ node_' = g
     /\ parent_' = tree[g].parent
     /\ tree' = [t EXCEPT ![g].color = "red"]
     /\ UNCHANGED <<m_root_, m_size_, pc>>

(* Cases 2 and 3: an inner grandchild is first rotated to the outside. *)
InsertRotate ==
  LET g == GrandParent
      side == ParentSide
      other == Other(side)
      inner == tree[parent_][other] = node_
      t == IF ~inner THEN tree
           ELSE LET orphan == tree[node_][side]
                    u == [tree EXCEPT ![parent_][other] = orphan,
                                      ![node_][side] = parent_]
                IN SetParentColor(SetParentColor(u, orphan, parent_, "black"),
                                  parent_, node_, "red")
      top == IF inner THEN node_ ELSE parent_
      moved == t[top][other]
      v == [t EXCEPT ![g][side] = moved, ![top][other] = g]
  IN /\ pc = "insert"
     /\ RedParent
     /\ g # Null
     /\ ~IsRed(Uncle)
     /\ tree' = RotateSetParents(SetParentColor(v, moved, g, "black"),
                                 g, top, "red")
     /\ m_root_' = RootAfter(g, top)
     /\ m_size_' = m_size_ + 1
     /\ Return

(***************************************************************************)
(* hxrbtree_erase_.  Unlink gives the tree without n, where child took the *)
(* place that was vacated below parent, and the color that was lost there. *)
(***************************************************************************)
UnlinkSingle(n) ==
  LET child == IF tree[n].left = Null THEN tree[n].right ELSE tree[n].left
      parent == tree[n].parent
      t == SetParent(tree, child, parent)
  IN [tree |-> ReplaceChild(t, parent, n, child),
      root |-> RootAfter(n, child),
      child |-> child, parent |-> parent, color |-> tree[n].color]

(* The successor takes the place and the color of n. *)
UnlinkDouble(n) ==
  LET successor == Leftmost(tree[n].right)
      child == tree[successor].right
      above == tree[successor].parent
      parent == IF above = n THEN successor ELSE above
      t == SetParent(tree, child, parent)
      u == IF above = n THEN t
           ELSE [t EXCEPT ![above].left = child,
                          ![successor].right = tree[n].right,
                          ![tree[n].right].parent = successor]
      v == [u EXCEPT ![successor].left = tree[n].left,
                     ![successor].parent = tree[n].parent,
                     ![successor].color = tree[n].color,
                     ![tree[n].left].parent = successor]
  IN [tree |-> ReplaceChild(v, tree[n].parent, n, successor),
      root |-> RootAfter(n, successor),
      child |-> child, parent |-> parent, color |-> tree[successor].color]

Unlink(n) ==
  IF tree[n].left # Null /\ tree[n].right # Null THEN UnlinkDouble(n)
                                                 ELSE UnlinkSingle(n)

(* erase and extract; pop_front and pop_back pass the outermost nodes. *)
Erase(n) ==
  LET unlinked == Unlink(n)
      balanced == unlinked.color = "red" \/ unlinked.parent = Null
  IN /\ pc = "idle"
     /\ n \in Linked
     /\ tree' = [m \in Linked \ {n} |-> unlinked.tree[m]]
     /\ m_root_' = unlinked.root
     /\ IF balanced
          THEN Return /\ m_size_' = m_size_ - 1
          ELSE /\ pc' = "erase"
               /\ node_' = unlinked.child
               /\ parent_' = unlinked.parent
               /\ UNCHANGED m_size_

PopFront == m_root_ # Null /\ Erase(Leftmost(m_root_))
PopBack == m_root_ # Null /\ Erase(Rightmost(m_root_))

(***************************************************************************)
(* The loop at rebalance_: the paths through node_ lack one black node.    *)
(***************************************************************************)
ChildSide == IF node_ # tree[parent_].right THEN "left" ELSE "right"
Sibling == tree[parent_][Other(ChildSide)]
OuterNephew == tree[Sibling][Other(ChildSide)]
InnerNephew == tree[Sibling][ChildSide]

(* Case 1: rotate at the parent to make the sibling black. *)
RedSibling ==
  LET side == ChildSide
      nephew == InnerNephew
      t == [tree EXCEPT ![parent_][Other(side)] = nephew,
                        ![Sibling][side] = parent_]
  IN /\ pc = "erase"
     /\ IsRed(Sibling)
     /\ InnerNephew # Null
     /\ tree' = RotateSetParents(SetParentColor(t, nephew, parent_, "black"),
                                 parent_, Sibling, "red")
     /\ m_root_' = RootAfter(parent_, Sibling)
     /\ UNCHANGED <<m_size_, pc, node_, parent_>>

BlackSibling == Sibling # Null /\ tree[Sibling].color = "black"

(* Mutant of FlipSibling: the loop does not climb. *)
FlipSiblingInPlace ==
  /\ pc = "erase"
  /\ BlackSibling
  /\ ~IsRed(OuterNephew)
  /\ ~IsRed(InnerNephew)
  /\ tree' = [tree EXCEPT ![Sibling].parent = parent_,
                          ![Sibling].color = "red",
                          ![parent_].color = "black"]
  /\ IF IsRed(parent_) \/ tree[parent_].parent = Null
       THEN Return /\ m_size_' = m_size_ - 1
       ELSE UNCHANGED <<node_, parent_, pc, m_size_>>
  /\ UNCHANGED m_root_

(* Case 2: both nephews are black, the sibling becomes red. *)
FlipSibling ==
  /\ pc = "erase"
  /\ BlackSibling
  /\ ~IsRed(OuterNephew)
  /\ ~IsRed(InnerNephew)
  /\ tree' = [tree EXCEPT ![Sibling].parent = parent_,
                          ![Sibling].color = "red",
                          ![parent_].color = "black"]
  /\ IF IsRed(parent_) \/ tree[parent_].parent = Null
       THEN Return /\ m_size_' = m_size_ - 1
       ELSE /\ node_' = parent_
            /\ parent_' = tree[parent_].parent
            /\ UNCHANGED <<pc, m_size_>>
  /\ UNCHANGED m_root_

(* Cases 3 and 4: a red nephew that is inside is first rotated outside. *)
EraseRotate ==
  LET side == ChildSide
      other == Other(side)
      rotate == ~IsRed(OuterNephew)
      orphan == tree[InnerNephew][other]
      t == IF ~rotate THEN tree
           ELSE SetParentColor([tree EXCEPT ![Sibling][side] = orphan,
                                            ![InnerNephew][other] = Sibling,
                                            ![parent_][other] = InnerNephew],
                               orphan, Sibling, "black")
      top == IF rotate THEN InnerNephew ELSE Sibling
      outer == IF rotate THEN Sibling ELSE OuterNephew
      moved == t[top][side]
      u == [t EXCEPT ![parent_][other] = moved, ![top][side] = parent_]
      v == SetParent(SetParentColor(u, outer, top, "black"), moved, parent_)
  IN /\ pc = "erase"
     /\ BlackSibling
     /\ IsRed(OuterNephew) \/ IsRed(InnerNephew)
     /\ tree' = RotateSetParents(v, parent_, top, "black")
     /\ m_root_' = RootAfter(parent_, top)
     /\ m_size_' = m_size_ - 1
     /\ Return

(***************************************************************************)
(* clear.  Left children are rotated up, nodes without one are passed to   *)
(* the deleter.  The parent pointers are not kept up to date.              *)
(***************************************************************************)
Clear ==
  /\ pc = "idle"
  /\ m_root_ # Null
  /\ pc' = "clear"
  /\ node_' = m_root_
  /\ UNCHANGED <<tree, m_root_, m_size_, parent_>>

ClearRotate ==
  /\ pc = "clear"
  /\ node_ # Null /\ tree[node_].left # Null
  /\ LET left == tree[node_].left
     IN /\ tree' = [tree EXCEPT ![node_].left = tree[left].right,
                                ![left].right = node_]
        /\ node_' = left
  /\ UNCHANGED <<m_root_, m_size_, pc, parent_>>

ClearDelete ==
  /\ pc = "clear"
  /\ node_ # Null /\ tree[node_].left = Null
  /\ tree' = [m \in Linked \ {node_} |-> tree[m]]
  /\ node_' = tree[node_].right
  /\ UNCHANGED <<m_root_, m_size_, pc, parent_>>

(* release_all at the end of clear: a node that is still in tree is lost. *)
ClearDone ==
  /\ pc = "clear"
  /\ node_ = Null
  /\ m_root_' = Null
  /\ m_size_' = 0
  /\ Return
  /\ UNCHANGED tree

(* The caller keeps the nodes. *)
ReleaseAll ==
  /\ pc = "idle"
  /\ tree' = [n \in {} |-> Null]
  /\ m_root_' = Null
  /\ m_size_' = 0
  /\ UNCHANGED <<pc, node_, parent_>>

-----------------------------------------------------------------------------
CallStep ==
  \/ InsertDone \/ InsertFaults \/ Recolor \/ InsertRotate
  \/ RedSibling \/ FlipSibling \/ EraseRotate
  \/ ClearRotate \/ ClearDelete \/ ClearDone

Next ==
  \/ \E n \in Node : Insert(n) \/ InsertExisting(n) \/ Erase(n)
  \/ PopFront \/ PopBack
  \/ Clear \/ ReleaseAll
  \/ CallStep

Spec == Init /\ [][Next]_vars

(* A call runs to its end; nobody has to make one. *)
FairSpec == Spec /\ WF_vars(CallStep)

-----------------------------------------------------------------------------
Idle == pc = "idle"
Faulty == pc = "insert_fault"

(* The linked nodes in the order that their links give. *)
InOrder ==
  LET walk[n \in Linked \union {Null}] ==
        IF n = Null THEN <<>>
        ELSE walk[tree[n].left] \o <<n>> \o walk[tree[n].right]
  IN walk[m_root_]

(* The number of black nodes on the paths below n, or 0 if they differ. *)
BlackHeight ==
  LET height[n \in Linked \union {Null}] ==
        IF n = Null THEN 1
        ELSE LET l == height[tree[n].left]
                 r == height[tree[n].right]
             IN IF l # r \/ l = 0 THEN 0
                ELSE IF tree[n].color = "black" THEN l + 1 ELSE l
  IN height[m_root_]

(* The values every variable may take. *)
TypeOK ==
  /\ tree \in [Linked -> Fields]
  /\ Linked \subseteq Node
  /\ m_root_ \in Node \union {Null}
  /\ m_size_ \in Nat
  /\ pc \in {"idle", "insert", "erase", "clear", "insert_fault"}
  /\ node_ \in Node \union {Null}
  /\ parent_ \in Node \union {Null}

(* Between two calls no red node has a red child and every path down to a  *)
(* null link has the same number of black nodes: the tree is balanced.     *)
(* (The root may be red after an erase, see InsertNeverFaults.)            *)
Balanced ==
  Idle =>
    /\ \A n \in Linked :
         IsRed(n) => ~IsRed(tree[n].left) /\ ~IsRed(tree[n].right)
    /\ BlackHeight > 0

(* Parent pointers invert the child links, in the middle of the rotations  *)
(* of insert and erase as well: iterators climb by them.                   *)
ParentsMatch ==
  pc # "clear" =>
    \A n \in Linked :
      LET parent == tree[n].parent
      IN IF parent = Null THEN n = m_root_
         ELSE /\ parent \in Linked
              /\ n \in {tree[parent].left, tree[parent].right}

(* Every linked node is reached from the root exactly once, m_size_ counts *)
(* them, and clear leaves none behind.                                     *)
NothingIsLost ==
  Idle =>
    /\ m_root_ = Null => Linked = {}
    /\ Range(InOrder) = Linked
    /\ Len(InOrder) = Cardinality(Linked)
    /\ m_size_ = Cardinality(Linked)

(* The sibling, and in case 1 its inner child, are dereferenced without a  *)
(* test for null: they are never null when the loop of erase reads them.   *)
SiblingExists ==
  pc = "erase" =>
    /\ Sibling # Null
    /\ IsRed(Sibling) => InnerNephew # Null

(* What every call leaves behind and the next one relies on, and what the  *)
(* loop of erase relies on.                                                *)
RedBlackTree == Balanced /\ ParentsMatch /\ NothingIsLost /\ SiblingExists

(* ++ and -- visit the nodes one after the other, from whichever node.     *)
IterationIsOrdered ==
  Idle =>
    LET order == InOrder
        count == Len(order)
        At(i) == IF i \in 1..count THEN order[i] ELSE Null
    IN \A i \in 1..count :
         /\ Neighbor("right", order[i]) = At(i + 1)
         /\ Neighbor("left", order[i]) = At(i - 1)

WithKey(k) == {n \in Linked : Key[n] = k}

FirstWith(Test(_)) ==
  LET passing == SelectSeq(InOrder, Test)
  IN IF passing = <<>> THEN Null ELSE passing[1]

(* lower_bound and upper_bound delimit the nodes with key k; find meets    *)
(* one of them exactly if there is any (which one is what FindIsFirst is   *)
(* about); the iterators go on from there in order.                        *)
SearchesAgree ==
  /\ IterationIsOrdered
  /\ Idle =>
       \A k \in Range(Key) :
         /\ LowerBound(k) = FirstWith(LAMBDA n : Key[n] >= k)
         /\ UpperBound(k) = FirstWith(LAMBDA n : Key[n] > k)
         /\ Find(k) \in (IF WithKey(k) = {} THEN {Null} ELSE WithKey(k))

(* "When `multi_t` is `true` the first equal node in ascending order is    *)
(* returned" (hxrbtree.hpp:323): find stops at the first one on its way    *)
(* down instead.                                                           *)
FindIsFirst ==
  Idle => \A k \in Range(Key) : Find(k) = FirstWith(LAMBDA n : Key[n] = k)

(* insert never reads through a null grandparent.                          *)
InsertNeverFaults == pc # "insert_fault"

(* Every loop ends.                                                        *)
CallReturns == ~Idle ~> Idle \/ Faulty

Contents == IF pc = "clear" THEN <<>> ELSE InOrder
Ordered == INSTANCE OrderedNodes WITH nodes <- Contents

(* The tree implements the ordered nodes: a rotation changes nothing, and  *)
(* erase takes out the one node.                                           *)
OrderedSpec == Ordered!OrderedSpec

=============================================================================
