----------------------------- MODULE MCRbTrees ------------------------------
(***************************************************************************)
(* A program that uses a set or a multiset: the set has the constants of   *)
(* the configuration, the multiset eight nodes with five keys.             *)
(* TypeOK and RedBlackTree say nothing of keys, so they speak of the tree  *)
(* of either, whose nodes are among those of the set.                      *)
(***************************************************************************)
EXTENDS MCRbTree

VARIABLE multi    (* whether the tree is a multiset *)

Few == 1..8
Multiset == INSTANCE RbTree WITH
  Node <- Few, Key <- [n \in Few |-> n \div 2], Multi <- TRUE

treesVars == <<multi, vars>>

TreesInit == multi \in BOOLEAN /\ Init

TreesNext ==
  /\ UNCHANGED multi
  /\ \/ ~multi /\ Next
     \/ multi /\ Multiset!Next

(* A call runs to its end; nobody has to make one. *)
TreesSpec ==
  /\ TreesInit /\ [][TreesNext]_treesVars
  /\ WF_treesVars(UNCHANGED multi /\ IF multi THEN Multiset!CallStep ELSE CallStep)

(* The bounds and iterators of a multiset agree with its order, and find   *)
(* meets a node with the key if there is one.                              *)
MultisetSearchesAgree == multi => Multiset!SearchesAgree

(* Both trees implement the ordered nodes (OrderedSpec of each): a         *)
(* rotation changes nothing, insert puts a node behind its equals, and     *)
(* erase takes out the one node.                                           *)
TreesAreOrdered ==
  /\ Ordered!Init
  /\ [][IF multi THEN [Multiset!Ordered!Next]_(Multiset!Contents)
        ELSE [Ordered!Next]_Contents]_treesVars

=============================================================================
