------------------------------ MODULE MCRbTree ------------------------------
(***************************************************************************)
(* Small instances of RbTree.  The rebalancing of erase climbs only in a   *)
(* black tree three nodes high, which takes ten nodes to build; SetKey     *)
(* gives an eleventh node a key that another one has.  MultisetKey gives   *)
(* nodes 2 and 3 the same key.                                             *)
(***************************************************************************)
EXTENDS RbTree

SetKey == [n \in Node |-> IF n = 11 THEN 4 ELSE n]
MultisetKey == [n \in Node |-> n \div 2]

=============================================================================
