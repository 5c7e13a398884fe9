--------------------------- MODULE OrderedNodes ----------------------------
(***************************************************************************)
(* What an hxrbtree promises: the linked nodes in ascending key order,     *)
(* equal keys in the order of their insertion.                             *)
(***************************************************************************)
EXTENDS Naturals, SequencesExt

CONSTANTS Node,   (* the objects that may be linked *)
          Key,    (* the key of each node *)
          Multi   (* multi_t: equal keys are allowed *)

VARIABLE nodes    (* the linked nodes in the order of iteration *)

Init == nodes = <<>>

KeyIsLinked(k) == \E i \in DOMAIN nodes : Key[nodes[i]] = k

(* A node with a new key, or with any key in a multiset, goes behind all   *)
(* the nodes whose key is not greater; otherwise nothing changes.          *)
Insert(n) ==
  /\ n \notin Range(nodes)
  /\ IF KeyIsLinked(Key[n]) /\ ~Multi
       THEN UNCHANGED nodes
       ELSE LET before == {i \in DOMAIN nodes : Key[nodes[i]] <= Key[n]}
            IN nodes' = InsertAt(nodes, Cardinality(before) + 1, n)

Unlink(n) ==
  /\ n \in Range(nodes)
  /\ nodes' = SelectSeq(nodes, LAMBDA m : m # n)

RemoveAll == nodes' = <<>>

Next == RemoveAll \/ \E n \in Node : Insert(n) \/ Unlink(n)

OrderedSpec == Init /\ [][Next]_nodes

=============================================================================
