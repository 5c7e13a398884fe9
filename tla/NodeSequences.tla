--------------------------- MODULE NodeSequences ----------------------------
(***************************************************************************)
(* What intrusive lists promise: each list is a sequence of nodes, a node  *)
(* is in one list at most, and only the call made on a node moves it.      *)
(***************************************************************************)
EXTENDS SequencesExt

CONSTANTS Node, List

VARIABLE items    (* list -> the sequence of its nodes *)

Linked == UNION {ToSet(items[l]) : l \in List}

Init == items = [l \in List |-> <<>>]

Insert(l, n) ==
  /\ n \notin Linked
  /\ \E i \in 1..Len(items[l]) + 1 :
       items' = [items EXCEPT ![l] = InsertAt(@, i, n)]

Take(l, i) == items' = [items EXCEPT ![l] = RemoveAt(@, i)]

(* The deleter of one list puts the node at the end of another one. *)
Move(l, i, k) ==
  items' = [items EXCEPT ![l] = RemoveAt(@, i), ![k] = Append(@, items[l][i])]

Release(l) == items' = [items EXCEPT ![l] = <<>>]

(* The deleter has not come to a node yet. *)
Stay == UNCHANGED items

Next ==
  Stay \/ \E l \in List :
    \/ \E n \in Node : Insert(l, n)
    \/ \E i \in 1..Len(items[l]) :
         \/ Take(l, i)
         \/ \E k \in List \ {l} : Move(l, i, k)
    \/ Release(l)

SequenceSpec == Init /\ [][Next]_items

=============================================================================
