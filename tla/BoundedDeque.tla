---------------------------- MODULE BoundedDeque ----------------------------
(***************************************************************************)
(* What a deque promises: a sequence of at most bound elements that grows  *)
(* and shrinks at both ends, and pops exactly the element at that end.     *)
(***************************************************************************)
EXTENDS SequencesExt, Naturals

CONSTANT Value, None

VARIABLES
  items,    (* the elements from front to back          *)
  popped,   (* what the last pop returned in out, or None *)
  bound     (* how many elements fit, 0 if unallocated  *)

vars == <<items, popped, bound>>

Init == items = <<>> /\ popped = None /\ bound \in Nat

Reserve == bound = 0 /\ bound' \in Nat \ {0} /\ UNCHANGED <<items, popped>>

Push(v) ==
  /\ Len(items) < bound
  /\ items' = Append(items, v) \/ items' = Cons(v, items)
  /\ popped' = None

Pop ==
  /\ items # <<>>
  /\ \/ items' = Front(items) /\ popped' = Last(items)
     \/ items' = Tail(items) /\ popped' = Head(items)

Refuse == popped' = None /\ UNCHANGED items

Clear == items' = <<>> /\ popped' = None

(* A call that is refused once more, or finds nothing to do. *)
Stay == UNCHANGED vars

Next ==
  \/ Stay
  \/ Reserve
  \/ /\ UNCHANGED bound
     /\ (\E v \in Value : Push(v)) \/ Pop \/ Refuse \/ Clear

DequeSpec == Init /\ [][Next]_vars

=============================================================================
