---------------------------- MODULE PriorityPool ----------------------------
(***************************************************************************)
(* What the priority queue inside hxtask_queue promises: records may be    *)
(* added, revised or withdrawn, and the record that is taken is one of the *)
(* highest priority.  HeapQueue implements it with a binary heap.          *)
(***************************************************************************)
EXTENDS Naturals

CONSTANTS Id,       (* one identity for each record that can be queued *)
          Priority

Record == [id : Id, priority : Priority]

VARIABLES queued, (* the records in the queue *)
          taken   (* the set of the record that was taken last *)

poolVars == <<queued, taken>>

PoolInit == queued = {} /\ taken = {}

Ids(S) == {r.id : r \in S}

Add(r) ==
  /\ r.id \notin Ids(queued)
  /\ queued' = queued \union {r}
  /\ UNCHANGED taken

TakeHighest(r) ==
  /\ r \in queued
  /\ \A s \in queued : s.priority <= r.priority
  /\ queued' = queued \ {r}
  /\ taken' = {r}

(* Queued records are given other priorities, or withdrawn. *)
Revise ==
  /\ queued' \subseteq [id : Ids(queued), priority : Priority]
  /\ \A r, s \in queued' : r.id = s.id => r = s
  /\ UNCHANGED taken

PoolNext ==
  \/ \E r \in Record : Add(r) \/ TakeHighest(r)
  \/ Revise

PoolSpec == PoolInit /\ [][PoolNext]_poolVars

=============================================================================
