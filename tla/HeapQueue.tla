----------------------------- MODULE HeapQueue ------------------------------
(***************************************************************************)
(* The binary heap m_tasks_ of hxtask_queue: push_heap, pop_heap, erase_if *)
(* and clear of hxarray, hxmake_heap_ and hxheapsort_heapify_ behind them, *)
(* and the calls of hxtask_queue that use them.  The caller holds the      *)
(* mutex throughout a call, so calls do not interleave; one action is one  *)
(* iteration of a loop.                                                    *)
(*                                                                         *)
(* The sift loops of the code carry the moving value in a local variable   *)
(* and shift a hole; here the value is in the slot of the hole.            *)
(***************************************************************************)
EXTENDS Naturals, FiniteSets

CONSTANTS Id,        (* one identity for each record that can be queued *)
          Priority,
          Capacity,  (* task_queue_size_ *)
          Functors   (* may the functor of erase_if change priorities?  A *)
                     (* subset of {"reads", "writes"} *)

ASSUME PriorityAssumption == Priority \subseteq Nat
ASSUME CapacityAssumption == Capacity \in Nat
ASSUME FunctorAssumption == Functors \subseteq {"reads", "writes"}

Record == [id : Id, priority : Priority]

VARIABLES
  m_tasks_,  (* the array: a function on 0..(m_end_ - 1) *)
  m_end_,    (* the number of records *)
  pc,        (* "idle" between two calls, or the loop that is running *)
  node,      (* the slot of the value a sift moves, the next to visit *)
  heap_end,  (* the slots below it are a heap, but for the moving value *)
  functor,   (* what the functor of the running erase_if does *)
  erased,    (* the number of records that erase_if has removed *)
  popped     (* the set of the record popped last *)

vars == <<m_tasks_, m_end_, pc, node, heap_end, functor, erased, popped>>

Slot == 0..(m_end_ - 1)

Parent(i) == (i - 1) \div 2
Left(i) == 2 * i + 1
Right(i) == Left(i) + 1

(* hxkey_less on records, by slot. *)
Less(i, j) == m_tasks_[i].priority < m_tasks_[j].priority

(* Mutant of Swap: one of the two is copied over the other. *)
SwapWithoutTemporary(i, j) ==
  [m_tasks_ EXCEPT ![i] = m_tasks_[j]]

(* hxswap *)
Swap(i, j) ==
  [m_tasks_ EXCEPT ![i] = m_tasks_[j], ![j] = m_tasks_[i]]

Init ==
  /\ m_tasks_ = [i \in {} |-> 0]
  /\ m_end_ = 0
  /\ pc = "idle"
  /\ node = 0
  /\ heap_end = 0
  /\ functor = "reads"
  /\ erased = 0
  /\ popped = {}

-----------------------------------------------------------------------------
(* push_heap: the new record goes to the end and is sifted up.  A full     *)
(* array is a fatal error, which callers avoid.                            *)
Push(r) ==
  /\ pc = "idle"
  /\ m_end_ < Capacity
  /\ \A i \in Slot : m_tasks_[i].id # r.id
  /\ m_tasks_' = [i \in 0..m_end_ |-> IF i = m_end_ THEN r ELSE m_tasks_[i]]
  /\ m_end_' = m_end_ + 1
  /\ pc' = "sift_up"
  /\ node' = m_end_
  /\ heap_end' = m_end_ + 1
  /\ UNCHANGED <<functor, erased, popped>>

(* The inner loop of push_heap and of hxmake_heap_. *)
MustRise == node # 0 /\ Less(Parent(node), node)

SiftUp ==
  /\ pc = "sift_up"
  /\ MustRise
  /\ m_tasks_' = Swap(Parent(node), node)
  /\ node' = Parent(node)
  /\ UNCHANGED <<m_end_, pc, heap_end, functor, erased, popped>>

(* A value is in place.  The outer loop of hxmake_heap_ goes on to the     *)
(* next; for push_heap there is none.                                      *)
SiftUpDone ==
  /\ pc = "sift_up"
  /\ ~MustRise
  /\ IF heap_end < m_end_
     THEN node' = heap_end /\ heap_end' = heap_end + 1 /\ UNCHANGED pc
     ELSE pc' = "idle" /\ UNCHANGED <<node, heap_end>>
  /\ UNCHANGED <<m_tasks_, m_end_, functor, erased, popped>>

(* Mutants of Pop: the last slot is not given up; front() is read after    *)
(* the record has been overwritten.                                        *)
PopKeepingLast ==
  /\ pc = "idle"
  /\ m_end_ # 0
  /\ popped' = {m_tasks_[0]}
  /\ m_tasks_' = [m_tasks_ EXCEPT ![0] = m_tasks_[m_end_ - 1]]
  /\ m_end_' = m_end_ - 1
  /\ pc' = "sift_down"
  /\ node' = 0
  /\ UNCHANGED <<heap_end, functor, erased>>

PopReadsLate ==
  /\ pc = "idle"
  /\ m_end_ # 0
  /\ popped' = {m_tasks_[m_end_ - 1]}
  /\ m_end_' = m_end_ - 1
  /\ m_tasks_' = [i \in 0..(m_end_ - 2) |->
                    IF i = 0 THEN m_tasks_[m_end_ - 1] ELSE m_tasks_[i]]
  /\ IF m_end_ = 1 THEN UNCHANGED <<pc, node>>
                   ELSE pc' = "sift_down" /\ node' = 0
  /\ UNCHANGED <<heap_end, functor, erased>>

(* pop_heap, with the front() that the task loop reads just before. *)
Pop ==
  /\ pc = "idle"
  /\ m_end_ # 0
  /\ popped' = {m_tasks_[0]}
  /\ m_end_' = m_end_ - 1
  /\ m_tasks_' = [i \in 0..(m_end_ - 2) |->
                    IF i = 0 THEN m_tasks_[m_end_ - 1] ELSE m_tasks_[i]]
  /\ IF m_end_ = 1 THEN UNCHANGED <<pc, node>>
                   ELSE pc' = "sift_down" /\ node' = 0
  /\ UNCHANGED <<heap_end, functor, erased>>

(* Mutant of LargerChild: the right child is ignored. *)
LeftChild == Left(node)

(* hxheapsort_heapify_ *)
LargerChild ==
  IF Right(node) < m_end_ /\ Less(Left(node), Right(node))
  THEN Right(node) ELSE Left(node)

MustSink == Left(node) < m_end_ /\ Less(node, LargerChild)

SiftDown ==
  /\ pc = "sift_down"
  /\ MustSink
  /\ m_tasks_' = Swap(node, LargerChild)
  /\ node' = LargerChild
  /\ UNCHANGED <<m_end_, pc, heap_end, functor, erased, popped>>

SiftDownDone ==
  /\ pc = "sift_down"
  /\ ~MustSink
  /\ pc' = "idle"
  /\ UNCHANGED <<m_tasks_, m_end_, node, heap_end, functor, erased, popped>>

-----------------------------------------------------------------------------
(* hxmake_heap_ on the first n slots: the outer loop starts at slot 1. *)
MakeHeap(n) ==
  IF n > 1 THEN pc' = "sift_up" /\ node' = 1 /\ heap_end' = 2
           ELSE pc' = "idle" /\ UNCHANGED <<node, heap_end>>

(* erase_if visits the slots from the last to the first.  cancel is an     *)
(* erase_if whose functor only reads.                                      *)
EraseIf(f) ==
  /\ pc = "idle"
  /\ pc' = "erase"
  /\ node' = m_end_
  /\ functor' = f
  /\ UNCHANGED <<m_tasks_, m_end_, heap_end, erased, popped>>

(* The functor gives a record a priority, if it does, and keeps it. *)
Keep(p) ==
  /\ pc = "erase"
  /\ node # 0
  /\ functor = "reads" => p = m_tasks_[node - 1].priority
  /\ m_tasks_' = [m_tasks_ EXCEPT ![node - 1].priority = p]
  /\ node' = node - 1
  /\ UNCHANGED <<m_end_, pc, heap_end, functor, erased, popped>>

(* erase_unordered: the last record takes the slot of the erased one. *)
Erase ==
  /\ pc = "erase"
  /\ node # 0
  /\ m_tasks_' = [i \in 0..(m_end_ - 2) |->
                    IF i = node - 1 THEN m_tasks_[m_end_ - 1] ELSE m_tasks_[i]]
  /\ m_end_' = m_end_ - 1
  /\ node' = node - 1
  /\ erased' = erased + 1
  /\ UNCHANGED <<pc, heap_end, functor, popped>>

(* The heap is rebuilt if a record was erased, and only then.  The locals  *)
(* of the call are gone.                                                   *)
EraseIfDone ==
  /\ pc = "erase"
  /\ node = 0
  /\ IF erased # 0 THEN MakeHeap(m_end_)
                   ELSE pc' = "idle" /\ UNCHANGED <<node, heap_end>>
  /\ erased' = 0
  /\ functor' = "reads"
  /\ UNCHANGED <<m_tasks_, m_end_, popped>>

Clear ==
  /\ pc = "idle"
  /\ m_tasks_' = [i \in {} |-> 0]
  /\ m_end_' = 0
  /\ UNCHANGED <<pc, node, heap_end, functor, erased, popped>>

(* for_each: the functor may change every priority, the heap is rebuilt. *)
ForEach(p) ==
  /\ pc = "idle"
  /\ m_tasks_' = [i \in Slot |-> [m_tasks_[i] EXCEPT !.priority = p[i]]]
  /\ MakeHeap(m_end_)
  /\ UNCHANGED <<m_end_, functor, erased, popped>>

-----------------------------------------------------------------------------
Next ==
  \/ \E r \in Record : Push(r)
  \/ Pop
  \/ SiftUp \/ SiftUpDone \/ SiftDown \/ SiftDownDone
  \/ \E f \in Functors : EraseIf(f)
  \/ \E p \in Priority : Keep(p)
  \/ Erase \/ EraseIfDone
  \/ Clear
  \/ \E p \in [Slot -> Priority] : ForEach(p)

Spec == Init /\ [][Next]_vars

-----------------------------------------------------------------------------
(* The values every variable may take. *)
TypeOK ==
  /\ m_end_ \in 0..Capacity
  /\ m_tasks_ \in [Slot -> Record]
  /\ pc \in {"idle", "sift_up", "sift_down", "erase"}
  /\ node \in 0..Capacity
  /\ heap_end \in 0..Capacity
  /\ functor \in {"reads", "writes"}
  /\ erased \in Nat
  /\ popped \subseteq Record

(* Between two calls no record has a higher priority than its parent.      *)
(* push_heap and pop_heap only sift one value and rely on it.              *)
HeapWhenIdle ==
  pc = "idle" => \A i \in Slot \ {0} : ~Less(Parent(i), i)

(* The record that the task loop takes next has the highest priority:      *)
(* "Higher values run sooner", also after for_each and erase_if.           *)
FrontIsHighest == pc = "idle" => \A i \in Slot : ~Less(0, i)

(* The records in the array. *)
Queued == {m_tasks_[i] : i \in Slot}

(* A sift only moves records, however many steps it takes, and erase_if    *)
(* removes the record it visits and no other, although erase_unordered     *)
(* overwrites its slot with the last one.                                  *)
OnlyErasedIsLost ==
  [][/\ pc \in {"sift_up", "sift_down"} => Queued' = Queued
     /\ pc = "erase" /\ m_end_' # m_end_ =>
          Queued' = Queued \ {m_tasks_[node - 1]}]_vars

Pool == INSTANCE PriorityPool WITH queued <- Queued, taken <- popped

(* The heap implements the priority pool: pop_heap removes the record that *)
(* front() returned and no other, and it is one of the highest priority;   *)
(* the moves of a sift or of erase_unordered lose and duplicate none.      *)
PoolSpec == Pool!PoolSpec

=============================================================================
