---------------------------- MODULE InlineQueue -----------------------------
(***************************************************************************)
(* hxtask_queue without workers: thread_pool_size is 0, or HX_USE_THREADS  *)
(* is.  Tasks run when the owner calls wait_for_all or destroys the queue. *)
(*                                                                         *)
(* enqueue, cancel, clear, erase_if and for_each are one critical section  *)
(* each.  wait_for_all takes no lock, so each of its three accesses to     *)
(* m_tasks_ is an action: empty(), front() and pop_heap().  Of the heap    *)
(* the model keeps the records and the one at the front, which HeapQueue   *)
(* shows to be of the highest priority.                                    *)
(***************************************************************************)
EXTENDS Naturals, FiniteSets

CONSTANTS Owner,         (* the thread that creates, waits and destroys *)
          Client,        (* other threads that enqueue *)
          Task,
          Priority,
          MaxEnqueue,    (* bound: the calls of enqueue in a behavior *)
          Capacity,      (* task_queue_size_ *)
          NoTask         (* hxnull *)

(* A ticket is one call of enqueue; its priority may be revised. *)
Ticket == 1..MaxEnqueue
Record == [id : Ticket, task : Task, priority : Priority]

InlineAssumption ==
  /\ Owner \notin Client
  /\ Priority \subseteq Nat
  /\ MaxEnqueue \in Nat /\ Capacity \in Nat
  /\ NoTask \notin Ticket

VARIABLES
  m_tasks_,   (* the queued records *)
  top,        (* the set of the record at the front of the heap *)
  task,       (* the ticket that the local variable task stands for *)
  inline_pc,  (* where the owner is *)
  stopping,   (* wait_for_all was called by the destructor *)
  enqueued,   (* the number of tickets issued *)
  finished,   (* the tickets whose process() has returned, with repetition *)
  removed     (* the tickets cancelled, cleared or erased *)

inlineVars ==
  <<m_tasks_, top, task, inline_pc, stopping, enqueued, finished, removed>>
callVars == <<task, inline_pc, stopping, finished>>

Ids(S) == {r.id : r \in S}

Highest(S) == {r \in S : \A s \in S : s.priority <= r.priority}

(* hxmake_heap_ and pop_heap leave one of the highest records in front. *)
Fronts(S) == IF S = {} THEN {{}} ELSE {{r} : r \in Highest(S)}

InlineInit ==
  /\ m_tasks_ = {} /\ top = {}
  /\ task = NoTask
  /\ inline_pc = "client"
  /\ stopping = FALSE
  /\ enqueued = 0
  /\ finished = [k \in Ticket |-> 0]
  /\ removed = {}

-----------------------------------------------------------------------------
(* The thread that owns the queue uses it while it is not in wait_for_all, *)
(* a running task does, and so may other threads until the destructor.     *)
MayCall(c) ==
  \/ c = Owner /\ inline_pc \in {"client", "process"}
  \/ c \in Client /\ ~stopping

(* push_heap: the new record rises past a lower one only. *)
Enqueue(c, k, p) ==
  LET record == [id |-> enqueued + 1, task |-> k, priority |-> p]
  IN /\ MayCall(c)
     /\ enqueued < MaxEnqueue
     /\ Cardinality(m_tasks_) < Capacity
     /\ enqueued' = enqueued + 1
     /\ m_tasks_' = m_tasks_ \union {record}
     /\ top' = IF \A r \in top : r.priority < p THEN {record} ELSE top
     /\ UNCHANGED <<removed, callVars>>

(* erase_if, and cancel, rebuild the heap when a record was removed. *)
Remove(S) ==
  /\ MayCall(Owner)
  /\ S # {}
  /\ m_tasks_' = m_tasks_ \ S
  /\ top' \in Fronts(m_tasks_')
  /\ removed' = removed \union Ids(S)
  /\ UNCHANGED <<enqueued, callVars>>

Cancel(k) == Remove({r \in m_tasks_ : r.task = k})
EraseIf == \E S \in SUBSET m_tasks_ : Remove(S)
Clear == Remove(m_tasks_)

(* for_each may change the priorities, and rebuilds the heap. *)
ForEach(p) ==
  /\ MayCall(Owner)
  /\ m_tasks_' = {[r EXCEPT !.priority = p[r.id]] : r \in m_tasks_}
  /\ top' \in Fronts(m_tasks_')
  /\ UNCHANGED <<enqueued, removed, callVars>>

-----------------------------------------------------------------------------
(* wait_for_all, and the destructor, which calls it.  A task must not.     *)
WaitForAll(destroy) ==
  /\ inline_pc = "client"
  /\ inline_pc' = "test"
  /\ stopping' = destroy
  /\ UNCHANGED <<m_tasks_, top, task, enqueued, finished, removed>>

(* while(!m_tasks_.empty()) *)
TestEmpty ==
  /\ inline_pc = "test"
  /\ inline_pc' = IF m_tasks_ # {} THEN "front"
                  ELSE IF stopping THEN "destroyed" ELSE "client"
  /\ UNCHANGED <<m_tasks_, top, task, stopping, enqueued, finished, removed>>

ReadFront ==
  /\ inline_pc = "front"
  /\ \E r \in top : task' = r.id
  /\ inline_pc' = "pop"
  /\ UNCHANGED <<m_tasks_, top, stopping, enqueued, finished, removed>>

(* Mutant of PopHeap: the task runs before its record is removed, and the  *)
(* front may be another one when it is.                                    *)
PopHeapLate ==
  \/ /\ inline_pc = "pop"
     /\ inline_pc' = "process"
     /\ UNCHANGED <<m_tasks_, top, task, stopping, enqueued, finished, removed>>
  \/ /\ inline_pc = "process"
     /\ m_tasks_' = m_tasks_ \ top
     /\ top' \in Fronts(m_tasks_')
     /\ task' = NoTask
     /\ inline_pc' = "test"
     /\ finished' = [finished EXCEPT ![task] = @ + 1]
     /\ UNCHANGED <<stopping, enqueued, removed>>

(* The record that is in front now is removed.  process() begins. *)
PopHeap ==
  /\ inline_pc = "pop"
  /\ m_tasks_' = m_tasks_ \ top
  /\ top' \in Fronts(m_tasks_')
  /\ inline_pc' = "process"
  /\ UNCHANGED <<task, stopping, enqueued, finished, removed>>

FinishProcess ==
  /\ inline_pc = "process"
  /\ inline_pc' = "test"
  /\ task' = NoTask
  /\ finished' = [finished EXCEPT ![task] = @ + 1]
  /\ UNCHANGED <<m_tasks_, top, stopping, enqueued, removed>>

InlineNext ==
  \/ \E c \in Client \union {Owner}, k \in Task, p \in Priority : Enqueue(c, k, p)
  \/ \E k \in Task : Cancel(k)
  \/ EraseIf \/ Clear
  \/ \E p \in [Ids(m_tasks_) -> Priority] : ForEach(p)
  \/ \E destroy \in BOOLEAN : WaitForAll(destroy)
  \/ TestEmpty \/ ReadFront \/ PopHeap \/ FinishProcess
  \/ inline_pc = "destroyed" /\ UNCHANGED inlineVars

InlineSpec == InlineInit /\ [][InlineNext]_inlineVars

-----------------------------------------------------------------------------
(* The values every variable may take. *)
InlineTypeOK ==
  /\ m_tasks_ \subseteq Record
  /\ top \subseteq m_tasks_ /\ Cardinality(top) <= 1
  /\ task \in Ticket \union {NoTask}
  /\ inline_pc \in {"client", "test", "front", "pop", "process", "destroyed"}
  /\ stopping \in BOOLEAN
  /\ enqueued \in 0..MaxEnqueue
  /\ finished \in [Ticket -> Nat]
  /\ removed \subseteq Ticket

Held == IF inline_pc = "process" THEN {task} ELSE {}

(* Every call of enqueue leads to one run of the task, or to its removal:  *)
(* the loop of wait_for_all neither loses nor repeats one, whatever tasks  *)
(* enqueue, cancel or reprioritize while they run.                         *)
EachTicketOnce ==
  \A k \in 1..enqueued :
    Cardinality({r \in m_tasks_ : r.id = k}) + Cardinality(Held \intersect {k})
      + finished[k] + Cardinality(removed \intersect {k}) = 1

Pool == INSTANCE TaskPool
  WITH Thread <- {Owner}, NoTicket <- NoTask, submitted <- 1..enqueued,
       pending <- Ids(m_tasks_),
       running <- [t \in {Owner} |-> IF Held = {} THEN NoTask ELSE task],
       phase <- IF inline_pc = "destroyed" THEN "closed"
                ELSE IF inline_pc = "client" THEN "open"
                ELSE IF stopping THEN "closing" ELSE "waiting"

(* The task that starts has the highest priority of those that are queued. *)
HighestStarts ==
  inline_pc' = "process" /\ inline_pc # "process" =>
    \A r \in m_tasks_ : \E s \in m_tasks_ : s.id = task /\ r.priority <= s.priority

(* What a step of the queue is to its callers. *)
InlineStep ==
  [Pool!PoolNext]_(Pool!poolVars) /\ HighestStarts /\ EachTicketOnce'

(* Without threads of its own the queue is a pool like any other: a task   *)
(* leaves the queue when it starts, the highest first, and wait_for_all    *)
(* and the destructor return when nothing is left.                         *)
InlineQueueIsPool == Pool!PoolInit /\ [][InlineStep]_inlineVars

=============================================================================
