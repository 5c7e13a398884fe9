----------------------------- MODULE TaskQueue ------------------------------
(***************************************************************************)
(* hxtask_queue with a worker pool (HX_USE_THREADS, thread_pool_size > 0): *)
(* the task loop shared by the workers and by the owner while it waits or  *)
(* destroys the queue, the two condition variables, and the calls other    *)
(* threads and running tasks make on the queue.                            *)
(*                                                                         *)
(* m_tasks_, m_queue_run_level_ and m_executing_count_ are only accessed   *)
(* with m_mutex_ held, and every notification is sent with it held.  So    *)
(* one action is one critical section: from the acquisition of the mutex   *)
(* to its release, be it at the end of a scope or inside a wait.           *)
(*                                                                         *)
(* m_tasks_ is a set of tickets, one per call of enqueue: the same task    *)
(* may be queued twice.  Which ticket is at the front of the heap is the   *)
(* subject of HeapQueue, here it is any of them.                           *)
(***************************************************************************)
EXTENDS Naturals, FiniteSets

CONSTANTS Worker,         (* the threads of m_threads_ *)
          Owner,          (* the thread that creates, waits and destroys *)
          Client,         (* other threads that use the queue *)
          RemovingClient, (* the clients that also remove tasks from it *)
          Task,           (* the hxtask objects *)
          MaxEnqueue,     (* bound: the calls of enqueue in a behavior *)
          Capacity,       (* task_queue_size_ *)
          NoTask          (* hxnull *)

LoopThread == Worker \union {Owner}

Ticket == [id : 1..MaxEnqueue, task : Task]

ASSUME ThreadAssumption ==
  /\ Worker # {} /\ IsFiniteSet(Worker)
  /\ Owner \notin Worker
  /\ Client \intersect LoopThread = {}
  /\ RemovingClient \subseteq Client
ASSUME BoundAssumption ==
  /\ MaxEnqueue \in Nat
  /\ Capacity \in Nat \ {0}
ASSUME NoTaskAssumption == NoTask \notin Ticket

VARIABLES
  m_tasks_,           (* the queued tickets *)
  m_queue_run_level_,
  m_executing_count_,
  task,               (* the local variable task of each loop *)
  pc,                 (* where each loop thread is, see PC *)
  mode_,              (* why the owner is in the loop *)
  enqueued,           (* the number of tickets issued *)
  finished,           (* the tickets whose process() has returned *)
  removed             (* the tickets cancelled, cleared or erased *)

queueVars == <<m_tasks_, m_queue_run_level_, m_executing_count_>>
historyVars == <<enqueued, finished, removed>>
vars == <<m_tasks_, m_queue_run_level_, m_executing_count_, task, pc, mode_,
          enqueued, finished, removed>>

(* "lock": about to enter the critical section at the top of the loop.     *)
(* "wait_*": asleep on a condition variable.  "wake_*": woken up, about to *)
(* reacquire the mutex and evaluate the predicate again.                   *)
WorkerPC == {"new", "lock", "wait_tasks", "wake_tasks", "process", "exit"}
OwnerPC == {"construct", "client", "lock", "wait_completion",
            "wake_completion", "process", "join", "destroyed"}

OwnerInLoop ==
  pc[Owner] \in {"lock", "wait_completion", "wake_completion", "process"}

(***************************************************************************)
(* Condition variables.  Each operator gives the pc function after the     *)
(* notification of the threads asleep in p.                                *)
(***************************************************************************)
NotifyAllTasks(p) ==
  [t \in LoopThread |-> IF p[t] = "wait_tasks" THEN "wake_tasks" ELSE p[t]]

NotifyAllCompletion(p) ==
  [t \in LoopThread |->
     IF p[t] = "wait_completion" THEN "wake_completion" ELSE p[t]]

(* Mutant of NotifyOneTask: enqueue forgets to notify. *)
NotifyNobody(p) == {p}

(* notify_one wakes one of the sleepers, or is lost when there is none. *)
NotifyOneTask(p) ==
  LET asleep == {t \in LoopThread : p[t] = "wait_tasks"}
  IN IF asleep = {} THEN {p}
                    ELSE {[p EXCEPT ![t] = "wake_tasks"] : t \in asleep}

(* POSIX lets a wait return although nothing was signalled. *)
SpuriousWakeup(t) ==
  /\ \/ /\ pc[t] = "wait_tasks"
        /\ pc' = [pc EXCEPT ![t] = "wake_tasks"]
     \/ /\ pc[t] = "wait_completion"
        /\ pc' = [pc EXCEPT ![t] = "wake_completion"]
  /\ UNCHANGED <<queueVars, task, mode_, historyVars>>

(***************************************************************************)
(* Construction, and the calls that put the owner in the loop.             *)
(***************************************************************************)
Init ==
  /\ m_tasks_ = {}
  /\ m_queue_run_level_ = "running"
  /\ m_executing_count_ = 0
  /\ task = [t \in LoopThread |-> NoTask]
  /\ pc = [t \in LoopThread |-> IF t = Owner THEN "construct" ELSE "new"]
  /\ mode_ = "none"
  /\ enqueued = 0
  /\ finished = {}
  /\ removed = {}

(* The constructor starts the workers one by one; they run meanwhile. *)
StartWorker(w) ==
  /\ pc[Owner] = "construct"
  /\ pc[w] = "new"
  /\ pc' = [pc EXCEPT ![w] = "lock"]
  /\ UNCHANGED <<queueVars, task, mode_, historyVars>>

Constructed ==
  /\ pc[Owner] = "construct"
  /\ \A w \in Worker : pc[w] # "new"
  /\ pc' = [pc EXCEPT ![Owner] = "client"]
  /\ UNCHANGED <<queueVars, task, mode_, historyVars>>

WaitForAll ==
  /\ pc[Owner] = "client"
  /\ pc' = [pc EXCEPT ![Owner] = "lock"]
  /\ mode_' = "waiting"
  /\ UNCHANGED <<queueVars, task, historyVars>>

Destroy ==
  /\ pc[Owner] = "client"
  /\ pc' = [pc EXCEPT ![Owner] = "lock"]
  /\ mode_' = "stopping"
  /\ UNCHANGED <<queueVars, task, historyVars>>

(* The destructor joins every worker before it releases the queue. *)
Join ==
  /\ pc[Owner] = "join"
  /\ \A w \in Worker : pc[w] = "exit"
  /\ pc' = [pc EXCEPT ![Owner] = "destroyed"]
  /\ UNCHANGED <<queueVars, task, mode_, historyVars>>

(* Mutants of Executing: the report is dropped, or made without a task. *)
ExecutingUnreported(t) == m_executing_count_
ExecutingOverreported(t) == m_executing_count_ - 1

(***************************************************************************)
(* thread_task_loop_.  The first thing a loop does with the mutex is to    *)
(* report the task it has executed, if any.                                *)
(***************************************************************************)
Executing(t) ==
  IF task[t] = NoTask THEN m_executing_count_ ELSE m_executing_count_ - 1

(* Mutant of Reported: the last task does not wake up the owner. *)
ReportedSilently(t) == pc

(* The threads to wake up when that task was the last one. *)
Reported(t) ==
  IF task[t] # NoTask /\ Executing(t) = 0 /\ m_tasks_ = {}
  THEN NotifyAllCompletion(pc) ELSE pc

(* Mutant of TakeTask: front() without pop_heap(). *)
TakeTaskWithoutPop(t) ==
  /\ pc[t] = "lock" \/ pc[t] = "wake_tasks"
  /\ \E r \in m_tasks_ : task' = [task EXCEPT ![t] = r]
  /\ m_executing_count_' = Executing(t) + 1
  /\ pc' = [pc EXCEPT ![t] = "process"]
  /\ UNCHANGED <<m_tasks_, m_queue_run_level_, mode_, historyVars>>

(* A thread that holds the mutex and finds a task dequeues it.  A worker   *)
(* may come from its wait, the owner's wait is followed by a return.       *)
TakeTask(t) ==
  /\ pc[t] = "lock" \/ pc[t] = "wake_tasks"
  /\ \E r \in m_tasks_ :
       /\ m_tasks_' = m_tasks_ \ {r}
       /\ task' = [task EXCEPT ![t] = r]
  /\ m_executing_count_' = Executing(t) + 1
  /\ pc' = [pc EXCEPT ![t] = "process"]
  /\ UNCHANGED <<m_queue_run_level_, mode_, historyVars>>

(* A worker has nothing to do and its predicate is false. *)
WaitForTasks(w) ==
  /\ w \in Worker
  /\ pc[w] = "lock" \/ pc[w] = "wake_tasks"
  /\ m_tasks_ = {}
  /\ m_queue_run_level_ = "running"
  /\ m_executing_count_' = Executing(w)
  /\ task' = [task EXCEPT ![w] = NoTask]
  /\ pc' = [Reported(w) EXCEPT ![w] = "wait_tasks"]
  /\ UNCHANGED <<m_tasks_, m_queue_run_level_, mode_, historyVars>>

(* A worker finds the queue empty and stopped. *)
WorkerReturns(w) ==
  /\ w \in Worker
  /\ pc[w] = "lock" \/ pc[w] = "wake_tasks"
  /\ m_tasks_ = {}
  /\ m_queue_run_level_ = "stopped"
  /\ m_executing_count_' = Executing(w)
  /\ task' = [task EXCEPT ![w] = NoTask]
  /\ pc' = [Reported(w) EXCEPT ![w] = "exit"]
  /\ UNCHANGED <<m_tasks_, m_queue_run_level_, mode_, historyVars>>

(* The owner is at the completion wait: it found the queue empty, or it    *)
(* was woken up and has not looked at the queue again.                     *)
AtCompletion ==
  \/ pc[Owner] = "lock" /\ m_tasks_ = {}
  \/ pc[Owner] = "wake_completion"

(* Mutant of Complete: running tasks are not waited for. *)
CompleteWhenEmpty == m_tasks_ = {}

(* hxtask_wait_for_completion_ *)
Complete == m_tasks_ = {} /\ Executing(Owner) = 0

OwnerWaits ==
  /\ AtCompletion
  /\ ~Complete
  /\ m_executing_count_' = Executing(Owner)
  /\ task' = [task EXCEPT ![Owner] = NoTask]
  /\ pc' = [pc EXCEPT ![Owner] = "wait_completion"]
  /\ UNCHANGED <<m_tasks_, m_queue_run_level_, mode_, historyVars>>

(* wait_for_all returns. *)
OwnerReturns ==
  /\ AtCompletion
  /\ Complete
  /\ mode_ = "waiting"
  /\ m_executing_count_' = Executing(Owner)
  /\ task' = [task EXCEPT ![Owner] = NoTask]
  /\ pc' = [pc EXCEPT ![Owner] = "client"]
  /\ mode_' = "none"
  /\ UNCHANGED <<m_tasks_, m_queue_run_level_, historyVars>>

(* The destructor's loop stops the queue and releases the workers. *)
OwnerStops ==
  /\ AtCompletion
  /\ Complete
  /\ mode_ = "stopping"
  /\ m_executing_count_' = Executing(Owner)
  /\ task' = [task EXCEPT ![Owner] = NoTask]
  /\ m_queue_run_level_' = "stopped"
  /\ pc' = [NotifyAllTasks(pc) EXCEPT ![Owner] = "join"]
  /\ UNCHANGED <<m_tasks_, mode_, historyVars>>

(* hxtask::process returns.  The task is reported when the mutex is next   *)
(* acquired: until then it counts as executing.                            *)
FinishProcess(t) ==
  /\ pc[t] = "process"
  /\ pc' = [pc EXCEPT ![t] = "lock"]
  /\ finished' = finished \union {task[t]}
  /\ UNCHANGED <<queueVars, task, mode_, enqueued, removed>>

(***************************************************************************)
(* Calls on the queue: by its owner outside of the loop, by a running      *)
(* task, and by other threads, which must leave the queue alone once its   *)
(* destruction has begun.                                                  *)
(***************************************************************************)
InTask(c) == c \in LoopThread /\ pc[c] = "process"

ClientOpen == pc[Owner] # "construct" /\ mode_ # "stopping"

MayEnqueue(c) ==
  \/ c = Owner /\ pc[c] = "client"
  \/ InTask(c)
  \/ c \in Client /\ ClientOpen

MayRemove(c) ==
  \/ c = Owner /\ pc[c] = "client"
  \/ InTask(c)
  \/ c \in RemovingClient /\ ClientOpen

(* enqueue: a full array is a fatal error, which callers avoid. *)
Enqueue(c, k) ==
  /\ MayEnqueue(c)
  /\ enqueued < MaxEnqueue
  /\ Cardinality(m_tasks_) < Capacity
  /\ m_tasks_' = m_tasks_ \union {[id |-> enqueued + 1, task |-> k]}
  /\ enqueued' = enqueued + 1
  /\ pc' \in NotifyOneTask(pc)
  /\ UNCHANGED <<m_queue_run_level_, m_executing_count_, task, mode_,
                 finished, removed>>

(* No condition variable is notified when tickets are removed. *)
Remove(c, S) ==
  /\ MayRemove(c)
  /\ m_tasks_' = m_tasks_ \ S
  /\ removed' = removed \union S
  /\ UNCHANGED <<m_queue_run_level_, m_executing_count_, task, pc, mode_,
                 enqueued, finished>>

(* cancel removes every record of the task. *)
Cancel(c, k) == Remove(c, {r \in m_tasks_ : r.task = k})

Clear(c) == Remove(c, m_tasks_)

(* The functor of erase_if chooses any of the records. *)
EraseIf(c) == \E S \in SUBSET m_tasks_ : Remove(c, S)

(***************************************************************************)
(* Specification.                                                          *)
(***************************************************************************)
Caller == LoopThread \union Client

LoopStep(t) ==
  \/ TakeTask(t)
  \/ WaitForTasks(t)
  \/ WorkerReturns(t)

OwnerStep ==
  \/ OwnerWaits
  \/ OwnerReturns
  \/ OwnerStops
  \/ Constructed
  \/ Join

CallStep(c) ==
  \/ \E k \in Task : Enqueue(c, k) \/ Cancel(c, k)
  \/ Clear(c)
  \/ EraseIf(c)

(* The queue is gone: the only state in which nothing happens. *)
Terminated == pc[Owner] = "destroyed" /\ UNCHANGED vars

Next ==
  \/ \E w \in Worker : StartWorker(w)
  \/ \E t \in LoopThread : LoopStep(t) \/ FinishProcess(t) \/ SpuriousWakeup(t)
  \/ OwnerStep
  \/ WaitForAll
  \/ Destroy
  \/ \E c \in Caller : CallStep(c)
  \/ Terminated

Spec == Init /\ [][Next]_vars

(* Every thread is scheduled and every task terminates.  Nobody has to     *)
(* call the queue and a condition variable needs no spurious wakeup.       *)
Fairness ==
  /\ \A w \in Worker : WF_vars(StartWorker(w))
  /\ \A t \in LoopThread : WF_vars(LoopStep(t)) /\ WF_vars(FinishProcess(t))
  /\ WF_vars(OwnerStep)

FairSpec == Spec /\ Fairness

(***************************************************************************)
(* Properties.                                                             *)
(***************************************************************************)

(* The values every variable may take. *)
TypeOK ==
  /\ m_tasks_ \subseteq Ticket
  /\ m_queue_run_level_ \in {"running", "stopped"}
  /\ m_executing_count_ \in Nat
  /\ task \in [LoopThread -> Ticket \union {NoTask}]
  /\ pc \in [LoopThread -> WorkerPC \union OwnerPC]
  /\ pc[Owner] \in OwnerPC
  /\ \A w \in Worker : pc[w] \in WorkerPC
  /\ mode_ \in {"none", "waiting", "stopping"}
  /\ enqueued \in 0..MaxEnqueue
  /\ finished \subseteq Ticket
  /\ removed \subseteq Ticket

Holders == {t \in LoopThread : task[t] # NoTask}

(* m_executing_count_ is the number of loops that have a task to run or to *)
(* report: it never goes negative ("internal_error" in thread_task_loop_)  *)
(* and it is not zero while a task may still enqueue another.              *)
ExecutingCount == m_executing_count_ = Cardinality(Holders)

(* Once the run level is stopped nothing is queued or executing and nobody *)
(* is entitled to enqueue, so the release assertion "stopped_queue" of     *)
(* enqueue and the "threading_error" assertion of the completion predicate *)
(* cannot fire.                                                            *)
StoppedIsQuiet ==
  m_queue_run_level_ = "stopped" =>
    /\ m_tasks_ = {}
    /\ m_executing_count_ = 0
    /\ \A c \in Caller : ~MayEnqueue(c)
    /\ pc[Owner] \notin {"lock", "wait_completion", "wake_completion"}

Processing == {t \in LoopThread : pc[t] = "process"}

Held == {task[t] : t \in Processing}

(* Every ticket issued by enqueue is in exactly one place: queued, being   *)
(* executed by one thread, finished, or removed.  None is lost, executed   *)
(* twice, or executed after a cancel, clear or erase_if removed it.        *)
EachTicketOnce ==
  /\ {r.id : r \in m_tasks_ \union Held \union finished \union removed}
       = 1..enqueued
  /\ Cardinality(m_tasks_) + Cardinality(Processing) + Cardinality(finished)
       + Cardinality(removed) = enqueued

(* No wakeup for a new task is lost: while a task is queued some worker is *)
(* neither asleep nor gone, although enqueue notifies one thread only and  *)
(* another may take the task before it.                                    *)
QueuedTaskHasWorker ==
  m_tasks_ # {} => \E w \in Worker : pc[w] \notin {"wait_tasks", "exit"}

(* No completion is lost: the owner never sleeps on m_cond_var_completion_ *)
(* when its predicate is true.  Holds when no thread but the owner and the *)
(* running tasks remove tasks.                                             *)
SleepingOwnerHasWork ==
  pc[Owner] = "wait_completion" => m_tasks_ # {} \/ m_executing_count_ > 0

(* wait_for_all returns, if every task terminates. *)
WaitReturns == mode_ = "waiting" ~> mode_ = "none"

(* The destructor drains the queue, joins every worker and returns. *)
DestructorReturns == mode_ = "stopping" ~> pc[Owner] = "destroyed"

(* Both calls of the owner that wait for the workers return. *)
CallsReturn == WaitReturns /\ DestructorReturns

(* Every queued ticket is eventually executed or removed, even if the      *)
(* owner never waits for it.                                               *)
TasksAreTaken ==
  \A n \in 1..MaxEnqueue :
    (\E r \in m_tasks_ : r.id = n) ~> (\A r \in m_tasks_ : r.id # n)

(***************************************************************************)
(* The refinement: a ticket runs while process() does, although the        *)
(* counter is only updated later.                                          *)
(***************************************************************************)
Submitted == m_tasks_ \union Held \union finished \union removed

Running ==
  [t \in LoopThread |-> IF pc[t] = "process" THEN task[t] ELSE NoTask]

PoolPhase ==
  IF m_queue_run_level_ = "stopped" THEN "closed"
  ELSE CASE mode_ = "none" -> "open"
         [] mode_ = "waiting" -> "waiting"
         [] mode_ = "stopping" -> "closing"

Pool == INSTANCE TaskPool
  WITH Thread <- LoopThread, NoTicket <- NoTask, submitted <- Submitted,
       pending <- m_tasks_, running <- Running, phase <- PoolPhase

(* The task queue implements the pool: in particular wait_for_all and the  *)
(* destructor only get past their wait when nothing is queued and no       *)
(* thread is inside a task.                                                *)
PoolSpec == Pool!PoolSpec

=============================================================================
