-------------------------- MODULE TaskQueue_proofs --------------------------
(***************************************************************************)
(* Proofs about TaskQueue, for any number of workers, clients and tasks.   *)
(*                                                                         *)
(* The counter is only as good as the set it counts, so everything rests   *)
(* on one inductive invariant, IInv: the types, the counter, where a       *)
(* thread that holds a task can be, and how the owner's place, its mode    *)
(* and the run level of the queue go together.                             *)
(***************************************************************************)
EXTENDS TaskQueue, TLAPS, FiniteSetTheorems

(* A loop holds a task while it runs it, and until it reports it.          *)
HolderPlaces ==
  \A t \in LoopThread :
    /\ pc[t] = "process" => task[t] # NoTask
    /\ task[t] # NoTask => pc[t] \in {"process", "lock"}

OwnerModes ==
  /\ mode_ = "none" <=> pc[Owner] \in {"construct", "client"}
  /\ pc[Owner] \in {"join", "destroyed"} => mode_ = "stopping"
  /\ m_queue_run_level_ = "stopped" <=> pc[Owner] \in {"join", "destroyed"}

StoppedIsEmpty ==
  m_queue_run_level_ = "stopped" => m_tasks_ = {} /\ m_executing_count_ = 0

ExitMeansStopped ==
  \A w \in Worker : pc[w] = "exit" => m_queue_run_level_ = "stopped"

IInv ==
  /\ TypeOK
  /\ ExecutingCount
  /\ HolderPlaces
  /\ OwnerModes
  /\ StoppedIsEmpty
  /\ ExitMeansStopped

-----------------------------------------------------------------------------
(* Counting the holders.                                                   *)

(* There are finitely many loops, hence finitely many holders. *)
LEMMA HoldersFinite == IsFiniteSet(Holders) /\ Cardinality(Holders) \in Nat
<1>1. IsFiniteSet(LoopThread)
  BY ThreadAssumption, FS_AddElement DEF LoopThread
<1>2. Holders \subseteq LoopThread
  BY DEF Holders
<1> QED BY <1>1, <1>2, FS_Subset, FS_CardinalityType

(* Executing(t), the counter after t has reported its task, counts the     *)
(* other holders.  It is never negative.                                   *)
LEMMA ExecutingCountsOthers ==
  ASSUME TypeOK, ExecutingCount, NEW t \in LoopThread
  PROVE  /\ Executing(t) = Cardinality(Holders \ {t})
         /\ Executing(t) \in Nat
         /\ IsFiniteSet(Holders \ {t})
<1>1. IsFiniteSet(Holders \ {t}) /\ Cardinality(Holders \ {t}) \in Nat
  BY HoldersFinite, FS_RemoveElement, FS_CardinalityType
<1>2. Cardinality(Holders \ {t})
        = IF t \in Holders THEN Cardinality(Holders) - 1 ELSE Cardinality(Holders)
  BY HoldersFinite, FS_RemoveElement
<1> QED BY <1>1, <1>2 DEF Executing, ExecutingCount, Holders

(* With no other holder the counter is zero, and only then. *)
LEMMA NoOtherHolder ==
  ASSUME TypeOK, ExecutingCount, NEW t \in LoopThread, Executing(t) = 0
  PROVE  \A u \in LoopThread \ {t} : task[u] = NoTask
<1>1. Holders \ {t} = {}
  BY ExecutingCountsOthers, FS_EmptySet
<1> QED BY <1>1 DEF Holders

(* The counter after a thread has taken a task. *)
LEMMA CountAfterTake ==
  ASSUME TypeOK, ExecutingCount, NEW t \in LoopThread, NEW r \in Ticket,
         task' = [task EXCEPT ![t] = r],
         m_executing_count_' = Executing(t) + 1
  PROVE  ExecutingCount' /\ m_executing_count_' \in Nat
<1>1. Holders' = (Holders \ {t}) \union {t}
  BY NoTaskAssumption DEF Holders, TypeOK
<1>2. Cardinality((Holders \ {t}) \union {t}) = Cardinality(Holders \ {t}) + 1
  BY ExecutingCountsOthers, FS_AddElement
<1> QED BY <1>1, <1>2, ExecutingCountsOthers DEF ExecutingCount

(* The counter after a thread has reported its task and taken none. *)
LEMMA CountAfterReport ==
  ASSUME TypeOK, ExecutingCount, NEW t \in LoopThread,
         task' = [task EXCEPT ![t] = NoTask],
         m_executing_count_' = Executing(t)
  PROVE  ExecutingCount' /\ m_executing_count_' \in Nat
<1>1. Holders' = Holders \ {t}
  BY NoTaskAssumption DEF Holders, TypeOK
<1> QED BY <1>1, ExecutingCountsOthers DEF ExecutingCount

(* The counter when no thread takes or reports a task. *)
LEMMA CountUnchanged ==
  ASSUME ExecutingCount, UNCHANGED <<task, m_executing_count_>>
  PROVE  ExecutingCount'
BY DEF ExecutingCount, Holders

-----------------------------------------------------------------------------
(* Notifications only move sleepers, from their wait to its wake state.    *)

OnlyWakes(q) ==
  /\ q \in [LoopThread -> WorkerPC \union OwnerPC]
  /\ \A u \in LoopThread :
       q[u] # pc[u] =>
         \/ u \in Worker /\ pc[u] = "wait_tasks" /\ q[u] = "wake_tasks"
         \/ u = Owner /\ pc[u] = "wait_completion" /\ q[u] = "wake_completion"

LEMMA NotifyTypes ==
  ASSUME TypeOK, NEW q \in {NotifyAllTasks(pc), NotifyAllCompletion(pc), pc}
                              \union NotifyOneTask(pc)
  PROVE  OnlyWakes(q)
<1> USE DEF OnlyWakes
<1>1. CASE q = NotifyAllTasks(pc)
  BY <1>1, ThreadAssumption
  DEF NotifyAllTasks, TypeOK, WorkerPC, OwnerPC, LoopThread
<1>2. CASE q = NotifyAllCompletion(pc)
  BY <1>2, ThreadAssumption
  DEF NotifyAllCompletion, TypeOK, WorkerPC, OwnerPC, LoopThread
<1>3. CASE q \in NotifyOneTask(pc)
  <2>1. PICK S : S = {t \in LoopThread : pc[t] = "wait_tasks"}
    OBVIOUS
  <2>2. CASE S = {}
    BY <1>3, <2>1, <2>2 DEF NotifyOneTask, TypeOK
  <2>3. CASE S # {}
    <3>1. PICK u \in S : q = [pc EXCEPT ![u] = "wake_tasks"]
      BY <1>3, <2>1, <2>3 DEF NotifyOneTask
    <3>2. u \in Worker /\ pc[u] = "wait_tasks"
      BY <2>1, <3>1 DEF TypeOK, OwnerPC, LoopThread
    <3> QED BY <3>1, <3>2 DEF TypeOK, WorkerPC, LoopThread
  <2> QED BY <2>2, <2>3
<1>4. CASE q = pc
  BY <1>4 DEF TypeOK
<1> QED BY <1>1, <1>2, <1>3, <1>4

(* Reported(t) notifies at most the threads that wait for completion. *)
LEMMA ReportedIsNotification ==
  ASSUME NEW t \in LoopThread
  PROVE  Reported(t) \in {NotifyAllTasks(pc), NotifyAllCompletion(pc), pc}
BY DEF Reported

-----------------------------------------------------------------------------
(* IInv is an inductive invariant.                                         *)

LEMMA InitIInv == Init => IInv
<1> SUFFICES ASSUME Init PROVE IInv
  OBVIOUS
<1> USE ThreadAssumption, BoundAssumption, NoTaskAssumption DEF Init
<1>1. TypeOK
  BY DEF TypeOK, LoopThread, WorkerPC, OwnerPC
<1>2. ExecutingCount
  <2>1. Holders = {}
    BY DEF Holders
  <2> QED BY <2>1, FS_EmptySet DEF ExecutingCount
<1>3. HolderPlaces /\ OwnerModes /\ StoppedIsEmpty /\ ExitMeansStopped
  BY DEF HolderPlaces, OwnerModes, StoppedIsEmpty, ExitMeansStopped, LoopThread
<1> QED BY <1>1, <1>2, <1>3 DEF IInv

(* A stopped queue has no holder, hence nobody may enqueue. *)
LEMMA IInvStopped == IInv => StoppedIsQuiet
<1> SUFFICES ASSUME IInv, m_queue_run_level_ = "stopped"
             PROVE  /\ m_tasks_ = {}
                    /\ m_executing_count_ = 0
                    /\ \A c \in Caller : ~MayEnqueue(c)
                    /\ pc[Owner] \notin {"lock", "wait_completion",
                                         "wake_completion"}
  BY DEF StoppedIsQuiet
<1>1. m_tasks_ = {} /\ m_executing_count_ = 0
  BY DEF IInv, StoppedIsEmpty
<1>2. Holders = {}
  BY <1>1, HoldersFinite, FS_EmptySet DEF IInv, ExecutingCount
<1>3. \A t \in LoopThread : pc[t] # "process"
  BY <1>2 DEF Holders, IInv, HolderPlaces
<1>4. pc[Owner] \in {"join", "destroyed"} /\ mode_ = "stopping"
  BY DEF IInv, OwnerModes
<1>5. \A c \in Caller : ~MayEnqueue(c)
  BY <1>3, <1>4 DEF MayEnqueue, InTask, ClientOpen
<1> QED BY <1>1, <1>4, <1>5

(* One step per action.  Once TypeOK' and ExecutingCount' are known, the   *)
(* rest of IInv' (Places) is about pc, mode_ and the run level.            *)
LEMMA NextIInv == IInv /\ [Next]_vars => IInv'
<1> SUFFICES ASSUME IInv, [Next]_vars PROVE IInv'
  OBVIOUS
<1> USE ThreadAssumption, BoundAssumption, NoTaskAssumption DEF OnlyWakes
<1>0. /\ TypeOK /\ ExecutingCount /\ HolderPlaces
      /\ OwnerModes /\ StoppedIsEmpty /\ ExitMeansStopped
  BY DEF IInv
<1> DEFINE Places == HolderPlaces /\ OwnerModes /\ StoppedIsEmpty
                       /\ ExitMeansStopped
<1>1. ASSUME NEW w \in Worker, StartWorker(w) PROVE IInv'
  <2> USE <1>0, <1>1 DEF StartWorker, queueVars, historyVars
  <2>1. TypeOK'
    BY DEF TypeOK, LoopThread, WorkerPC, OwnerPC
  <2>2. ExecutingCount'
    BY CountUnchanged
  <2>3. Places'
    BY DEF TypeOK, LoopThread, HolderPlaces, OwnerModes, StoppedIsEmpty,
           ExitMeansStopped
  <2> QED BY <2>1, <2>2, <2>3 DEF IInv
<1>2. ASSUME NEW t \in LoopThread, TakeTask(t) PROVE IInv'
  <2> USE <1>0, <1>2 DEF TakeTask, historyVars
  <2>1. PICK r \in m_tasks_ : /\ m_tasks_' = m_tasks_ \ {r}
                              /\ task' = [task EXCEPT ![t] = r]
    OBVIOUS
  <2>2. r \in Ticket
    BY <2>1 DEF TypeOK
  <2>3. ExecutingCount' /\ m_executing_count_' \in Nat
    BY <2>1, <2>2, CountAfterTake
  <2>4. TypeOK'
    BY <2>1, <2>2, <2>3 DEF TypeOK, LoopThread, WorkerPC, OwnerPC
  <2>5. m_queue_run_level_ = "running"
    BY <2>1 DEF StoppedIsEmpty, TypeOK
  <2>6. Places'
    BY <2>1, <2>2, <2>5
    DEF TypeOK, LoopThread, HolderPlaces, OwnerModes, StoppedIsEmpty,
        ExitMeansStopped, OwnerPC
  <2> QED BY <2>3, <2>4, <2>6 DEF IInv
<1>3. ASSUME NEW t \in LoopThread, WaitForTasks(t) PROVE IInv'
  <2> USE <1>0, <1>3 DEF WaitForTasks, historyVars
  <2>1. ExecutingCount' /\ m_executing_count_' \in Nat
    BY CountAfterReport
  <2>2. PICK q : q = Reported(t)
    OBVIOUS
  <2>3. OnlyWakes(q)
    BY <2>2, ReportedIsNotification, NotifyTypes
  <2>4. pc' = [q EXCEPT ![t] = "wait_tasks"]
    BY <2>2
  <2> HIDE DEF WaitForTasks
  <2>5. t \in Worker /\ t # Owner /\ m_queue_run_level_ = "running"
        /\ task' = [task EXCEPT ![t] = NoTask]
        /\ UNCHANGED <<m_tasks_, m_queue_run_level_, mode_, historyVars>>
    BY DEF WaitForTasks
  <2>6. TypeOK'
    BY <2>1, <2>3, <2>4, <2>5 DEF TypeOK, LoopThread, WorkerPC, OwnerPC
  <2>7. Places'
    BY <2>3, <2>4, <2>5
    DEF TypeOK, LoopThread, HolderPlaces, OwnerModes, StoppedIsEmpty,
        ExitMeansStopped, WorkerPC, OwnerPC
  <2> QED BY <2>1, <2>6, <2>7 DEF IInv
<1>4. ASSUME NEW t \in LoopThread, WorkerReturns(t) PROVE IInv'
  <2> USE <1>0, <1>4 DEF WorkerReturns, historyVars
  <2>1. ExecutingCount' /\ m_executing_count_' \in Nat
    BY CountAfterReport
  <2>2. PICK q : q = Reported(t)
    OBVIOUS
  <2>3. OnlyWakes(q)
    BY <2>2, ReportedIsNotification, NotifyTypes
  <2>4. pc' = [q EXCEPT ![t] = "exit"]
    BY <2>2
  <2> HIDE DEF WorkerReturns
  <2>5. t \in Worker /\ t # Owner /\ m_queue_run_level_ = "stopped"
        /\ task' = [task EXCEPT ![t] = NoTask]
        /\ UNCHANGED <<m_tasks_, m_queue_run_level_, mode_, historyVars>>
        /\ m_executing_count_' = Executing(t)
    BY DEF WorkerReturns
  <2>6. TypeOK'
    BY <2>1, <2>3, <2>4, <2>5 DEF TypeOK, LoopThread, WorkerPC, OwnerPC
  <2>7. m_executing_count_' = 0
    <3>1. Holders = {}
      BY <2>5, HoldersFinite, FS_EmptySet DEF StoppedIsEmpty, ExecutingCount
    <3> QED BY <2>5, <3>1 DEF Executing, Holders, StoppedIsEmpty
  <2>8. Places'
    BY <2>3, <2>4, <2>5, <2>7
    DEF TypeOK, LoopThread, HolderPlaces, OwnerModes, StoppedIsEmpty,
        ExitMeansStopped, WorkerPC, OwnerPC
  <2> QED BY <2>1, <2>6, <2>8 DEF IInv
<1>5. CASE OwnerWaits
  <2> USE <1>0, <1>5 DEF OwnerWaits, AtCompletion, historyVars
  <2>1. ExecutingCount' /\ m_executing_count_' \in Nat
    BY CountAfterReport DEF LoopThread
  <2>2. TypeOK'
    BY <2>1 DEF TypeOK, LoopThread, WorkerPC, OwnerPC
  <2>3. Places'
    BY DEF TypeOK, LoopThread, HolderPlaces, OwnerModes, StoppedIsEmpty,
           ExitMeansStopped, WorkerPC, OwnerPC
  <2> QED BY <2>1, <2>2, <2>3 DEF IInv
<1>6. CASE OwnerReturns
  <2> USE <1>0, <1>6 DEF OwnerReturns, AtCompletion, historyVars
  <2>1. ExecutingCount' /\ m_executing_count_' \in Nat
    BY CountAfterReport DEF LoopThread
  <2>2. TypeOK'
    BY <2>1 DEF TypeOK, LoopThread, WorkerPC, OwnerPC
  <2>3. Places'
    BY DEF TypeOK, LoopThread, HolderPlaces, OwnerModes, StoppedIsEmpty,
           ExitMeansStopped, WorkerPC, OwnerPC
  <2> QED BY <2>1, <2>2, <2>3 DEF IInv
<1>7. CASE OwnerStops
  <2> USE <1>0, <1>7 DEF OwnerStops, AtCompletion, historyVars
  <2>1. ExecutingCount' /\ m_executing_count_' \in Nat
    BY CountAfterReport DEF LoopThread
  <2>2. PICK q : q = NotifyAllTasks(pc)
    OBVIOUS
  <2>3. OnlyWakes(q)
    BY <2>2, NotifyTypes
  <2>4. pc' = [q EXCEPT ![Owner] = "join"]
    BY <2>2
  <2>5. m_executing_count_' = 0 /\ m_tasks_' = {}
    BY DEF Complete
  <2>6. TypeOK'
    BY <2>1, <2>3, <2>4 DEF TypeOK, LoopThread, WorkerPC, OwnerPC
  <2>7. Places'
    BY <2>3, <2>4, <2>5
    DEF TypeOK, LoopThread, HolderPlaces, OwnerModes, StoppedIsEmpty,
        ExitMeansStopped, WorkerPC, OwnerPC
  <2> QED BY <2>1, <2>6, <2>7 DEF IInv
<1>8. ASSUME NEW t \in LoopThread, FinishProcess(t) PROVE IInv'
  <2> USE <1>0, <1>8 DEF FinishProcess, queueVars, historyVars
  <2>1. task[t] \in Ticket
    BY DEF TypeOK, HolderPlaces
  <2>2. TypeOK'
    BY <2>1 DEF TypeOK, LoopThread, WorkerPC, OwnerPC
  <2>3. ExecutingCount'
    BY CountUnchanged
  <2>4. Places'
    BY DEF TypeOK, LoopThread, HolderPlaces, OwnerModes, StoppedIsEmpty,
           ExitMeansStopped, WorkerPC, OwnerPC
  <2> QED BY <2>2, <2>3, <2>4 DEF IInv
<1>9. ASSUME NEW t \in LoopThread, SpuriousWakeup(t) PROVE IInv'
  <2> USE <1>0, <1>9 DEF SpuriousWakeup, queueVars, historyVars
  <2>1. TypeOK'
    BY DEF TypeOK, LoopThread, WorkerPC, OwnerPC
  <2>2. ExecutingCount'
    BY CountUnchanged
  <2>3. Places'
    BY DEF TypeOK, LoopThread, HolderPlaces, OwnerModes, StoppedIsEmpty,
           ExitMeansStopped, WorkerPC, OwnerPC
  <2> QED BY <2>1, <2>2, <2>3 DEF IInv
<1>10. CASE Constructed \/ Join \/ WaitForAll \/ Destroy
  <2> USE <1>0, <1>10
      DEF Constructed, Join, WaitForAll, Destroy, queueVars, historyVars
  <2>1. TypeOK'
    BY DEF TypeOK, LoopThread, WorkerPC, OwnerPC
  <2>2. ExecutingCount'
    BY CountUnchanged
  <2>3. Places'
    BY DEF TypeOK, LoopThread, HolderPlaces, OwnerModes, StoppedIsEmpty,
           ExitMeansStopped, WorkerPC, OwnerPC
  <2> QED BY <2>1, <2>2, <2>3 DEF IInv
<1>11. ASSUME NEW c \in Caller, NEW k \in Task, Enqueue(c, k) PROVE IInv'
  <2> USE <1>0, <1>11 DEF Enqueue
  <2>1. [id |-> enqueued + 1, task |-> k] \in Ticket /\ enqueued' \in 0..MaxEnqueue
    BY DEF TypeOK, Ticket
  <2>2. PICK q : q = pc' /\ q \in NotifyOneTask(pc)
    OBVIOUS
  <2>3. OnlyWakes(q)
    BY <2>2, NotifyTypes
  <2>4. m_queue_run_level_ = "running"
    BY IInvStopped DEF StoppedIsQuiet, TypeOK
  <2>5. TypeOK'
    BY <2>1, <2>2, <2>3 DEF TypeOK, LoopThread, WorkerPC, OwnerPC
  <2>6. ExecutingCount'
    BY CountUnchanged
  <2>7. Places'
    BY <2>2, <2>3, <2>4
    DEF TypeOK, LoopThread, HolderPlaces, OwnerModes, StoppedIsEmpty,
        ExitMeansStopped, WorkerPC, OwnerPC
  <2> QED BY <2>5, <2>6, <2>7 DEF IInv
<1>12. ASSUME NEW c \in Caller, CallStep(c), ~\E k \in Task : Enqueue(c, k)
       PROVE  IInv'
  <2>1. PICK S \in SUBSET m_tasks_ : Remove(c, S)
    BY <1>12 DEF CallStep, Cancel, Clear, EraseIf
  <2> USE <1>0, <2>1 DEF Remove
  <2>2. TypeOK'
    BY DEF TypeOK
  <2>3. ExecutingCount'
    BY CountUnchanged
  <2>4. Places'
    BY DEF HolderPlaces, OwnerModes, StoppedIsEmpty, ExitMeansStopped
  <2> QED BY <2>2, <2>3, <2>4 DEF IInv
<1>13. CASE UNCHANGED vars
  BY <1>0, <1>13
  DEF vars, IInv, TypeOK, ExecutingCount, Holders, HolderPlaces, OwnerModes,
      StoppedIsEmpty, ExitMeansStopped
<1> QED
  BY <1>1, <1>2, <1>3, <1>4, <1>5, <1>6, <1>7, <1>8, <1>9, <1>10, <1>11,
     <1>12, <1>13
  DEF Next, LoopStep, OwnerStep, CallStep, Terminated

-----------------------------------------------------------------------------
(* IInv holds in every reachable state. *)
LEMMA SpecIInv == Spec => []IInv
BY InitIInv, NextIInv, PTL DEF Spec

(* Type correctness: every variable of the queue keeps its type, among     *)
(* them the counter, which never goes below zero.                          *)
THEOREM TypeCorrect == Spec => []TypeOK
<1>1. IInv => TypeOK
  BY DEF IInv
<1> QED BY <1>1, SpecIInv, PTL

(* The counter of the task loop is the number of threads that have a task. *)
THEOREM CountIsExact == Spec => []ExecutingCount
<1>1. IInv => ExecutingCount
  BY DEF IInv
<1> QED BY <1>1, SpecIInv, PTL

(* After the destructor has stopped the queue no assertion about the run   *)
(* level can fire: nothing is queued, executing, or able to enqueue.       *)
THEOREM StopIsQuiet == Spec => []StoppedIsQuiet
BY IInvStopped, SpecIInv, PTL

-----------------------------------------------------------------------------
(* Wakeups.                                                                *)

(* While a task is queued a worker is awake: a worker only goes to sleep   *)
(* on an empty queue, and a task that is added to an empty queue wakes up  *)
(* a sleeper or finds none.                                                *)
LEMMA NextQueuedTaskHasWorker ==
  IInv /\ QueuedTaskHasWorker /\ [Next]_vars => QueuedTaskHasWorker'
<1> SUFFICES ASSUME IInv, QueuedTaskHasWorker, [Next]_vars, m_tasks_' # {}
             PROVE  \E w \in Worker : pc'[w] \notin {"wait_tasks", "exit"}
  BY DEF QueuedTaskHasWorker
<1> USE ThreadAssumption
<1>0. TypeOK /\ ExitMeansStopped /\ OwnerModes /\ StoppedIsEmpty
  BY DEF IInv
<1>1. ASSUME NEW c \in Caller, NEW k \in Task, Enqueue(c, k)
      PROVE  \E w \in Worker : pc'[w] \notin {"wait_tasks", "exit"}
  <2>1. pc' \in NotifyOneTask(pc)
    BY <1>1 DEF Enqueue
  <2>2. \A w \in Worker : pc[w] # "exit"
    BY <1>0, <1>1, IInvStopped DEF StoppedIsQuiet, ExitMeansStopped, Enqueue
  <2>3. CASE \A t \in LoopThread : pc[t] # "wait_tasks"
    <3>1. {t \in LoopThread : pc[t] = "wait_tasks"} = {}
      BY <2>3
    <3>2. pc' = pc
      BY <2>1, <3>1 DEF NotifyOneTask
    <3> QED BY <2>2, <2>3, <3>2 DEF LoopThread
  <2>4. CASE \E t \in LoopThread : pc[t] = "wait_tasks"
    <3>1. PICK u \in LoopThread : /\ pc[u] = "wait_tasks"
                                  /\ pc' = [pc EXCEPT ![u] = "wake_tasks"]
      BY <2>1, <2>4 DEF NotifyOneTask
    <3>2. u \in Worker
      BY <1>0, <3>1 DEF TypeOK, OwnerPC, LoopThread
    <3> QED BY <1>0, <3>1, <3>2 DEF TypeOK
  <2> QED BY <2>3, <2>4
<1>3. CASE \E c \in Caller : CallStep(c) /\ ~\E k \in Task : Enqueue(c, k)
  <2>1. UNCHANGED pc /\ m_tasks_ # {}
    BY <1>3 DEF CallStep, Cancel, Clear, EraseIf, Remove
  <2> QED BY <2>1 DEF QueuedTaskHasWorker
<1>4. ASSUME NEW t \in LoopThread,
             LoopStep(t) \/ FinishProcess(t) \/ SpuriousWakeup(t)
      PROVE  \E w \in Worker : pc'[w] \notin {"wait_tasks", "exit"}
  BY <1>0, <1>4
  DEF LoopStep, TakeTask, WaitForTasks, WorkerReturns, FinishProcess,
      SpuriousWakeup, QueuedTaskHasWorker, TypeOK, LoopThread, queueVars
<1>5. CASE OwnerWaits \/ OwnerReturns \/ Constructed \/ Join \/ WaitForAll
             \/ Destroy \/ UNCHANGED vars
             \/ (\E w \in Worker : StartWorker(w))
  BY <1>0, <1>5
  DEF OwnerWaits, OwnerReturns, Constructed, Join, WaitForAll, Destroy, vars,
      StartWorker, QueuedTaskHasWorker, TypeOK, LoopThread, queueVars
<1>6. CASE OwnerStops
  BY <1>6 DEF OwnerStops, Complete
<1> QED
  BY <1>1, <1>3, <1>4, <1>5, <1>6 DEF Next, CallStep, OwnerStep, Terminated

(* A queued task always has a worker that is awake: no wakeup for a new    *)
(* task is lost, whoever dequeues what and in whatever order.              *)
THEOREM NoLostTaskWakeup == Spec => []QueuedTaskHasWorker
<1>1. Init => QueuedTaskHasWorker
  BY DEF Init, QueuedTaskHasWorker
<1> QED BY <1>1, SpecIInv, NextQueuedTaskHasWorker, PTL DEF Spec

(* While nobody outside of the tasks removes tickets, a step that makes    *)
(* the completion predicate true is the report of a last task, and that    *)
(* step wakes up the owner.                                                *)
LEMMA NextSleepingOwnerHasWork ==
  ASSUME RemovingClient = {}, IInv, SleepingOwnerHasWork, [Next]_vars
  PROVE  SleepingOwnerHasWork'
<1> SUFFICES ASSUME pc'[Owner] = "wait_completion"
             PROVE  m_tasks_' # {} \/ m_executing_count_' > 0
  BY DEF SleepingOwnerHasWork
<1> USE ThreadAssumption
<1>0. TypeOK /\ ExecutingCount /\ OwnerModes /\ HolderPlaces
  BY DEF IInv
<1>1. ASSUME NEW c \in Caller, NEW k \in Task, Enqueue(c, k)
      PROVE  m_tasks_' # {}
  BY <1>1 DEF Enqueue
<1>2. ASSUME NEW c \in Caller, CallStep(c), ~\E k \in Task : Enqueue(c, k)
      PROVE  m_executing_count_' > 0
  <2>1. MayRemove(c) /\ UNCHANGED <<pc, m_executing_count_>>
    BY <1>2 DEF CallStep, Cancel, Clear, EraseIf, Remove
  <2>2. InTask(c)
    BY <2>1 DEF MayRemove
  <2>3. c \in Holders
    BY <1>0, <2>2 DEF InTask, HolderPlaces, Holders
  <2> QED BY <1>0, <2>1, <2>3, HoldersFinite, FS_EmptySet
          DEF ExecutingCount, TypeOK
<1>3. ASSUME NEW t \in LoopThread, TakeTask(t)
      PROVE  m_executing_count_' > 0
  <2>1. Executing(t) \in Nat
    BY <1>0, ExecutingCountsOthers
  <2> QED BY <1>3, <2>1 DEF TakeTask
<1>4. ASSUME NEW t \in LoopThread, WaitForTasks(t) \/ WorkerReturns(t)
      PROVE  m_executing_count_' > 0
  <2>1. PICK q : q = Reported(t)
    OBVIOUS
  <2>2. OnlyWakes(q)
    BY <1>0, <2>1, ReportedIsNotification, NotifyTypes
  <2>3. /\ t \in Worker /\ m_tasks_ = {}
        /\ m_executing_count_' = Executing(t)
        /\ q[Owner] = "wait_completion"
    BY <1>4, <2>1, <2>2 DEF WaitForTasks, WorkerReturns, OnlyWakes, LoopThread
  <2>4. pc[Owner] = "wait_completion"
    BY <2>2, <2>3 DEF OnlyWakes, LoopThread
  <2>5. CASE task[t] = NoTask
    BY <2>3, <2>4, <2>5 DEF Executing, SleepingOwnerHasWork
  <2>6. CASE task[t] # NoTask /\ Executing(t) = 0
    BY <2>1, <2>3, <2>4, <2>6 DEF Reported, NotifyAllCompletion, LoopThread
  <2>7. CASE Executing(t) # 0
    <3>1. Executing(t) \in Nat
      BY <1>0, ExecutingCountsOthers
    <3> QED BY <2>3, <2>7, <3>1
  <2> QED BY <2>5, <2>6, <2>7
<1>5. CASE OwnerWaits
  <2>1. Executing(Owner) \in Nat
    BY <1>0, ExecutingCountsOthers DEF LoopThread
  <2> QED BY <1>5, <2>1 DEF OwnerWaits, Complete
<1>6. CASE \/ OwnerReturns \/ OwnerStops \/ Constructed \/ Join \/ WaitForAll
           \/ Destroy \/ UNCHANGED vars
           \/ \E w \in Worker : StartWorker(w)
           \/ \E t \in LoopThread : FinishProcess(t) \/ SpuriousWakeup(t)
  BY <1>0, <1>6
  DEF OwnerReturns, OwnerStops, Constructed, Join, WaitForAll, Destroy, vars,
      StartWorker, FinishProcess, SpuriousWakeup, SleepingOwnerHasWork,
      NotifyAllTasks, TypeOK, LoopThread, queueVars
<1> QED
  BY <1>1, <1>2, <1>3, <1>4, <1>5, <1>6
  DEF Next, LoopStep, CallStep, OwnerStep, Terminated

(* The owner never sleeps on a condition that already holds, provided that *)
(* tickets are only removed by the owner and by running tasks.             *)
THEOREM NoLostCompletion ==
  ASSUME RemovingClient = {}
  PROVE  Spec => []SleepingOwnerHasWork
<1>1. Init => SleepingOwnerHasWork
  BY DEF Init, SleepingOwnerHasWork, LoopThread
<1>2. IInv /\ SleepingOwnerHasWork /\ [Next]_vars => SleepingOwnerHasWork'
  BY NextSleepingOwnerHasWork
<1> QED BY <1>1, <1>2, SpecIInv, PTL DEF Spec

-----------------------------------------------------------------------------
(* Refinement: TaskQueue implements TaskPool.                              *)

(* The identities issued so far go up to enqueued, so that of the next     *)
(* ticket is new.                                                          *)
IssuedIds == \A r \in Submitted : r.id \in 1..enqueued

(* The abstract state is determined by who is inside process(). *)
LEMMA SameProcessing ==
  ASSUME \A t \in LoopThread : pc'[t] = "process" <=> pc[t] = "process",
         \A t \in LoopThread : pc[t] = "process" => task'[t] = task[t]
  PROVE  Running' = Running /\ Held' = Held
<1>1. Processing' = Processing
  BY DEF Processing
<1>2. Held' = Held
  BY <1>1 DEF Held, Processing
<1>3. Running' = Running
  BY DEF Running
<1> QED BY <1>2, <1>3

(* Each step maps to a step of the pool or leaves the pool unchanged, and  *)
(* only Enqueue adds to the tickets issued.                                *)
LEMMA NextPool ==
  ASSUME IInv, IssuedIds, [Next]_vars
  PROVE  [Pool!PoolNext]_(Pool!poolVars) /\ IssuedIds'
<1> USE ThreadAssumption, NoTaskAssumption
<1>0. /\ TypeOK /\ ExecutingCount /\ HolderPlaces
      /\ OwnerModes /\ StoppedIsEmpty
  BY DEF IInv
<1>1. ASSUME NEW t \in LoopThread, TakeTask(t)
      PROVE  /\ \E r \in Ticket : Pool!Start(t, r)
             /\ Submitted' = Submitted
  <2> USE <1>0, <1>1 DEF TakeTask, historyVars
  <2>1. PICK r \in m_tasks_ : /\ m_tasks_' = m_tasks_ \ {r}
                              /\ task' = [task EXCEPT ![t] = r]
    OBVIOUS
  <2>2. r \in Ticket /\ pc[t] # "process"
    BY <2>1 DEF TypeOK
  <2>3. Running[t] = NoTask /\ Running' = [Running EXCEPT ![t] = r]
    BY <2>1, <2>2 DEF Running, TypeOK
  <2>4. Held' = Held \union {r}
    <3>1. Processing' = Processing \union {t}
      BY DEF Processing, TypeOK
    <3> QED BY <2>1, <2>2, <3>1 DEF Held, Processing, TypeOK
  <2>5. Submitted' = Submitted
    BY <2>1, <2>4 DEF Submitted
  <2>6. PoolPhase' = PoolPhase
    BY DEF PoolPhase
  <2> QED BY <2>1, <2>2, <2>3, <2>5, <2>6 DEF Pool!Start
<1>2. ASSUME NEW t \in LoopThread, FinishProcess(t)
      PROVE  Pool!Complete(t) /\ Submitted' = Submitted
  <2> USE <1>0, <1>2 DEF FinishProcess, queueVars
  <2>1. /\ Running[t] # NoTask
        /\ Running' = [Running EXCEPT ![t] = NoTask]
    BY DEF Running, TypeOK, HolderPlaces
  <2>2. Held \subseteq Held' \union {task[t]} /\ Held' \subseteq Held
    BY DEF Held, Processing, TypeOK
  <2>3. Submitted' = Submitted
    <3>1. task[t] \in Held
      BY DEF Held, Processing
    <3> QED BY <2>2, <3>1 DEF Submitted
  <2>4. PoolPhase' = PoolPhase
    BY DEF PoolPhase
  <2> QED BY <2>1, <2>3, <2>4 DEF Pool!Complete
<1>3. ASSUME NEW c \in Caller, NEW k \in Task, Enqueue(c, k)
      PROVE  (\E r \in Ticket : Pool!Submit(r)) /\ IssuedIds'
  <2> DEFINE r == [id |-> enqueued + 1, task |-> k]
  <2>1. /\ m_tasks_' = m_tasks_ \union {r}
        /\ enqueued' = enqueued + 1
        /\ UNCHANGED <<m_queue_run_level_, task, mode_, finished, removed>>
    BY <1>3 DEF Enqueue
  <2>2. r \in Ticket
    BY <1>0, <1>3, BoundAssumption DEF Ticket, TypeOK, Enqueue
  <2>3. r \notin Submitted
    BY <1>0 DEF IssuedIds, TypeOK
  <2>4. Running' = Running /\ Held' = Held
    <3>1. pc' \in NotifyOneTask(pc)
      BY <1>3 DEF Enqueue
    <3>2. OnlyWakes(pc')
      BY <1>0, <3>1, NotifyTypes
    <3> QED BY <2>1, <3>2, SameProcessing DEF OnlyWakes
  <2>5. Submitted' = Submitted \union {r}
    BY <2>1, <2>4 DEF Submitted
  <2>6. PoolPhase' = PoolPhase /\ PoolPhase # "closed"
    <3>1. m_queue_run_level_ # "stopped"
      BY <1>3, IInvStopped DEF StoppedIsQuiet, Enqueue
    <3> QED BY <1>0, <2>1, <3>1 DEF PoolPhase, TypeOK
  <2>7. Pool!Submit(r)
    BY <2>1, <2>3, <2>4, <2>5, <2>6 DEF Pool!Submit
  <2>8. IssuedIds'
    BY <1>0, <2>1, <2>5 DEF IssuedIds, TypeOK
  <2> QED BY <2>2, <2>7, <2>8
<1>4. ASSUME NEW c \in Caller, NEW S \in SUBSET m_tasks_, Remove(c, S)
      PROVE  (\E T \in SUBSET Ticket : Pool!Withdraw(T)) /\ Submitted' = Submitted
  <2> USE <1>4 DEF Remove
  <2>1. Running' = Running /\ Held' = Held
    BY SameProcessing
  <2>2. Submitted' = Submitted
    BY <2>1 DEF Submitted
  <2>3. PoolPhase' = PoolPhase
    BY DEF PoolPhase
  <2>4. Pool!Withdraw(S) /\ S \in SUBSET Ticket
    BY <1>0, <2>1, <2>2, <2>3 DEF Pool!Withdraw, TypeOK
  <2> QED BY <2>2, <2>4
<1>5. ASSUME OwnerReturns \/ OwnerStops
      PROVE  (Pool!EndWait \/ Pool!EndClose) /\ Submitted' = Submitted
  <2> USE <1>0, <1>5 DEF OwnerReturns, OwnerStops, AtCompletion, historyVars
  <2>1. /\ m_tasks_ = {} /\ Executing(Owner) = 0 /\ pc[Owner] # "process"
        /\ m_tasks_' = m_tasks_
        /\ task' = [task EXCEPT ![Owner] = NoTask]
    BY DEF Complete
  <2>2. \A t \in LoopThread : pc[t] # "process"
    <3>1. \A t \in LoopThread \ {Owner} : task[t] = NoTask
      BY <2>1, NoOtherHolder DEF LoopThread
    <3> QED BY <2>1, <3>1 DEF HolderPlaces
  <2>3. \A t \in LoopThread : pc'[t] # "process"
    BY <2>2 DEF NotifyAllTasks, TypeOK, LoopThread
  <2>4. Running' = Running /\ Held' = Held
    BY <2>2, <2>3, SameProcessing
  <2>5. Submitted' = Submitted
    BY <2>1, <2>4 DEF Submitted
  <2>6. \A t \in LoopThread : Running[t] = NoTask
    BY <2>2 DEF Running
  <2>7. ~Pool!Outstanding
    BY <2>1, <2>6 DEF Pool!Outstanding
  <2>8. m_queue_run_level_ = "running"
    BY DEF OwnerModes, TypeOK
  <2>9. CASE OwnerReturns
    BY <2>1, <2>4, <2>5, <2>7, <2>8, <2>9 DEF Pool!EndWait, PoolPhase
  <2>10. CASE OwnerStops
    BY <2>1, <2>4, <2>5, <2>7, <2>8, <2>10 DEF Pool!EndClose, PoolPhase
  <2> QED BY <2>5, <2>9, <2>10
<1>6. ASSUME WaitForAll \/ Destroy
      PROVE  (Pool!BeginWait \/ Pool!BeginClose) /\ Submitted' = Submitted
  <2> USE <1>0, <1>6 DEF WaitForAll, Destroy, queueVars, historyVars
  <2>1. Running' = Running /\ Held' = Held
    BY SameProcessing DEF TypeOK, LoopThread
  <2>2. Submitted' = Submitted
    BY <2>1 DEF Submitted
  <2>3. mode_ = "none" /\ m_queue_run_level_ = "running"
    BY DEF OwnerModes, TypeOK
  <2> QED BY <2>1, <2>2, <2>3 DEF Pool!BeginWait, Pool!BeginClose, PoolPhase
<1>7. ASSUME NEW t \in LoopThread, WaitForTasks(t) \/ WorkerReturns(t)
      PROVE  UNCHANGED <<Running, Held, m_tasks_, finished, removed, PoolPhase>>
  <2>1. PICK q : q = Reported(t)
    OBVIOUS
  <2>2. OnlyWakes(q)
    BY <1>0, <2>1, ReportedIsNotification, NotifyTypes
  <2>3. /\ pc[t] # "process"
        /\ pc' = [q EXCEPT ![t] = "wait_tasks"] \/ pc' = [q EXCEPT ![t] = "exit"]
        /\ task' = [task EXCEPT ![t] = NoTask]
        /\ UNCHANGED <<m_tasks_, finished, removed, m_queue_run_level_, mode_>>
    BY <1>7, <2>1 DEF WaitForTasks, WorkerReturns, historyVars
  <2>4. Running' = Running /\ Held' = Held
    BY <1>0, <2>2, <2>3, SameProcessing DEF OnlyWakes, TypeOK
  <2> QED BY <2>3, <2>4 DEF PoolPhase
<1>8. ASSUME \/ OwnerWaits \/ Constructed \/ Join \/ UNCHANGED vars
             \/ \E w \in Worker : StartWorker(w)
             \/ \E t \in LoopThread : SpuriousWakeup(t)
      PROVE  UNCHANGED <<Running, Held, m_tasks_, finished, removed, PoolPhase>>
  <2> USE <1>0, <1>8
      DEF OwnerWaits, AtCompletion, Constructed, Join, vars, StartWorker,
          SpuriousWakeup, queueVars, historyVars
  <2>1. Running' = Running /\ Held' = Held
    BY SameProcessing DEF TypeOK, LoopThread
  <2>2. UNCHANGED <<m_tasks_, finished, removed, m_queue_run_level_, mode_>>
    OBVIOUS
  <2> QED BY <2>1, <2>2 DEF PoolPhase
<1>9. UNCHANGED <<Running, Held, m_tasks_, finished, removed, PoolPhase>>
        => UNCHANGED Pool!poolVars
  BY DEF Pool!poolVars, Submitted
<1>10. Submitted' = Submitted /\ enqueued' = enqueued => IssuedIds'
  BY DEF IssuedIds
<1>11. CASE \E c \in Caller : \E k \in Task : Enqueue(c, k)
  BY <1>3, <1>11 DEF Pool!PoolNext
<1>12. CASE \E c \in Caller : CallStep(c) /\ ~\E k \in Task : Enqueue(c, k)
  <2>1. PICK c \in Caller, S \in SUBSET m_tasks_ : Remove(c, S)
    BY <1>12 DEF CallStep, Cancel, Clear, EraseIf
  <2> QED BY <1>4, <1>10, <2>1 DEF Pool!PoolNext, Remove
<1>13. CASE \E t \in LoopThread : TakeTask(t)
  BY <1>1, <1>10, <1>13 DEF Pool!PoolNext, TakeTask, historyVars
<1>14. CASE \E t \in LoopThread : FinishProcess(t)
  BY <1>2, <1>10, <1>14 DEF Pool!PoolNext, FinishProcess
<1>15. CASE OwnerReturns \/ OwnerStops
  BY <1>5, <1>10, <1>15 DEF Pool!PoolNext, OwnerReturns, OwnerStops, historyVars
<1>16. CASE WaitForAll \/ Destroy
  BY <1>6, <1>10, <1>16 DEF Pool!PoolNext, WaitForAll, Destroy, historyVars
<1>17. CASE \E t \in LoopThread : WaitForTasks(t) \/ WorkerReturns(t)
  <2>1. UNCHANGED enqueued
    BY <1>17 DEF WaitForTasks, WorkerReturns, historyVars
  <2>2. UNCHANGED <<Running, Held, m_tasks_, finished, removed, PoolPhase>>
    BY <1>7, <1>17
  <2> QED BY <1>9, <1>10, <2>1, <2>2 DEF Submitted
<1>18. CASE \/ OwnerWaits \/ Constructed \/ Join \/ UNCHANGED vars
            \/ \E w \in Worker : StartWorker(w)
            \/ \E t \in LoopThread : SpuriousWakeup(t)
  <2>1. UNCHANGED enqueued
    BY <1>18 DEF OwnerWaits, Constructed, Join, vars, StartWorker,
                 SpuriousWakeup, historyVars
  <2>2. UNCHANGED <<Running, Held, m_tasks_, finished, removed, PoolPhase>>
    BY <1>8, <1>18
  <2> QED BY <1>9, <1>10, <2>1, <2>2 DEF Submitted
<1> QED
  BY <1>11, <1>12, <1>13, <1>14, <1>15, <1>16, <1>17, <1>18
  DEF Next, LoopStep, OwnerStep, CallStep, Terminated

(* The task queue implements the pool: a ticket is executed at most once,  *)
(* never after it was removed, and neither wait_for_all nor the destructor *)
(* gets past its wait while a ticket is queued or a task is running.       *)
THEOREM ImplementsPool == Spec => PoolSpec
<1>1. Init => Pool!PoolInit /\ IssuedIds
  <2> SUFFICES ASSUME Init PROVE Pool!PoolInit /\ IssuedIds
    OBVIOUS
  <2>1. Held = {}
    BY DEF Init, Held, Processing, LoopThread
  <2>2. Submitted = {}
    BY <2>1 DEF Init, Submitted
  <2>3. Running = [t \in LoopThread |-> NoTask]
    BY DEF Init, Running
  <2>4. PoolPhase = "open"
    BY DEF Init, PoolPhase
  <2> QED BY <2>2, <2>3, <2>4 DEF Init, Pool!PoolInit, IssuedIds
<1>2. IInv /\ IssuedIds /\ [Next]_vars
        => [Pool!PoolNext]_(Pool!poolVars) /\ IssuedIds'
  BY NextPool
<1> QED BY <1>1, <1>2, SpecIInv, PTL DEF Spec, PoolSpec, Pool!PoolSpec

-----------------------------------------------------------------------------
(* Every ticket is in one place.  EachTicketOnce counts the places; what   *)
(* keeps the count right is that no two of them have a ticket in common.   *)

TicketsApart ==
  /\ IsFiniteSet(m_tasks_) /\ IsFiniteSet(finished) /\ IsFiniteSet(removed)
  /\ m_tasks_ \intersect finished = {}
  /\ m_tasks_ \intersect removed = {}
  /\ finished \intersect removed = {}
  /\ \A t \in Processing : task[t] \notin m_tasks_ \union finished \union removed
  /\ \A t, u \in Processing : task[t] = task[u] => t = u

TicketInv == TicketsApart /\ EachTicketOnce

(* What a step may do with tickets: dequeue one, finish one, issue one,    *)
(* remove some, or leave each where it is.                                 *)
Dequeues(t, r) ==
  /\ r \in m_tasks_ /\ t \in LoopThread \ Processing
  /\ Processing' = Processing \union {t}
  /\ m_tasks_' = m_tasks_ \ {r}
  /\ task' = [task EXCEPT ![t] = r]
  /\ UNCHANGED historyVars

Finishes(t) ==
  /\ t \in Processing
  /\ Processing' = Processing \ {t}
  /\ finished' = finished \union {task[t]}
  /\ UNCHANGED <<m_tasks_, task, enqueued, removed>>

Issues(r) ==
  /\ r \in Ticket /\ r.id = enqueued + 1
  /\ m_tasks_' = m_tasks_ \union {r}
  /\ enqueued' = enqueued + 1
  /\ Processing' = Processing
  /\ UNCHANGED <<task, finished, removed>>

Removes(S) ==
  /\ S \subseteq m_tasks_
  /\ m_tasks_' = m_tasks_ \ S
  /\ removed' = removed \union S
  /\ Processing' = Processing
  /\ UNCHANGED <<task, enqueued, finished>>

MovesNothing ==
  /\ Processing' = Processing
  /\ \A t \in Processing : task'[t] = task[t]
  /\ UNCHANGED <<m_tasks_, enqueued, finished, removed>>

LEMMA NextMovesTickets ==
  ASSUME IInv, [Next]_vars
  PROVE  \/ \E t \in LoopThread, r \in m_tasks_ : Dequeues(t, r)
         \/ \E t \in LoopThread : Finishes(t)
         \/ \E r \in Ticket : Issues(r)
         \/ \E S \in SUBSET m_tasks_ : Removes(S)
         \/ MovesNothing
<1> USE ThreadAssumption, NoTaskAssumption
<1>0. TypeOK /\ HolderPlaces /\ OwnerModes
  BY DEF IInv
<1>1. ASSUME NEW t \in LoopThread, TakeTask(t)
      PROVE  \E r \in m_tasks_ : Dequeues(t, r)
  <2>1. PICK r \in m_tasks_ : /\ m_tasks_' = m_tasks_ \ {r}
                              /\ task' = [task EXCEPT ![t] = r]
    BY <1>1 DEF TakeTask
  <2>2. t \notin Processing /\ Processing' = Processing \union {t}
    BY <1>0, <1>1 DEF TakeTask, Processing, TypeOK
  <2> QED BY <1>1, <2>1, <2>2 DEF Dequeues, TakeTask
<1>2. ASSUME NEW t \in LoopThread, FinishProcess(t)
      PROVE  Finishes(t)
  <2>1. t \in Processing /\ Processing' = Processing \ {t}
    BY <1>0, <1>2 DEF FinishProcess, Processing, TypeOK
  <2> QED BY <1>2, <2>1 DEF Finishes, FinishProcess, queueVars
<1>3. ASSUME NEW c \in Caller, NEW k \in Task, Enqueue(c, k)
      PROVE  \E r \in Ticket : Issues(r)
  <2> DEFINE r == [id |-> enqueued + 1, task |-> k]
  <2>1. r \in Ticket /\ r.id = enqueued + 1
    BY <1>0, <1>3, BoundAssumption DEF Ticket, TypeOK, Enqueue
  <2>2. OnlyWakes(pc')
    BY <1>0, <1>3, NotifyTypes DEF Enqueue
  <2>3. Processing' = Processing
    BY <2>2 DEF Processing, OnlyWakes
  <2> QED BY <1>3, <2>1, <2>3 DEF Issues, Enqueue
<1>4. ASSUME NEW c \in Caller, NEW S \in SUBSET m_tasks_, Remove(c, S)
      PROVE  Removes(S)
  BY <1>4 DEF Remove, Removes, Processing
<1>5. ASSUME NEW t \in LoopThread, WaitForTasks(t) \/ WorkerReturns(t)
      PROVE  MovesNothing
  <2>1. PICK q : q = Reported(t)
    OBVIOUS
  <2>2. OnlyWakes(q)
    BY <1>0, <2>1, ReportedIsNotification, NotifyTypes
  <2>3. /\ pc[t] # "process"
        /\ pc' = [q EXCEPT ![t] = "wait_tasks"] \/ pc' = [q EXCEPT ![t] = "exit"]
        /\ task' = [task EXCEPT ![t] = NoTask]
        /\ UNCHANGED <<m_tasks_, historyVars>>
    BY <1>5, <2>1 DEF WaitForTasks, WorkerReturns
  <2> QED BY <1>0, <2>2, <2>3
          DEF OnlyWakes, MovesNothing, Processing, TypeOK, historyVars
<1>6. ASSUME OwnerStops
      PROVE  MovesNothing
  <2>1. PICK q : q = NotifyAllTasks(pc)
    OBVIOUS
  <2>2. OnlyWakes(q)
    BY <1>0, <2>1, NotifyTypes
  <2>3. /\ pc[Owner] # "process"
        /\ pc' = [q EXCEPT ![Owner] = "join"]
        /\ task' = [task EXCEPT ![Owner] = NoTask]
        /\ UNCHANGED <<m_tasks_, historyVars>>
    BY <1>6, <2>1 DEF OwnerStops, AtCompletion
  <2> QED BY <1>0, <2>2, <2>3
          DEF OnlyWakes, MovesNothing, Processing, TypeOK, historyVars, LoopThread
<1>7. ASSUME \/ OwnerWaits \/ OwnerReturns \/ Constructed \/ Join
             \/ WaitForAll \/ Destroy \/ UNCHANGED vars
             \/ \E w \in Worker : StartWorker(w)
             \/ \E t \in LoopThread : SpuriousWakeup(t)
      PROVE  MovesNothing
  BY <1>0, <1>7
  DEF OwnerWaits, OwnerReturns, AtCompletion, Constructed, Join, WaitForAll,
      Destroy, StartWorker, SpuriousWakeup, vars, queueVars, historyVars,
      MovesNothing, Processing, TypeOK, LoopThread
<1>8. CASE \E c \in Caller : CallStep(c) /\ ~\E k \in Task : Enqueue(c, k)
  <2>1. PICK c \in Caller, S \in SUBSET m_tasks_ : Remove(c, S)
    BY <1>8 DEF CallStep, Cancel, Clear, EraseIf
  <2> QED BY <1>4, <2>1
<1> QED
  BY <1>1, <1>2, <1>3, <1>5, <1>6, <1>7, <1>8
  DEF Next, LoopStep, OwnerStep, CallStep, Terminated

(* There are finitely many threads inside process(). *)
LEMMA ProcessingFinite == IsFiniteSet(Processing)
<1>1. IsFiniteSet(LoopThread)
  BY ThreadAssumption, FS_AddElement DEF LoopThread
<1> QED BY <1>1, FS_Subset DEF Processing

(* The identities in use are those of the tickets in the four places. *)
InPlaces == m_tasks_ \union Held \union finished \union removed

(* The size of two sets with nothing in common. *)
LEMMA DisjointUnion ==
  ASSUME NEW A, NEW B, IsFiniteSet(A), IsFiniteSet(B), A \intersect B = {}
  PROVE  /\ IsFiniteSet(A \union B)
         /\ Cardinality(A \union B) = Cardinality(A) + Cardinality(B)
         /\ Cardinality(A) \in Nat /\ Cardinality(B) \in Nat
<1>1. Cardinality(A \intersect B) = 0
  BY FS_EmptySet
<1>2. Cardinality(A) \in Nat /\ Cardinality(B) \in Nat
  BY FS_CardinalityType
<1>3. /\ IsFiniteSet(A \union B)
      /\ Cardinality(A \union B)
           = Cardinality(A) + Cardinality(B) - Cardinality(A \intersect B)
  BY FS_Union
<1> QED BY <1>1, <1>2, <1>3

(* The size of a set that loses some of its elements. *)
LEMMA TakenFrom ==
  ASSUME NEW A, NEW B, IsFiniteSet(A), B \subseteq A
  PROVE  /\ IsFiniteSet(A \ B) /\ IsFiniteSet(B)
         /\ Cardinality(A) = Cardinality(A \ B) + Cardinality(B)
         /\ Cardinality(A \ B) \in Nat /\ Cardinality(B) \in Nat
<1>1. IsFiniteSet(A \ B) /\ IsFiniteSet(B)
  BY FS_Subset
<1>2. (A \ B) \union B = A /\ (A \ B) \intersect B = {}
  OBVIOUS
<1> QED BY <1>1, <1>2, DisjointUnion

(* One step per way in which tickets move; in each the places stay apart,  *)
(* and what one of them loses another gains.                               *)
LEMMA NextTicketInv ==
  ASSUME IInv, TicketInv, [Next]_vars
  PROVE  TicketInv'
<1> USE NoTaskAssumption
<1>0. TypeOK /\ HolderPlaces /\ TicketsApart
  BY DEF IInv, TicketInv
<1> DEFINE Count == Cardinality(m_tasks_) + Cardinality(Processing)
                      + Cardinality(finished) + Cardinality(removed)
<1>1. /\ {r.id : r \in InPlaces} = 1..enqueued
      /\ Count = enqueued
  BY DEF TicketInv, EachTicketOnce, InPlaces
<1>2. /\ IsFiniteSet(Processing)
      /\ Cardinality(m_tasks_) \in Nat /\ Cardinality(Processing) \in Nat
      /\ Cardinality(finished) \in Nat /\ Cardinality(removed) \in Nat
  BY <1>0, ProcessingFinite, FS_CardinalityType DEF TicketsApart
<1>3. ASSUME TicketsApart', InPlaces' = InPlaces, enqueued' = enqueued, Count' = Count
      PROVE  TicketInv'
  BY <1>1, <1>3 DEF TicketInv, EachTicketOnce, InPlaces
<1>4. ASSUME NEW t \in LoopThread, NEW r \in m_tasks_, Dequeues(t, r)
      PROVE  TicketInv'
  <2> USE <1>4 DEF Dequeues, historyVars
  <2>1. \A u \in Processing : u # t /\ task'[u] = task[u] /\ task[u] # r
    BY <1>0 DEF TypeOK, TicketsApart, Processing
  <2>2. task'[t] = r /\ r \notin finished \union removed
    BY <1>0 DEF TypeOK, TicketsApart
  <2>3. /\ IsFiniteSet(m_tasks_')
        /\ Cardinality(m_tasks_') = Cardinality(m_tasks_) - 1
        /\ Cardinality(Processing') = Cardinality(Processing) + 1
    BY <1>0, <1>2, FS_RemoveElement, FS_AddElement DEF TicketsApart
  <2>4. TicketsApart'
    <3>1. \A u \in Processing' : task'[u] \notin m_tasks_' \union finished' \union removed'
      BY <1>0, <2>1, <2>2 DEF TicketsApart
    <3>2. \A u, v \in Processing' : task'[u] = task'[v] => u = v
      BY <1>0, <2>1, <2>2 DEF TicketsApart
    <3> QED BY <1>0, <2>3, <3>1, <3>2 DEF TicketsApart
  <2>5. InPlaces' = InPlaces
    <3>1. Held' = Held \union {r}
      BY <2>1, <2>2 DEF Held
    <3> QED BY <3>1 DEF InPlaces
  <2> QED BY <1>2, <1>3, <2>3, <2>4, <2>5
<1>5. ASSUME NEW t \in LoopThread, Finishes(t)
      PROVE  TicketInv'
  <2> USE <1>5 DEF Finishes
  <2>1. task[t] \notin m_tasks_ \union finished \union removed
    BY <1>0 DEF TicketsApart
  <2>2. /\ IsFiniteSet(finished')
        /\ Cardinality(finished') = Cardinality(finished) + 1
        /\ Cardinality(Processing') = Cardinality(Processing) - 1
    BY <1>0, <1>2, <2>1, FS_RemoveElement, FS_AddElement DEF TicketsApart
  <2>3. TicketsApart'
    BY <1>0, <2>1, <2>2 DEF TicketsApart
  <2>4. InPlaces' = InPlaces
    <3>1. Held = Held' \union {task[t]}
      BY DEF Held
    <3> QED BY <3>1 DEF InPlaces
  <2> QED BY <1>2, <1>3, <2>2, <2>3, <2>4
<1>6. ASSUME NEW r \in Ticket, Issues(r)
      PROVE  TicketInv'
  <2> USE <1>6 DEF Issues
  <2>1. Held' = Held
    BY DEF Held
  <2>2. r \notin InPlaces
    BY <1>0, <1>1 DEF TypeOK
  <2>3. /\ IsFiniteSet(m_tasks_')
        /\ Cardinality(m_tasks_') = Cardinality(m_tasks_) + 1
    BY <1>0, <2>2, FS_AddElement DEF TicketsApart, InPlaces
  <2>4. \A t \in Processing : task[t] \in InPlaces
    BY DEF InPlaces, Held
  <2>5. TicketsApart'
    BY <1>0, <2>2, <2>3, <2>4 DEF TicketsApart, InPlaces
  <2>6. InPlaces' = InPlaces \union {r}
    BY <2>1 DEF InPlaces
  <2>7. {s.id : s \in InPlaces'} = (1..enqueued) \union {r.id}
    BY <1>1, <2>6
  <2>8. (1..enqueued) \union {enqueued + 1} = 1..(enqueued + 1)
    BY <1>0 DEF TypeOK
  <2>9. Count' = enqueued'
    BY <1>0, <1>1, <1>2, <2>3 DEF TypeOK
  <2> QED BY <2>5, <2>7, <2>8, <2>9 DEF TicketInv, EachTicketOnce, InPlaces
<1>7. ASSUME NEW S \in SUBSET m_tasks_, Removes(S)
      PROVE  TicketInv'
  <2> USE <1>7 DEF Removes
  <2>1. Held' = Held
    BY DEF Held
  <2>2. /\ IsFiniteSet(m_tasks_') /\ IsFiniteSet(S)
        /\ Cardinality(m_tasks_) = Cardinality(m_tasks_') + Cardinality(S)
        /\ Cardinality(m_tasks_') \in Nat /\ Cardinality(S) \in Nat
    BY <1>0, TakenFrom DEF TicketsApart
  <2>3. /\ IsFiniteSet(removed')
        /\ Cardinality(removed') = Cardinality(removed) + Cardinality(S)
    <3>1. removed \intersect S = {}
      BY <1>0 DEF TicketsApart
    <3> QED BY <1>0, <2>2, <3>1, DisjointUnion DEF TicketsApart
  <2>4. TicketsApart'
    BY <1>0, <2>2, <2>3 DEF TicketsApart
  <2>5. InPlaces' = InPlaces
    BY <2>1 DEF InPlaces
  <2> QED BY <1>2, <1>3, <2>2, <2>3, <2>4, <2>5
<1>8. ASSUME MovesNothing
      PROVE  TicketInv'
  <2> USE <1>8 DEF MovesNothing
  <2>1. InPlaces' = InPlaces
    BY DEF InPlaces, Held
  <2>2. TicketsApart'
    BY <1>0 DEF TicketsApart
  <2> QED BY <1>3, <2>1, <2>2
<1> QED BY <1>4, <1>5, <1>6, <1>7, <1>8, NextMovesTickets

(* No ticket is lost, executed twice, or executed after it was removed:    *)
(* whatever the threads do, each is in one place.                          *)
THEOREM TicketsAreConserved == Spec => []EachTicketOnce
<1>1. Init => TicketInv
  <2> SUFFICES ASSUME Init PROVE TicketInv
    OBVIOUS
  <2>1. Processing = {} /\ Held = {}
    BY DEF Init, Processing, Held, LoopThread
  <2>2. {r.id : r \in {}} = 1..0
    OBVIOUS
  <2> QED BY <2>1, <2>2, FS_EmptySet DEF Init, TicketInv, TicketsApart, EachTicketOnce
<1>2. IInv /\ TicketInv /\ [Next]_vars => TicketInv'
  BY NextTicketInv
<1>3. TicketInv => EachTicketOnce
  BY DEF TicketInv
<1> QED BY <1>1, <1>2, <1>3, SpecIInv, PTL DEF Spec

=============================================================================
