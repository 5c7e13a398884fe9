--------------------------- MODULE Runtime_proofs ---------------------------
(***************************************************************************)
(* Proofs about the components that Runtime composes.                      *)
(*                                                                         *)
(* Startup, for any set of worker threads, when no two first calls overlap *)
(* (the code has no lock there: with Racing they may).  That nothing races *)
(* follows from two facts which the induction carries along: only the main *)
(* thread is ever inside of hxinit or of a guard, for it starts a thread   *)
(* only after both are over, and a thread has a native one only after the  *)
(* static of hxthread_id was constructed.                                  *)
(*                                                                         *)
(* Monitor, for any finite set of threads: hxmutex, hxunique_lock and      *)
(* hxcondition_variable together make a monitor.  What MonitorHolds leaves *)
(* out, and an induction needs, is Places: a thread without a lock object  *)
(* owns nothing, a thread past the beginning of wait owns its lock and     *)
(* owes nobody a notification.                                             *)
(*                                                                         *)
(* InlineQueue, for any tasks, priorities and bounds, when no thread but   *)
(* the owner uses the queue.  (With another client a ticket can run twice  *)
(* and another one never.)  The three accesses of wait_for_all are apart,  *)
(* so the invariant says what is known between them: a queue that was not  *)
(* empty still is not, and the task that was read from the front is still  *)
(* the one in front.                                                       *)
(***************************************************************************)
EXTENDS Startup, Monitor, InlineQueue, FiniteSetTheorems, TLAPS

-----------------------------------------------------------------------------
(* Startup: who is where. *)

InitSteps == {"settings", "manager", "version"}
Constructing == {"construct", "construct_start"}

(* Workers are never between two steps of hxinit, of a guard or of start.  *)
WorkersRun == \A w \in Worker : step[w] = "run"

(* hxinit runs while no worker does, and before it is over nothing is      *)
(* initialized.                                                            *)
InitRunsAlone ==
  step[Main] \in InitSteps => g_hxinit_ver_ = 0 /\ \A w \in Worker : ~Running(w)

(* The guard is held by the main thread alone, and open for good before    *)
(* there is another thread.                                                *)
GuardOfMain ==
  /\ guard = 2 <=> step[Main] \in Constructing
  /\ step[Main] = "create" => guard = 1
  /\ \A w \in Worker : native[w] # "none" => guard = 1

(* The default that a scope puts back is the heap. *)
ScopesNest ==
  \A t \in Threads :
    /\ outer[t] \in {"none", "heap"}
    /\ outer[t] = "none" => local[t] \in {"null", "heap"}
    /\ outer[t] # "none" => Running(t)

(* What storage says, when no thread but Main can be inside of hxinit.     *)
StorageOfMain ==
  /\ g_hxinit_ver_ # 0 \/ step[Main] = "version" => storage = 2
  /\ ~(g_hxinit_ver_ # 0 \/ step[Main] = "version") => storage = 0

StepsInv == WorkersRun /\ InitRunsAlone /\ GuardOfMain /\ step[Main] # "guard_failed"

StartupInv == StartupTypeOK /\ StepsInv /\ ScopesNest /\ StorageOfMain /\ JoinableIsTrue

-----------------------------------------------------------------------------
(* The invariant implies what the run checks. *)
LEMMA HoldsFromStartupInv ==
  ASSUME StartupAssumption, StartupInv
  PROVE  StartupHolds
<1>1. StorageIsOnce
  BY DEF StartupInv, StepsInv, WorkersRun, StorageOfMain, StorageIsOnce, Threads
<1>2. GuardsHold
  BY DEF StartupInv, StepsInv, WorkersRun, GuardsHold, Threads
<1>3. ScopesAreLocal
  BY DEF StartupInv, ScopesNest, ScopesAreLocal, Local
<1> QED BY <1>1, <1>2, <1>3 DEF StartupHolds, StartupInv

LEMMA InitStartupInv ==
  ASSUME StartupAssumption, StartupInit
  PROVE  StartupInv
<1>1. StartupTypeOK
  BY DEF StartupAssumption, StartupInit, StartupTypeOK
<1>2. StepsInv
  BY DEF StartupInit, StepsInv, WorkersRun, InitRunsAlone, GuardOfMain, InitSteps,
         Constructing, Threads
<1>3. ScopesNest /\ StorageOfMain
  BY DEF StartupInit, ScopesNest, StorageOfMain, Threads
<1>4. JoinableIsTrue
  BY DEF StartupInit, JoinableIsTrue, Joinable
<1> QED BY <1>1, <1>2, <1>3, <1>4 DEF StartupInv

-----------------------------------------------------------------------------
(* Joinability: only Create, Join and Replace concern the thread objects.  *)
LEMMA NextJoinable ==
  ASSUME StartupAssumption, StartupTypeOK, JoinableIsTrue, [StartupNext]_startupVars
  PROVE  JoinableIsTrue'
<1> USE DEF JoinableIsTrue, Joinable, StartupTypeOK
<1>1. ASSUME NEW w \in Worker, Create(w)
      PROVE  JoinableIsTrue'
  <2> SUFFICES ASSUME NEW v \in Worker PROVE Joinable(v)' <=> native'[v] # "none"
    OBVIOUS
  <2>1. CASE v = w
    <3>1. native'[v] = "running" /\ m_started_'[v] = TRUE /\ m_joined_'[v] = FALSE
      BY <1>1, <2>1 DEF Create
    <3> QED BY <3>1
  <2>2. CASE v # w
    <3>1. /\ native'[v] = native[v] /\ m_started_'[v] = m_started_[v]
          /\ m_joined_'[v] = m_joined_[v]
      BY <1>1, <2>2 DEF Create
    <3> QED BY <3>1
  <2> QED BY <2>1, <2>2
<1>2. ASSUME NEW w \in Worker, Return(w)
      PROVE  JoinableIsTrue'
  <2>1. m_started_' = m_started_ /\ m_joined_' = m_joined_ /\ native[w] = "running"
    BY <1>2 DEF Return, Idle, Running
  <2>2. \A v \in Worker : native'[v] # "none" <=> native[v] # "none"
    BY <1>2, <2>1 DEF Return
  <2> QED BY <2>1, <2>2
<1>3. ASSUME NEW w \in Worker, Join(w)
      PROVE  JoinableIsTrue'
  <2> SUFFICES ASSUME NEW v \in Worker PROVE Joinable(v)' <=> native'[v] # "none"
    OBVIOUS
  <2>1. CASE v = w
    <3>1. native'[v] = "none" /\ m_joined_'[v] = TRUE
      BY <1>3, <2>1 DEF Join
    <3> QED BY <3>1
  <2>2. CASE v # w
    <3>1. /\ native'[v] = native[v] /\ m_started_'[v] = m_started_[v]
          /\ m_joined_'[v] = m_joined_[v]
      BY <1>3, <2>2 DEF Join
    <3> QED BY <3>1
  <2> QED BY <2>1, <2>2
<1>4. ASSUME NEW w \in Worker, Replace(w)
      PROVE  JoinableIsTrue'
  <2> SUFFICES ASSUME NEW v \in Worker PROVE Joinable(v)' <=> native'[v] # "none"
    OBVIOUS
  <2>0. native' = native
    BY <1>4 DEF Replace
  <2>1. CASE v = w
    <3>1. m_started_'[v] = FALSE /\ ~Joinable(v)
      BY <1>4, <2>1 DEF Replace
    <3> QED BY <2>0, <3>1
  <2>2. CASE v # w
    <3>1. m_started_'[v] = m_started_[v] /\ m_joined_'[v] = m_joined_[v]
      BY <1>4, <2>2 DEF Replace
    <3> QED BY <2>0, <3>1
  <2> QED BY <2>1, <2>2
<1>5. UNCHANGED objectVars => JoinableIsTrue'
  BY DEF objectVars
<1> QED
  BY <1>1, <1>2, <1>3, <1>4, <1>5
  DEF StartupNext, startupVars, objectVars, FirstCall, ConstructSettings, InitManager,
      SetVersion, Allocate, Free, EndScope, BeginScope, HxThreadId, GuardRelease,
      GuardAcquire, ExpectAsserts, AssertFails, Shutdown, Start

-----------------------------------------------------------------------------
(* The steps of hxinit: they are the main thread's.                        *)
LEMMA HxinitIInv ==
  ASSUME StartupAssumption, ~Racing, StartupInv, NEW t \in Threads,
         FirstCall(t) \/ ConstructSettings(t) \/ InitManager(t) \/ SetVersion(t)
  PROVE  /\ StartupTypeOK' /\ StepsInv' /\ ScopesNest' /\ StorageOfMain'
<1> USE DEF StartupInv, StartupTypeOK, managerVars, objectVars, StepsTo
<1>1. t = Main
  <2>1. FirstCall(t) => t = Main
    BY DEF FirstCall, Running, Threads, StartupAssumption
  <2>2. t \in Worker => step[t] = "run"
    BY DEF StepsInv, WorkersRun
  <2> QED BY <2>1, <2>2 DEF ConstructSettings, InitManager, SetVersion, Threads
<1>2. Main \in Threads /\ Main \notin Worker /\ \A w \in Worker : w \in Threads
  BY DEF StartupAssumption, Threads
<1>3. UNCHANGED <<native, guard, outer>> /\ \A u \in Threads : Running(u)' = Running(u)
  BY DEF FirstCall, ConstructSettings, InitManager, SetVersion, Running
<1>4. CASE FirstCall(Main)
  <2>1. /\ step[Main] = "run" /\ step'[Main] = "settings" /\ g_hxinit_ver_ = 0
        /\ \A w \in Worker : ~Running(w) /\ step'[w] = step[w]
    BY <1>2, <1>4 DEF FirstCall, Idle
  <2>2. StartupTypeOK'
    BY <1>2, <1>4 DEF FirstCall
  <2>3. StepsInv'
    BY <1>2, <1>3, <1>4, <2>1
    DEF FirstCall, StepsInv, WorkersRun, InitRunsAlone, GuardOfMain, InitSteps, Constructing
  <2>4. ScopesNest' /\ StorageOfMain'
    BY <1>3, <1>4, <2>1 DEF FirstCall, ScopesNest, StorageOfMain
  <2> QED BY <2>2, <2>3, <2>4
<1>5. CASE ConstructSettings(Main)
  <2>1. /\ step[Main] = "settings" /\ step'[Main] = "manager" /\ g_hxinit_ver_' = g_hxinit_ver_
        /\ \A w \in Worker : step'[w] = step[w]
    BY <1>2, <1>5 DEF ConstructSettings
  <2>2. StartupTypeOK'
    BY <1>2, <1>5 DEF ConstructSettings, StartupAssumption
  <2>3. StepsInv'
    BY <1>2, <1>3, <2>1
    DEF StepsInv, WorkersRun, InitRunsAlone, GuardOfMain, InitSteps, Constructing
  <2>4. ScopesNest' /\ StorageOfMain'
    BY <1>3, <1>5, <2>1 DEF ConstructSettings, ScopesNest, StorageOfMain
  <2> QED BY <2>2, <2>3, <2>4
<1>6. CASE InitManager(Main)
  <2>1. /\ step[Main] = "manager" /\ step'[Main] = "version"
        /\ g_hxinit_ver_ = 0 /\ g_hxinit_ver_' = 0
        /\ storage = 0 /\ storage' = 2
        /\ local' = [local EXCEPT ![Main] = "heap"]
        /\ \A w \in Worker : step'[w] = step[w]
    BY <1>2, <1>6 DEF InitManager, StepsInv, InitRunsAlone, InitSteps, StorageOfMain
  <2>2. StartupTypeOK'
    BY <1>2, <1>6, <2>1 DEF InitManager, StartupAssumption
  <2>3. StepsInv'
    BY <1>2, <1>3, <2>1
    DEF StepsInv, WorkersRun, InitRunsAlone, GuardOfMain, InitSteps, Constructing
  <2>4. ScopesNest'
    BY <1>2, <1>3, <2>1 DEF ScopesNest
  <2>5. StorageOfMain'
    BY <2>1 DEF StorageOfMain
  <2> QED BY <2>2, <2>3, <2>4, <2>5
<1>7. CASE SetVersion(Main)
  <2>1. /\ step[Main] = "version" /\ step'[Main] = "run" /\ g_hxinit_ver_' = 1
        /\ storage' = storage /\ local' = local
        /\ \A w \in Worker : step'[w] = step[w]
    BY <1>2, <1>7 DEF SetVersion
  <2>2. StartupTypeOK'
    BY <1>2, <1>7 DEF SetVersion
  <2>3. StepsInv'
    BY <1>2, <1>3, <2>1
    DEF StepsInv, WorkersRun, InitRunsAlone, GuardOfMain, InitSteps, Constructing
  <2>4. ScopesNest' /\ StorageOfMain'
    BY <1>3, <2>1 DEF ScopesNest, StorageOfMain
  <2> QED BY <2>2, <2>3, <2>4
<1> QED BY <1>1, <1>4, <1>5, <1>6, <1>7

(* Calls that only allocate, free, open and close scopes: no thread is in  *)
(* another place afterwards.                                               *)
LEMMA CallIInv ==
  ASSUME StartupAssumption, StartupInv, NEW t \in Threads,
         \/ Allocate(t) \/ Free(t) \/ EndScope(t)
         \/ \E id \in {"heap", "perm", "temp"} : BeginScope(t, id)
  PROVE  /\ StartupTypeOK' /\ StepsInv' /\ ScopesNest' /\ StorageOfMain'
<1> USE DEF StartupInv, StartupTypeOK, managerVars, objectVars
<1>1. /\ UNCHANGED <<g_hxinit_ver_, asserts_to_be_skipped, storage, m_started_, m_joined_,
                     native, guard, step>>
      /\ Running(t) /\ \A u \in Threads : Running(u)' = Running(u)
  BY DEF Allocate, Free, EndScope, BeginScope, Ready, Idle, Running
<1>2. StepsInv' /\ StorageOfMain'
  BY <1>1 DEF StepsInv, WorkersRun, InitRunsAlone, GuardOfMain, StorageOfMain, Running
<1>3. held' \in 0..MaxHeld
  BY DEF Allocate, Free, EndScope, BeginScope, StartupAssumption
<1>4. /\ local' \in [Threads -> {"null", "heap", "perm", "temp"}]
      /\ outer' \in [Threads -> {"none", "heap", "perm", "temp"}]
      /\ ScopesNest'
  <2>1. CASE Allocate(t)
    BY <1>1, <2>1 DEF Allocate, ScopesNest, Local
  <2>2. CASE Free(t)
    BY <1>1, <2>2 DEF Free, ScopesNest
  <2>3. CASE EndScope(t)
    BY <1>1, <2>3 DEF EndScope, ScopesNest
  <2>4. ASSUME NEW id \in {"heap", "perm", "temp"}, BeginScope(t, id)
        PROVE  /\ local' \in [Threads -> {"null", "heap", "perm", "temp"}]
               /\ outer' \in [Threads -> {"none", "heap", "perm", "temp"}]
               /\ ScopesNest'
    BY <1>1, <2>4 DEF BeginScope, ScopesNest, Local
  <2> QED BY <2>1, <2>2, <2>3, <2>4
<1> QED BY <1>1, <1>2, <1>3, <1>4

(* The assertion handler and hxshutdown, which the main thread calls when  *)
(* nothing else runs and it is outside of hxinit.                          *)
LEMMA MainIInv ==
  ASSUME StartupAssumption, StartupInv,
         (\E n \in 1..MaxSkips : ExpectAsserts(n)) \/ AssertFails \/ Shutdown
  PROVE  StartupTypeOK' /\ StepsInv' /\ ScopesNest' /\ StorageOfMain'
<1> USE DEF StartupInv, StartupTypeOK, objectVars, StepsTo
<1>1. Main \in Threads /\ Main \notin Worker /\ \A w \in Worker : w \in Threads
  BY DEF StartupAssumption, Threads
<1>2. /\ UNCHANGED <<held, m_started_, m_joined_, native, local, outer, guard>>
      /\ \A u \in Threads : Running(u)' = Running(u)
      /\ step[Main] = "run" /\ step'[Main] \in {"run", "failed"}
      /\ step' \in [Threads -> {"run", "settings", "manager", "version", "construct",
                                "construct_start", "create", "failed", "guard_failed"}]
      /\ \A w \in Worker : step'[w] = step[w]
  BY <1>1 DEF ExpectAsserts, AssertFails, Shutdown, Ready, Idle, Running
<1>3. StepsInv' /\ ScopesNest'
  BY <1>1, <1>2 DEF StepsInv, WorkersRun, InitRunsAlone, GuardOfMain, InitSteps,
                    Constructing, ScopesNest
<1>4. asserts_to_be_skipped' \in 0..MaxSkips
  BY DEF ExpectAsserts, AssertFails, Shutdown, StartupAssumption
<1>5. CASE (\E n \in 1..MaxSkips : ExpectAsserts(n)) \/ AssertFails
  <2>1. UNCHANGED <<g_hxinit_ver_, storage>>
    BY <1>5 DEF ExpectAsserts, AssertFails
  <2> QED BY <1>2, <1>3, <1>4, <2>1 DEF StorageOfMain
<1>6. CASE Shutdown
  <2>1. \/ UNCHANGED <<g_hxinit_ver_, storage>>
        \/ g_hxinit_ver_' = 0 /\ storage = 2 /\ storage' = 0
    BY <1>6 DEF Shutdown, Ready, StorageOfMain
  <2> QED BY <1>2, <1>3, <1>4, <2>1 DEF StorageOfMain
<1> QED BY <1>5, <1>6

(* The guard of hxthread_id's static: a thread that meets it in use is the *)
(* main thread, and that one does not come back before it is through.      *)
LEMMA GuardIInv ==
  ASSUME StartupAssumption, StartupInv,
         Start \/ \E t \in Threads : HxThreadId(t) \/ GuardRelease(t)
  PROVE  StartupTypeOK' /\ StepsInv' /\ ScopesNest' /\ StorageOfMain'
<1> USE DEF StartupInv, StartupTypeOK, managerVars, objectVars, StepsTo
<1>1. Main \in Threads /\ Main \notin Worker /\ \A w \in Worker : w \in Threads
  BY DEF StartupAssumption, Threads
<1>2. /\ UNCHANGED <<g_hxinit_ver_, asserts_to_be_skipped, storage, held, m_started_,
                     m_joined_, native, local, outer>>
      /\ \A u \in Threads : Running(u)' = Running(u)
  BY DEF Start, HxThreadId, GuardRelease, GuardAcquire, Running
<1>3. ScopesNest'
  BY <1>2 DEF ScopesNest
<1>4. ASSUME NEW constructing \in Constructing, NEW constructed \in {"run", "create"},
             Idle(Main), GuardAcquire(Main, constructing, constructed)
      PROVE  StartupTypeOK' /\ StepsInv' /\ StorageOfMain'
  <2>1. step[Main] = "run" /\ guard \in {0, 1}
    BY <1>1, <1>4 DEF Idle, StepsInv, GuardOfMain, Constructing
  <2>2. \/ guard = 0 /\ guard' = 2 /\ step' = [step EXCEPT ![Main] = constructing]
        \/ guard = 1 /\ guard' = 1 /\ step' = [step EXCEPT ![Main] = constructed]
    <3>1. CASE guard = 0
      BY <1>4, <3>1 DEF GuardAcquire
    <3>2. CASE guard = 1
      BY <1>4, <3>2 DEF GuardAcquire
    <3> QED BY <2>1, <3>1, <3>2
  <2>3. StartupTypeOK'
    BY <1>1, <1>2, <2>2 DEF Constructing
  <2>4. StepsInv' /\ StorageOfMain'
    BY <1>1, <1>2, <2>1, <2>2
    DEF StepsInv, WorkersRun, InitRunsAlone, GuardOfMain, InitSteps, Constructing,
        StorageOfMain
  <2> QED BY <2>3, <2>4
<1>5. CASE Start
  BY <1>3, <1>4, <1>5 DEF Start, Constructing
<1>6. ASSUME NEW t \in Threads, HxThreadId(t)
      PROVE  StartupTypeOK' /\ StepsInv' /\ StorageOfMain'
  <2>1. CASE t = Main
    BY <1>4, <1>6, <2>1 DEF HxThreadId, Constructing
  <2>2. CASE t # Main
    <3>1. t \in Worker /\ guard = 1 /\ step[t] = "run"
      BY <1>6, <2>2 DEF HxThreadId, Idle, Running, Threads, StepsInv, GuardOfMain
    <3>2. guard' = guard /\ step' = step
      BY <1>6, <3>1 DEF HxThreadId, GuardAcquire
    <3> QED BY <1>1, <1>2, <3>2
            DEF StepsInv, WorkersRun, InitRunsAlone, GuardOfMain, StorageOfMain
  <2> QED BY <2>1, <2>2
<1>7. ASSUME NEW t \in Threads, GuardRelease(t)
      PROVE  StartupTypeOK' /\ StepsInv' /\ StorageOfMain'
  <2>1. t = Main /\ step[Main] \in Constructing /\ guard' = 1
    BY <1>7 DEF GuardRelease, Threads, Constructing, StepsInv, WorkersRun
  <2>2. /\ step'[Main] \in {"run", "create"} /\ \A w \in Worker : step'[w] = step[w]
        /\ step' \in [Threads -> {"run", "settings", "manager", "version", "construct",
                                  "construct_start", "create", "failed", "guard_failed"}]
    BY <1>1, <1>7, <2>1 DEF GuardRelease
  <2>3. StepsInv' /\ StorageOfMain'
    BY <1>1, <1>2, <2>1, <2>2
    DEF StepsInv, WorkersRun, InitRunsAlone, GuardOfMain, InitSteps, Constructing,
        StorageOfMain
  <2> QED BY <1>2, <2>1, <2>2, <2>3
<1> QED BY <1>3, <1>5, <1>6, <1>7, <1>4 DEF Start, Constructing

(* Thread objects and their native threads. *)
LEMMA ThreadIInv ==
  ASSUME StartupAssumption, StartupInv, NEW w \in Worker,
         Create(w) \/ Return(w) \/ Join(w) \/ Replace(w)
  PROVE  StartupTypeOK' /\ StepsInv' /\ ScopesNest' /\ StorageOfMain'
<1> USE DEF StartupInv, StartupTypeOK, managerVars, StepsTo
<1>1. Main \in Threads /\ Main \notin Worker /\ \A v \in Worker : v \in Threads
  BY DEF StartupAssumption, Threads
<1>2. /\ UNCHANGED <<g_hxinit_ver_, asserts_to_be_skipped, storage, held, outer, guard>>
  BY DEF Create, Return, Join, Replace
<1>3. m_started_' \in [Worker -> BOOLEAN] /\ m_joined_' \in [Worker -> BOOLEAN]
  <2>1. /\ m_started_' = [m_started_ EXCEPT ![w] = TRUE] \/ m_started_' = m_started_
           \/ m_started_' = [m_started_ EXCEPT ![w] = FALSE]
        /\ m_joined_' = [m_joined_ EXCEPT ![w] = TRUE] \/ m_joined_' = m_joined_
           \/ m_joined_' = [m_joined_ EXCEPT ![w] = FALSE]
    BY DEF Create, Return, Join, Replace
  <2> QED BY <2>1
<1>4. CASE Create(w)
  <2>1. /\ step[Main] = "create" /\ step'[Main] = "run" /\ local' = local
        /\ step' = [step EXCEPT ![Main] = "run"]
        /\ native' = [native EXCEPT ![w] = "running"]
        /\ \A v \in Worker : step'[v] = step[v]
    BY <1>1, <1>4 DEF Create
  <2>2. StartupTypeOK'
    BY <1>1, <1>2, <1>3, <2>1
  <2>3. StepsInv' /\ StorageOfMain'
    BY <1>1, <1>2, <2>1
    DEF StepsInv, WorkersRun, InitRunsAlone, GuardOfMain, InitSteps, Constructing,
        StorageOfMain
  <2>4. ScopesNest'
    BY <1>1, <1>2, <2>1 DEF ScopesNest, Running
  <2> QED BY <2>2, <2>3, <2>4
<1>5. CASE Return(w) \/ Join(w) \/ Replace(w)
  <2>1. /\ step' = step /\ native' \in [Worker -> {"none", "running", "returned"}]
        /\ \A v \in Worker : /\ Running(v)' => Running(v)
                             /\ native'[v] # "none" => native[v] # "none"
        /\ \A v \in Worker : Running(v) /\ ~Running(v)' => v = w /\ outer[w] = "none"
    BY <1>1, <1>5 DEF Return, Join, Replace, Idle, Running
  <2>2. /\ local' \in [Threads -> {"null", "heap", "perm", "temp"}]
        /\ \A u \in Threads : local'[u] \in {local[u], "null"}
    BY <1>1, <1>5 DEF Return, Join, Replace
  <2>3. StepsInv' /\ StorageOfMain'
    BY <1>1, <1>2, <2>1
    DEF StepsInv, WorkersRun, InitRunsAlone, GuardOfMain, InitSteps, Constructing,
        StorageOfMain
  <2>4. ScopesNest'
    BY <1>1, <1>2, <2>1, <2>2 DEF ScopesNest, Running, Threads
  <2> QED BY <1>2, <1>3, <2>1, <2>2, <2>3, <2>4
<1> QED BY <1>4, <1>5

-----------------------------------------------------------------------------
LEMMA NextStartupInv ==
  ASSUME StartupAssumption, ~Racing, StartupInv, [StartupNext]_startupVars
  PROVE  StartupInv'
<1>1. JoinableIsTrue'
  BY NextJoinable DEF StartupInv
<1>2. CASE UNCHANGED startupVars
  <2>1. UNCHANGED <<g_hxinit_ver_, asserts_to_be_skipped, storage, held, m_started_,
                    m_joined_, native, local, outer, guard, step>>
    BY <1>2 DEF startupVars
  <2>2. StartupTypeOK' /\ StepsInv' /\ ScopesNest' /\ StorageOfMain'
    BY <2>1 DEF StartupInv, StartupTypeOK, StepsInv, WorkersRun, InitRunsAlone, GuardOfMain,
                ScopesNest, StorageOfMain, Running
  <2> QED BY <1>1, <2>2 DEF StartupInv
<1>3. CASE StartupNext /\ ~UNCHANGED startupVars
  <2>1. StartupTypeOK' /\ StepsInv' /\ ScopesNest' /\ StorageOfMain'
    BY <1>3, HxinitIInv, CallIInv, MainIInv, GuardIInv, ThreadIInv DEF StartupNext
  <2> QED BY <1>1, <2>1 DEF StartupInv
<1> QED BY <1>2, <1>3

LEMMA SpecStartupInv ==
  ASSUME StartupAssumption, ~Racing
  PROVE  StartupSpec => []StartupInv
<1>1. StartupInit => StartupInv
  BY InitStartupInv
<1>2. StartupInv /\ [StartupNext]_startupVars => StartupInv'
  BY NextStartupInv
<1> QED BY <1>1, <1>2, PTL DEF StartupSpec

(* The variables of initialization and of the threads keep their types.    *)
THEOREM StartupTypes ==
  ASSUME StartupAssumption, ~Racing
  PROVE  StartupSpec => []StartupTypeOK
<1>1. StartupInv => StartupTypeOK
  BY DEF StartupInv
<1> QED BY <1>1, SpecStartupInv, PTL

(* Through any number of cycles of shutdown and first call the two stacks  *)
(* have their storage once, no thread meets a guard that is in use, scopes *)
(* are local to their threads, and a thread object is joinable exactly as  *)
(* long as there is a native thread to join, for any number of threads.    *)
THEOREM StartupIsSafe ==
  ASSUME StartupAssumption, ~Racing
  PROVE  StartupSpec => []StartupHolds
<1>1. StartupInv => StartupHolds
  BY HoldsFromStartupInv
<1> QED BY <1>1, SpecStartupInv, PTL

-----------------------------------------------------------------------------
(* Monitor: where threads are. *)

(* Where a lock object owns its mutex, and who may owe a notification.     *)
Places ==
  \A t \in Thread :
    /\ at[t] \in {"none", "locking"} => ~m_owns_[t]
    /\ at[t] \in {"test", "asleep", "relocking", "granted", "read"} =>
         m_owns_[t] /\ t \notin owed

MonitorInv == MonitorTypeOK /\ Places /\ MonitorHolds

-----------------------------------------------------------------------------
(* Counting the threads that are up to take a token.                       *)

(* Threads are finitely many, and so are all sets of them. *)
LEMMA ThreadSetsFinite ==
  ASSUME MonitorAssumption, NEW S \in SUBSET Thread
  PROVE  IsFiniteSet(S) /\ Cardinality(S) \in Nat
BY FS_Subset, FS_CardinalityType DEF MonitorAssumption

(* Adding or removing a thread changes the size by at most one. *)
LEMMA OneThread ==
  ASSUME MonitorAssumption, NEW S \in SUBSET Thread, NEW t \in Thread
  PROVE  /\ t \notin S => Cardinality(S \union {t}) = Cardinality(S) + 1
         /\ t \in S => Cardinality(S \ {t}) = Cardinality(S) - 1
         /\ S \union {t} \in SUBSET Thread /\ S \ {t} \in SUBSET Thread
<1>1. IsFiniteSet(S)
  BY ThreadSetsFinite
<1>2. t \notin S => Cardinality(S \union {t}) = Cardinality(S) + 1
  BY <1>1, FS_AddElement
<1>3. t \in S => Cardinality(S \ {t}) = Cardinality(S) - 1
  BY <1>1, FS_RemoveElement
<1> QED BY <1>2, <1>3

-----------------------------------------------------------------------------
(* The mutex: types, Places and ownership, action by action.               *)

Exclusion == MonitorTypeOK /\ Places /\ OwnershipIsTrue /\ WaitsForPredicate /\ UpdatesAreAtomic

LEMMA InitExclusion ==
  ASSUME MonitorAssumption, MonitorInit
  PROVE  Exclusion
BY DEF MonitorAssumption, MonitorInit, Exclusion, MonitorTypeOK, Places, OwnershipIsTrue,
       WaitsForPredicate, UpdatesAreAtomic, At

LEMMA NextExclusion ==
  ASSUME MonitorAssumption, Exclusion, [MonitorNext]_monitorVars
  PROVE  Exclusion'
<1> USE DEF MonitorAssumption, Exclusion, MonitorTypeOK, Places, OwnershipIsTrue,
            WaitsForPredicate, UpdatesAreAtomic, At, Goes
<1>1. ASSUME NEW t \in Thread, Acquire(t) PROVE Exclusion'
  <2> USE <1>1 DEF Acquire
  <2>1. \A u \in Thread : holder # u /\ holder' = t /\ (u # t => m_owns_'[u] = m_owns_[u])
    OBVIOUS
  <2>2. \A u \in Thread : at[u] \notin {"asleep", "relocking"} => ~m_owns_[u]
    BY <2>1
  <2>3. m_owns_'[t] /\ m_owns_' \in [Thread -> BOOLEAN] /\ at'[t] \in {"scope", "test"}
    OBVIOUS
  <2>4. \A u \in Thread \ {t} : at'[u] = at[u]
    OBVIOUS
  <2>5. MonitorTypeOK'
    BY <2>3
  <2>6. OwnershipIsTrue'
    BY <2>1, <2>2, <2>3, <2>4
  <2>7. Places' /\ WaitsForPredicate' /\ UpdatesAreAtomic'
    BY <2>1, <2>2, <2>3, <2>4
  <2> QED BY <2>5, <2>6, <2>7
<1>2. ASSUME NEW t \in Thread, SpuriousWakeup(t) PROVE Exclusion'
  BY <1>2 DEF SpuriousWakeup
<1>3. ASSUME NEW t \in Thread, Construct(t, TRUE) \/ Construct(t, FALSE) PROVE Exclusion'
  BY <1>3 DEF Construct
<1>4. ASSUME NEW t \in Thread, Lock(t) PROVE Exclusion'
  BY <1>4 DEF Lock
<1>5. ASSUME NEW t \in Thread, Unlock(t) \/ Destruct(t) PROVE Exclusion'
  <2> USE <1>5 DEF Unlock, Destruct, Unlocked
  <2>1. CASE m_owns_[t]
    <3>1. /\ holder = t /\ holder' = None /\ m_owns_' = [m_owns_ EXCEPT ![t] = FALSE]
          /\ at[t] = "scope" /\ at'[t] \in {"none", "scope"}
          /\ \A u \in Thread \ {t} : at'[u] = at[u]
          /\ UNCHANGED <<tokens, seen, owed>>
      BY <2>1
    <3>2. MonitorTypeOK'
      <4>1. m_owns_' \in [Thread -> BOOLEAN] /\ holder' \in Thread \union {None}
        BY <3>1
      <4>2. at' \in [Thread -> At]
        OBVIOUS
      <4> QED BY <3>1, <4>1, <4>2
    <3>3. OwnershipIsTrue'
      BY <3>1
    <3>4. Places' /\ WaitsForPredicate' /\ UpdatesAreAtomic'
      BY <3>1
    <3> QED BY <3>2, <3>3, <3>4
  <2>2. CASE ~m_owns_[t]
    <3>1. UNCHANGED <<holder, m_owns_, tokens, seen, owed>>
      BY <2>2
    <3>2. CASE Unlock(t)
      BY <3>1, <3>2
    <3>3. CASE Destruct(t)
      <4>1. holder # t /\ at[t] = "scope" /\ at' = [at EXCEPT ![t] = "none"]
        BY <2>2, <3>3
      <4> QED BY <2>2, <3>1, <4>1
    <3> QED BY <3>2, <3>3
  <2> QED BY <2>1, <2>2
<1>6. ASSUME NEW t \in Thread, Wait(t) PROVE Exclusion'
  BY <1>6 DEF Wait
<1>7. ASSUME NEW t \in Thread, TestPredicate(t) PROVE Exclusion'
  BY <1>7 DEF TestPredicate
<1>8. ASSUME NEW t \in Thread, NotifyOne(t) PROVE Exclusion'
  BY <1>8 DEF NotifyOne, Notified, Asleep
<1>9. ASSUME NEW t \in Thread, NotifyAll(t) PROVE Exclusion'
  BY <1>9 DEF NotifyAll, Asleep
<1>10. ASSUME NEW t \in Thread, Read(t) PROVE Exclusion'
  BY <1>10 DEF Read
<1>11. ASSUME NEW t \in Thread, Write(t) PROVE Exclusion'
  BY <1>11 DEF Write
<1>12. CASE UNCHANGED monitorVars
  BY <1>12 DEF monitorVars
<1> QED
  BY <1>1, <1>2, <1>3, <1>4, <1>5, <1>6, <1>7, <1>8, <1>9, <1>10, <1>11, <1>12 DEF MonitorNext

-----------------------------------------------------------------------------
(* The condition variable: what is owed and who is up, action by action.   *)

(* A step that leaves the counter and the debts alone, puts no thread to   *)
(* sleep and turns none away from the tokens.                              *)
Keeps ==
  /\ Asleep' \subseteq Asleep
  /\ Takers \subseteq Takers'
  /\ UNCHANGED <<tokens, owed>>

LEMMA KeepsNobodySleeps ==
  ASSUME MonitorAssumption, MonitorTypeOK, MonitorTypeOK', NobodySleepsThrough, Keeps
  PROVE  NobodySleepsThrough'
<1>1. Takers \in SUBSET Thread /\ Takers' \in SUBSET Thread
  BY DEF Takers
<1>2. Cardinality(Takers) <= Cardinality(Takers')
  BY <1>1, ThreadSetsFinite, FS_Subset DEF Keeps
<1>3. /\ Cardinality(Takers) \in Nat /\ Cardinality(Takers') \in Nat
      /\ Cardinality(owed) \in Nat
  BY <1>1, ThreadSetsFinite DEF MonitorTypeOK
<1> QED BY <1>2, <1>3 DEF Keeps, NobodySleepsThrough, MonitorTypeOK

LEMMA NextNobodySleeps ==
  ASSUME MonitorAssumption, Exclusion, NobodySleepsThrough, [MonitorNext]_monitorVars
  PROVE  NobodySleepsThrough'
<1>0. MonitorTypeOK /\ MonitorTypeOK' /\ Places /\ OwnershipIsTrue
      /\ WaitsForPredicate /\ UpdatesAreAtomic
  BY NextExclusion DEF Exclusion
<1> USE <1>0 DEF MonitorTypeOK, Goes, Asleep, Takers
<1>1. /\ Takers \in SUBSET Thread /\ Takers' \in SUBSET Thread
      /\ owed \in SUBSET Thread /\ owed' \in SUBSET Thread
  OBVIOUS
<1>2. /\ Cardinality(Takers) \in Nat /\ Cardinality(Takers') \in Nat
      /\ Cardinality(owed) \in Nat /\ Cardinality(owed') \in Nat
  BY <1>1, ThreadSetsFinite
<1>3. ASSUME NEW t \in Thread, Acquire(t) PROVE Keeps
  BY <1>3 DEF Keeps, Acquire
<1>4. ASSUME NEW t \in Thread, SpuriousWakeup(t) PROVE Keeps
  BY <1>4 DEF Keeps, SpuriousWakeup
<1>5. ASSUME NEW t \in Thread,
             \/ Construct(t, TRUE) \/ Construct(t, FALSE) \/ Lock(t) \/ Unlock(t)
             \/ Destruct(t) \/ Wait(t)
      PROVE  Keeps
  BY <1>5 DEF Keeps, Construct, Lock, Unlock, Destruct, Wait
<1>6. ASSUME NEW t \in Thread, TestPredicate(t) PROVE NobodySleepsThrough'
  <2>1. CASE tokens > 0
    <3>1. Keeps
      BY <1>6, <2>1 DEF Keeps, TestPredicate
    <3> QED BY <3>1, KeepsNobodySleeps
  <2>2. CASE ~(tokens > 0)
    <3>1. tokens' = 0
      BY <1>6, <2>2 DEF TestPredicate, MonitorAssumption
    <3> HIDE DEF Takers
    <3> QED BY <1>2, <3>1 DEF NobodySleepsThrough
  <2> QED BY <2>1, <2>2
<1>7. ASSUME NEW t \in Thread, NotifyOne(t) PROVE NobodySleepsThrough'
  <2>1. CASE Asleep = {}
    BY <1>7, <2>1 DEF NotifyOne, Notified, NobodySleepsThrough
  <2>2. CASE Asleep # {}
    <3>1. PICK u \in Asleep : at' = [at EXCEPT ![u] = "relocking"]
      BY <1>7, <2>2 DEF NotifyOne, Notified
    <3>2. u \notin Takers /\ Takers' = Takers \union {u}
      BY <1>7, <3>1 DEF NotifyOne
    <3>3. Cardinality(Takers') = Cardinality(Takers) + 1
      BY <1>1, <3>1, <3>2, OneThread
    <3>4. Cardinality(owed') >= Cardinality(owed) - 1
      <4>1. CASE t \in owed
        BY <1>7, <1>1, <1>2, <4>1, OneThread DEF NotifyOne
      <4>2. CASE t \notin owed
        <5>1. owed' = owed
          BY <1>7, <4>2 DEF NotifyOne
        <5> QED BY <1>2, <5>1
      <4> QED BY <4>1, <4>2
    <3>5. tokens' = tokens
      BY <1>7 DEF NotifyOne
    <3>6. tokens <= Cardinality(owed) + Cardinality(Takers)
      BY <2>2 DEF NobodySleepsThrough
    <3>7. tokens' <= Cardinality(owed') + Cardinality(Takers')
      <4> HIDE DEF Takers, Asleep
      <4>1. tokens \in Nat
        BY DEF MonitorAssumption
      <4> QED BY <1>2, <3>3, <3>4, <3>5, <3>6, <4>1
    <3> QED BY <3>7 DEF NobodySleepsThrough
  <2> QED BY <2>1, <2>2
<1>8. ASSUME NEW t \in Thread, NotifyAll(t) PROVE NobodySleepsThrough'
  <2>1. Asleep' = {}
    BY <1>8 DEF NotifyAll
  <2> QED BY <2>1 DEF NobodySleepsThrough
<1>9. ASSUME NEW t \in Thread, Read(t) PROVE Keeps
  BY <1>9 DEF Keeps, Read, MonitorAssumption
<1>10. ASSUME NEW t \in Thread, Write(t) PROVE NobodySleepsThrough'
  <2>1. \A u \in Thread \ {t} : at[u] # "read"
    BY <1>10 DEF Write, Places, OwnershipIsTrue
  <2>2. /\ at[t] = "read" /\ at' = [at EXCEPT ![t] = "scope"]
        /\ tokens' = seen[t] /\ seen' = [seen EXCEPT ![t] = 0]
        /\ owed' = IF seen[t] > tokens THEN owed \union {t} ELSE owed
    BY <1>10 DEF Write
  <2>3. Asleep' = Asleep /\ t \notin owed
    BY <2>2 DEF Places
  <2>4. tokens \in Nat /\ seen[t] \in Nat
    BY DEF MonitorAssumption
  <2>5. CASE seen[t] = tokens - 1
    <3>1. t \in Takers /\ Takers' = Takers \ {t} /\ owed' = owed
      BY <2>1, <2>2, <2>4, <2>5
    <3>2. Cardinality(Takers') = Cardinality(Takers) - 1
      BY <1>1, <3>1, OneThread
    <3> HIDE DEF Takers, Asleep
    <3> QED BY <1>2, <2>2, <2>3, <2>4, <2>5, <3>1, <3>2 DEF NobodySleepsThrough
  <2>6. CASE seen[t] = tokens + 1
    <3>1. Takers' = Takers /\ owed' = owed \union {t}
      BY <2>1, <2>2, <2>4, <2>6
    <3>2. Cardinality(owed') = Cardinality(owed) + 1
      BY <1>1, <2>3, <3>1, OneThread
    <3> HIDE DEF Takers, Asleep
    <3> QED BY <1>2, <2>2, <2>3, <2>4, <2>6, <3>1, <3>2 DEF NobodySleepsThrough
  <2> QED BY <2>2, <2>5, <2>6 DEF UpdatesAreAtomic
<1>11. ASSUME UNCHANGED monitorVars PROVE Keeps
  BY <1>11 DEF Keeps, monitorVars
<1> QED
  BY <1>3, <1>4, <1>5, <1>6, <1>7, <1>8, <1>9, <1>10, <1>11, KeepsNobodySleeps DEF MonitorNext

-----------------------------------------------------------------------------
LEMMA InitMonitorInv ==
  ASSUME MonitorAssumption, MonitorInit
  PROVE  MonitorInv
<1>1. Exclusion
  BY InitExclusion
<1>2. NobodySleepsThrough
  BY DEF MonitorInit, NobodySleepsThrough, Asleep
<1> QED BY <1>1, <1>2 DEF MonitorInv, Exclusion, MonitorHolds

LEMMA NextMonitorInv ==
  ASSUME MonitorAssumption, MonitorInv, [MonitorNext]_monitorVars
  PROVE  MonitorInv'
BY NextExclusion, NextNobodySleeps DEF MonitorInv, Exclusion, MonitorHolds

LEMMA SpecMonitorInv ==
  ASSUME MonitorAssumption
  PROVE  MonitorSpec => []MonitorInv
<1>1. MonitorInit => MonitorInv
  BY InitMonitorInv
<1>2. MonitorInv /\ [MonitorNext]_monitorVars => MonitorInv'
  BY NextMonitorInv
<1> QED BY <1>1, <1>2, PTL DEF MonitorSpec

(* The variables of the mutex, the locks, the condition variable and their *)
(* users keep their types: in particular the counter stays within bounds,  *)
(* since two updates never overlap.                                        *)
THEOREM MonitorTypes == MonitorAssumption => (MonitorSpec => []MonitorTypeOK)
<1> SUFFICES ASSUME MonitorAssumption PROVE MonitorSpec => []MonitorTypeOK
  OBVIOUS
<1>1. MonitorInv => MonitorTypeOK
  BY DEF MonitorInv
<1> QED BY <1>1, SpecMonitorInv, PTL

(* For any number of threads: owns_lock() is true of one thread at a time, *)
(* wait returns with its predicate true, no update under the mutex is lost *)
(* and nobody sleeps while there are more tokens than threads that are     *)
(* about to take one or to notify.                                         *)
THEOREM MonitorIsSafe == MonitorAssumption => (MonitorSpec => []MonitorHolds)
<1> SUFFICES ASSUME MonitorAssumption PROVE MonitorSpec => []MonitorHolds
  OBVIOUS
<1>1. MonitorInv => MonitorHolds
  BY DEF MonitorInv
<1> QED BY <1>1, SpecMonitorInv, PTL

-----------------------------------------------------------------------------
(* InlineQueue. *)

Types ==
  /\ m_tasks_ \subseteq Record
  /\ task \in Ticket \union {NoTask}
  /\ inline_pc \in {"client", "test", "front", "pop", "process", "destroyed"}
  /\ stopping \in BOOLEAN
  /\ enqueued \in 0..MaxEnqueue
  /\ finished \in [Ticket -> Nat]
  /\ removed \subseteq Ticket

(* One record for a ticket, and one of the highest of them in front. *)
HeapOfTickets ==
  /\ \A r, s \in m_tasks_ : r.id = s.id => r = s
  /\ top \in Fronts(m_tasks_)

LoopPlaces ==
  /\ inline_pc = "front" => m_tasks_ # {}
  /\ inline_pc = "pop" => \E r \in m_tasks_ : top = {r} /\ task = r.id
  /\ inline_pc = "process" => task # NoTask
  /\ inline_pc \notin {"pop", "process"} => task = NoTask

(* The four places a ticket may be in, pairwise apart. *)
Done == {k \in Ticket : finished[k] # 0}

TicketsApart ==
  /\ \A k \in Ticket : finished[k] \in {0, 1}
  /\ Ids(m_tasks_) \union Held \union Done \union removed = 1..enqueued
  /\ Ids(m_tasks_) \intersect Held = {}
  /\ (Ids(m_tasks_) \union Held) \intersect (Done \union removed) = {}
  /\ Done \intersect removed = {}

IInv == Types /\ HeapOfTickets /\ LoopPlaces /\ TicketsApart

-----------------------------------------------------------------------------
(* A place counts 1 for the ticket that is in it, 0 for the others. *)
LEMMA CountOfPlace ==
  ASSUME NEW S, NEW k
  PROVE  Cardinality(S \intersect {k}) = IF k \in S THEN 1 ELSE 0
<1>1. CASE k \in S
  <2>1. S \intersect {k} = {k}
    BY <1>1
  <2> QED BY <1>1, <2>1, FS_Singleton
<1>2. CASE k \notin S
  <2>1. S \intersect {k} = {}
    BY <1>2
  <2> QED BY <1>2, <2>1, FS_EmptySet
<1> QED BY <1>1, <1>2

LEMMA CountOfRecords ==
  ASSUME HeapOfTickets, NEW k
  PROVE  Cardinality({r \in m_tasks_ : r.id = k}) = IF k \in Ids(m_tasks_) THEN 1 ELSE 0
<1>1. CASE k \in Ids(m_tasks_)
  <2>1. PICK r \in m_tasks_ : r.id = k
    BY <1>1 DEF Ids
  <2>2. {s \in m_tasks_ : s.id = k} = {r}
    BY <2>1 DEF HeapOfTickets
  <2> QED BY <1>1, <2>2, FS_Singleton
<1>2. CASE k \notin Ids(m_tasks_)
  <2>1. {r \in m_tasks_ : r.id = k} = {}
    BY <1>2 DEF Ids
  <2> QED BY <1>2, <2>1, FS_EmptySet
<1> QED BY <1>1, <1>2

(* Apart and complete is once. *)
LEMMA ApartIsOnce ==
  ASSUME InlineAssumption, Types, HeapOfTickets, TicketsApart
  PROVE  EachTicketOnce
<1> SUFFICES ASSUME NEW k \in 1..enqueued
             PROVE  Cardinality({r \in m_tasks_ : r.id = k})
                      + Cardinality(Held \intersect {k})
                      + finished[k] + Cardinality(removed \intersect {k}) = 1
  BY DEF EachTicketOnce
<1>1. k \in Ticket
  BY DEF InlineAssumption, Types, Ticket
<1>2. finished[k] = IF k \in Done THEN 1 ELSE 0
  BY <1>1 DEF TicketsApart, Done
<1>3. Cardinality({r \in m_tasks_ : r.id = k}) = IF k \in Ids(m_tasks_) THEN 1 ELSE 0
  BY CountOfRecords
<1>4. /\ Cardinality(Held \intersect {k}) = IF k \in Held THEN 1 ELSE 0
      /\ Cardinality(removed \intersect {k}) = IF k \in removed THEN 1 ELSE 0
  BY CountOfPlace
<1>5. \/ k \in Ids(m_tasks_) /\ k \notin Held /\ k \notin Done /\ k \notin removed
      \/ k \notin Ids(m_tasks_) /\ k \in Held /\ k \notin Done /\ k \notin removed
      \/ k \notin Ids(m_tasks_) /\ k \notin Held /\ k \in Done /\ k \notin removed
      \/ k \notin Ids(m_tasks_) /\ k \notin Held /\ k \notin Done /\ k \in removed
  BY DEF TicketsApart
<1> QED BY <1>2, <1>3, <1>4, <1>5

(* The front of a heap: one of its records, which none exceeds. *)
LEMMA FrontFacts ==
  ASSUME NEW S, NEW f \in Fronts(S)
  PROVE  /\ S = {} => f = {}
         /\ S # {} => \E r \in S : f = {r} /\ \A s \in S : s.priority <= r.priority
         /\ f \subseteq S
         /\ IsFiniteSet(f) /\ Cardinality(f) <= 1
<1>1. /\ S = {} => f = {}
      /\ S # {} => \E r \in S : f = {r} /\ \A s \in S : s.priority <= r.priority
  BY DEF Fronts, Highest
<1>2. CASE S = {}
  BY <1>1, <1>2, FS_EmptySet
<1>3. CASE S # {}
  <2>1. PICK r \in S : f = {r}
    BY <1>1, <1>3
  <2> QED BY <1>1, <1>3, <2>1, FS_Singleton
<1> QED BY <1>2, <1>3

-----------------------------------------------------------------------------
(* The invariant is inductive.                                             *)

LEMMA InitIInv ==
  ASSUME InlineAssumption, InlineInit
  PROVE  IInv
<1> USE DEF InlineInit, InlineAssumption
<1>1. Types
  <2>1. finished \in [Ticket -> Nat]
    OBVIOUS
  <2>2. enqueued \in 0..MaxEnqueue
    OBVIOUS
  <2> QED BY <2>1, <2>2 DEF Types
<1>2. HeapOfTickets
  BY DEF HeapOfTickets, Fronts
<1>3. LoopPlaces
  BY DEF LoopPlaces
<1>4. TicketsApart
  <2>1. Ids(m_tasks_) = {} /\ Held = {} /\ Done = {} /\ removed = {}
    BY DEF Ids, Held, Done
  <2>2. 1..enqueued = {}
    OBVIOUS
  <2>3. \A k \in Ticket : finished[k] \in {0, 1}
    OBVIOUS
  <2> QED BY <2>1, <2>2, <2>3 DEF TicketsApart
<1> QED BY <1>1, <1>2, <1>3, <1>4 DEF IInv

(* A record with a new identity is pushed: it is in front if none of the   *)
(* others is as high.                                                      *)
LEMMA EnqueueIInv ==
  ASSUME InlineAssumption, IInv,
         NEW c \in {Owner}, NEW k \in Task, NEW p \in Priority, Enqueue(c, k, p)
  PROVE  /\ IInv'
         /\ Ids(m_tasks_)' = Ids(m_tasks_) \union {enqueued + 1}
         /\ 1..enqueued' = (1..enqueued) \union {enqueued + 1}
         /\ enqueued + 1 \in Ticket \ (1..enqueued)
         /\ Held' = Held
<1> DEFINE record == [id |-> enqueued + 1, task |-> k, priority |-> p]
<1>0. Types /\ HeapOfTickets /\ LoopPlaces /\ TicketsApart
  BY DEF IInv
<1>1. /\ inline_pc \in {"client", "process"}
      /\ enqueued < MaxEnqueue /\ enqueued' = enqueued + 1
      /\ m_tasks_' = m_tasks_ \union {record}
      /\ top' = IF \A r \in top : r.priority < p THEN {record} ELSE top
      /\ UNCHANGED <<removed, task, inline_pc, stopping, finished>>
  BY DEF Enqueue, callVars, MayCall, InlineAssumption
<1>2. /\ enqueued \in Nat /\ enqueued + 1 \in Ticket \ (1..enqueued)
      /\ 1..enqueued' = (1..enqueued) \union {enqueued + 1}
      /\ enqueued' \in 0..MaxEnqueue
  BY <1>0, <1>1 DEF Types, InlineAssumption, Ticket
<1>3. record \in Record /\ record.id = enqueued + 1 /\ record.priority = p
  BY <1>2 DEF Record
<1> HIDE DEF record
<1>4. Ids(m_tasks_)' = Ids(m_tasks_) \union {enqueued + 1}
  BY <1>1, <1>3 DEF Ids
<1>5. Held' = Held /\ Done' = Done
  BY <1>1 DEF Held, Done
<1>6. enqueued + 1 \notin Ids(m_tasks_) \union Held \union Done \union removed
  BY <1>0, <1>2 DEF TicketsApart
<1>7. Types'
  BY <1>0, <1>1, <1>2, <1>3 DEF Types
<1>8. HeapOfTickets'
  <2>1. \A r, s \in m_tasks_' : r.id = s.id => r = s
    BY <1>0, <1>1, <1>3, <1>6 DEF HeapOfTickets, Ids
  <2>2. \A r \in m_tasks_' : r.priority \in Nat
    BY <1>7 DEF Types, Record, InlineAssumption
  <2>3. top' \in Fronts(m_tasks_')
    <3>1. CASE m_tasks_ = {}
      <4>1. m_tasks_' = {record} /\ top' = {record}
        BY <1>0, <1>1, <3>1, FrontFacts DEF HeapOfTickets
      <4>2. record \in Highest(m_tasks_')
        BY <2>2, <4>1 DEF Highest
      <4> QED BY <4>1, <4>2 DEF Fronts
    <3>2. CASE m_tasks_ # {}
      <4>1. PICK r \in m_tasks_ : top = {r} /\ \A s \in m_tasks_ : s.priority <= r.priority
        BY <1>0, <3>2, FrontFacts DEF HeapOfTickets
      <4>2. CASE r.priority < p
        <5>1. top' = {record}
          BY <1>1, <4>1, <4>2
        <5>2. \A s \in m_tasks_' : s.priority <= record.priority
          BY <1>1, <1>3, <2>2, <4>1, <4>2
        <5> QED BY <1>1, <5>1, <5>2 DEF Fronts, Highest
      <4>3. CASE ~(r.priority < p)
        <5>1. top' = {r}
          BY <1>1, <4>1, <4>3
        <5>2. \A s \in m_tasks_' : s.priority <= r.priority
          BY <1>1, <1>3, <2>2, <4>1, <4>3
        <5> QED BY <1>1, <4>1, <5>1, <5>2 DEF Fronts, Highest
      <4> QED BY <4>2, <4>3
    <3> QED BY <3>1, <3>2
  <2> QED BY <2>1, <2>3 DEF HeapOfTickets
<1>9. LoopPlaces'
  BY <1>0, <1>1 DEF LoopPlaces
<1>10. TicketsApart'
  BY <1>0, <1>1, <1>2, <1>4, <1>5, <1>6 DEF TicketsApart
<1> QED BY <1>2, <1>4, <1>5, <1>7, <1>8, <1>9, <1>10 DEF IInv

LEMMA RemoveIInv ==
  ASSUME InlineAssumption, IInv, NEW S \in SUBSET m_tasks_, Remove(S)
  PROVE  IInv' /\ Ids(m_tasks_)' = Ids(m_tasks_) \ Ids(S) /\ Held' = Held
<1>0. Types /\ HeapOfTickets /\ LoopPlaces /\ TicketsApart
  BY DEF IInv
<1>1. /\ inline_pc \in {"client", "process"}
      /\ m_tasks_' = m_tasks_ \ S /\ top' \in Fronts(m_tasks_')
      /\ removed' = removed \union Ids(S)
      /\ UNCHANGED <<enqueued, task, inline_pc, stopping, finished>>
  BY DEF Remove, callVars, MayCall, InlineAssumption
<1>2. Ids(m_tasks_)' = Ids(m_tasks_) \ Ids(S)
  BY <1>0, <1>1 DEF Ids, HeapOfTickets
<1>3. Ids(S) \subseteq Ids(m_tasks_) /\ Ids(S) \subseteq Ticket
  BY <1>0 DEF Ids, Types, Record
<1>4. Held' = Held /\ Done' = Done
  BY <1>1 DEF Held, Done
<1>5. Types'
  BY <1>0, <1>1, <1>3 DEF Types
<1>6. HeapOfTickets' /\ LoopPlaces'
  BY <1>0, <1>1 DEF HeapOfTickets, LoopPlaces
<1>7. TicketsApart'
  BY <1>0, <1>1, <1>2, <1>3, <1>4 DEF TicketsApart
<1> QED BY <1>2, <1>4, <1>5, <1>6, <1>7 DEF IInv

LEMMA ForEachIInv ==
  ASSUME InlineAssumption, IInv, NEW p \in [Ids(m_tasks_) -> Priority], ForEach(p)
  PROVE  IInv' /\ Ids(m_tasks_)' = Ids(m_tasks_) /\ Held' = Held
<1>0. Types /\ HeapOfTickets /\ LoopPlaces /\ TicketsApart
  BY DEF IInv
<1> DEFINE revised(r) == [r EXCEPT !.priority = p[r.id]]
<1>1. /\ inline_pc \in {"client", "process"}
      /\ m_tasks_' = {revised(r) : r \in m_tasks_} /\ top' \in Fronts(m_tasks_')
      /\ UNCHANGED <<enqueued, removed, task, inline_pc, stopping, finished>>
  BY DEF ForEach, callVars, MayCall, InlineAssumption
<1>2. \A r \in m_tasks_ : revised(r) \in Record /\ revised(r).id = r.id
  BY <1>0 DEF Types, Record, Ids
<1> HIDE DEF revised
<1>3. Ids(m_tasks_)' = Ids(m_tasks_)
  BY <1>1, <1>2 DEF Ids
<1>4. Held' = Held /\ Done' = Done
  BY <1>1 DEF Held, Done
<1>5. Types'
  BY <1>0, <1>1, <1>2 DEF Types
<1>6. HeapOfTickets'
  BY <1>0, <1>1, <1>2 DEF HeapOfTickets
<1>7. LoopPlaces' /\ TicketsApart'
  BY <1>0, <1>1, <1>3, <1>4 DEF LoopPlaces, TicketsApart
<1> QED BY <1>3, <1>4, <1>5, <1>6, <1>7 DEF IInv

(* The record that was read is the one that is removed. *)
LEMMA PopHeapIInv ==
  ASSUME InlineAssumption, IInv, PopHeap
  PROVE  /\ IInv' /\ HighestStarts
         /\ task \in Ids(m_tasks_) /\ Ids(m_tasks_)' = Ids(m_tasks_) \ {task}
         /\ Held = {} /\ Held' = {task} /\ task' = task /\ task # NoTask
<1>0. Types /\ HeapOfTickets /\ LoopPlaces /\ TicketsApart
  BY DEF IInv
<1>1. /\ inline_pc = "pop" /\ inline_pc' = "process"
      /\ m_tasks_' = m_tasks_ \ top /\ top' \in Fronts(m_tasks_')
      /\ UNCHANGED <<task, stopping, enqueued, finished, removed>>
  BY DEF PopHeap
<1>2. PICK r \in m_tasks_ : top = {r} /\ task = r.id
  BY <1>0, <1>1 DEF LoopPlaces
<1>3. \A s \in m_tasks_ : s.priority <= r.priority
  BY <1>0, <1>2, FrontFacts DEF HeapOfTickets
<1>4. task \in Ticket /\ task # NoTask
  BY <1>0, <1>2 DEF Types, Record, InlineAssumption
<1>5. task \in Ids(m_tasks_) /\ Ids(m_tasks_)' = Ids(m_tasks_) \ {task}
  BY <1>0, <1>1, <1>2 DEF Ids, HeapOfTickets
<1>6. Held = {} /\ Held' = {task} /\ Done' = Done
  BY <1>1 DEF Held, Done
<1>7. Types' /\ HeapOfTickets' /\ LoopPlaces'
  BY <1>0, <1>1, <1>4 DEF Types, HeapOfTickets, LoopPlaces
<1>8. TicketsApart'
  BY <1>0, <1>1, <1>5, <1>6 DEF TicketsApart
<1>9. HighestStarts
  BY <1>2, <1>3 DEF HighestStarts
<1> QED BY <1>1, <1>4, <1>5, <1>6, <1>7, <1>8, <1>9 DEF IInv

LEMMA FinishProcessIInv ==
  ASSUME InlineAssumption, IInv, FinishProcess
  PROVE  /\ IInv' /\ Held = {task} /\ Held' = {} /\ task # NoTask
         /\ UNCHANGED <<m_tasks_, enqueued, stopping>>
<1>0. Types /\ HeapOfTickets /\ LoopPlaces /\ TicketsApart
  BY DEF IInv
<1>1. /\ inline_pc = "process" /\ inline_pc' = "test" /\ task' = NoTask
      /\ finished' = [finished EXCEPT ![task] = finished[task] + 1]
      /\ UNCHANGED <<m_tasks_, top, stopping, enqueued, removed>>
  BY DEF FinishProcess
<1>2. task \in Ticket /\ task # NoTask
  BY <1>0, <1>1 DEF Types, LoopPlaces
<1>3. Held = {task} /\ Held' = {} /\ Ids(m_tasks_)' = Ids(m_tasks_)
  BY <1>1 DEF Held, Ids
<1>4. finished[task] = 0
  BY <1>0, <1>2, <1>3 DEF TicketsApart, Done
<1>5. Done' = Done \union {task} /\ \A k \in Ticket : finished'[k] \in {0, 1}
  BY <1>0, <1>1, <1>2, <1>4 DEF Types, Done, TicketsApart
<1>6. Types'
  BY <1>0, <1>1, <1>2 DEF Types
<1>7. HeapOfTickets' /\ LoopPlaces'
  BY <1>0, <1>1 DEF HeapOfTickets, LoopPlaces
<1>8. TicketsApart'
  BY <1>0, <1>1, <1>3, <1>5 DEF TicketsApart
<1> QED BY <1>1, <1>2, <1>3, <1>6, <1>7, <1>8 DEF IInv

(* The steps of the loop that leave all tickets where they are. *)
LEMMA OtherIInv ==
  ASSUME InlineAssumption, IInv,
         \/ \E destroy \in BOOLEAN : WaitForAll(destroy)
         \/ TestEmpty \/ ReadFront \/ UNCHANGED inlineVars
  PROVE  IInv' /\ Held' = Held /\ UNCHANGED <<m_tasks_, enqueued>>
<1>0. Types /\ HeapOfTickets /\ LoopPlaces /\ TicketsApart
  BY DEF IInv
<1>1. UNCHANGED <<m_tasks_, top, enqueued, finished, removed>>
  BY DEF WaitForAll, TestEmpty, ReadFront, inlineVars
<1>2. \A r \in top : r \in m_tasks_ /\ r.id \in Ticket
  BY <1>0, FrontFacts DEF Types, Record, HeapOfTickets
<1>3. CASE ReadFront
  <2>1. PICK r \in top : task' = r.id
    BY <1>3 DEF ReadFront
  <2>2. top = {r} /\ r \in m_tasks_
    BY <1>0, <1>2, <2>1, FrontFacts DEF HeapOfTickets
  <2>3. Types' /\ LoopPlaces' /\ Held' = Held
    BY <1>0, <1>1, <1>2, <1>3, <2>1, <2>2 DEF ReadFront, Types, LoopPlaces, Held
  <2>4. HeapOfTickets'
    BY <1>0, <1>1 DEF HeapOfTickets
  <2>5. TicketsApart'
    BY <1>0, <1>1, <2>3 DEF TicketsApart, Done
  <2> QED BY <1>1, <2>3, <2>4, <2>5 DEF IInv
<1>4. CASE (\E destroy \in BOOLEAN : WaitForAll(destroy)) \/ TestEmpty \/ UNCHANGED inlineVars
  <2>1. Types'
    BY <1>0, <1>1, <1>4 DEF WaitForAll, TestEmpty, inlineVars, Types
  <2>2. LoopPlaces' /\ Held' = Held
    BY <1>0, <1>1, <1>4 DEF WaitForAll, TestEmpty, inlineVars, LoopPlaces, Held
  <2>3. HeapOfTickets'
    BY <1>0, <1>1 DEF HeapOfTickets
  <2>4. TicketsApart'
    BY <1>0, <1>1, <2>2 DEF TicketsApart, Done
  <2> QED BY <1>1, <2>1, <2>2, <2>3, <2>4 DEF IInv
<1> QED BY <1>3, <1>4

-----------------------------------------------------------------------------
(* Every step is one of the pool, or none.  In Pool, Held says whether the *)
(* owner is inside of a task.                                              *)

LEMMA NextPool ==
  ASSUME InlineAssumption, Client = {}, IInv, [InlineNext]_inlineVars
  PROVE  IInv' /\ [Pool!PoolNext]_(Pool!poolVars) /\ HighestStarts
<1>0. Types /\ HeapOfTickets /\ LoopPlaces /\ TicketsApart
  BY DEF IInv
<1> DEFINE Runs == [t \in {Owner} |-> IF Held = {} THEN NoTask ELSE task]
           Phase == IF inline_pc = "destroyed" THEN "closed"
                    ELSE IF inline_pc = "client" THEN "open"
                    ELSE IF stopping THEN "closing" ELSE "waiting"
<1>1. (inline_pc' = "process" => inline_pc = "process") => HighestStarts
  BY DEF HighestStarts
<1>2. ASSUME NEW c \in Client \union {Owner}, NEW k \in Task, NEW p \in Priority,
             Enqueue(c, k, p)
      PROVE  IInv' /\ [Pool!PoolNext]_(Pool!poolVars) /\ HighestStarts
  <2>1. c \in {Owner}
    OBVIOUS
  <2>2. /\ IInv' /\ Ids(m_tasks_)' = Ids(m_tasks_) \union {enqueued + 1}
        /\ 1..enqueued' = (1..enqueued) \union {enqueued + 1}
        /\ enqueued + 1 \in Ticket \ (1..enqueued) /\ Held' = Held
    BY <1>2, <2>1, EnqueueIInv
  <2>3. inline_pc \in {"client", "process"} /\ UNCHANGED <<task, inline_pc, stopping>>
    BY <1>2, <2>1 DEF Enqueue, callVars, MayCall, InlineAssumption
  <2>4. Runs' = Runs /\ Phase' = Phase /\ Phase # "closed"
    BY <2>2, <2>3
  <2>5. Pool!Submit(enqueued + 1)
    BY <2>2, <2>4 DEF Pool!Submit
  <2> QED BY <1>1, <2>2, <2>3, <2>5 DEF Pool!PoolNext
<1>3. ASSUME NEW S \in SUBSET m_tasks_, Remove(S)
      PROVE  IInv' /\ [Pool!PoolNext]_(Pool!poolVars) /\ HighestStarts
  <2>1. IInv' /\ Ids(m_tasks_)' = Ids(m_tasks_) \ Ids(S) /\ Held' = Held
    BY <1>3, RemoveIInv
  <2>2. UNCHANGED <<enqueued, task, inline_pc, stopping>>
    BY <1>3 DEF Remove, callVars
  <2>3. Runs' = Runs /\ Phase' = Phase /\ 1..enqueued' = 1..enqueued
    BY <2>1, <2>2
  <2>4. Ids(S) \subseteq Ids(m_tasks_) /\ Ids(S) \in SUBSET Ticket
    BY <1>0 DEF Ids, Types, Record
  <2>5. Pool!Withdraw(Ids(S))
    BY <2>1, <2>3, <2>4 DEF Pool!Withdraw
  <2> QED BY <1>1, <2>1, <2>2, <2>4, <2>5 DEF Pool!PoolNext
<1>4. ASSUME NEW p \in [Ids(m_tasks_) -> Priority], ForEach(p)
      PROVE  IInv' /\ [Pool!PoolNext]_(Pool!poolVars) /\ HighestStarts
  <2>1. IInv' /\ Ids(m_tasks_)' = Ids(m_tasks_) /\ Held' = Held
    BY <1>4, ForEachIInv
  <2>2. UNCHANGED <<enqueued, task, inline_pc, stopping>>
    BY <1>4 DEF ForEach, callVars
  <2>3. Runs' = Runs /\ Phase' = Phase /\ 1..enqueued' = 1..enqueued
    BY <2>1, <2>2
  <2> QED BY <1>1, <2>1, <2>2, <2>3 DEF Pool!poolVars
<1>5. ASSUME PopHeap
      PROVE  IInv' /\ [Pool!PoolNext]_(Pool!poolVars) /\ HighestStarts
  <2>1. /\ IInv' /\ HighestStarts
        /\ task \in Ids(m_tasks_) /\ Ids(m_tasks_)' = Ids(m_tasks_) \ {task}
        /\ Held = {} /\ Held' = {task} /\ task' = task
    BY <1>5, PopHeapIInv
  <2>2. inline_pc = "pop" /\ inline_pc' = "process" /\ UNCHANGED <<enqueued, stopping>>
    BY <1>5 DEF PopHeap
  <2>3. /\ Runs[Owner] = NoTask /\ Runs' = [Runs EXCEPT ![Owner] = task]
        /\ Phase' = Phase /\ 1..enqueued' = 1..enqueued
    BY <2>1, <2>2
  <2>4. Pool!Start(Owner, task) /\ task \in Ticket
    BY <1>0, <2>1, <2>3 DEF Pool!Start, Ids, Types, Record
  <2> QED BY <2>1, <2>4 DEF Pool!PoolNext
<1>6. ASSUME FinishProcess
      PROVE  IInv' /\ [Pool!PoolNext]_(Pool!poolVars) /\ HighestStarts
  <2>1. /\ IInv' /\ Held = {task} /\ Held' = {} /\ task # NoTask
        /\ UNCHANGED <<m_tasks_, enqueued, stopping>>
    BY <1>6, FinishProcessIInv
  <2>2. inline_pc = "process" /\ inline_pc' = "test"
    BY <1>6 DEF FinishProcess
  <2>3. /\ Runs[Owner] # NoTask /\ Runs' = [Runs EXCEPT ![Owner] = NoTask]
        /\ Phase' = Phase /\ 1..enqueued' = 1..enqueued
        /\ Ids(m_tasks_)' = Ids(m_tasks_)
    BY <2>1, <2>2 DEF Ids
  <2>4. Pool!Complete(Owner)
    BY <2>3 DEF Pool!Complete
  <2> QED BY <1>1, <2>1, <2>2, <2>4 DEF Pool!PoolNext
<1>7. ASSUME \/ \E destroy \in BOOLEAN : WaitForAll(destroy)
             \/ TestEmpty \/ ReadFront \/ UNCHANGED inlineVars
      PROVE  IInv' /\ [Pool!PoolNext]_(Pool!poolVars) /\ HighestStarts
  <2>1. IInv' /\ Held' = Held /\ UNCHANGED <<m_tasks_, enqueued>>
    BY <1>7, OtherIInv
  <2>2. Ids(m_tasks_)' = Ids(m_tasks_) /\ 1..enqueued' = 1..enqueued
    BY <2>1 DEF Ids
  <2>3. HighestStarts
    BY <1>7, <1>1 DEF WaitForAll, TestEmpty, ReadFront, inlineVars
  <2>4. CASE \E destroy \in BOOLEAN : WaitForAll(destroy)
    <3>1. PICK destroy \in BOOLEAN : WaitForAll(destroy)
      BY <2>4
    <3>2. /\ inline_pc = "client" /\ inline_pc' = "test" /\ task' = task
          /\ stopping' = destroy
      BY <3>1 DEF WaitForAll
    <3>3. /\ Runs' = Runs /\ Phase = "open"
          /\ Phase' = "closing" \/ Phase' = "waiting"
      BY <2>1, <3>2
    <3>4. Pool!BeginWait \/ Pool!BeginClose
      BY <2>2, <3>3 DEF Pool!BeginWait, Pool!BeginClose
    <3> QED BY <2>1, <2>3, <3>4 DEF Pool!PoolNext
  <2>5. CASE TestEmpty
    <3>1. /\ inline_pc = "test" /\ UNCHANGED <<task, stopping>>
          /\ inline_pc' = IF m_tasks_ # {} THEN "front"
                          ELSE IF stopping THEN "destroyed" ELSE "client"
      BY <2>5 DEF TestEmpty
    <3>2. Runs' = Runs /\ Held = {}
      BY <2>1, <3>1 DEF Held
    <3>3. CASE m_tasks_ # {}
      <4>1. Phase' = Phase
        BY <3>1, <3>3
      <4> QED BY <2>1, <2>2, <2>3, <3>2, <4>1 DEF Pool!poolVars
    <3>4. CASE m_tasks_ = {}
      <4>1. Ids(m_tasks_) = {} /\ \A t \in {Owner} : Runs[t] = NoTask
        BY <3>2, <3>4 DEF Ids
      <4>2. ~Pool!Outstanding
        BY <4>1 DEF Pool!Outstanding
      <4>3. \/ Phase = "closing" /\ Phase' = "closed"
            \/ Phase = "waiting" /\ Phase' = "open"
        BY <3>1, <3>4
      <4>4. Pool!EndWait \/ Pool!EndClose
        BY <2>2, <3>2, <4>2, <4>3 DEF Pool!EndWait, Pool!EndClose
      <4> QED BY <2>1, <2>3, <4>4 DEF Pool!PoolNext
    <3> QED BY <3>3, <3>4
  <2>6. CASE ReadFront \/ UNCHANGED inlineVars
    <3>1. /\ UNCHANGED stopping
          /\ (inline_pc = "front" /\ inline_pc' = "pop") \/ UNCHANGED <<inline_pc, task>>
      BY <2>6 DEF ReadFront, inlineVars
    <3>2. Runs' = Runs /\ Phase' = Phase
      BY <2>1, <3>1 DEF Held
    <3> QED BY <2>1, <2>2, <2>3, <3>2 DEF Pool!poolVars
  <2> QED BY <1>7, <2>4, <2>5, <2>6
<1> QED
  BY <1>2, <1>3, <1>4, <1>5, <1>6, <1>7
  DEF InlineNext, Cancel, EraseIf, Clear

LEMMA SpecIInv ==
  ASSUME InlineAssumption, Client = {}
  PROVE  InlineSpec => []IInv
<1>1. InlineInit => IInv
  BY InitIInv
<1>2. IInv /\ [InlineNext]_inlineVars => IInv'
  BY NextPool
<1> QED BY <1>1, <1>2, PTL DEF InlineSpec

(* The variables of a queue without workers keep their types: at most one  *)
(* record is in front, and the ticket that the loop read is one.           *)
THEOREM InlineTypes ==
  ASSUME InlineAssumption, Client = {}
  PROVE  InlineSpec => []InlineTypeOK
<1>1. IInv => InlineTypeOK
  <2> SUFFICES ASSUME IInv PROVE InlineTypeOK
    OBVIOUS
  <2>1. top \subseteq m_tasks_ /\ Cardinality(top) <= 1
    BY FrontFacts DEF IInv, HeapOfTickets
  <2> QED BY <2>1 DEF IInv, Types, InlineTypeOK
<1> QED BY <1>1, SpecIInv, PTL

(* Every call of enqueue leads to one run of its task or to its removal,   *)
(* whatever the tasks do to the queue while they run.                      *)
THEOREM InlineTicketsOnce ==
  ASSUME InlineAssumption, Client = {}
  PROVE  InlineSpec => []EachTicketOnce
<1>1. IInv => EachTicketOnce
  BY ApartIsOnce DEF IInv
<1> QED BY <1>1, SpecIInv, PTL

(* The queue without threads implements the pool that the queue with       *)
(* threads implements, and starts the highest task first.                  *)
THEOREM InlineImplementsPool ==
  ASSUME InlineAssumption, Client = {}
  PROVE  InlineSpec => InlineQueueIsPool
<1>1. InlineInit => Pool!PoolInit
  BY DEF InlineInit, Pool!PoolInit, Ids, Held
<1>2. IInv /\ [InlineNext]_inlineVars
        => [Pool!PoolNext]_(Pool!poolVars) /\ HighestStarts
  BY NextPool
<1>3. [Pool!PoolNext]_(Pool!poolVars) /\ HighestStarts /\ EachTicketOnce' => InlineStep
  BY DEF InlineStep
<1> QED
  BY <1>1, <1>2, <1>3, SpecIInv, InlineTicketsOnce, PTL DEF InlineSpec, InlineQueueIsPool

=============================================================================
