------------------------------ MODULE Runtime ------------------------------
(***************************************************************************)
(* What runs under everything else: the memory manager, initialization and *)
(* threads, the locks that they use, and the task queue that has no        *)
(* threads of its own.  A program is about one of them.                    *)
(***************************************************************************)
EXTENDS MemoryManager

CONSTANTS
  Worker, MaxHeld, MaxSkips,                  \* of Startup
  Waiter, MaxTokens,                          \* the threads of Monitor, and its bound
  Job, Priority, MaxEnqueue, InlineCapacity   \* the tasks of InlineQueue, and its bounds

VARIABLES
  part,          \* the one that is used, or "none"
  g_hxinit_ver_, asserts_to_be_skipped, storage, held, m_started_, m_joined_,
  native, local, outer, guard, step,
  holder, m_owns_, at, tokens, token_seen, owed,
  m_tasks_, top, task, inline_pc, stopping, enqueued, finished, removed

startup == <<g_hxinit_ver_, asserts_to_be_skipped, storage, held, m_started_, m_joined_,
             native, local, outer, guard, step>>
monitor == <<holder, m_owns_, at, tokens, token_seen, owed>>
inline == <<m_tasks_, top, task, inline_pc, stopping, enqueued, finished, removed>>
runtimeVars == <<part, memoryVars, startup, monitor, inline>>

Startup == INSTANCE Startup WITH
  Main <- "main", Racing <- FALSE

Monitor == INSTANCE Monitor WITH
  Thread <- Waiter, None <- "none", seen <- token_seen

(* Nobody but the owner and its tasks: with another client tickets do get  *)
(* lost, see InlineQueue.                                                  *)
Inline == INSTANCE InlineQueue WITH
  Owner <- "owner", Client <- {}, Task <- Job, Capacity <- InlineCapacity, NoTask <- 0

RuntimeAssumptions ==
  /\ Startup!StartupAssumption /\ Monitor!MonitorAssumption /\ Inline!InlineAssumption

RuntimeIs(p) ==
  /\ part = p
  /\ MemoryInit /\ Startup!StartupInit /\ Monitor!MonitorInit /\ Inline!InlineInit

NoRuntime == RuntimeIs("none")

RuntimeInit == \E p \in {"memory", "startup", "monitor", "inline"} : RuntimeIs(p)

RuntimeNext ==
  /\ UNCHANGED part
  /\ \/ part = "memory" /\ MemoryNext /\ UNCHANGED <<startup, monitor, inline>>
     \/ part = "startup" /\ Startup!StartupNext /\ UNCHANGED <<memoryVars, monitor, inline>>
     \/ part = "monitor" /\ Monitor!MonitorNext /\ UNCHANGED <<memoryVars, startup, inline>>
     \/ part = "inline" /\ Inline!InlineNext /\ UNCHANGED <<memoryVars, startup, monitor>>

RuntimeSpec == RuntimeInit /\ [][RuntimeNext]_runtimeVars

(* The variables of every part have their types.                           *)
RuntimeTypeOK ==
  /\ part = "memory" => MemoryTypeOK
  /\ part = "startup" => Startup!StartupTypeOK
  /\ part = "monitor" => Monitor!MonitorTypeOK
  /\ part = "inline" => Inline!InlineTypeOK

(* Initialization, guards and thread locals agree with the threads.        *)
StartupHolds == part = "startup" => Startup!StartupHolds

(* The mutex, the lock and the condition variable make a monitor.          *)
MonitorHolds == part = "monitor" => Monitor!MonitorHolds

(* The queue without threads runs each task once, the highest first, and   *)
(* implements the pool that the queue with threads implements.             *)
InlineQueueIsPool ==
  Inline!Pool!PoolInit /\ [][part = "inline" => Inline!InlineStep]_runtimeVars

=============================================================================
