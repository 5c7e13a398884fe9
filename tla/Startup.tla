------------------------------ MODULE Startup ------------------------------
(***************************************************************************)
(* Initialization by the first call of any function, threads, and shutdown:*)
(* hxinit, hxshutdown, the assertion handler, hxthread, hxthread_local and *)
(* the guards of function scope statics that are not locked.               *)
(*                                                                         *)
(* A main thread makes calls, starts and joins the hxthread objects of     *)
(* Worker, and shuts the platform down, any number of times.  hxinit runs  *)
(* step by step.  Of the memory manager the model keeps the storage of the *)
(* two stacks, the number of allocations and the current allocators; what  *)
(* it does with them is the subject of MemoryManager.                      *)
(***************************************************************************)
EXTENDS Naturals, FiniteSets

CONSTANTS Main, Worker,
          MaxHeld,   (* bound: the allocations that are outstanding *)
          MaxSkips,  (* bound on asserts_to_be_skipped *)
          Racing     (* may the first calls of two threads overlap? *)

StartupAssumption ==
  /\ Main \notin Worker
  /\ MaxHeld \in Nat /\ MaxSkips \in Nat
  /\ Racing \in BOOLEAN

Threads == {Main} \union Worker

VARIABLES
  g_hxinit_ver_,          (* 0, or 1 for HATCHLING_VER *)
  asserts_to_be_skipped,  (* of g_hxsettings *)
  storage,                (* the blocks that back the permanent and the temporary stack *)
  held,                   (* leak_count(), for all allocators *)
  m_started_, m_joined_,  (* of each hxthread *)
  native,                 (* the native thread of each: "none", "running", "returned" *)
  local,                  (* s_hxcurrent_memory_allocator of each thread *)
  outer,                  (* m_initial_allocator_ of the scope a thread has open *)
  guard,                  (* of the static hxthread_id has: 0, 1 done, 2 in progress *)
  step                    (* where each thread is *)

startupVars == <<g_hxinit_ver_, asserts_to_be_skipped, storage, held, m_started_,
                 m_joined_, native, local, outer, guard, step>>
objectVars == <<m_started_, m_joined_, native>>
managerVars == <<g_hxinit_ver_, asserts_to_be_skipped, storage, held>>

Running(t) == t \in Worker => native[t] = "running"

(* "run": outside of what is modelled in steps.  "failed": an assertion    *)
(* has stopped the program.                                                *)
Idle(t) == Running(t) /\ step[t] = "run" /\ \A u \in Threads : step[u] \notin {"failed", "guard_failed"}

StepsTo(t, to) == step' = [step EXCEPT ![t] = to]

StartupInit ==
  /\ g_hxinit_ver_ = 0
  /\ asserts_to_be_skipped = 0
  /\ storage = 0 /\ held = 0
  /\ m_started_ = [w \in Worker |-> FALSE]
  /\ m_joined_ = [w \in Worker |-> FALSE]
  /\ native = [w \in Worker |-> "none"]
  /\ local = [t \in Threads |-> "null"]
  /\ outer = [t \in Threads |-> "none"]
  /\ guard = 0
  /\ step = [t \in Threads |-> "run"]

-----------------------------------------------------------------------------
(* hxinit_internal, in the first call of a function that needs the         *)
(* platform.  Unless they race, first calls are made by a thread that runs *)
(* alone.                                                                  *)
FirstCall(t) ==
  /\ Idle(t)
  /\ g_hxinit_ver_ = 0
  /\ Racing \/ \A u \in Threads \ {t} : ~Running(u)
  /\ StepsTo(t, "settings")
  /\ UNCHANGED <<managerVars, objectVars, local, outer, guard>>

ConstructSettings(t) ==
  /\ step[t] = "settings"
  /\ asserts_to_be_skipped' = 0
  /\ StepsTo(t, "manager")
  /\ UNCHANGED <<g_hxinit_ver_, storage, held, objectVars, local, outer, guard>>

(* Mutant of InitManager: the storage of one stack only. *)
InitManagerPartly(t) ==
  /\ step[t] = "manager"
  /\ storage' = storage + 1
  /\ held' = 0
  /\ local' = [local EXCEPT ![t] = "heap"]
  /\ StepsTo(t, "version")
  /\ UNCHANGED <<g_hxinit_ver_, asserts_to_be_skipped, objectVars, outer, guard>>

(* hxmemory_manager_init: the assertion "Reinit", and construct(), which   *)
(* makes the heap the current allocator of the thread that calls it.       *)
InitManager(t) ==
  /\ step[t] = "manager"
  /\ IF g_hxinit_ver_ # 0
     THEN StepsTo(t, "failed") /\ UNCHANGED <<storage, held, local>>
     ELSE /\ storage' = storage + 2
          /\ held' = 0
          /\ local' = [local EXCEPT ![t] = "heap"]
          /\ StepsTo(t, "version")
  /\ UNCHANGED <<g_hxinit_ver_, asserts_to_be_skipped, objectVars, outer, guard>>

SetVersion(t) ==
  /\ step[t] = "version"
  /\ g_hxinit_ver_' = 1
  /\ StepsTo(t, "run")
  /\ UNCHANGED <<asserts_to_be_skipped, storage, held, objectVars, local, outer, guard>>

-----------------------------------------------------------------------------
(* Calls after initialization.  get_local_ allocates the value of a thread *)
(* when it is first used, with the default, which is the heap.             *)
Local(t) == IF local[t] = "null" THEN "heap" ELSE local[t]

Ready(t) == Idle(t) /\ g_hxinit_ver_ # 0

Allocate(t) ==
  /\ Ready(t)
  /\ held < MaxHeld
  /\ held' = held + 1
  /\ local' = [local EXCEPT ![t] = Local(t)]
  /\ UNCHANGED <<g_hxinit_ver_, asserts_to_be_skipped, storage, objectVars, outer, guard, step>>

(* hxfree goes by the address. *)
Free(t) ==
  /\ Ready(t)
  /\ held > 0
  /\ held' = held - 1
  /\ UNCHANGED <<g_hxinit_ver_, asserts_to_be_skipped, storage, objectVars, local, outer,
                 guard, step>>

BeginScope(t, id) ==
  /\ Ready(t)
  /\ outer[t] = "none"
  /\ outer' = [outer EXCEPT ![t] = Local(t)]
  /\ local' = [local EXCEPT ![t] = id]
  /\ UNCHANGED <<managerVars, objectVars, guard, step>>

EndScope(t) ==
  /\ Ready(t)
  /\ outer[t] # "none"
  /\ local' = [local EXCEPT ![t] = outer[t]]
  /\ outer' = [outer EXCEPT ![t] = "none"]
  /\ UNCHANGED <<managerVars, objectVars, guard, step>>

(* hxshutdown, by the main thread when no other one runs and no scope is   *)
(* open: the manager asserts that nothing leaks, and frees its storage, if *)
(* need be under the allocations when that assertion is one to be skipped. *)
Shutdown ==
  /\ Ready(Main)
  /\ \A w \in Worker : ~Running(w)
  /\ outer[Main] = "none"
  /\ IF held # 0 /\ asserts_to_be_skipped = 0
     THEN StepsTo(Main, "failed") /\ UNCHANGED <<g_hxinit_ver_, storage>>
     ELSE storage' = storage - 2 /\ g_hxinit_ver_' = 0 /\ UNCHANGED step
  /\ asserts_to_be_skipped' =
       IF held # 0 /\ asserts_to_be_skipped > 0 THEN asserts_to_be_skipped - 1
       ELSE asserts_to_be_skipped
  /\ UNCHANGED <<held, objectVars, local, outer, guard>>

(* A test that expects assertions to fail says how many. *)
ExpectAsserts(n) ==
  /\ Ready(Main)
  /\ asserts_to_be_skipped' = n
  /\ UNCHANGED <<g_hxinit_ver_, storage, held, objectVars, local, outer, guard, step>>

(* hxasserthandler, for an assertion of the main thread. *)
AssertFails ==
  /\ Idle(Main)
  /\ IF g_hxinit_ver_ # 0 /\ asserts_to_be_skipped > 0
     THEN asserts_to_be_skipped' = asserts_to_be_skipped - 1 /\ UNCHANGED step
     ELSE StepsTo(Main, "failed") /\ UNCHANGED asserts_to_be_skipped
  /\ UNCHANGED <<g_hxinit_ver_, storage, held, objectVars, local, outer, guard>>

-----------------------------------------------------------------------------
(* hxthread_id(), which the profiler calls in any thread, has a static     *)
(* hxthread_local with HX_USE_THREADS = 11.  __cxa_guard_acquire returns   *)
(* if it is constructed, fails if it is being constructed.                 *)
GuardAcquire(t, constructing, constructed) ==
  /\ guard' = IF guard = 0 THEN 2 ELSE guard
  /\ StepsTo(t, CASE guard = 0 -> constructing
              [] guard = 1 -> constructed
              [] guard = 2 -> "guard_failed")
  /\ UNCHANGED <<managerVars, objectVars, local, outer>>

HxThreadId(t) == Idle(t) /\ GuardAcquire(t, "construct", "run")

GuardRelease(t) ==
  /\ step[t] \in {"construct", "construct_start"}
  /\ guard' = 1
  /\ StepsTo(t, IF step[t] = "construct" THEN "run" ELSE "create")
  /\ UNCHANGED <<managerVars, objectVars, local, outer>>

Joinable(w) == m_started_[w] /\ ~m_joined_[w]

(* Mutant of Start: hxthread_id is not called. *)
StartAtOnce ==
  /\ Idle(Main)
  /\ \E w \in Worker : ~Joinable(w)
  /\ StepsTo(Main, "create")
  /\ UNCHANGED <<managerVars, objectVars, local, outer, guard>>

(* start() calls hxthread_id first, "as local statics may not be locked".  *)
Start ==
  /\ Idle(Main)
  /\ \E w \in Worker : ~Joinable(w)
  /\ GuardAcquire(Main, "construct_start", "create")

(* The new thread has no value of the thread local yet. *)
Create(w) ==
  /\ step[Main] = "create"
  /\ ~Joinable(w)
  /\ native' = [native EXCEPT ![w] = "running"]
  /\ m_started_' = [m_started_ EXCEPT ![w] = TRUE]
  /\ m_joined_' = [m_joined_ EXCEPT ![w] = FALSE]
  /\ StepsTo(Main, "run")
  /\ UNCHANGED <<managerVars, local, outer, guard>>

(* The entry point returns: its scopes are closed, and destroy_local_      *)
(* deletes the value of the thread.                                        *)
Return(w) ==
  /\ Idle(w)
  /\ outer[w] = "none"
  /\ native' = [native EXCEPT ![w] = "returned"]
  /\ local' = [local EXCEPT ![w] = "null"]
  /\ UNCHANGED <<managerVars, m_started_, m_joined_, outer, guard, step>>

Join(w) ==
  /\ Idle(Main)
  /\ Joinable(w)
  /\ native[w] = "returned"
  /\ native' = [native EXCEPT ![w] = "none"]
  /\ m_joined_' = [m_joined_ EXCEPT ![w] = TRUE]
  /\ UNCHANGED <<managerVars, m_started_, local, outer, guard, step>>

(* The destructor of a thread that is not joinable, and a new object. *)
Replace(w) ==
  /\ Idle(Main)
  /\ ~Joinable(w)
  /\ m_started_' = [m_started_ EXCEPT ![w] = FALSE]
  /\ m_joined_' = [m_joined_ EXCEPT ![w] = FALSE]
  /\ UNCHANGED <<managerVars, native, local, outer, guard, step>>

Failed == \E t \in Threads : step[t] \in {"failed", "guard_failed"}

StartupNext ==
  \/ \E t \in Threads :
       \/ FirstCall(t) \/ ConstructSettings(t) \/ InitManager(t) \/ SetVersion(t)
       \/ Allocate(t) \/ Free(t) \/ EndScope(t)
       \/ \E id \in {"heap", "perm", "temp"} : BeginScope(t, id)
       \/ HxThreadId(t) \/ GuardRelease(t)
  \/ \E n \in 1..MaxSkips : ExpectAsserts(n)
  \/ AssertFails \/ Shutdown \/ Start
  \/ \E w \in Worker : Create(w) \/ Return(w) \/ Join(w) \/ Replace(w)
  \/ Failed /\ UNCHANGED startupVars

StartupSpec == StartupInit /\ [][StartupNext]_startupVars

-----------------------------------------------------------------------------
(* The values every variable may take. *)
StartupTypeOK ==
  /\ g_hxinit_ver_ \in 0..1
  /\ asserts_to_be_skipped \in 0..MaxSkips
  /\ storage \in Nat /\ held \in 0..MaxHeld
  /\ m_started_ \in [Worker -> BOOLEAN] /\ m_joined_ \in [Worker -> BOOLEAN]
  /\ native \in [Worker -> {"none", "running", "returned"}]
  /\ local \in [Threads -> {"null", "heap", "perm", "temp"}]
  /\ outer \in [Threads -> {"none", "heap", "perm", "temp"}]
  /\ guard \in 0..2
  /\ step \in [Threads -> {"run", "settings", "manager", "version", "construct",
                          "construct_start", "create", "failed", "guard_failed"}]

(* While the platform is initialized, and then only, the stacks have their *)
(* storage, once: no cycle of shutdown and first call leaks any.           *)
StorageIsOnce ==
  IF g_hxinit_ver_ # 0 \/ \E t \in Threads : step[t] = "version"
  THEN storage = 2 ELSE storage = 0

(* No thread meets the static of hxthread_id while it is constructed.      *)
GuardsHold == \A t \in Threads : step[t] # "guard_failed"

(* The scopes of one thread do not show in another, be it the thread that  *)
(* started it: without a scope of its own a thread allocates from the heap.*)
ScopesAreLocal ==
  \A t \in Threads :
    /\ outer[t] = "none" => Local(t) = "heap"
    /\ outer[t] # "none" => Running(t)

(* An hxthread is joinable while there is a native thread to join, however *)
(* often it is started: none is lost, and none is joined twice.            *)
JoinableIsTrue == \A w \in Worker : Joinable(w) <=> native[w] # "none"

StartupHolds ==
  StorageIsOnce /\ GuardsHold /\ ScopesAreLocal /\ JoinableIsTrue

=============================================================================
