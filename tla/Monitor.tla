------------------------------ MODULE Monitor -------------------------------
(***************************************************************************)
(* hxmutex, hxunique_lock and hxcondition_variable, on one action per call *)
(* of the native library: threads that share a counter of tokens under one *)
(* mutex and wait on one condition variable until there is a token.        *)
(*                                                                         *)
(* Each thread has at most one hxunique_lock.  It reads the counter and    *)
(* writes it back in two steps, so that an update is lost when two of them *)
(* are inside at a time.  TaskQueue builds on what is shown here: between  *)
(* lock and unlock or wait a thread is alone.                              *)
(***************************************************************************)
EXTENDS Naturals, FiniteSets

CONSTANTS Thread,
          MaxTokens,  (* bound on the counter *)
          None        (* no thread *)

MonitorAssumption ==
  /\ MaxTokens \in Nat
  /\ IsFiniteSet(Thread) /\ None \notin Thread

VARIABLES
  holder,      (* the thread that has the native mutex locked, or None *)
  m_owns_,     (* of the hxunique_lock of each thread *)
  at,          (* where each thread is, see At *)
  tokens,      (* the shared counter *)
  seen,        (* what each thread has read of it *)
  owed         (* the threads that added a token and have not notified yet *)

monitorVars == <<holder, m_owns_, at, tokens, seen, owed>>

(* "none": there is no lock object; "locking", "relocking": in the native  *)
(* lock and at the end of the native wait; "test": the predicate is to be  *)
(* evaluated; "granted": wait has returned.                                *)
At == {"none", "scope", "locking", "read", "test", "asleep", "relocking", "granted"}

MonitorInit ==
  /\ holder = None
  /\ m_owns_ = [t \in Thread |-> FALSE]
  /\ at = [t \in Thread |-> "none"]
  /\ tokens = 0
  /\ seen = [t \in Thread |-> 0]
  /\ owed = {}

Goes(t, place) == at' = [at EXCEPT ![t] = place]

(***************************************************************************)
(* The native library: a mutex that is not recursive, and a condition      *)
(* variable whose waits may also return for nothing.                       *)
(***************************************************************************)
Asleep == {t \in Thread : at[t] = "asleep"}

(* pthread_mutex_lock returns, at the beginning or at the end of a wait. *)
Acquire(t) ==
  /\ holder = None
  /\ holder' = t
  /\ \/ /\ at[t] = "locking"
        /\ m_owns_' = [m_owns_ EXCEPT ![t] = TRUE]
        /\ Goes(t, "scope")
     \/ /\ at[t] = "relocking"
        /\ Goes(t, "test")
        /\ UNCHANGED m_owns_
  /\ UNCHANGED <<tokens, seen, owed>>

SpuriousWakeup(t) ==
  /\ at[t] = "asleep"
  /\ Goes(t, "relocking")
  /\ UNCHANGED <<holder, m_owns_, tokens, seen, owed>>

(***************************************************************************)
(* hxunique_lock.                                                          *)
(***************************************************************************)
(* The constructor, which locks unless it is told to defer that.  *)
Construct(t, defer_lock_) ==
  /\ at[t] = "none"
  /\ Goes(t, IF defer_lock_ THEN "scope" ELSE "locking")
  /\ UNCHANGED <<holder, m_owns_, tokens, seen, owed>>

(* Of a lock that owns the mutex it has no effect. *)
Lock(t) ==
  /\ at[t] = "scope"
  /\ ~m_owns_[t]
  /\ Goes(t, "locking")
  /\ UNCHANGED <<holder, m_owns_, tokens, seen, owed>>

(* Mutant of Unlocked: the mutex is unlocked in any case. *)
UnlockedAnyway(t) ==
  /\ holder' = None
  /\ m_owns_' = [m_owns_ EXCEPT ![t] = FALSE]

Unlocked(t) ==
  IF m_owns_[t] THEN /\ holder' = None
                     /\ m_owns_' = [m_owns_ EXCEPT ![t] = FALSE]
                ELSE UNCHANGED <<holder, m_owns_>>

Unlock(t) ==
  /\ at[t] = "scope"
  /\ Unlocked(t)
  /\ UNCHANGED <<at, tokens, seen, owed>>

(* The destructor. *)
Destruct(t) ==
  /\ at[t] = "scope"
  /\ Unlocked(t)
  /\ Goes(t, "none")
  /\ UNCHANGED <<tokens, seen, owed>>

(***************************************************************************)
(* hxcondition_variable.                                                   *)
(***************************************************************************)
(* wait with a predicate, called by the owner of the lock. *)
Wait(t) ==
  /\ at[t] = "scope"
  /\ m_owns_[t]
  /\ t \notin owed
  /\ Goes(t, "test")
  /\ UNCHANGED <<holder, m_owns_, tokens, seen, owed>>

(* Mutant of TestPredicate: the predicate is not tested again after a wait.*)
TestPredicateOnce(t) ==
  /\ at[t] = "test"
  /\ IF tokens > 0 \/ seen[t] # 0
     THEN /\ Goes(t, "granted")
          /\ seen' = [seen EXCEPT ![t] = 0]
          /\ UNCHANGED holder
     ELSE /\ Goes(t, "asleep")
          /\ seen' = [seen EXCEPT ![t] = 1]
          /\ holder' = None
  /\ UNCHANGED <<m_owns_, tokens, owed>>

(* One iteration of its loop: the native wait unlocks the mutex and sleeps *)
(* in one step.  m_owns_ stays as it is.                                   *)
TestPredicate(t) ==
  /\ at[t] = "test"
  /\ IF tokens > 0 THEN Goes(t, "granted") /\ UNCHANGED holder
                   ELSE Goes(t, "asleep") /\ holder' = None
  /\ UNCHANGED <<m_owns_, tokens, seen, owed>>

(* With or without the lock.  A notification that nobody waits for is lost.*)
Notified ==
  IF Asleep = {} THEN UNCHANGED at ELSE \E t \in Asleep : Goes(t, "relocking")

NotifyOne(t) ==
  /\ at[t] \in {"none", "scope"}
  /\ Notified
  /\ owed' = owed \ {t}
  /\ UNCHANGED <<holder, m_owns_, tokens, seen>>

NotifyAll(t) ==
  /\ at[t] \in {"none", "scope"}
  /\ at' = [u \in Thread |-> IF u \in Asleep THEN "relocking" ELSE at[u]]
  /\ owed' = owed \ {t}
  /\ UNCHANGED <<holder, m_owns_, tokens, seen>>

(***************************************************************************)
(* The users of the counter.  Who adds a token owes a notification.        *)
(***************************************************************************)
Read(t) ==
  /\ at[t] \in {"scope", "granted"}
  /\ m_owns_[t]
  /\ at[t] = "scope" => tokens < MaxTokens /\ t \notin owed
  /\ seen' = [seen EXCEPT ![t] = IF at[t] = "scope" THEN tokens + 1 ELSE tokens - 1]
  /\ Goes(t, "read")
  /\ UNCHANGED <<holder, m_owns_, tokens, owed>>

Write(t) ==
  /\ at[t] = "read"
  /\ tokens' = seen[t]
  /\ seen' = [seen EXCEPT ![t] = 0]
  /\ owed' = IF seen[t] > tokens THEN owed \union {t} ELSE owed
  /\ Goes(t, "scope")
  /\ UNCHANGED <<holder, m_owns_>>

MonitorNext ==
  \E t \in Thread :
    \/ Acquire(t) \/ SpuriousWakeup(t)
    \/ Construct(t, TRUE) \/ Construct(t, FALSE)
    \/ Lock(t) \/ Unlock(t) \/ Destruct(t)
    \/ Wait(t) \/ TestPredicate(t)
    \/ NotifyOne(t) \/ NotifyAll(t)
    \/ Read(t) \/ Write(t)

MonitorSpec == MonitorInit /\ [][MonitorNext]_monitorVars

-----------------------------------------------------------------------------
(* The values every variable may take. *)
MonitorTypeOK ==
  /\ holder \in Thread \union {None}
  /\ m_owns_ \in [Thread -> BOOLEAN]
  /\ at \in [Thread -> At]
  /\ tokens \in 0..MaxTokens
  /\ seen \in [Thread -> 0..MaxTokens]
  /\ owed \subseteq Thread

(* owns_lock() is true of one thread at a time, which has the mutex; only  *)
(* a thread in the middle of a wait says so without having it.             *)
OwnershipIsTrue ==
  \A t \in Thread :
    IF at[t] \in {"asleep", "relocking"} THEN m_owns_[t] /\ holder # t
    ELSE m_owns_[t] <=> holder = t

(* When wait returns there is a token, and it stays until it is taken: the *)
(* thread has the mutex and looked at the counter after it got it.         *)
WaitsForPredicate == \A t \in Thread : at[t] = "granted" => tokens > 0

(* No update of the counter is lost between the read and the write.        *)
UpdatesAreAtomic ==
  \A t \in Thread : at[t] = "read" => seen[t] \in {tokens - 1, tokens + 1}

(* The threads that are up to take a token. *)
Takers ==
  {t \in Thread : \/ at[t] \in {"relocking", "test", "granted"}
                  \/ at[t] = "read" /\ seen[t] < tokens}

(* Nobody sleeps through a token: while a thread is asleep, there are not  *)
(* more tokens than threads that are up to take one and notifications that *)
(* are still to be sent, though others may take the token first.           *)
NobodySleepsThrough ==
  Asleep # {} => tokens <= Cardinality(owed) + Cardinality(Takers)

MonitorHolds ==
  OwnershipIsTrue /\ WaitsForPredicate /\ UpdatesAreAtomic /\ NobodySleepsThrough

=============================================================================
