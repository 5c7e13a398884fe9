------------------------------ MODULE Profiler ------------------------------
(***************************************************************************)
(* The profiler: scopes of several threads sample the cycle counter when   *)
(* they begin and when they end, and then lock the profiler to add a       *)
(* record.  The counter has the values 0..Wrap-1; times are kept unwrapped *)
(* here, and Cycles gives what the program sees of them.                   *)
(***************************************************************************)
EXTENDS Integers, Sequences

CONSTANTS
  Thread,
  NativeId,     \* what the system calls each thread: pthread_self() or an address
  IdCount,      \* the number of values of uint32_t
  Wrap,         \* the number of values of hxcycles_t
  MinCycles,    \* min_cycles_ of the scopes
  MaxRecords,   \* HX_PROFILER_MAX_RECORDS
  MaxDepth,     \* bound: nested scopes of a thread
  MaxTime       \* bound: the time at which the model stops

VARIABLES
  now,
  m_is_started_, m_records,
  scopes,       \* m_t0_ of the scopes of each thread, the innermost last
  t1            \* of each thread: the sample its destructor took, or -1

profilerVars == <<now, m_is_started_, m_records, scopes, t1>>

ProfilerAssumption ==
  /\ NativeId \in [Thread -> Nat] /\ IdCount \in Nat \ {0}
  /\ Wrap \in Nat \ {0} /\ MinCycles \in Nat /\ MaxRecords \in Nat
  /\ MaxDepth \in Nat /\ MaxTime \in Nat

Record == [m_begin_ : 0..MaxTime, m_end_ : 0..MaxTime, m_thread_id_ : 0..(IdCount - 1)]
Cycles(t) == t % Wrap
Elapsed(from, to) == (Cycles(to) - Cycles(from)) % Wrap

ProfilerInit ==
  /\ now = 0
  /\ m_is_started_ = FALSE /\ m_records = <<>>
  /\ scopes = [t \in Thread |-> <<>>]
  /\ t1 = [t \in Thread |-> -1]

-----------------------------------------------------------------------------
Tick ==
  /\ now < MaxTime
  /\ now' = now + 1
  /\ UNCHANGED <<m_is_started_, m_records, scopes, t1>>

(* The constructor of a scope does not look whether the profiler runs. *)
Enter(t) ==
  /\ t1[t] = -1
  /\ Len(scopes[t]) < MaxDepth
  /\ scopes' = [scopes EXCEPT ![t] = Append(@, now)]
  /\ UNCHANGED <<now, m_is_started_, m_records, t1>>

(* The destructor samples first ... *)
Sample(t) ==
  /\ t1[t] = -1
  /\ scopes[t] # <<>>
  /\ t1' = [t1 EXCEPT ![t] = now]
  /\ UNCHANGED <<now, m_is_started_, m_records, scopes>>

Innermost(t) == scopes[t][Len(scopes[t])]

(* Mutant of hxthread_id: the address of a static object of all threads. *)
SharedId(t) == NativeId[CHOOSE u \in Thread : TRUE]

(* pthread_self(), or the address of the thread's copy of a thread local   *)
(* variable.  A thread that gets the id of one that has ended is the same  *)
(* thread here: it begins after it.                                        *)
hxthread_id(t) == NativeId[t]

(* A record keeps the low bits: threads whose ids agree in them share it.  *)
Truncated(id) == id % IdCount

(* ... and then locks, by when the profiler may have been started.         *)
Leave(t) ==
  LET t0 == Innermost(t)
      kept == /\ m_is_started_
              /\ Elapsed(t0, t1[t]) >= MinCycles
              /\ Len(m_records) < MaxRecords
      record == [m_begin_ |-> t0, m_end_ |-> t1[t],
                 m_thread_id_ |-> Truncated(hxthread_id(t))]
  IN /\ t1[t] # -1
     /\ m_records' = IF kept THEN Append(m_records, record) ELSE m_records
     /\ scopes' = [scopes EXCEPT ![t] = SubSeq(@, 1, Len(@) - 1)]
     /\ t1' = [t1 EXCEPT ![t] = -1]
     /\ UNCHANGED <<now, m_is_started_>>

start_ ==
  /\ m_records' = <<>>
  /\ m_is_started_' = TRUE
  /\ UNCHANGED <<now, scopes, t1>>

(* stop_, log_ and write_to_chrome_tracing_: the last two read the records *)
(* under the same lock.                                                    *)
stop_ ==
  /\ m_is_started_' = FALSE
  /\ UNCHANGED <<now, m_records, scopes, t1>>

(* What write_to_chrome_tracing_ writes now: times count from the begin of *)
(* the first record.                                                       *)
Trace ==
  LET forward(r) == Cycles(r.m_end_) >= Cycles(r.m_begin_)
      samples == SelectSeq(m_records, forward)
      Relative(t) == Elapsed(m_records[1].m_begin_, t)
  IN [i \in 1..Len(samples) |->
        [begin |-> Relative(samples[i].m_begin_), end |-> Relative(samples[i].m_end_)]]

ProfilerNext ==
  \/ Tick
  \/ \E t \in Thread : Enter(t) \/ Sample(t) \/ Leave(t)
  \/ start_
  \/ stop_

-----------------------------------------------------------------------------
(* The values every variable may take. *)
ProfilerTypeOK ==
  /\ now \in 0..MaxTime
  /\ m_is_started_ \in BOOLEAN
  /\ m_records \in Seq(Record)
  /\ \A t \in Thread : scopes[t] \in Seq(0..MaxTime)
  /\ t1 \in [Thread -> -1..MaxTime]

HasOwnId(t) == \A u \in Thread : Truncated(NativeId[u]) = Truncated(NativeId[t]) => u = t

(* The records with the id of a thread that no other thread shares are in  *)
(* the order in which its scopes ended, and any two of them are nested or  *)
(* apart; the scopes that are still open will be around those recorded     *)
(* since they began.                                                       *)
RecordsNest ==
  LET apart(b, e, r) == r.m_end_ <= b \/ (b <= r.m_begin_ /\ r.m_end_ <= e)
      Of(t) == {j \in 1..Len(m_records) :
                  m_records[j].m_thread_id_ = Truncated(NativeId[t])}
  IN /\ \A j \in 1..Len(m_records) : m_records[j].m_begin_ <= m_records[j].m_end_
     /\ \A t \in Thread : HasOwnId(t) =>
          \A j \in Of(t) :
            /\ \A i \in Of(t) :
                 i < j => apart(m_records[j].m_begin_, m_records[j].m_end_, m_records[i])
            /\ \A k \in 1..Len(scopes[t]) : apart(scopes[t][k], now, m_records[j])

(* While the profiler is stopped the records stay, for log and write; only *)
(* start discards them.                                                    *)
StoppedStep ==
  ~m_is_started_ /\ m_records' # m_records => m_is_started_' /\ m_records' = <<>>

(* No written sample ends before it begins: hxprofiler.cpp says that the   *)
(* viewers reject those.                                                   *)
SamplesRunForward == \A i \in 1..Len(Trace) : Trace[i].begin <= Trace[i].end

=============================================================================
