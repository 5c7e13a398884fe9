------------------------------ MODULE TaskPool ------------------------------
(***************************************************************************)
(* What hxtask_queue promises its callers, with no lock, no condition      *)
(* variable and no execution counter: a pool of submitted tasks, some of   *)
(* them running, that the owner may wait on and finally close.  TaskQueue  *)
(* implements it.                                                          *)
(***************************************************************************)
EXTENDS Naturals

CONSTANTS Thread,    (* the threads that execute tasks: workers and owner *)
          Ticket,    (* one identity for each submission *)
          NoTicket   (* not a ticket: a thread that executes nothing *)

VARIABLES submitted, (* the tickets handed to enqueue so far *)
          pending,   (* the tickets that are queued *)
          running,   (* the ticket each thread executes, or NoTicket *)
          phase      (* what the owner is doing with the pool *)

poolVars == <<submitted, pending, running, phase>>

Phase == {"open", "waiting", "closing", "closed"}

Outstanding == pending # {} \/ \E t \in Thread : running[t] # NoTicket

PoolInit ==
  /\ submitted = {}
  /\ pending = {}
  /\ running = [t \in Thread |-> NoTicket]
  /\ phase = "open"

(* A task may be submitted until the pool is closed. *)
Submit(k) ==
  /\ phase # "closed"
  /\ k \notin submitted
  /\ submitted' = submitted \union {k}
  /\ pending' = pending \union {k}
  /\ UNCHANGED <<running, phase>>

(* Queued tasks may be withdrawn; running ones may not. *)
Withdraw(S) ==
  /\ S \subseteq pending
  /\ pending' = pending \ S
  /\ UNCHANGED <<submitted, running, phase>>

(* An idle thread starts a queued task, which leaves the queue for good. *)
Start(t, k) ==
  /\ running[t] = NoTicket
  /\ k \in pending
  /\ pending' = pending \ {k}
  /\ running' = [running EXCEPT ![t] = k]
  /\ UNCHANGED <<submitted, phase>>

Complete(t) ==
  /\ running[t] # NoTicket
  /\ running' = [running EXCEPT ![t] = NoTicket]
  /\ UNCHANGED <<submitted, pending, phase>>

BeginWait ==
  /\ phase = "open"
  /\ phase' = "waiting"
  /\ UNCHANGED <<submitted, pending, running>>

(* wait_for_all returns only when nothing is queued and nothing runs. *)
EndWait ==
  /\ phase = "waiting"
  /\ ~Outstanding
  /\ phase' = "open"
  /\ UNCHANGED <<submitted, pending, running>>

BeginClose ==
  /\ phase = "open"
  /\ phase' = "closing"
  /\ UNCHANGED <<submitted, pending, running>>

(* The same holds of the destructor, after which nothing starts. *)
EndClose ==
  /\ phase = "closing"
  /\ ~Outstanding
  /\ phase' = "closed"
  /\ UNCHANGED <<submitted, pending, running>>

PoolNext ==
  \/ \E k \in Ticket : Submit(k)
  \/ \E S \in SUBSET Ticket : Withdraw(S)
  \/ \E t \in Thread, k \in Ticket : Start(t, k)
  \/ \E t \in Thread : Complete(t)
  \/ BeginWait \/ EndWait \/ BeginClose \/ EndClose

PoolSpec == PoolInit /\ [][PoolNext]_poolVars

=============================================================================
