---------------------------- MODULE MCTaskQueue -----------------------------
(***************************************************************************)
(* A program whose client removes tasks, or one whose client does not: it  *)
(* is decided when the program starts.  Without one that removes, some     *)
(* promises hold that are lost with it, see TaskQueue_lost.                *)
(***************************************************************************)
EXTENDS TaskQueue

VARIABLE removing     (* whether the client removes tasks *)

WithoutRemoval == INSTANCE TaskQueue WITH RemovingClient <- {}

programVars == <<removing, vars>>

ProgramInit == removing \in BOOLEAN /\ Init

ProgramNext ==
  /\ UNCHANGED removing
  /\ \/ removing /\ Next
     \/ ~removing /\ WithoutRemoval!Next

(* The fairness of TaskQueue; a task and the loop do the same in both.     *)
ProgramFairness ==
  /\ \A w \in Worker : WF_programVars(StartWorker(w) /\ UNCHANGED removing)
  /\ \A t \in LoopThread :
       /\ WF_programVars(LoopStep(t) /\ UNCHANGED removing)
       /\ WF_programVars(FinishProcess(t) /\ UNCHANGED removing)
  /\ WF_programVars(OwnerStep /\ UNCHANGED removing)

ProgramSpec == ProgramInit /\ [][ProgramNext]_programVars /\ ProgramFairness

(* Unless a client removes tasks, no completion is lost: the owner never   *)
(* sleeps when its predicate is true.                                      *)
OwnerHasWork == ~removing => SleepingOwnerHasWork

(* Unless a client removes tasks, wait_for_all and the destructor return.  *)
OwnerReturnsFromCalls == ~removing => CallsReturn

=============================================================================
