------------------------------ MODULE MCThreads ------------------------------
(*****************************************************************************)
(* The worker pool and the executors, one at a time: which says whose        *)
(* behaviours are explored, the other keeps an initial state.                *)
(*****************************************************************************)
EXTENDS WorkerPool

VARIABLES
  which,
  kind, running, pc, calls, thread, wanted

E == INSTANCE Executor WITH
  Starters <- {"s1", "s2"}, Stoppers <- {"q1"}, MaxCalls <- 2,
  Kinds <- {"thread", "spin"}

executorVars ==
  <<kind, running, pc, calls, thread, wanted>>
mcVars == <<which, vars, executorVars>>

(* What the components that are not looked at keep. *)
OnlyWorkers ==
  which = "workers" /\ UNCHANGED <<which, executorVars>>
OnlyExecutor ==
  which = "executor" /\ UNCHANGED <<which, vars>>

MCInit ==
  /\ which \in {"workers", "executor"}
  /\ Init /\ E!Init
  /\ which # "executor" => kind = "thread"

MCNext ==
  \/ OnlyWorkers /\ Next
  \/ OnlyExecutor /\ E!Next

FairWorkers ==
  /\ WF_vars(which = "workers" /\ DispatcherStep)
  /\ WF_vars(which = "workers" /\ (StartFailed \/ Joins))
  /\ \A w \in Workers : WF_vars(which = "workers" /\ WorkerStep(w))
  /\ \A s \in Submitters : WF_vars(which = "workers" /\ SubmitFill(s))
FairExecutor ==
  /\ WF_executorVars(which = "executor" /\ E!Dispatch)
  /\ \A t \in {"s1", "s2"} : WF_executorVars(which = "executor" /\ E!StartThread(t))
  /\ \A t \in {"s1", "s2"} : WF_executorVars(which = "executor" /\ E!Spin(t))
  /\ \A t \in {"q1"} : WF_executorVars(which = "executor" /\ E!Join(t))

MCSpec ==
  /\ MCInit /\ [][MCNext]_mcVars
  /\ FairWorkers /\ FairExecutor

-----------------------------------------------------------------------------
(* WorkerPool: accepted jobs finish, and Shutdown() and the roll-back of a   *)
(* failed Start() return.                                                    *)
PoolProgress == JobsFinish /\ ShutdownReturns

(* Executor: nothing is dispatched after Stop() has returned, and it returns *)
(* unless a later Start() has begun anew.                                    *)
StopHonoured == [](which = "executor" => E!NothingAfterStop) /\ E!StopEnds
=============================================================================
