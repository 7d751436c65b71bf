------------------------------ MODULE Executor ------------------------------
(***************************************************************************)
(* The executors that dispatch a bus: Spin() of SingleThreadExecutor on    *)
(* the caller's thread, and Start() and Stop() of StaticExecutor and       *)
(* PinnedExecutor (and of RealtimeExecutor without a stack size of its     *)
(* own) with a thread of their own.  The bus has one consumer, so          *)
(* ProcessBatch() must not run twice at a time.                            *)
(***************************************************************************)
EXTENDS Integers, FiniteSets

CONSTANTS
  Starters, Stoppers, \* threads that call Start() or Spin(), and Stop()
  MaxCalls,           \* bound: calls of each of them
  Kinds               \* of executor: "spin" or "thread"

VARIABLES
  kind,
  running,            \* running_
  pc, calls,          \* the threads of the application
  thread,             \* dispatch_thread_: "none", "run", "batch" or "ended"
  wanted              \* history: no Stop() since the last Start() or Spin()

vars == <<kind, running, pc, calls, thread, wanted>>
Callers == Starters \cup Stoppers

Init ==
  /\ kind \in Kinds
  /\ running = FALSE /\ thread = "none" /\ wanted = FALSE
  /\ pc = [t \in Callers |-> "idle"] /\ calls = [t \in Callers |-> 0]

Go(t, to) == pc' = [pc EXCEPT ![t] = to]
Called(t) == calls[t] < MaxCalls /\ calls' = [calls EXCEPT ![t] = @ + 1]

-----------------------------------------------------------------------------
(* StaticExecutor::Start(): one caller wins the flag and starts the thread;  *)
(* a thread that was never joined refuses to start again.                    *)

Start(t) ==
  /\ kind = "thread" /\ pc[t] = "idle" /\ Called(t) /\ wanted' = TRUE
  /\ running' = TRUE /\ (IF running THEN UNCHANGED pc ELSE Go(t, "spawn"))
  /\ UNCHANGED <<kind, thread>>

StartThread(t) ==
  /\ pc[t] = "spawn" /\ Go(t, "idle")
  /\ IF thread = "none" THEN thread' = "run" /\ UNCHANGED running
     ELSE running' = FALSE /\ UNCHANGED thread
  /\ UNCHANGED <<kind, calls, wanted>>

(* DispatchLoop() *)
Dispatch ==
  /\ \/ thread = "run" /\ thread' = IF running THEN "batch" ELSE "ended"
     \/ thread = "batch" /\ thread' = "run"
  /\ UNCHANGED <<kind, running, pc, calls, wanted>>

(* SingleThreadExecutor::Spin() *)
SpinCalled(t) ==
  /\ kind = "spin" /\ pc[t] = "idle" /\ Called(t) /\ wanted' = TRUE
  /\ \A u \in Starters : pc[u] = "idle"
  /\ Go(t, "store") /\ UNCHANGED <<kind, running, thread>>

Spin(t) ==
  /\ \/ pc[t] = "store" /\ running' = TRUE /\ Go(t, "spin")
     \/ pc[t] = "spin" /\ UNCHANGED running /\ Go(t, IF running THEN "batch" ELSE "idle")
     \/ pc[t] = "batch" /\ UNCHANGED running /\ Go(t, "spin")
  /\ UNCHANGED <<kind, calls, thread, wanted>>

Stop(t) ==
  /\ pc[t] = "idle" /\ Called(t) /\ wanted' = FALSE
  /\ running' = FALSE /\ Go(t, IF kind = "thread" THEN "join" ELSE "idle")
  /\ UNCHANGED <<kind, thread>>

(* Mutant: Stop() does not wait. *)
Join_Not(t) ==
  /\ pc[t] = "join" /\ Go(t, "idle")
  /\ UNCHANGED <<kind, running, calls, thread, wanted>>

Join(t) ==
  /\ pc[t] = "join" /\ thread \in {"none", "ended"}
  /\ thread' = "none" /\ Go(t, "idle")
  /\ UNCHANGED <<kind, running, calls, wanted>>

Next ==
  \/ \E t \in Starters : Start(t) \/ StartThread(t) \/ SpinCalled(t) \/ Spin(t)
  \/ \E t \in Stoppers : Stop(t) \/ Join(t)
  \/ Dispatch

Spec ==
  /\ Init /\ [][Next]_vars /\ WF_vars(Dispatch)
  /\ \A t \in Starters : WF_vars(StartThread(t)) /\ WF_vars(Spin(t))
  /\ \A t \in Stoppers : WF_vars(Join(t))

-----------------------------------------------------------------------------
(* After Stop() of an executor with a thread has returned nothing is         *)
(* dispatched, also when a Start() on another thread had won the flag before *)
(* the Stop() and creates its thread only afterwards.                        *)
NothingAfterStop ==
  kind = "thread" /\ ~wanted /\ (\A t \in Stoppers : pc[t] = "idle") => thread # "batch"

(* Stop() returns unless a later Start() has begun anew, and a Spin() that   *)
(* it finds in its loop comes back ("it will exit after the current          *)
(* iteration completes").                                                    *)
StopEnds ==
  /\ \A t \in Stoppers : []<>(pc[t] # "join" \/ wanted)
  /\ \A t \in Starters : []<>(pc[t] \notin {"spin", "batch"} \/ running)
=============================================================================
