------------------------------ MODULE MCTiming -------------------------------
(*****************************************************************************)
(* Discovery, the timer scheduler and the watchdog, one at a time: which     *)
(* says whose behaviours are explored, the others keep their initial         *)
(* state.                                                                    *)
(*****************************************************************************)
EXTENDS Discovery

VARIABLES
  which,
  t_slots, next_id, now, t_running, tpc, t_pending, t_opc, fires, added,
  removed, extra,
  w_slots, id, wpc, auto, w_opc, cpc, w_lag, w_pending, w_ticking, own, beaten,
  told

T == INSTANCE Timer WITH
  MaxTasks <- 2, Periods <- {1, 2}, MaxTime <- 4, MaxAdds <- 2,
  slots <- t_slots, running <- t_running, pending <- t_pending, opc <- t_opc
W == INSTANCE Watchdog WITH
  Workers <- {"w1", "w2"}, MaxThreads <- 1, Timeout <- 1, MaxLag <- 1,
  MaxGeneration <- 2, IdGenerations <- 4, FeedRaces <- FALSE, slots <- w_slots,
  opc <- w_opc, lag <- w_lag, pending <- w_pending, ticking <- w_ticking

timerVars ==
  <<t_slots, next_id, now, t_running, tpc, t_pending, t_opc, fires, added,
    removed, extra>>
watchdogVars ==
  <<w_slots, id, wpc, auto, w_opc, cpc, w_lag, w_pending, w_ticking, own,
    beaten, told>>
mcVars == <<which, vars, timerVars, watchdogVars>>

(* What the components that are not looked at keep. *)
OnlyDiscovery ==
  which = "discovery" /\ UNCHANGED <<which, timerVars, watchdogVars>>
OnlyTimer ==
  which = "timer" /\ UNCHANGED <<which, vars, watchdogVars>>
OnlyWatchdog ==
  which = "watchdog" /\ UNCHANGED <<which, vars, timerVars>>

MCInit ==
  /\ which \in {"discovery", "timer", "watchdog"}
  /\ Init /\ T!Init /\ W!Init
  /\ which # "discovery" => ~scheduled
  /\ which # "watchdog" => ~w_ticking

MCNext ==
  \/ OnlyDiscovery /\ Next
  \/ OnlyTimer /\ T!Next
  \/ OnlyWatchdog /\ W!Next

FairDiscovery ==
  /\ WF_vars(which = "discovery" /\ Receiver)
  /\ WF_vars(which = "discovery" /\ TimerThread)
  /\ WF_vars(which = "discovery" /\ AnnounceLoop)
  /\ WF_vars(which = "discovery" /\ Stopping)
  /\ WF_vars(which = "discovery" /\ Tick)
FairTimer ==
  /\ WF_timerVars(which = "timer" /\ T!Scheduler)
  /\ WF_timerVars(which = "timer" /\ T!StopJoin)
FairWatchdog ==
  /\ WF_watchdogVars(which = "watchdog" /\ W!AutoThread)
  /\ WF_watchdogVars(which = "watchdog" /\ W!StopJoin)

MCSpec ==
  /\ MCInit /\ [][MCNext]_mcVars
  /\ FairDiscovery /\ FairTimer /\ FairWatchdog

-----------------------------------------------------------------------------
(* Timer: a task runs only when it is due, once if it is a one-shot and at   *)
(* most once after Remove() returned; every task that is due runs and Stop() *)
(* returns.                                                                  *)
TimersCorrect == [](which = "timer" => T!TimerExact) /\ T!DueTasksRun

(* Watchdog: with one checker a timeout is reported only of a thread that    *)
(* was silent and a recovery only of one that fed its slot, also when the    *)
(* slot has been given to another thread between two calls of Feed(); a      *)
(* thread that falls silent is found.                                        *)
WatchdogCorrect == W!ReportsExact /\ W!SilentFound

(* Discovery: every stay in the table is reported by one join and one leave, *)
(* a node leaves only after it was silent for the timeout, and one that      *)
(* falls silent leaves.                                                      *)
NodesTracked ==
  [](which = "discovery" => NodesReported) /\ LeaveDeserved /\ SilentLeaves
=============================================================================
