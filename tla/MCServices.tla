----------------------------- MODULE MCServices ------------------------------
(*****************************************************************************)
(* The fault collector, the ring of several producers, the application       *)
(* queue and the service, one at a time: which says whose behaviours are     *)
(* explored, the others keep an initial state.                               *)
(*****************************************************************************)
EXTENDS MpscRing

VARIABLES
  which,
  f_queue, active, reported, dropped, processed, breaker, f_running,
  shutdown_requested, rpc, rep, left, f_cpc, pri, entry, spc, escalated,
  overlap,
  p_queue, p_cpc, targets, inst, p_pc, p_call, refs, replied, p_result,
  s_running, opc, starts, apc, accepted, entries, s_active, wpc, conn,
  requests, replies, connected, s_cpc, s_call, busy, ready, s_result

F == INSTANCE FaultCollector WITH
  Reporters <- {"r1", "r2"}, Faults <- {"f1"}, QueueDepth <- 2,
  kPriorityLevels <- 2, Reports <- 1, CooldownCycles <- 1, queue <- f_queue,
  running <- f_running, cpc <- f_cpc
P == INSTANCE AppPost WITH
  Callers <- {"c1", "c2"}, MaxInstances <- 1, QueueDepth <- 3, Calls <- 1,
  AcquireFirst <- TRUE, queue <- p_queue, cpc <- p_cpc, pc <- p_pc,
  call <- p_call, result <- p_result
S == INSTANCE Service WITH
  Clients <- {"c1", "c2"}, MaxConcurrent <- 2, MaxWorkers <- 1, Calls <- 2,
  MaxStarts <- 1, running <- s_running, active <- s_active, cpc <- s_cpc,
  call <- s_call, result <- s_result

faultsVars ==
  <<f_queue, active, reported, dropped, processed, breaker, f_running,
    shutdown_requested, rpc, rep, left, f_cpc, pri, entry, spc, escalated,
    overlap>>
postVars ==
  <<p_queue, p_cpc, targets, inst, p_pc, p_call, refs, replied, p_result>>
serviceVars ==
  <<s_running, opc, starts, apc, accepted, entries, s_active, wpc, conn,
    requests, replies, connected, s_cpc, s_call, busy, ready, s_result>>
mcVars == <<which, faultsVars, postVars, serviceVars, vars>>

(* What the components that are not looked at keep. *)
OnlyFaults ==
  which = "faults" /\ UNCHANGED <<which, postVars, serviceVars, vars>>
OnlyPost ==
  which = "post" /\ UNCHANGED <<which, faultsVars, serviceVars, vars>>
OnlyService ==
  which = "service" /\ UNCHANGED <<which, faultsVars, postVars, vars>>
OnlyMpsc ==
  which = "mpsc" /\ UNCHANGED <<which, faultsVars, postVars, serviceVars>>

MCInit ==
  /\ which \in {"faults", "post", "service", "mpsc"}
  /\ F!Init /\ P!Init /\ S!Init /\ Init
  /\ which # "mpsc" => retry

MCNext ==
  \/ OnlyFaults /\ F!Next
  \/ OnlyPost /\ P!Next
  \/ OnlyService /\ S!Next
  \/ OnlyMpsc /\ Next

FairFaults ==
  /\ WF_faultsVars(which = "faults" /\ F!ConsumerStep)
  /\ \A r \in {"r1", "r2"} : WF_faultsVars(which = "faults" /\ F!ReporterStep(r))
FairPost ==
  /\ WF_postVars(which = "post" /\ P!Processing)
  /\ \A c \in {"c1", "c2"} : WF_postVars(which = "post" /\ P!Calling(c))
FairService ==
  /\ WF_serviceVars(which = "service" /\ S!Stopping)
  /\ WF_serviceVars(which = "service" /\ S!AcceptLoop)
  /\ \A c \in {"c1", "c2"} : WF_serviceVars(which = "service" /\ S!HandleConnection(c))
  /\ \A c \in {"c1", "c2"} : WF_serviceVars(which = "service" /\ S!CallThread(c))
FairMpsc ==
  /\ WF_vars(which = "mpsc" /\ Pop)
  /\ \A p \in Producers : WF_vars(which = "mpsc" /\ Push(p))

MCSpec ==
  /\ MCInit /\ [][MCNext]_mcVars
  /\ FairFaults /\ FairPost /\ FairService /\ FairMpsc

-----------------------------------------------------------------------------
(* FaultCollector: no report is lost or processed twice, and what is queued  *)
(* gets processed.                                                           *)
ReportsCorrect == [](which = "faults" => F!FaultsAccounted) /\ F!ReportsProcessed

(* AppPost: a response channel is freed by the last of its users and not     *)
(* before, and every call of OspSendAndWait() returns and leaves none.       *)
RequestsCorrect == [](which = "post" => P!ChannelsExact) /\ P!ChannelsFreed

(* Service: a late response is not taken for the answer to a later call, and *)
(* the workers that run are counted and joined.                              *)
CallsMatched == which = "service" => S!CallsMatched

(* Service: Stop() returns, unless a silent client keeps its connection.     *)
StopOrClient == S!StopOrClient
=============================================================================
