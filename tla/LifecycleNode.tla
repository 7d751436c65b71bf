--------------------------- MODULE LifecycleNode ---------------------------
(***************************************************************************)
(* osp::LifecycleNode (lifecycle_node.hpp): the calls of the node's owner, *)
(* each of them checked against the detailed or the coarse state, then     *)
(* dispatched to a state machine that drops what no handler takes.  The    *)
(* machine has no entry or exit actions: a transition changes the state.   *)
(***************************************************************************)
EXTENDS HsmPaths

Parent ==
  [s \in {"Alive", "Unconfigured", "Initializing", "WaitingConfig", "Configured",
          "Inactive", "Standby", "Paused", "Active", "Starting", "Running",
          "Degraded", "Error", "Recoverable", "Fatal", "Finalized"} |->
     CASE s \in {"Unconfigured", "Configured", "Error"} -> "Alive"
       [] s \in {"Initializing", "WaitingConfig"} -> "Unconfigured"
       [] s \in {"Inactive", "Active"} -> "Configured"
       [] s \in {"Standby", "Paused"} -> "Inactive"
       [] s \in {"Starting", "Running", "Degraded"} -> "Active"
       [] s \in {"Recoverable", "Fatal"} -> "Error"
       [] OTHER -> kNoState]

VARIABLES
  state,                 \* detailed state
  call, result,          \* the last call and its answer
  configured, activated, \* on_configure (on_activate) succeeded, and on_cleanup
                         \* (on_deactivate) not since
  errors                 \* TriggerError or TriggerFatalError was accepted

vars == <<state, call, result, configured, activated, errors>>

Row(s, e, cb, t) == [at |-> s, event |-> e, callback |-> cb, to |-> t]

(* The handlers: in which state, on which event, after which callback, they *)
(* request which transition.                                                *)
HandleAlive ==
  {Row("Alive", "Shutdown", "on_shutdown", "Finalized"),
   Row("Alive", "FatalError", "none", "Fatal"),
   Row("Alive", "Error", "none", "Recoverable")}

HandleWaitingConfig == {Row("WaitingConfig", "Configure", "on_configure", "Standby")}

HandleStandby ==
  {Row("Standby", "Activate", "on_activate", "Running"),
   Row("Standby", "Cleanup", "on_cleanup", "WaitingConfig")}

(* Mutant: a paused node reacts to Resume alone. *)
HandlePaused_ResumeOnly ==
  {Row("Paused", "Resume", "on_activate", "Running"),
   Row("Paused", "Cleanup", "on_cleanup", "WaitingConfig")}

HandlePaused ==
  {Row("Paused", "Resume", "on_activate", "Running"),
   Row("Paused", "Activate", "on_activate", "Running"),
   Row("Paused", "Cleanup", "on_cleanup", "WaitingConfig")}

HandleRunning ==
  {Row("Running", "Deactivate", "on_deactivate", "Standby"),
   Row("Running", "Pause", "on_deactivate", "Paused"),
   Row("Running", "MarkDegraded", "none", "Degraded")}

HandleDegraded ==
  {Row("Degraded", "ClearDegraded", "none", "Running"),
   Row("Degraded", "Deactivate", "on_deactivate", "Standby"),
   Row("Degraded", "Pause", "on_deactivate", "Paused")}

HandleRecoverable == {Row("Recoverable", "Recover", "none", "WaitingConfig")}

(* The other states take nothing; Finalized absorbs, which changes nothing. *)
Handlers ==
  HandleAlive \cup HandleWaitingConfig \cup HandleStandby \cup HandlePaused
    \cup HandleRunning \cup HandleDegraded \cup HandleRecoverable

MapToCoarseState(s) ==
  CASE IsInState(Parent, s, "Unconfigured") \/ s = "Alive" -> "Unconfigured"
    [] IsInState(Parent, s, "Error") -> "Unconfigured"
    [] IsInState(Parent, s, "Inactive") \/ s = "Configured" -> "Inactive"
    [] IsInState(Parent, s, "Active") -> "Active"
    [] OTHER -> "Finalized"

IsIn(s) == IsInState(Parent, state, s)

Init ==
  /\ state = "WaitingConfig" /\ call = "none" /\ result = "none"
  /\ configured = FALSE /\ activated = FALSE /\ errors = FALSE

Return(c, r) == call' = c /\ result' = r

Refuse(c, r) == Return(c, r) /\ UNCHANGED <<state, configured, activated, errors>>

(* The rows that take the event in the innermost state that has any. *)
Taking(e) ==
  LET levels == {n \in Steps(Parent) :
                   \E r \in Handlers : r.at = Up(Parent, state, n) /\ r.event = e}
  IN IF levels = {} THEN {}
     ELSE {r \in Handlers : r.at = Up(Parent, state, Min(levels)) /\ r.event = e}

(* DispatchAndCheck, on behalf of call c: only a callback that fails makes an *)
(* error; an event that nothing takes is dropped and the call succeeds.       *)
DispatchAndCheck(c, e) ==
  \/ Taking(e) = {} /\ Refuse(c, "success")
  \/ \E r \in Taking(e) :
       /\ Return(c, "success") /\ state' = r.to
       /\ configured' = (r.callback = "on_configure" \/ (configured /\ r.callback # "on_cleanup"))
       /\ activated' = (r.callback = "on_activate" \/ (activated /\ r.callback # "on_deactivate"))
       /\ errors' = (errors \/ e \in {"Error", "FatalError"})
  \/ \E r \in Taking(e) :
       /\ r.callback \in {"on_configure", "on_activate", "on_deactivate", "on_cleanup"}
       /\ Refuse(c, "CallbackFailed")

Expected == [Configure |-> "Unconfigured", Activate |-> "Inactive",
             Deactivate |-> "Active", Cleanup |-> "Inactive"]

TriggerRefusal(t) ==
  IF t = "Shutdown" THEN "none"
  ELSE IF state = "Finalized" THEN "AlreadyFinalized"
  ELSE IF IsIn("Error") \/ MapToCoarseState(state) # Expected[t] THEN "InvalidTransition"
  ELSE "none"

Trigger(t) ==
  IF TriggerRefusal(t) # "none" THEN Refuse(t, TriggerRefusal(t)) ELSE DispatchAndCheck(t, t)

Guarded(c, allowed, e) ==
  IF allowed THEN DispatchAndCheck(c, e) ELSE Refuse(c, "InvalidTransition")

Pause == Guarded("Pause", IsIn("Active"), "Pause")
Resume == Guarded("Resume", state = "Paused", "Resume")
MarkDegraded == Guarded("MarkDegraded", state = "Running", "MarkDegraded")
ClearDegraded == Guarded("ClearDegraded", state = "Degraded", "ClearDegraded")
TriggerError ==
  Guarded("TriggerError", state # "Finalized" /\ ~IsIn("Error"), "Error")
TriggerFatalError ==
  Guarded("TriggerFatalError", state # "Finalized" /\ ~IsIn("Error"), "FatalError")
Recover == Guarded("Recover", state = "Recoverable", "Recover")

Next ==
  \/ \E t \in {"Configure", "Activate", "Deactivate", "Cleanup", "Shutdown"} : Trigger(t)
  \/ Pause \/ Resume \/ MarkDegraded \/ ClearDegraded
  \/ TriggerError \/ TriggerFatalError \/ Recover

Spec == Init /\ [][Next]_vars

-----------------------------------------------------------------------------
(* The moves that the coarse state makes when a call succeeds, as documented   *)
(* for LifecycleTransition and for the rich transitions.                       *)
Documented(c) ==
  CASE c = "Configure" -> {<<"Unconfigured", "Inactive">>}
    [] c \in {"Activate", "Resume"} -> {<<"Inactive", "Active">>}
    [] c \in {"Deactivate", "Pause"} -> {<<"Active", "Inactive">>}
    [] c = "Cleanup" -> {<<"Inactive", "Unconfigured">>}
    [] c = "Shutdown" -> {"Unconfigured", "Inactive", "Active", "Finalized"} \X {"Finalized"}
    [] c \in {"MarkDegraded", "ClearDegraded"} -> {<<"Active", "Active">>}
    [] c \in {"TriggerError", "TriggerFatalError"} ->
         {"Unconfigured", "Inactive", "Active"} \X {"Unconfigured"}
    [] OTHER -> {<<"Unconfigured", "Unconfigured">>}

(* A call that reports success has made the documented move, although the   *)
(* machine drops events without a word; one that reports an error has       *)
(* changed nothing.                                                         *)
SuccessMeansMoved ==
  [][/\ result' = "success" =>
          <<MapToCoarseState(state), MapToCoarseState(state')>> \in Documented(call')
     /\ result' # "success" => state' = state]_vars

(* Until an error is triggered or the node is shut down, the callbacks come    *)
(* in pairs: the node is configured while Inactive or Active, and activated    *)
(* while Active, degraded or not, through pauses and failing callbacks.        *)
CallbacksPaired ==
  ~errors /\ state # "Finalized" =>
    /\ configured <=> MapToCoarseState(state) \in {"Inactive", "Active"}
    /\ activated <=> MapToCoarseState(state) = "Active"
=============================================================================
