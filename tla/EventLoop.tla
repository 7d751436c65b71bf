----------------------------- MODULE EventLoop ------------------------------
(***************************************************************************)
(* osp::EventLoop: one thread that waits for descriptors, its wake pipe    *)
(* and the next timer, and runs the hooks.  Other threads queue work and   *)
(* call Wake(), stop the loop and start it again.  Time is kept as what is *)
(* left until a timer is due.                                              *)
(***************************************************************************)
EXTENDS Integers, FiniteSets, FiniteSetsExt

CONSTANTS
  Posters,          \* threads that queue work and call Wake()
  MaxTimers,
  Periods,
  MaxLate,          \* bound: how late a timer is told apart
  Schedules,        \* bound: timers scheduled
  Foreign           \* TRUE: timers are also scheduled while the loop waits

VARIABLES
  stop,             \* stop_
  pipe,             \* the wake pipe holds a byte
  queue,            \* work is queued for OnWake()
  timers,           \* active, one_shot, period, and the ticks left
  scheduled,        \* calls of Schedule() and ScheduleOnce() so far
  rpc, wait,        \* the thread in Run(), and what is left of its Wait()
  opc, ppc          \* the thread that starts and stops the loop; the posters

vars == <<stop, pipe, queue, timers, scheduled, rpc, wait, opc, ppc>>

Slots == 1 .. MaxTimers
Forever == -1
NoTimer == [active |-> FALSE, one_shot |-> FALSE, period |-> 0, left |-> 0]

Init ==
  /\ stop = FALSE /\ pipe = FALSE /\ queue = FALSE
  /\ timers = [s \in Slots |-> NoTimer] /\ scheduled = 0
  /\ rpc = "off" /\ wait = 0 /\ opc = "idle" /\ ppc = [p \in Posters |-> "idle"]

Active == {s \in Slots : timers[s].active}
Due == {s \in Active : timers[s].left <= 0}

-----------------------------------------------------------------------------
(* Timers.  Nothing wakes a loop that is already waiting. *)

MaySchedule == rpc \in {"off", "hooks"} \/ Foreign

Schedule(period, once) ==
  /\ MaySchedule /\ scheduled < Schedules /\ Active # Slots
  /\ timers' = [timers EXCEPT ![Min(Slots \ Active)] =
                  [active |-> TRUE, one_shot |-> once, period |-> period, left |-> period]]
  /\ scheduled' = scheduled + 1
  /\ UNCHANGED <<stop, pipe, queue, rpc, wait, opc, ppc>>

Cancel(s) ==
  /\ timers[s].active
  /\ timers' = [timers EXCEPT ![s] = NoTimer]
  /\ UNCHANGED <<stop, pipe, queue, scheduled, rpc, wait, opc, ppc>>

-----------------------------------------------------------------------------
(* Other threads *)

Post(p) ==
  /\ ppc[p] = "idle"
  /\ queue' = TRUE /\ ppc' = [ppc EXCEPT ![p] = "wake"]
  /\ UNCHANGED <<stop, pipe, timers, scheduled, rpc, wait, opc>>

Wake(p) ==
  /\ ppc[p] = "wake"
  /\ pipe' = TRUE /\ ppc' = [ppc EXCEPT ![p] = "idle"]
  /\ UNCHANGED <<stop, queue, timers, scheduled, rpc, wait, opc>>

(* ClearStop() and the thread that calls Run(). *)
Start ==
  /\ opc = "idle" /\ rpc = "off"
  /\ stop' = FALSE /\ rpc' = "top"
  /\ UNCHANGED <<pipe, queue, timers, scheduled, wait, opc, ppc>>

Stop ==
  /\ opc = "idle" /\ rpc # "off"
  /\ stop' = TRUE /\ opc' = "wake"
  /\ UNCHANGED <<pipe, queue, timers, scheduled, rpc, wait, ppc>>

(* Mutant: Stop() only sets the flag. *)
StopWakes_Not ==
  /\ opc = "wake" /\ opc' = "join"
  /\ UNCHANGED <<stop, pipe, queue, timers, scheduled, rpc, wait, ppc>>

StopWakes ==
  /\ opc = "wake"
  /\ pipe' = TRUE /\ opc' = "join"
  /\ UNCHANGED <<stop, queue, timers, scheduled, rpc, wait, ppc>>

Join ==
  /\ opc = "join" /\ rpc = "off"
  /\ opc' = "idle"
  /\ UNCHANGED <<stop, pipe, queue, timers, scheduled, rpc, wait, ppc>>

-----------------------------------------------------------------------------
(* Run() *)

Top ==
  /\ rpc = "top"
  /\ rpc' = IF stop THEN "off" ELSE "timeout"
  /\ UNCHANGED <<stop, pipe, queue, timers, scheduled, wait, opc, ppc>>

NextTimeoutMs ==
  /\ rpc = "timeout"
  /\ wait' = IF Active = {} THEN Forever ELSE Max({0, Min({timers[s].left : s \in Active})})
  /\ rpc' = "wait"
  /\ UNCHANGED <<stop, pipe, queue, timers, scheduled, opc, ppc>>

Wait ==
  /\ rpc = "wait" /\ (pipe \/ wait = 0)
  /\ rpc' = "drain" /\ wait' = 0
  /\ UNCHANGED <<stop, pipe, queue, timers, scheduled, opc, ppc>>

(* A descriptor is ready, or a signal interrupts the wait. *)
WaitEndsEarly ==
  /\ rpc = "wait" /\ rpc' = "drain" /\ wait' = 0
  /\ UNCHANGED <<stop, pipe, queue, timers, scheduled, opc, ppc>>

DrainWake ==
  /\ rpc = "drain"
  /\ pipe' = FALSE /\ rpc' = IF pipe THEN "woken" ELSE "check"
  /\ UNCHANGED <<stop, queue, timers, scheduled, wait, opc, ppc>>

(* The hook takes all the work queued. *)
OnWake ==
  /\ rpc = "woken"
  /\ queue' = FALSE /\ rpc' = "check"
  /\ UNCHANGED <<stop, pipe, timers, scheduled, wait, opc, ppc>>

CheckStop ==
  /\ rpc = "check"
  /\ rpc' = IF stop THEN "off" ELSE "fire"
  /\ UNCHANGED <<stop, pipe, queue, timers, scheduled, wait, opc, ppc>>

(* A late timer is moved past every period it missed. *)
Advanced(t) == [t EXCEPT !.left = Min({n \in 1 .. t.period : (n - t.left) % t.period = 0})]
Fired(t) == IF t.one_shot THEN NoTimer ELSE Advanced(t)

FireExpiredTimers ==
  /\ rpc = "fire"
  /\ timers' = [s \in Slots |-> IF s \in Due THEN Fired(timers[s]) ELSE timers[s]]
  /\ rpc' = IF Due # {} THEN "hooks" ELSE "top"
  /\ UNCHANGED <<stop, pipe, queue, scheduled, wait, opc, ppc>>

OnTimer ==
  /\ rpc = "hooks" /\ rpc' = "top"
  /\ UNCHANGED <<stop, pipe, queue, timers, scheduled, wait, opc, ppc>>

Tick ==
  /\ timers' = [s \in Slots |-> [timers[s] EXCEPT !.left =
                  IF timers[s].active /\ @ > -MaxLate THEN @ - 1 ELSE @]]
  /\ wait' = IF rpc = "wait" /\ wait > 0 THEN wait - 1 ELSE wait
  /\ UNCHANGED <<stop, pipe, queue, scheduled, rpc, opc, ppc>>

Loop == Top \/ NextTimeoutMs \/ Wait \/ DrainWake \/ OnWake \/ CheckStop
          \/ FireExpiredTimers \/ OnTimer
Stopping == StopWakes \/ Join

Next ==
  \/ \E n \in Periods, once \in BOOLEAN : Schedule(n, once)
  \/ \E s \in Slots : Cancel(s)
  \/ \E p \in Posters : Post(p) \/ Wake(p)
  \/ Start \/ Stop \/ Stopping \/ Loop \/ WaitEndsEarly \/ Tick

Spec ==
  /\ Init /\ [][Next]_vars
  /\ WF_vars(Loop) /\ WF_vars(Stopping) /\ WF_vars(Tick)
  /\ \A p \in Posters : WF_vars(Wake(p))

-----------------------------------------------------------------------------
Running == rpc # "off" /\ ~stop

(* A timer that is due fires while the loop runs, the next round of one that *)
(* fires late too; with Foreign, whichever thread scheduled it.              *)
DueTimersFire == \A s \in Slots : []<>~(Running /\ s \in Due)

(* Run() waits no longer than the next timer, never misses a Wake(), and     *)
(* ends after Stop(), also when Stop() comes between the start of the thread *)
(* and the loop: every due timer fires, the work queued before a Wake() is   *)
(* taken, and the thread that stops the loop gets to join it.                *)
LoopProgress ==
  /\ DueTimersFire
  /\ []<>~(Running /\ queue)
  /\ []<>(opc = "idle")
=============================================================================
