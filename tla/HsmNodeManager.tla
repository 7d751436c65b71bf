--------------------------- MODULE HsmNodeManager ---------------------------
(***************************************************************************)
(* osp::HsmNodeManager (node_manager_hsm.hpp) on its own event loop        *)
(* (event_loop.hpp): callers queue heartbeats and requests and wake the    *)
(* loop through a pipe; the loop thread applies them to the state machine  *)
(* of the node, and on its timer counts the heartbeats that are missing.   *)
(*                                                                         *)
(* Time is a count of ticks.  A timestamp is represented by its age, which *)
(* is not told apart beyond Interval + 1.  The queue is used as BusQueue   *)
(* promises it (hsm.hpp EventQueue); a step under the mutex is atomic.     *)
(***************************************************************************)
EXTENDS Integers, Sequences, FiniteSets, FiniteSetsExt

CONSTANTS
  Nodes, Callers,
  MaxNodes,        \* entries of the table
  MaxMissed,       \* values of max_missed passed to AddNode
  Interval,        \* heartbeat_interval_ms, in ticks
  QueueSize, MaxTimers

Entries == 1 .. MaxNodes
Timers == 1 .. MaxTimers
MaxQuiet == Max(MaxMissed) - 1
Late == -1
Off == -2

VARIABLES
  entry,                          \* the table of nodes
  queue, wake,                    \* event_queue_; the pipe holds a byte
  running, stop, timer,           \* time to each timer's expiry, Late, or Off
  lpc, due,                       \* loop thread, timers it found expired
  mpc, timer_id,                  \* thread that calls Start and Stop
  cpc, event,                     \* callers and what they are about to queue
  silent,                         \* age of the last heartbeat that was accepted
  hush, quiet                     \* nodes silent for more than Interval when the loop
                                  \* emptied the pipe; checks in a row that they were

vars == <<entry, queue, wake, running, stop, timer, lpc, due, mpc, timer_id, cpc, event,
          silent, hush, quiet>>

NoEvent == [id |-> "none", node |-> "none", age |-> 0]
Vacant == [active |-> FALSE, node |-> "none", state |-> "none", missed |-> 0, max |-> 0, age |-> 0]

Init ==
  /\ entry = [e \in Entries |-> Vacant]
  /\ queue = <<>> /\ wake = FALSE
  /\ running = FALSE /\ stop = FALSE /\ timer = [t \in Timers |-> Off]
  /\ lpc = "none" /\ due = {} /\ mpc = "down" /\ timer_id = 0
  /\ cpc = [c \in Callers |-> "idle"] /\ event = [c \in Callers |-> NoEvent]
  /\ silent = [n \in Nodes |-> Interval + 1] /\ hush = {} /\ quiet = [n \in Nodes |-> 0]

-----------------------------------------------------------------------------
(* The state machine of a connection: three states without hierarchy.  Each *)
(* handler gives the entry after the event.                                 *)

Heard(x, age) == [x EXCEPT !.missed = 0, !.age = age]

(* Mutant: the first missed heartbeat disconnects, without a Suspect state. *)
StateConnected_NoSuspect(x, ev, age) ==
  CASE ev = "Heartbeat" -> Heard(x, age)
    [] ev = "Timeout" -> [x EXCEPT !.missed = @ + 1, !.state = "Disconnected"]
    [] ev = "Disconnect" -> [x EXCEPT !.state = "Disconnected"]
    [] OTHER -> x

StateConnected(x, ev, age) ==
  CASE ev = "Heartbeat" -> Heard(x, age)
    [] ev = "Timeout" -> [x EXCEPT !.missed = @ + 1, !.state = "Suspect"]
    [] ev = "Disconnect" -> [x EXCEPT !.state = "Disconnected"]
    [] OTHER -> x

StateSuspect(x, ev, age) ==
  CASE ev = "Heartbeat" -> [Heard(x, age) EXCEPT !.state = "Connected"]
    [] ev = "Timeout" -> [x EXCEPT !.missed = @ + 1,
                                   !.state = IF x.missed + 1 >= x.max THEN "Disconnected" ELSE @]
    [] ev = "Disconnect" -> [x EXCEPT !.state = "Disconnected"]
    [] OTHER -> x

StateDisconnected(x, ev) ==
  IF ev = "Reconnect" THEN [x EXCEPT !.missed = 0, !.state = "Connected"] ELSE x

Dispatch(x, ev, age) ==
  CASE x.state = "Connected" -> StateConnected(x, ev, age)
    [] x.state = "Suspect" -> StateSuspect(x, ev, age)
    [] OTHER -> StateDisconnected(x, ev)

FindNode(n) == {e \in Entries : entry[e].active /\ entry[e].node = n}

Lost(n) == \E e \in FindNode(n) : entry[e].state = "Disconnected"

Deliver(ev) ==
  entry' = [e \in Entries |->
              IF e \in FindNode(ev.node) /\ e = Min(FindNode(ev.node))
              THEN Dispatch(entry[e], ev.id, ev.age) ELSE entry[e]]

(* What an event applied (heard: a heartbeat that is the last one the table *)
(* will see) means for silent: a reconnected node is silent until it is     *)
(* heard of again, for what it sent while disconnected was dropped.         *)
Listen(ev, heard) ==
  silent' = IF heard THEN [silent EXCEPT ![ev.node] = ev.age]
            ELSE IF ev.id = "Reconnect" THEN [silent EXCEPT ![ev.node] = Interval + 1]
            ELSE silent

-----------------------------------------------------------------------------
(* The owner of the table (a node is added once) *)

FindSlot == {e \in Entries : ~entry[e].active}

AddNode(n, m) ==
  /\ FindNode(n) = {} /\ FindSlot # {}
  /\ entry' = [entry EXCEPT ![Min(FindSlot)] =
                 [active |-> TRUE, node |-> n, state |-> "Connected", missed |-> 0,
                  max |-> m, age |-> 0]]
  /\ UNCHANGED <<queue, wake, running, stop, timer, lpc, due, mpc, timer_id, cpc, event,
                 silent, hush, quiet>>

RemoveNode(n) ==
  /\ FindNode(n) # {}
  /\ entry' = [entry EXCEPT ![Min(FindNode(n))] = Vacant]
  /\ quiet' = [quiet EXCEPT ![n] = 0]
  /\ UNCHANGED <<queue, wake, running, stop, timer, lpc, due, mpc, timer_id, cpc, event,
                 silent, hush>>

-----------------------------------------------------------------------------
(* OnHeartbeat, RequestDisconnect, RequestReconnect: queued while the loop *)
(* runs, applied at once otherwise (what an earlier run left in the queue  *)
(* is then applied later)                                                  *)

Call(c, id, n) ==
  LET ev == [id |-> id, node |-> n, age |-> 0]
  IN /\ cpc[c] = "idle"
     /\ \/ /\ running
           /\ cpc' = [cpc EXCEPT ![c] = "push"] /\ event' = [event EXCEPT ![c] = ev]
           /\ UNCHANGED <<entry, silent>>
        \/ /\ ~running
           /\ Deliver(ev)
           /\ Listen(ev, id = "Heartbeat" /\ \A i \in DOMAIN queue : queue[i].node # n)
           /\ UNCHANGED <<cpc, event>>
     /\ UNCHANGED <<queue, wake, running, stop, timer, lpc, due, mpc, timer_id, hush, quiet>>

(* A full queue drops the event. *)
TryPush(c) ==
  /\ cpc[c] = "push"
  /\ \/ /\ Len(queue) < QueueSize
        /\ queue' = Append(queue, event[c])
        /\ cpc' = [cpc EXCEPT ![c] = "wake"] /\ UNCHANGED event
     \/ /\ Len(queue) = QueueSize
        /\ cpc' = [cpc EXCEPT ![c] = "idle"] /\ event' = [event EXCEPT ![c] = NoEvent]
        /\ UNCHANGED queue
  /\ UNCHANGED <<entry, wake, running, stop, timer, lpc, due, mpc, timer_id, silent, hush, quiet>>

Wake(c) ==
  /\ cpc[c] = "wake"
  /\ wake' = TRUE
  /\ silent' = IF event[c].id = "Heartbeat" THEN [silent EXCEPT ![event[c].node] = event[c].age]
               ELSE silent
  /\ cpc' = [cpc EXCEPT ![c] = "idle"] /\ event' = [event EXCEPT ![c] = NoEvent]
  /\ UNCHANGED <<entry, queue, running, stop, timer, lpc, due, mpc, timer_id, hush, quiet>>

-----------------------------------------------------------------------------
(* EventLoop::Run *)

RunHead ==
  /\ lpc = "head"
  /\ lpc' = (IF stop THEN "exit" ELSE "wait") /\ hush' = {}
  /\ UNCHANGED <<entry, queue, wake, running, stop, timer, due, mpc, timer_id, cpc, event,
                 silent, quiet>>

Expired == {t \in Timers : timer[t] \in {0, Late}}

(* The poll returns on a byte in the pipe or when a timer is due; the pipe *)
(* is emptied, and OnWake is called only if it was not empty.              *)
DrainWake ==
  /\ lpc = "wait" /\ (wake \/ Expired # {})
  /\ lpc' = (IF wake THEN "pop" ELSE "check") /\ wake' = FALSE
  /\ hush' = {n \in Nodes : silent[n] > Interval}
  /\ UNCHANGED <<entry, queue, running, stop, timer, due, mpc, timer_id, cpc, event, silent,
                 quiet>>

OnWake ==
  /\ lpc = "pop"
  /\ IF queue = <<>> THEN lpc' = "check" /\ UNCHANGED <<entry, queue, silent>>
     ELSE Deliver(Head(queue)) /\ Listen(Head(queue), FALSE) /\ queue' = Tail(queue) /\ UNCHANGED lpc
  /\ UNCHANGED <<wake, running, stop, timer, due, mpc, timer_id, cpc, event, hush, quiet>>

(* Mutant: the pipe is emptied once more after the queue. *)
StopCheck_Drain ==
  /\ lpc = "check"
  /\ lpc' = (IF stop THEN "exit" ELSE "timers") /\ wake' = FALSE
  /\ UNCHANGED <<entry, queue, running, stop, timer, due, mpc, timer_id, cpc, event, silent, hush, quiet>>

StopCheck ==
  /\ lpc = "check"
  /\ lpc' = IF stop THEN "exit" ELSE "timers"
  /\ UNCHANGED <<entry, queue, wake, running, stop, timer, due, mpc, timer_id, cpc, event,
                 silent, hush, quiet>>

(* A timer that is served late keeps its phase, whatever that is. *)
FireExpiredTimers ==
  /\ lpc = "timers"
  /\ due' = Expired /\ lpc' = (IF Expired = {} THEN "head" ELSE "scan")
  /\ timer' \in [Timers -> Off .. Interval]
  /\ \A t \in Timers :
       CASE timer[t] = 0 -> timer'[t] = Interval
         [] timer[t] = Late -> timer'[t] \in 1 .. Interval
         [] OTHER -> timer'[t] = timer[t]
  /\ UNCHANGED <<entry, queue, wake, running, stop, mpc, timer_id, cpc, event, silent, hush, quiet>>

(* OnTimer *)
CheckTimeouts ==
  /\ lpc = "scan"
  /\ entry' = [e \in Entries |->
                 IF entry[e].active /\ entry[e].age > Interval
                 THEN Dispatch(entry[e], "Timeout", 0) ELSE entry[e]]
  /\ \E t \in due : due' = due \ {t}
  /\ lpc' = IF Cardinality(due) = 1 THEN "head" ELSE "scan"
  /\ quiet' = [n \in Nodes |-> IF n \in hush /\ FindNode(n) # {} /\ ~Lost(n)
                             THEN Min({quiet[n] + 1, MaxQuiet}) ELSE 0]
  /\ UNCHANGED <<queue, wake, running, stop, timer, mpc, timer_id, cpc, event, silent, hush>>

-----------------------------------------------------------------------------
(* Start and Stop *)

FreeTimers == {t \in Timers : timer[t] = Off}

Start ==
  /\ mpc = "down"
  /\ running' = TRUE /\ mpc' = "start"
  /\ UNCHANGED <<entry, queue, wake, stop, timer, lpc, due, timer_id, cpc, event, silent, hush, quiet>>

(* Start gives up without a timer slot or, its timer left behind, without a *)
(* thread.                                                                  *)
StartLoop(spawned) ==
  /\ mpc = "start" /\ FreeTimers # {}
  /\ timer_id' = Min(FreeTimers) /\ timer' = [timer EXCEPT ![Min(FreeTimers)] = Interval]
  /\ stop' = FALSE /\ running' = spawned
  /\ mpc' = (IF spawned THEN "up" ELSE "down") /\ lpc' = (IF spawned THEN "head" ELSE "none")
  /\ UNCHANGED <<entry, queue, wake, due, cpc, event, silent, hush, quiet>>

StartFails ==
  /\ mpc = "start" /\ FreeTimers = {}
  /\ running' = FALSE /\ mpc' = "down"
  /\ UNCHANGED <<entry, queue, wake, stop, timer, lpc, due, timer_id, cpc, event, silent, hush, quiet>>

(* Stop can be called whether or not Start succeeded. *)
Stop ==
  /\ mpc \in {"up", "down"}
  /\ running' = FALSE /\ stop' = TRUE /\ mpc' = "wake"
  /\ UNCHANGED <<entry, queue, wake, timer, lpc, due, timer_id, cpc, event, silent, hush, quiet>>

StopWake ==
  /\ mpc = "wake" /\ wake' = TRUE /\ mpc' = "join"
  /\ UNCHANGED <<entry, queue, running, stop, timer, lpc, due, timer_id, cpc, event, silent, hush, quiet>>

(* The thread, if any, has ended; the timer goes, and so do the nodes. *)
StopJoin ==
  /\ mpc = "join" /\ lpc \in {"exit", "none"}
  /\ lpc' = "none" /\ mpc' = "down"
  /\ timer' = [t \in Timers |-> IF t = timer_id THEN Off ELSE timer[t]]
  /\ entry' = [e \in Entries |-> Vacant]
  /\ quiet' = [n \in Nodes |-> 0]
  /\ UNCHANGED <<queue, wake, running, stop, due, timer_id, cpc, event, silent, hush>>

-----------------------------------------------------------------------------
Older(a) == IF a > Interval THEN a ELSE a + 1

(* Requests carry no timestamp. *)
OlderEvent(ev) == IF ev.id = "Heartbeat" THEN [ev EXCEPT !.age = Older(@)] ELSE ev

Tick ==
  /\ entry' = [e \in Entries |->
                 IF entry[e].active THEN [entry[e] EXCEPT !.age = Older(@)] ELSE entry[e]]
  /\ queue' = [i \in DOMAIN queue |-> OlderEvent(queue[i])]
  /\ event' = [c \in Callers |-> OlderEvent(event[c])]
  /\ silent' = [n \in Nodes |-> Older(silent[n])]
  /\ timer' = [t \in Timers |-> IF timer[t] \in {Off, Late} THEN timer[t] ELSE timer[t] - 1]
  /\ UNCHANGED <<wake, running, stop, lpc, due, mpc, timer_id, cpc, hush, quiet>>

CallerStep(c) == TryPush(c) \/ Wake(c)

LoopStep ==
  RunHead \/ DrainWake \/ OnWake \/ StopCheck \/ FireExpiredTimers \/ CheckTimeouts

ControlStep ==
  \/ \E spawned \in BOOLEAN : StartLoop(spawned)
  \/ StartFails \/ StopWake \/ StopJoin

Next ==
  \/ \E n \in Nodes, m \in MaxMissed : AddNode(n, m)
  \/ \E n \in Nodes : RemoveNode(n)
  \/ \E c \in Callers :
       \/ \E n \in Nodes, id \in {"Heartbeat", "Disconnect", "Reconnect"} : Call(c, id, n)
       \/ CallerStep(c)
  \/ LoopStep
  \/ Start \/ Stop
  \/ ControlStep
  \/ Tick

(* Time passes, the loop thread runs, and calls that began go on. *)
Fairness ==
  /\ WF_vars(Tick) /\ WF_vars(LoopStep) /\ WF_vars(ControlStep)
  /\ \A c \in Callers : WF_vars(CallerStep(c))

Spec == Init /\ [][Next]_vars

FairSpec == Spec /\ Fairness

-----------------------------------------------------------------------------
(* The timer disconnects a node only after it was silent, for longer than   *)
(* the interval, at the last max_missed - 1 checks in a row (one at least): *)
(* only one check can count as missing a heartbeat that was accepted in     *)
(* time and was waiting in the queue.  (A timer left behind by a Start that *)
(* failed makes two checks at a time, and is excluded.)                     *)
BeatingStaysConnected ==
  [][\A e \in Entries :
       /\ lpc = "scan" /\ lpc' # lpc /\ Cardinality({t \in Timers : timer[t] # Off}) = 1
       /\ entry[e].active /\ entry[e].state # "Disconnected"
       /\ entry'[e].state = "Disconnected"
       => quiet'[entry[e].node] >= Max({1, entry[e].max - 1})]_vars

(* While the manager runs, a node that falls silent is disconnected, unless *)
(* it is removed or heard of again.                                         *)
SilentIsDisconnected ==
  \A n \in Nodes :
    []<>(Lost(n) \/ FindNode(n) = {} \/ ~running \/ silent[n] <= Interval
         \/ \E c \in Callers : event[c].node = n)

(* No wake-up is lost: while the manager runs, the loop comes to take what *)
(* was queued.                                                             *)
EventsApplied == []<>(queue = <<>> \/ lpc = "pop" \/ ~running)
=============================================================================
