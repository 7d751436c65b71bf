--------------------------- MODULE FaultCollector ---------------------------
(***************************************************************************)
(* osp::FaultCollector: threads report faults into one queue per priority, *)
(* a consumer thread runs the hooks, Stop drains the queues, and the       *)
(* circuit breaker is fed with drops and samples.  A queue is a            *)
(* FaultRingBuffer (see MpscRing): a producer claims a place and makes the *)
(* entry ready later, and TryPop finds nothing while the oldest entry is   *)
(* not ready.  The timed wait of the consumer always ends, so the wake-up  *)
(* semaphore only makes it shorter and is left out.                        *)
(***************************************************************************)
EXTENDS Integers, Sequences, FiniteSets, FiniteSetsExt

CONSTANTS
  Reporters, Faults,
  QueueDepth,
  kPriorityLevels,
  Reports,          \* bound on the calls of ReportFault by each reporter
  CooldownCycles

VARIABLES
  queue, active,
  reported, dropped, processed,
  breaker,
  running, shutdown_requested,
  rpc, rep, left,       \* the call of each reporter
  cpc, pri, entry,      \* the consumer thread
  spc,                  \* the owner, that starts and stops
  escalated, overlap    \* history: see the properties

reporter == <<rpc, rep, left>>
consumer == <<cpc, pri, entry>>
counters == <<reported, dropped, processed>>
lifecycle == <<running, shutdown_requested, spc>>
history == <<escalated, overlap>>
vars == <<queue, active, counters, breaker, lifecycle, reporter, consumer, history>>

B == INSTANCE Breaker WITH state <- breaker, since <- [cycles |-> 0, windows |-> 0]

Priorities == 0 .. kPriorityLevels - 1
NoEntry == [fault |-> "none", pri |-> 0, escalated |-> FALSE]

(* Percentages of the depth, by priority; kCritical has no limit. *)
Threshold(p) == (QueueDepth * (CASE p = 1 -> 99 [] p = 2 -> 80 [] OTHER -> 60)) \div 100

Init ==
  /\ queue = [p \in Priorities |-> <<>>] /\ active = {}
  /\ reported = 0 /\ dropped = 0 /\ processed = 0
  /\ breaker = B!Enter("Normal", 0)
  /\ running = TRUE /\ shutdown_requested = FALSE
  /\ rpc = [r \in Reporters |-> "idle"] /\ rep = [r \in Reporters |-> NoEntry]
  /\ left = [r \in Reporters |-> Reports]
  /\ cpc = "top" /\ pri = 0 /\ entry = NoEntry
  /\ spc = "started"
  /\ escalated = 0 /\ overlap = FALSE

-----------------------------------------------------------------------------
(* ReportFault *)

Goto(r, label) == rpc' = [rpc EXCEPT ![r] = label]

AdmitByPriority(p, depth) == p = 0 \/ depth < Threshold(p)

BeginReport(r, f, p) ==
  /\ rpc[r] = "idle" /\ left[r] > 0
  /\ left' = [left EXCEPT ![r] = @ - 1]
  /\ rep' = [rep EXCEPT ![r] = [fault |-> f, pri |-> p, escalated |-> FALSE]]
  /\ Goto(r, IF AdmitByPriority(p, Len(queue[p])) THEN "push" ELSE "drop")
  /\ overlap' = (overlap \/ spc # "started" \/ shutdown_requested)
  /\ UNCHANGED <<queue, active, counters, breaker, lifecycle, consumer, escalated>>

(* TryPush: the place is claimed, the entry follows. *)
Claim(r) ==
  LET p == rep[r].pri IN
    /\ rpc[r] = "push"
    /\ IF Len(queue[p]) = QueueDepth
         THEN Goto(r, "drop") /\ UNCHANGED queue
         ELSE /\ Goto(r, "publish")
              /\ queue' = [queue EXCEPT ![p] = Append(@, [owner |-> r, entry |-> rep[r]])]
    /\ UNCHANGED <<active, counters, breaker, lifecycle, rep, left, consumer, history>>

Ready == "ready"

Publish(r) ==
  LET p == rep[r].pri IN
    /\ rpc[r] = "publish"
    /\ queue' = [queue EXCEPT ![p] =
         [i \in DOMAIN @ |-> IF @[i].owner = r THEN [@[i] EXCEPT !.owner = Ready] ELSE @[i]]]
    /\ Goto(r, "count")
    /\ UNCHANGED <<active, counters, breaker, lifecycle, rep, left, consumer, history>>

CountReport(r) ==
  /\ rpc[r] = "count"
  /\ reported' = reported + 1 /\ Goto(r, "active")
  /\ UNCHANGED <<queue, active, dropped, processed, breaker, lifecycle, rep, left,
                 consumer, history>>

Finish(r) == Goto(r, "idle") /\ rep' = [rep EXCEPT ![r] = NoEntry] /\ UNCHANGED left

SetFaultActive(r) ==
  /\ rpc[r] = "active"
  /\ active' = active \cup {rep[r].fault} /\ Finish(r)
  /\ UNCHANGED <<queue, counters, breaker, lifecycle, consumer, history>>

CountDrop(r) ==
  /\ rpc[r] = "drop"
  /\ dropped' = dropped + 1 /\ Goto(r, "break")
  /\ UNCHANGED <<queue, active, reported, processed, breaker, lifecycle, rep, left,
                 consumer, history>>

BreakerOverflow(r) ==
  /\ rpc[r] = "break"
  /\ breaker' = B!Overflow(breaker) /\ Finish(r)
  /\ UNCHANGED <<queue, active, counters, lifecycle, consumer, history>>

Reporting == \E r \in Reporters : rpc[r] # "idle"

ReporterStep(r) ==
  \/ Claim(r) \/ Publish(r) \/ CountReport(r) \/ SetFaultActive(r)
  \/ CountDrop(r) \/ BreakerOverflow(r)

(* ClearAllFaults() clears word by word: any number of these. *)
ClearFault(f) ==
  /\ f \in active /\ active' = active \ {f}
  /\ UNCHANGED <<queue, counters, breaker, lifecycle, reporter, consumer, history>>

-----------------------------------------------------------------------------
(* The consumer thread *)

LoopTop ==
  /\ cpc = "top"
  /\ cpc' = (IF running /\ ~shutdown_requested THEN "batch" ELSE "drain")
  /\ pri' = 0
  /\ UNCHANGED <<queue, active, counters, breaker, lifecycle, reporter, entry, history>>

TryPop(p) == queue[p] # <<>> /\ Head(queue[p]).owner = Ready

(* DrainQueue takes an entry, or goes on to the next priority. *)
Pop ==
  /\ cpc \in {"batch", "drain"} /\ pri \in Priorities
  /\ IF TryPop(pri)
       THEN /\ entry' = Head(queue[pri]).entry
            /\ queue' = [queue EXCEPT ![pri] = SubSeq(@, 2, Len(@))]
            /\ cpc' = (IF cpc = "batch" THEN "hook" ELSE "drainhook")
            /\ UNCHANGED pri
       ELSE pri' = pri + 1 /\ UNCHANGED <<entry, queue, cpc>>
  /\ UNCHANGED <<active, counters, breaker, lifecycle, reporter, history>>

(* HandleEscalation: one level up, unless it is the highest or its queue is full. *)
CanEscalate == entry.pri > 0 /\ Len(queue[entry.pri - 1]) < QueueDepth

(* ProcessEntry: the hook chooses the action. *)
Process(action) ==
  /\ cpc \in {"hook", "drainhook"}
  /\ active' = IF action = "kHandled" THEN active \ {entry.fault} ELSE active
  /\ IF action = "kEscalate" /\ CanEscalate
       THEN /\ queue' = [queue EXCEPT ![entry.pri - 1] =
                 Append(@, [owner |-> Ready,
                            entry |-> [entry EXCEPT !.pri = @ - 1, !.escalated = TRUE]])]
            /\ escalated' = escalated + 1
       ELSE UNCHANGED <<queue, escalated>>
  /\ shutdown_requested' = (shutdown_requested \/ action = "kShutdown")
  /\ overlap' = (overlap \/ (action = "kShutdown" /\ Reporting))
  /\ processed' = processed + 1
  /\ cpc' = (IF cpc = "hook" THEN "batch" ELSE "drain") /\ entry' = NoEntry
  /\ UNCHANGED <<reported, dropped, breaker, running, spc, reporter, pri>>

(* The batch is over: one dispatch cycle of the breaker. *)
Cycle ==
  /\ cpc = "batch" /\ pri \notin Priorities
  /\ breaker' = B!DispatchCycle(breaker) /\ cpc' = "sample"
  /\ UNCHANGED <<queue, active, counters, lifecycle, reporter, pri, entry, history>>

QueueDepthCurrent == FoldSet(LAMBDA p, n : n + Len(queue[p]), 0, Priorities)

(* The watermark over all queues; without work the wait follows. *)
Sample ==
  /\ cpc = "sample"
  /\ breaker' = B!Watermark(breaker,
                  (QueueDepthCurrent * 100) \div (QueueDepth * kPriorityLevels))
  /\ cpc' = "top" /\ pri' = 0
  /\ UNCHANGED <<queue, active, counters, lifecycle, reporter, entry, history>>

(* Mutant: the loop ends without draining. *)
ExitLoop_NoDrain ==
  /\ cpc = "drain"
  /\ cpc' = "exit"
  /\ UNCHANGED <<queue, active, counters, breaker, lifecycle, reporter, pri, entry, history>>

ExitLoop ==
  /\ cpc = "drain" /\ pri \notin Priorities
  /\ cpc' = "exit"
  /\ UNCHANGED <<queue, active, counters, breaker, lifecycle, reporter, pri, entry, history>>

Hooks == {"kHandled", "kEscalate", "kDefer", "kShutdown"}

ConsumerStep ==
  LoopTop \/ Pop \/ (\E a \in Hooks : Process(a)) \/ Cycle \/ Sample \/ ExitLoop

-----------------------------------------------------------------------------
(* The owner *)

Stop ==
  /\ spc = "started" /\ running
  /\ running' = FALSE /\ spc' = "joining"
  /\ overlap' = (overlap \/ Reporting)
  /\ UNCHANGED <<queue, active, counters, breaker, shutdown_requested, reporter, consumer,
                 escalated>>

Join ==
  /\ spc = "joining" /\ cpc = "exit"
  /\ spc' = "stopped"
  /\ UNCHANGED <<queue, active, counters, breaker, running, shutdown_requested, reporter,
                 consumer, history>>

(* Start again.  A shutdown requested by a hook is not forgotten. *)
Start ==
  /\ spc = "stopped" /\ running' = TRUE /\ spc' = "started"
  /\ cpc' = "top" /\ pri' = 0 /\ UNCHANGED entry
  /\ overlap' = (shutdown_requested /\ Reporting)
  /\ UNCHANGED <<queue, active, counters, breaker, shutdown_requested, reporter,
                 escalated>>

Next ==
  \/ \E r \in Reporters :
       \/ \E f \in Faults, p \in Priorities : BeginReport(r, f, p)
       \/ ReporterStep(r)
  \/ \E f \in Faults : ClearFault(f)
  \/ ConsumerStep \/ Stop \/ Join \/ Start

(* Threads that are running go on; hooks return. *)
Fairness == WF_vars(ConsumerStep) /\ \A r \in Reporters : WF_vars(ReporterStep(r))

Spec == Init /\ [][Next]_vars /\ Fairness

-----------------------------------------------------------------------------
(* Properties *)

Queued == QueueDepthCurrent
Claimed == Cardinality({r \in Reporters : rpc[r] \in {"publish", "count"}})

(* No report is lost or processed twice: what was accepted or escalated is *)
(* queued, in the hands of the consumer or processed.  A drop is never     *)
(* forgotten by the breaker: nothing in FaultCollector feeds it a probe,   *)
(* so it does not become Normal again.  After a Stop that no report        *)
(* overlapped, the queues hold no entry but ones a hook escalated: DrainAll*)
(* passes over a queue once, and an escalation goes to one already passed. *)
FaultsAccounted ==
  /\ reported + Claimed + escalated
       = processed + Queued + (IF cpc \in {"hook", "drainhook"} THEN 1 ELSE 0)
  /\ dropped > Cardinality({r \in Reporters : rpc[r] = "break"})
       => breaker.level \in {"BrokenL2", "Recovering"}
  /\ spc = "stopped" /\ ~overlap =>
       \A p \in Priorities : \A i \in DOMAIN queue[p] : queue[p][i].entry.escalated

(* While the collector runs, what is queued gets processed: the queue of   *)
(* every priority empties again once the reports stop coming.              *)
ReportsProcessed ==
  \A p \in Priorities :
    []<>(queue[p] = <<>> \/ ~running \/ shutdown_requested)
=============================================================================
