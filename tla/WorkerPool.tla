----------------------------- MODULE WorkerPool -----------------------------
(***************************************************************************)
(* osp::WorkerPool (worker_pool.hpp): jobs submitted to the bus are taken  *)
(* by a dispatcher thread, pushed round robin to the SPSC queue of a       *)
(* worker, and handled there.  A controlling thread starts the pool,       *)
(* flushes and pauses it, resumes it and shuts it down.                    *)
(*                                                                         *)
(* A job is its position on the bus.  The bus is used as BusQueue promises *)
(* it (a position is claimed, filled, and taken in order), a worker's      *)
(* queue as BoundedFifo promises it.  The semaphore of a worker is only a  *)
(* hint: its timed wait may end at any moment, so that an idle worker just *)
(* looks again.                                                            *)
(***************************************************************************)
EXTENDS Integers, Sequences, FiniteSets, Functions

CONSTANTS
  Submitters,
  worker_num, QueueDepth,       \* workers and the capacity of their queues
  BusDepth, BatchSize,          \* capacity of the bus, kBatchSize
  DrainRounds,                  \* batches of the dispatcher's final drain
  MaxJobs, MaxStarts            \* bounds on the jobs and on the starts

ASSUME PoolSizes ==
  /\ \A n \in {worker_num, QueueDepth, BusDepth, BatchSize, DrainRounds} : n \in Nat \ {0}
  /\ MaxJobs \in Nat /\ MaxStarts \in Nat

Workers == 0 .. worker_num - 1
Jobs == 1 .. MaxJobs
NoJob == 0

VARIABLES
  producer_pos, filled, consumer_pos,              \* the bus
  shutdown, paused, dispatched, processed, next_worker,
  queue,                                           \* of each worker
  spc, job,                                        \* submitters
  dpc, cons_pos, batch, first, tried, draining, rounds,   \* dispatcher
  wpc, env,                                        \* workers
  cpc, seen, starts,                               \* controller
  handled, overflowed, lost,    \* times each job was handled; jobs dropped on full
                                \* queues, jobs in the queues when they were cleared
  late                          \* a Submit had passed the paused check at the last pause

bus == <<producer_pos, filled, consumer_pos>>
submitter == <<spc, job>>
taking == <<cons_pos, batch, first, tried, draining, rounds>>
worker == <<wpc, env>>
controller == <<cpc, seen, starts, paused, late>>
fates == <<handled, overflowed, lost>>
vars == <<bus, shutdown, dispatched, processed, next_worker, queue, submitter,
          dpc, taking, worker, controller, fates>>

Init ==
  /\ producer_pos = 0 /\ filled = {} /\ consumer_pos = 0
  /\ shutdown = FALSE /\ paused = FALSE
  /\ dispatched = 0 /\ processed = 0 /\ next_worker = 0
  /\ queue = [w \in Workers |-> <<>>]
  /\ spc = [s \in Submitters |-> "idle"] /\ job = [s \in Submitters |-> NoJob]
  /\ dpc = "none" /\ cons_pos = 0 /\ batch = 0 /\ first = 0 /\ tried = 0
  /\ draining = FALSE /\ rounds = 0
  /\ wpc = [w \in Workers |-> "none"] /\ env = [w \in Workers |-> NoJob]
  /\ cpc = "down" /\ seen = 0 /\ starts = 0
  /\ handled = [j \in Jobs |-> 0] /\ overflowed = {} /\ lost = {}
  /\ late = FALSE

-----------------------------------------------------------------------------
(* Submit (a call that finds the pool paused changes nothing) *)

SubmitCheck(s) ==
  /\ spc[s] = "idle" /\ ~paused
  /\ spc' = [spc EXCEPT ![s] = "publish"]
  /\ UNCHANGED <<bus, shutdown, dispatched, processed, next_worker, queue, job,
                 dpc, taking, worker, controller, fates>>

(* The bus may refuse a job before it is full: its admission limits depend *)
(* on the priority and on a cached consumer position.                      *)
SubmitClaim(s) ==
  /\ spc[s] = "publish" /\ producer_pos < MaxJobs
  /\ \/ /\ producer_pos - consumer_pos < BusDepth
        /\ producer_pos' = producer_pos + 1
        /\ job' = [job EXCEPT ![s] = producer_pos + 1]
        /\ spc' = [spc EXCEPT ![s] = "fill"]
     \/ spc' = [spc EXCEPT ![s] = "idle"] /\ UNCHANGED <<producer_pos, job>>
  /\ UNCHANGED <<filled, consumer_pos, shutdown, dispatched, processed, next_worker,
                 queue, dpc, taking, worker, controller, fates>>

SubmitFill(s) ==
  /\ spc[s] = "fill"
  /\ filled' = filled \cup {job[s]}
  /\ spc' = [spc EXCEPT ![s] = "idle"] /\ job' = [job EXCEPT ![s] = NoJob]
  /\ UNCHANGED <<producer_pos, consumer_pos, shutdown, dispatched, processed,
                 next_worker, queue, dpc, taking, worker, controller, fates>>

-----------------------------------------------------------------------------
(* DispatcherLoop: batches of the bus until shutdown, then a bounded drain *)

DispatcherCheck ==
  /\ dpc = "check"
  /\ dpc' = "take" /\ draining' = shutdown
  /\ UNCHANGED <<bus, shutdown, dispatched, processed, next_worker, queue, submitter,
                 cons_pos, batch, first, tried, rounds, worker, controller, fates>>

CanTake == batch < BatchSize /\ cons_pos + 1 \in filled

(* ProcessBatch calls DispatchToWorker with the next job *)
DispatchToWorker ==
  /\ dpc = "take" /\ CanTake
  /\ dpc' = "push" /\ tried' = 0
  /\ first' = next_worker /\ next_worker' = (next_worker + 1) % worker_num
  /\ UNCHANGED <<bus, shutdown, dispatched, processed, queue, submitter, cons_pos,
                 batch, draining, rounds, worker, controller, fates>>

NextJob == cons_pos' = cons_pos + 1 /\ batch' = batch + 1 /\ dpc' = "take"

Full(w) == Len(queue[w]) >= QueueDepth

(* Mutant: the dropped job stays at the head of the bus. *)
DropJob_Retried ==
  /\ overflowed' = overflowed \cup {cons_pos + 1}
  /\ dpc' = "take" /\ UNCHANGED <<cons_pos, batch>>

(* Every queue is full: the job is dropped and reported. *)
DropJob == overflowed' = overflowed \cup {cons_pos + 1} /\ NextJob

PushJob ==
  LET wid == (first + tried) % worker_num
  IN /\ dpc = "push"
     /\ \/ /\ ~Full(wid)
           /\ queue' = [queue EXCEPT ![wid] = Append(@, cons_pos + 1)]
           /\ dpc' = "count"
           /\ UNCHANGED <<cons_pos, batch, tried, overflowed>>
        \/ /\ Full(wid) /\ tried + 1 < worker_num
           /\ tried' = tried + 1
           /\ UNCHANGED <<queue, dpc, cons_pos, batch, overflowed>>
        \/ /\ Full(wid) /\ tried + 1 = worker_num
           /\ DropJob
           /\ UNCHANGED <<queue, tried>>
     /\ UNCHANGED <<bus, shutdown, dispatched, processed, next_worker, submitter, first,
                    draining, rounds, worker, controller, handled, lost>>

CountDispatched ==
  /\ dpc = "count"
  /\ dispatched' = dispatched + 1 /\ NextJob
  /\ UNCHANGED <<bus, shutdown, processed, next_worker, queue, submitter, first, tried,
                 draining, rounds, worker, controller, fates>>

BatchStop ==
  /\ dpc = "take" /\ ~CanTake
  /\ dpc' = "release"
  /\ UNCHANGED <<bus, shutdown, dispatched, processed, next_worker, queue, submitter,
                 taking, worker, controller, fates>>

DrainEnds == batch = 0 \/ rounds + 1 = DrainRounds

(* ProcessBatch stores consumer_pos and returns the size of the batch. *)
BatchEnd ==
  /\ dpc = "release"
  /\ consumer_pos' = cons_pos /\ batch' = 0
  /\ dpc' = (IF ~draining THEN "check" ELSE IF DrainEnds THEN "exit" ELSE "take")
  /\ rounds' = (IF draining THEN rounds + 1 ELSE 0)
  /\ UNCHANGED <<producer_pos, filled, shutdown, dispatched, processed, next_worker,
                 queue, submitter, cons_pos, first, tried, draining, worker,
                 controller, fates>>

-----------------------------------------------------------------------------
(* WorkerLoop *)

(* Mutant: a paused worker does not look at its queue. *)
WorkerCheck_Paused(w) ==
  /\ wpc[w] = "check" /\ ~paused
  /\ wpc' = [wpc EXCEPT ![w] = IF shutdown THEN "drain" ELSE "pop"]
  /\ UNCHANGED <<bus, shutdown, dispatched, processed, next_worker, queue, submitter,
                 dpc, taking, env, controller, fates>>

WorkerCheck(w) ==
  /\ wpc[w] = "check"
  /\ wpc' = [wpc EXCEPT ![w] = IF shutdown THEN "drain" ELSE "pop"]
  /\ UNCHANGED <<bus, shutdown, dispatched, processed, next_worker, queue, submitter,
                 dpc, taking, env, controller, fates>>

(* A drained queue ends the thread; an empty one, otherwise, only a round. *)
WorkerPop(w) ==
  /\ wpc[w] \in {"pop", "drain"}
  /\ IF queue[w] # <<>>
       THEN /\ env' = [env EXCEPT ![w] = Head(queue[w])]
            /\ queue' = [queue EXCEPT ![w] = Tail(@)]
            /\ wpc' = [wpc EXCEPT ![w] = "handle"]
       ELSE /\ wpc' = [wpc EXCEPT ![w] = IF @ = "drain" THEN "exit" ELSE "check"]
            /\ UNCHANGED <<queue, env>>
  /\ UNCHANGED <<bus, shutdown, dispatched, processed, next_worker, submitter,
                 dpc, taking, controller, fates>>

(* DispatchEnvelope: the handler runs *)
WorkerHandle(w) ==
  /\ wpc[w] = "handle"
  /\ handled' = [handled EXCEPT ![env[w]] = @ + 1]
  /\ env' = [env EXCEPT ![w] = NoJob]
  /\ wpc' = [wpc EXCEPT ![w] = "count"]
  /\ UNCHANGED <<bus, shutdown, dispatched, processed, next_worker, queue, submitter,
                 dpc, taking, controller, overflowed, lost>>

WorkerCount(w) ==
  /\ wpc[w] = "count"
  /\ processed' = processed + 1
  /\ wpc' = [wpc EXCEPT ![w] = "check"]
  /\ UNCHANGED <<bus, shutdown, dispatched, next_worker, queue, submitter,
                 dpc, taking, env, controller, fates>>

-----------------------------------------------------------------------------
(* The controlling thread *)

(* Start: n threads can be created, the dispatcher first.  With fewer than all *)
(* the pool is rolled back (StartFailed), as by Shutdown.                      *)
Start(n) ==
  /\ cpc = "down" /\ starts < MaxStarts
  /\ starts' = starts + 1
  /\ shutdown' = FALSE
  /\ cpc' = IF n = worker_num + 1 THEN "up" ELSE "failed"
  /\ dpc' = (IF n > 0 THEN "check" ELSE "none") /\ draining' = FALSE /\ rounds' = 0
  /\ wpc' = [w \in Workers |-> IF w + 1 < n THEN "check" ELSE "none"]
  /\ UNCHANGED <<bus, dispatched, processed, next_worker, queue, submitter, cons_pos,
                 batch, first, tried, env, seen, paused, late, fates>>

StopAll(from) ==
  /\ cpc \in from
  /\ cpc' = "join_dispatcher" /\ shutdown' = TRUE
  /\ UNCHANGED <<bus, dispatched, processed, next_worker, queue, submitter, dpc, taking,
                 worker, seen, starts, paused, late, fates>>

StartFailed == StopAll({"failed"})

Shutdown == StopAll({"up", "flushed"})

JoinDispatcher ==
  /\ cpc = "join_dispatcher" /\ dpc \in {"exit", "none"}
  /\ cpc' = "join_workers" /\ dpc' = "none"
  /\ UNCHANGED <<bus, shutdown, dispatched, processed, next_worker, queue, submitter,
                 taking, worker, seen, starts, paused, late, fates>>

(* StopAll ends by clearing the workers, their queues included. *)
JoinWorkers ==
  /\ cpc = "join_workers" /\ \A w \in Workers : wpc[w] \in {"exit", "none"}
  /\ cpc' = "down" /\ wpc' = [w \in Workers |-> "none"]
  /\ lost' = lost \cup UNION {Range(queue[w]) : w \in Workers}
  /\ queue' = [w \in Workers |-> <<>>]
  /\ UNCHANGED <<bus, shutdown, dispatched, processed, next_worker, submitter, dpc,
                 taking, env, seen, starts, paused, late, handled, overflowed>>

FlushAndPause ==
  /\ cpc \in {"up", "flushed"}
  /\ paused' = TRUE /\ late' = \E s \in Submitters : spc[s] = "publish"
  /\ cpc' = "load_prod" /\ seen' = 0
  /\ UNCHANGED <<bus, shutdown, dispatched, processed, next_worker, queue, submitter,
                 dpc, taking, worker, starts, fates>>

Flushing(from, to, value) ==
  /\ cpc = from /\ cpc' = to /\ seen' = value
  /\ UNCHANGED <<bus, shutdown, dispatched, processed, next_worker, queue, submitter,
                 dpc, taking, worker, starts, paused, late, fates>>

(* A round of the flush: Depth reads two positions, every queue is looked at, *)
(* then the two counters.  The first answer that is wrong ends the round.     *)
FlushLoadProd == Flushing("load_prod", "load_cons", producer_pos)

FlushLoadCons ==
  Flushing("load_cons", IF seen = consumer_pos THEN "queues" ELSE "again", 0)

FlushQueue ==
  Flushing("queues", IF queue[seen] # <<>> THEN "again"
                     ELSE IF seen + 1 < worker_num THEN "queues" ELSE "load_disp",
           IF queue[seen] = <<>> /\ seen + 1 < worker_num THEN seen + 1 ELSE 0)

FlushLoadDisp == Flushing("load_disp", "load_proc", dispatched)

(* Mutant: the counters are not compared. *)
FlushLoadProc_Skipped == Flushing("load_proc", "flushed", 0)

FlushLoadProc ==
  Flushing("load_proc", IF seen = processed THEN "flushed" ELSE "again", 0)

FlushAgain == Flushing("again", "load_prod", 0)

FlushTimeout == Flushing("again", "up", 0)

Resume ==
  /\ cpc \in {"up", "flushed"} /\ paused
  /\ cpc' = "up" /\ paused' = FALSE /\ late' = FALSE
  /\ UNCHANGED <<bus, shutdown, dispatched, processed, next_worker, queue, submitter,
                 dpc, taking, worker, seen, starts, fates>>

-----------------------------------------------------------------------------
SubmitterStep(s) == SubmitCheck(s) \/ SubmitClaim(s) \/ SubmitFill(s)

DispatcherStep ==
  \/ DispatcherCheck \/ DispatchToWorker \/ PushJob \/ CountDispatched
  \/ BatchStop \/ BatchEnd

WorkerStep(w) == WorkerCheck(w) \/ WorkerPop(w) \/ WorkerHandle(w) \/ WorkerCount(w)

Joins == JoinDispatcher \/ JoinWorkers

FlushRound ==
  FlushLoadProd \/ FlushLoadCons \/ FlushQueue \/ FlushLoadDisp \/ FlushLoadProc

ControllerStep ==
  \/ \E n \in 0 .. worker_num + 1 : Start(n)
  \/ StartFailed \/ Shutdown \/ Joins
  \/ FlushAndPause \/ FlushRound \/ FlushAgain \/ FlushTimeout
  \/ Resume

Next ==
  \/ \E s \in Submitters : SubmitterStep(s)
  \/ DispatcherStep
  \/ \E w \in Workers : WorkerStep(w)
  \/ ControllerStep

(* The threads keep running and a publication that began is completed. *)
Fairness ==
  /\ WF_vars(DispatcherStep) /\ WF_vars(StartFailed \/ Joins)
  /\ \A w \in Workers : WF_vars(WorkerStep(w))
  /\ \A s \in Submitters : WF_vars(SubmitFill(s))

Spec == Init /\ [][Next]_vars

FairSpec == Spec /\ Fairness

-----------------------------------------------------------------------------
(* The variables hold values of their types; no queue exceeds its capacity. *)
TypeOK ==
  /\ producer_pos \in 0 .. MaxJobs /\ filled \subseteq Jobs
  /\ consumer_pos \in 0 .. MaxJobs /\ cons_pos \in consumer_pos .. producer_pos
  /\ shutdown \in BOOLEAN /\ paused \in BOOLEAN /\ late \in BOOLEAN
  /\ dispatched \in 0 .. MaxJobs /\ processed \in 0 .. MaxJobs
  /\ next_worker \in Workers /\ first \in Workers /\ tried \in Workers
  /\ \A w \in Workers : queue[w] \in Seq(Jobs) /\ Len(queue[w]) <= QueueDepth
  /\ \A s \in Submitters : /\ spc[s] \in {"idle", "publish", "fill"}
                            /\ job[s] \in Jobs \cup {NoJob}
  /\ dpc \in {"none", "check", "take", "push", "count", "release", "exit"}
  /\ batch \in 0 .. BatchSize /\ draining \in BOOLEAN /\ rounds \in 0 .. DrainRounds
  /\ \A w \in Workers :
       /\ wpc[w] \in {"none", "check", "pop", "drain", "handle", "count", "exit"}
       /\ env[w] \in Jobs \cup {NoJob}
  /\ cpc \in {"down", "failed", "up", "flushed", "join_dispatcher", "join_workers", "load_prod",
              "load_cons", "queues", "load_disp", "load_proc", "again"}
  /\ seen \in 0 .. MaxJobs + worker_num /\ starts \in 0 .. MaxStarts
  /\ handled \in [Jobs -> Nat] /\ overflowed \subseteq Jobs /\ lost \subseteq Jobs

Bit(b) == IF b THEN 1 ELSE 0

Queued == UNION {{<<w, k>> : k \in DOMAIN queue[w]} : w \in Workers}
InHand == {w \in Workers : env[w] # NoJob}

(* In how many places outside the bus a job is, and how often it was handled. *)
Places(j) ==
  handled[j] + Cardinality({x \in Queued : queue[x[1]][x[2]] = j})
    + Cardinality({w \in Workers : env[w] = j})
    + Bit(j \in overflowed) + Bit(j \in lost)

(* Every job that leaves the bus is in exactly one place: in one queue, in one *)
(* worker's hands, handled once, reported as overflow, or cleared with a queue *)
(* by StopAll; one still on the bus is nowhere else.  Through pauses, failed   *)
(* starts, shutdowns and restarts nothing is handled twice or disappears.      *)
JobsConserved ==
  /\ TypeOK
  /\ \A j \in Jobs :
       Places(j) = Bit(j <= cons_pos \/ (dpc = "count" /\ j = cons_pos + 1))

(* What FlushAndPause relies on: the jobs dispatched and not yet processed are *)
(* those in the queues, in a worker's hands, and those StopAll cleared.        *)
CountersAgree ==
  dispatched + Bit(dpc = "count") =
    processed + Cardinality(Queued) + Cardinality(InHand) + Cardinality(lost)
      + Cardinality({w \in Workers : wpc[w] = "count"})

(* Every job is in one place, and the counters that FlushAndPause compares tell *)
(* how many are on their way.                                                   *)
JobsAccounted == JobsConserved /\ CountersAgree

(* After FlushAndPause succeeds, and until Resume, the pool is idle: every job *)
(* that was accepted has been handled or reported, unless a Submit had passed  *)
(* the paused check before the pause.                                          *)
FlushMeansIdle ==
  cpc = "flushed" /\ ~late =>
    /\ producer_pos = cons_pos
    /\ \A j \in 1 .. producer_pos : handled[j] = 1 \/ j \in overflowed \cup lost

Unfinished ==
  \E j \in 1 .. producer_pos : handled[j] = 0 /\ j \notin overflowed \cup lost

(* While the pool is not shut down, the jobs that were accepted (MaxJobs at *)
(* most) are all handled or reported in the end, paused or not.             *)
JobsFinish == []<>(cpc = "down" \/ shutdown \/ ~Unfinished)

(* Shutdown, and the roll-back of a Start that failed, return, although  *)
(* submitters go on publishing: the drain is bounded and no thread waits *)
(* for another that waits for it.                                        *)
ShutdownReturns == []<>(cpc \notin {"failed", "join_dispatcher", "join_workers"})
=============================================================================
