-------------------------- MODULE WorkerPoolProofs --------------------------
(***************************************************************************)
(* Every job accepted by the worker pool is handled once, reported or      *)
(* cleared, and a successful FlushAndPause means that the pool is idle:    *)
(* JobsAccounted and FlushMeansIdle of WorkerPool, for any number of       *)
(* submitters, workers and jobs and any sizes of the queues.               *)
(***************************************************************************)
EXTENDS WorkerPool, FiniteSetTheorems, TLAPS

Points == {"none", "check", "take", "push", "count", "release", "exit"}
WorkerPoints == {"none", "check", "pop", "drain", "handle", "count", "exit"}
FlushPoints == {"load_prod", "load_cons", "queues", "load_disp", "load_proc", "again"}
ControlPoints == FlushPoints \cup {"down", "failed", "up", "flushed", "join_dispatcher", "join_workers"}

(* Types, in groups that the steps of one thread leave alone. *)
BusTypes ==
  /\ producer_pos \in 0 .. MaxJobs /\ consumer_pos \in 0 .. MaxJobs /\ cons_pos \in 0 .. MaxJobs
  /\ filled \subseteq Jobs
SubmitTypes ==
  /\ spc \in [Submitters -> {"idle", "publish", "fill"}] /\ job \in [Submitters -> Jobs \cup {NoJob}]
TakeTypes ==
  /\ dpc \in Points /\ batch \in 0 .. BatchSize /\ rounds \in 0 .. DrainRounds
  /\ next_worker \in Workers /\ first \in Workers /\ tried \in Workers
WorkerTypes ==
  /\ wpc \in [Workers -> WorkerPoints] /\ env \in [Workers -> Jobs \cup {NoJob}]
  /\ queue \in [Workers -> Seq(Jobs)] /\ \A w \in Workers : Len(queue[w]) <= QueueDepth
ControlTypes ==
  cpc \in ControlPoints /\ seen \in 0 .. MaxJobs + worker_num /\ starts \in 0 .. MaxStarts
FateTypes ==
  /\ handled \in [Jobs -> {0, 1}] /\ overflowed \subseteq Jobs /\ lost \subseteq Jobs
  /\ dispatched \in Nat /\ processed \in Nat
Flags == shutdown \in BOOLEAN /\ paused \in BOOLEAN /\ late \in BOOLEAN /\ draining \in BOOLEAN
Types ==
  BusTypes /\ SubmitTypes /\ TakeTypes /\ WorkerTypes /\ ControlTypes /\ FateTypes /\ Flags

(* The dispatcher takes filled positions in order, in bounded batches. *)
BusInv ==
  /\ consumer_pos <= cons_pos /\ cons_pos <= producer_pos /\ dispatched <= cons_pos
  /\ filled \subseteq 1 .. producer_pos
  /\ \A s \in Submitters : spc[s] = "fill" => job[s] \in 1 .. producer_pos
  /\ dpc \in {"push", "count"} => cons_pos < producer_pos /\ batch < BatchSize
  /\ dpc = "check" => rounds = 0
  /\ dpc \in {"take", "push", "count", "release"} => rounds < DrainRounds

(* Which threads exist, and that a worker has a job while it handles one. *)
ThreadInv ==
  /\ cpc \in {"down", "join_workers"} => dpc = "none"
  /\ cpc = "down" => \A w \in Workers : wpc[w] = "none"
  /\ \A w \in Workers : wpc[w] = "handle" <=> env[w] # NoJob

(* Where a job is. *)
Out(j) == j <= cons_pos \/ (dpc = "count" /\ j = cons_pos + 1)
InQueue(j) == \E w \in Workers : \E k \in 1 .. Len(queue[w]) : queue[w][k] = j
InHands(j) == \E w \in Workers : env[w] = j
OneOf(a, b, c, d, e, any) ==
  /\ any <=> a \/ b \/ c \/ d \/ e
  /\ ~(a /\ b) /\ ~(a /\ c) /\ ~(a /\ d) /\ ~(a /\ e) /\ ~(b /\ c) /\ ~(b /\ d) /\ ~(b /\ e)
  /\ ~(c /\ d) /\ ~(c /\ e) /\ ~(d /\ e)

PlaceInv ==
  \A j \in Jobs :
    OneOf(handled[j] = 1, InQueue(j), InHands(j), j \in overflowed, j \in lost, Out(j))
OnceQueued ==
  \A w, v \in Workers : \A k \in 1 .. Len(queue[w]), i \in 1 .. Len(queue[v]) :
    queue[w][k] = queue[v][i] => w = v /\ k = i
OnceInHands == \A w, v \in Workers : env[w] = env[v] /\ env[w] # NoJob => w = v

(* What a round of the flush has seen still holds, unless a Submit was late. *)
FlushInv ==
  /\ cpc \in FlushPoints \cup {"flushed"} => paused
  /\ cpc = "queues" => seen \in Workers
  /\ paused /\ ~late => \A s \in Submitters : spc[s] # "publish"
  /\ ~late =>
       /\ cpc = "load_cons" => seen = producer_pos
       /\ cpc \in {"queues", "load_disp", "load_proc", "flushed"} => producer_pos = consumer_pos
       /\ cpc = "queues" => \A w \in Workers : w < seen => queue[w] = <<>>
       /\ cpc \in {"load_disp", "load_proc", "flushed"} => \A w \in Workers : queue[w] = <<>>
       /\ cpc = "load_proc" => seen = dispatched
       /\ cpc = "flushed" => dispatched = processed

IInv ==
  /\ Types /\ BusInv /\ ThreadInv
  /\ PlaceInv /\ OnceQueued /\ OnceInHands
  /\ CountersAgree /\ FlushInv

-----------------------------------------------------------------------------
(* Types. *)

SizeFacts ==
  /\ worker_num \in Nat /\ worker_num >= 1 /\ QueueDepth \in Nat /\ QueueDepth >= 1
  /\ BatchSize \in Nat /\ BatchSize >= 1 /\ DrainRounds \in Nat /\ DrainRounds >= 1
  /\ MaxJobs \in Nat /\ MaxStarts \in Nat
  /\ Workers = 0 .. worker_num - 1 /\ Jobs = 1 .. MaxJobs

LEMMA Sizes == SizeFacts
<1>1. /\ worker_num \in Nat \ {0} /\ QueueDepth \in Nat \ {0}
      /\ BatchSize \in Nat \ {0} /\ DrainRounds \in Nat \ {0}
  BY PoolSizes, Zenon
<1> QED BY <1>1, PoolSizes, SMTT(30) DEF SizeFacts, Workers, Jobs

LEMMA ModWorker == \A n \in Nat : n % worker_num \in Workers
BY Sizes DEF SizeFacts

(* The three ways of a push: to a worker with room, on to the next worker, *)
(* or, after the last one, dropped.                                        *)
Pushed(w) ==
  /\ ~Full(w) /\ queue' = [queue EXCEPT ![w] = Append(@, cons_pos + 1)]
  /\ dpc' = "count" /\ UNCHANGED <<cons_pos, batch, tried, overflowed>>
Passed == tried + 1 < worker_num /\ tried' = tried + 1 /\ UNCHANGED <<queue, dpc, cons_pos, batch, overflowed>>
Dropped == DropJob /\ UNCHANGED <<queue, tried>>

LEMMA PushWays ==
  ASSUME TakeTypes, PushJob
  PROVE  /\ dpc = "push"
         /\ (\E w \in Workers : Pushed(w)) \/ Passed \/ Dropped
         /\ UNCHANGED <<bus, shutdown, dispatched, processed, next_worker, submitter, first,
                        draining, rounds, worker, controller, handled, lost>>
<1>1. first + tried \in Nat
  BY Sizes DEF TakeTypes, SizeFacts
<1>2. (first + tried) % worker_num \in Workers
  BY <1>1, ModWorker, Zenon
<1> QED BY <1>2, Zenon DEF PushJob, Pushed, Passed, Dropped

(* Submitters and the bus. *)
LEMMA BusTypesKept == ASSUME Types, BusInv, Next PROVE BusTypes'
<1> USE Sizes DEF SizeFacts
<1>0. BusTypes
  BY Zenon DEF Types
<1>1. CASE UNCHANGED bus /\ UNCHANGED cons_pos
  BY <1>0, <1>1, Zenon DEF BusTypes, bus
<1>2. ASSUME NEW s \in Submitters, SubmitterStep(s) PROVE BusTypes'
  <2>1. CASE SubmitCheck(s)
    BY <1>1, <2>1, Zenon DEF SubmitCheck, taking
  <2>2. CASE SubmitClaim(s)
    BY <1>0, <2>2 DEF SubmitClaim, taking, BusTypes
  <2>3. CASE SubmitFill(s)
    <3>1. job[s] \in Jobs
      BY <1>0, <2>3, SMTT(30) DEF SubmitFill, BusInv, BusTypes
    <3> QED BY <1>0, <2>3, <3>1, Zenon DEF SubmitFill, taking, BusTypes
  <2> QED BY <1>2, <2>1, <2>2, <2>3, Zenon DEF SubmitterStep
<1>3. CASE DispatcherStep
  <2>1. CASE DispatcherCheck \/ DispatchToWorker \/ BatchStop
    BY <1>1, <2>1, Zenon DEF DispatcherCheck, DispatchToWorker, BatchStop, taking
  <2>2. CASE PushJob
    <3>1. TakeTypes
      BY Zenon DEF Types
    <3>2. UNCHANGED bus /\ dpc = "push" /\ (cons_pos' = cons_pos \/ cons_pos' = cons_pos + 1)
      BY <2>2, <3>1, PushWays, Zenon DEF Pushed, Passed, Dropped, DropJob, NextJob
    <3> QED BY <1>0, <3>2 DEF BusTypes, BusInv, bus
  <2>3. CASE CountDispatched
    BY <1>0, <2>3, SMTT(30) DEF CountDispatched, NextJob, bus, BusTypes, BusInv
  <2>4. CASE BatchEnd
    BY <1>0, <2>4, Zenon DEF BatchEnd, BusTypes
  <2> QED BY <1>3, <2>1, <2>2, <2>3, <2>4, Zenon DEF DispatcherStep
<1>4. ASSUME NEW w \in Workers, WorkerStep(w) PROVE BusTypes'
  BY <1>1, <1>4, Zenon DEF WorkerStep, WorkerCheck, WorkerPop, WorkerHandle, WorkerCount, taking
<1>5. CASE ControllerStep
  BY <1>1, <1>5, Zenon
     DEF ControllerStep, Start, StartFailed, Shutdown, StopAll, Joins, JoinDispatcher, JoinWorkers,
         FlushAndPause, FlushRound, FlushLoadProd, FlushLoadCons, FlushQueue, FlushLoadDisp,
         FlushLoadProc, FlushAgain, FlushTimeout, Flushing, Resume, taking
<1> QED BY <1>2, <1>3, <1>4, <1>5, Zenon DEF Next

LEMMA SubmitTypesKept == ASSUME Types, Next PROVE SubmitTypes'
<1> USE Sizes DEF SizeFacts
<1>0. SubmitTypes /\ BusTypes
  BY Zenon DEF Types
<1>1. CASE UNCHANGED submitter
  BY <1>0, <1>1, Zenon DEF SubmitTypes, submitter
<1>2. ASSUME NEW s \in Submitters, SubmitterStep(s) PROVE SubmitTypes'
  <2>1. CASE SubmitCheck(s)
    BY <1>0, <2>1, Zenon DEF SubmitCheck, SubmitTypes
  <2>2. CASE SubmitClaim(s)
    <3>1. producer_pos + 1 \in Jobs
      BY <1>0, <2>2 DEF SubmitClaim, BusTypes
    <3> QED BY <1>0, <2>2, <3>1, ZenonT(40) DEF SubmitClaim, SubmitTypes
  <2>3. CASE SubmitFill(s)
    BY <1>0, <2>3, Zenon DEF SubmitFill, SubmitTypes
  <2> QED BY <1>2, <2>1, <2>2, <2>3, Zenon DEF SubmitterStep
<1>3. CASE DispatcherStep
  BY <1>1, <1>3, Zenon DEF DispatcherStep, DispatcherCheck, DispatchToWorker, PushJob, CountDispatched,
                    BatchStop, BatchEnd
<1>4. ASSUME NEW w \in Workers, WorkerStep(w) PROVE SubmitTypes'
  BY <1>1, <1>4, Zenon DEF WorkerStep, WorkerCheck, WorkerPop, WorkerHandle, WorkerCount
<1>5. CASE ControllerStep
  BY <1>1, <1>5, ZenonT(40)
     DEF ControllerStep, Start, StartFailed, Shutdown, StopAll, Joins, JoinDispatcher, JoinWorkers,
         FlushAndPause, FlushRound, FlushLoadProd, FlushLoadCons, FlushQueue, FlushLoadDisp,
         FlushLoadProc, FlushAgain, FlushTimeout, Flushing, Resume
<1> QED BY <1>2, <1>3, <1>4, <1>5, Zenon DEF Next

(* The dispatcher. *)
LEMMA TakeTypesKept == ASSUME Types, BusInv, Next PROVE TakeTypes'
<1> USE Sizes DEF SizeFacts
<1>0. TakeTypes
  BY Zenon DEF Types
<1>1. CASE UNCHANGED <<dpc, taking, next_worker>>
  BY <1>0, <1>1, Zenon DEF TakeTypes, taking
<1>2. ASSUME NEW s \in Submitters, SubmitterStep(s) PROVE TakeTypes'
  BY <1>1, <1>2, Zenon DEF SubmitterStep, SubmitCheck, SubmitClaim, SubmitFill
<1>3. CASE DispatcherStep
  <2>1. CASE DispatcherCheck
    BY <1>0, <2>1, Zenon DEF DispatcherCheck, TakeTypes, Points
  <2>2. CASE DispatchToWorker
    <3>1. next_worker + 1 \in Nat
      BY <1>0 DEF TakeTypes
    <3>2. (next_worker + 1) % worker_num \in Workers
      BY <3>1, ModWorker, Zenon
    <3>3. 0 \in Workers
      OBVIOUS
    <3> QED BY <1>0, <2>2, <3>2, <3>3, Zenon DEF DispatchToWorker, TakeTypes, Points
  <2>3. CASE PushJob
    <3>1. dpc = "push" /\ UNCHANGED <<first, next_worker, rounds>>
      BY <1>0, <2>3, PushWays, Zenon
    <3>2. dpc' \in Points /\ tried' \in Workers /\ batch' \in 0 .. BatchSize
      BY <1>0, <2>3, <3>1, PushWays, SMTT(30)
         DEF Pushed, Passed, Dropped, DropJob, NextJob, TakeTypes, Points, BusInv
    <3> QED BY <1>0, <3>1, <3>2, Zenon DEF TakeTypes
  <2>4. CASE CountDispatched
    BY <1>0, <2>4, SMTT(30) DEF CountDispatched, NextJob, TakeTypes, Points, BusInv
  <2>5. CASE BatchStop
    BY <1>0, <2>5, Zenon DEF BatchStop, taking, TakeTypes, Points
  <2>6. CASE BatchEnd
    <3>1. dpc = "release" /\ rounds + 1 \in 0 .. DrainRounds /\ 0 \in 0 .. DrainRounds /\ 0 \in 0 .. BatchSize
      BY <1>0, <2>6, SMTT(30) DEF BatchEnd, TakeTypes, BusInv
    <3>2. dpc' \in {"check", "exit", "take"}
      BY <2>6, Zenon DEF BatchEnd
    <3>3. rounds' \in {rounds + 1, 0}
      BY <2>6, Zenon DEF BatchEnd
    <3> QED BY <1>0, <2>6, <3>1, <3>2, <3>3, Zenon DEF BatchEnd, TakeTypes, Points
  <2> QED BY <1>3, <2>1, <2>2, <2>3, <2>4, <2>5, <2>6, Zenon DEF DispatcherStep
<1>4. ASSUME NEW w \in Workers, WorkerStep(w) PROVE TakeTypes'
  BY <1>1, <1>4, ZenonT(30) DEF WorkerStep, WorkerCheck, WorkerPop, WorkerHandle, WorkerCount
<1>5. CASE ControllerStep
  <2>1. ASSUME NEW n \in 0 .. worker_num + 1, Start(n) PROVE TakeTypes'
    <3>1. dpc' \in {"check", "none"}
      BY <2>1, Zenon DEF Start
    <3> QED BY <1>0, <2>1, <3>1, SMTT(30) DEF Start, TakeTypes, Points
  <2>2. CASE JoinDispatcher
    BY <1>0, <2>2, ZenonT(40) DEF JoinDispatcher, taking, TakeTypes, Points
  <2> QED BY <1>1, <1>5, <2>1, <2>2, Zenon
     DEF ControllerStep, StartFailed, Shutdown, StopAll, Joins, JoinWorkers,
         FlushAndPause, FlushRound, FlushLoadProd, FlushLoadCons, FlushQueue, FlushLoadDisp,
         FlushLoadProc, FlushAgain, FlushTimeout, Flushing, Resume
<1> QED BY <1>2, <1>3, <1>4, <1>5, Zenon DEF Next

(* The workers and their queues. *)
LEMMA WorkerTypesKept == ASSUME Types, BusInv, Next PROVE WorkerTypes'
<1> USE Sizes DEF SizeFacts
<1>0. WorkerTypes /\ BusTypes /\ TakeTypes
  BY Zenon DEF Types
<1>1. CASE UNCHANGED <<worker, queue>>
  BY <1>0, <1>1, Zenon DEF WorkerTypes, worker
<1>2. ASSUME NEW s \in Submitters, SubmitterStep(s) PROVE WorkerTypes'
  BY <1>1, <1>2, Zenon DEF SubmitterStep, SubmitCheck, SubmitClaim, SubmitFill
<1>3. CASE DispatcherStep
  <2>1. CASE PushJob
    <3>1. UNCHANGED worker /\ dpc = "push"
      BY <1>0, <2>1, PushWays, Zenon
    <3>2. ASSUME NEW w \in Workers, Pushed(w) PROVE WorkerTypes'
      <4>1. cons_pos + 1 \in Jobs
        BY <1>0, <3>1, SMTT(30) DEF BusInv, BusTypes
      <4>2. queue[w] \in Seq(Jobs) /\ Len(queue[w]) \in Nat /\ Len(queue[w]) < QueueDepth
        BY <1>0, <3>2, SMTT(30) DEF WorkerTypes, Pushed, Full
      <4>3. Append(queue[w], cons_pos + 1) \in Seq(Jobs)
            /\ Len(Append(queue[w], cons_pos + 1)) = Len(queue[w]) + 1
        BY <4>1, <4>2, SMTT(30)
      <4>4. queue' = [queue EXCEPT ![w] = Append(queue[w], cons_pos + 1)]
        BY <3>2, Zenon DEF Pushed
      <4>5. queue' \in [Workers -> Seq(Jobs)]
        BY <1>0, <4>3, <4>4, Zenon DEF WorkerTypes
      <4>6. \A v \in Workers : Len(queue'[v]) <= QueueDepth
        BY <1>0, <4>2, <4>3, <4>4, SMTT(30) DEF WorkerTypes
      <4> QED BY <1>0, <3>1, <4>5, <4>6, Zenon DEF WorkerTypes, worker
    <3>3. CASE Passed \/ Dropped
      BY <1>1, <3>1, <3>3, Zenon DEF Passed, Dropped
    <3> QED BY <1>0, <2>1, <3>2, <3>3, PushWays, Zenon
  <2> QED BY <1>1, <1>3, <2>1, Zenon
     DEF DispatcherStep, DispatcherCheck, DispatchToWorker, CountDispatched, BatchStop, BatchEnd
<1>4. ASSUME NEW w \in Workers, WorkerStep(w) PROVE WorkerTypes'
  <2>1. ASSUME NEW p \in WorkerPoints, wpc' = [wpc EXCEPT ![w] = p] PROVE wpc' \in [Workers -> WorkerPoints]
    BY <1>0, <2>1, Zenon DEF WorkerTypes
  <2>2. /\ queue[w] \in Seq(Jobs) /\ Len(queue[w]) <= QueueDepth
        /\ env \in [Workers -> Jobs \cup {NoJob}] /\ queue \in [Workers -> Seq(Jobs)]
        /\ \A v \in Workers : Len(queue[v]) <= QueueDepth
    BY <1>0, Zenon DEF WorkerTypes
  <2>3. CASE WorkerCheck(w) \/ WorkerCount(w)
    <3>1. wpc' \in [Workers -> WorkerPoints]
      BY <2>1, <2>3, Zenon DEF WorkerCheck, WorkerCount, WorkerPoints
    <3> QED BY <2>2, <2>3, <3>1, Zenon DEF WorkerCheck, WorkerCount, WorkerTypes
  <2>4. CASE WorkerPop(w)
    <3>1. wpc' \in [Workers -> WorkerPoints]
      BY <2>1, <2>4, Zenon DEF WorkerPop, WorkerPoints
    <3>2. CASE queue[w] # <<>>
      <4>1. Head(queue[w]) \in Jobs /\ Tail(queue[w]) \in Seq(Jobs) /\ Len(Tail(queue[w])) <= QueueDepth
        BY <2>2, <3>2, SMTT(30)
      <4>2. env' = [env EXCEPT ![w] = Head(queue[w])] /\ queue' = [queue EXCEPT ![w] = Tail(queue[w])]
        BY <2>4, <3>2, Zenon DEF WorkerPop
      <4>3. env' \in [Workers -> Jobs \cup {NoJob}] /\ queue' \in [Workers -> Seq(Jobs)]
        BY <2>2, <4>1, <4>2, Zenon
      <4>4. \A v \in Workers : Len(queue'[v]) <= QueueDepth
        BY <2>2, <4>1, <4>2, Zenon
      <4> QED BY <3>1, <4>3, <4>4, Zenon DEF WorkerTypes
    <3>3. CASE queue[w] = <<>>
      BY <2>2, <2>4, <3>1, <3>3, Zenon DEF WorkerPop, WorkerTypes
    <3> QED BY <3>2, <3>3, Zenon
  <2>5. CASE WorkerHandle(w)
    <3>1. wpc' \in [Workers -> WorkerPoints]
      BY <2>1, <2>5, Zenon DEF WorkerHandle, WorkerPoints
    <3>2. env' \in [Workers -> Jobs \cup {NoJob}]
      BY <2>2, <2>5, Zenon DEF WorkerHandle
    <3> QED BY <2>2, <2>5, <3>1, <3>2, Zenon DEF WorkerHandle, WorkerTypes
  <2> QED BY <1>4, <2>3, <2>4, <2>5, Zenon DEF WorkerStep
<1>5. CASE ControllerStep
  <2>1. ASSUME NEW n \in 0 .. worker_num + 1, Start(n) PROVE WorkerTypes'
    <3>1. wpc' \in [Workers -> WorkerPoints]
      BY <2>1, Zenon DEF Start, WorkerPoints
    <3> QED BY <1>0, <2>1, <3>1, Zenon DEF Start, WorkerTypes
  <2>2. CASE JoinWorkers
    <3>1. wpc' \in [Workers -> WorkerPoints]
      BY <2>2, Zenon DEF JoinWorkers, WorkerPoints
    <3>2. <<>> \in Seq(Jobs) /\ Len(<<>>) <= QueueDepth
      OBVIOUS
    <3> QED BY <1>0, <2>2, <3>1, <3>2, Zenon DEF JoinWorkers, WorkerTypes
  <2> QED BY <1>1, <1>5, <2>1, <2>2, Zenon
     DEF ControllerStep, StartFailed, Shutdown, StopAll, Joins, JoinDispatcher,
         FlushAndPause, FlushRound, FlushLoadProd, FlushLoadCons, FlushQueue, FlushLoadDisp,
         FlushLoadProc, FlushAgain, FlushTimeout, Flushing, Resume
<1> QED BY <1>2, <1>3, <1>4, <1>5, Zenon DEF Next

(* The controller. *)
LEMMA ControlTypesKept == ASSUME Types, BusInv, FlushInv, Next PROVE ControlTypes'
<1> USE Sizes DEF SizeFacts
<1>0. ControlTypes /\ BusTypes /\ FateTypes /\ Workers \subseteq 0 .. MaxJobs + worker_num
  BY DEF Types
<1>1. CASE UNCHANGED controller
  BY <1>0, <1>1, Zenon DEF ControlTypes, controller
<1>2. ASSUME NEW s \in Submitters, SubmitterStep(s) PROVE ControlTypes'
  BY <1>1, <1>2, Zenon DEF SubmitterStep, SubmitCheck, SubmitClaim, SubmitFill
<1>3. CASE DispatcherStep
  BY <1>1, <1>3, ZenonT(30) DEF DispatcherStep, DispatcherCheck, DispatchToWorker, PushJob, CountDispatched,
                    BatchStop, BatchEnd
<1>4. ASSUME NEW w \in Workers, WorkerStep(w) PROVE ControlTypes'
  BY <1>1, <1>4, Zenon DEF WorkerStep, WorkerCheck, WorkerPop, WorkerHandle, WorkerCount
<1>5. CASE ControllerStep
  <2>1. CASE \E n \in 0 .. worker_num + 1 : Start(n)
    BY <1>0, <2>1, SMTT(30) DEF Start, ControlTypes, ControlPoints
  <2>2. CASE StartFailed \/ Shutdown \/ Joins \/ Resume
    BY <1>0, <2>2, Zenon DEF StartFailed, Shutdown, StopAll, Joins, JoinDispatcher, JoinWorkers, Resume,
                      ControlTypes, ControlPoints
  <2>3. CASE FlushAndPause
    BY <1>0, <2>3, SMTT(30) DEF FlushAndPause, ControlTypes, ControlPoints, FlushPoints
  <2>4. ASSUME NEW from, NEW to \in ControlPoints, NEW value \in 0 .. MaxJobs + worker_num,
               Flushing(from, to, value)
        PROVE  ControlTypes'
    BY <1>0, <2>4, Zenon DEF Flushing, ControlTypes
  <2>5. \A p \in {"load_cons", "queues", "again", "load_disp", "load_proc", "flushed", "load_prod", "up"} :
          p \in ControlPoints
    BY Zenon DEF ControlPoints, FlushPoints
  <2>6. /\ producer_pos \in 0 .. MaxJobs + worker_num /\ 0 \in 0 .. MaxJobs + worker_num
        /\ dispatched \in 0 .. MaxJobs + worker_num
    BY <1>0 DEF BusTypes, FateTypes, BusInv
  <2>7. CASE FlushLoadProd \/ FlushLoadCons \/ FlushLoadDisp \/ FlushLoadProc \/ FlushAgain \/ FlushTimeout
    BY <2>4, <2>5, <2>6, <2>7, Zenon
       DEF FlushLoadProd, FlushLoadCons, FlushLoadDisp, FlushLoadProc, FlushAgain, FlushTimeout
  <2>8. CASE FlushQueue
    <3>1. seen \in Workers
      BY <2>8, Zenon DEF FlushQueue, Flushing, FlushInv
    <3>2. (IF queue[seen] = <<>> /\ seen + 1 < worker_num THEN seen + 1 ELSE 0) \in 0 .. MaxJobs + worker_num
      BY <3>1
    <3> QED BY <2>4, <2>5, <2>8, <3>2, Zenon DEF FlushQueue
  <2> QED BY <1>5, <2>1, <2>2, <2>3, <2>7, <2>8, ZenonT(40) DEF ControllerStep, FlushRound
<1> QED BY <1>2, <1>3, <1>4, <1>5, Zenon DEF Next

(* What became of the jobs. *)
LEMMA FateTypesKept ==
  ASSUME Types, BusInv, ThreadInv, PlaceInv, Next
  PROVE  FateTypes'
<1> USE Sizes DEF SizeFacts
<1>0. FateTypes /\ BusTypes /\ TakeTypes /\ WorkerTypes
  BY Zenon DEF Types
<1>1. CASE UNCHANGED <<fates, dispatched, processed>>
  BY <1>0, <1>1, Zenon DEF FateTypes, fates
<1>2. ASSUME NEW s \in Submitters, SubmitterStep(s) PROVE FateTypes'
  BY <1>1, <1>2, Zenon DEF SubmitterStep, SubmitCheck, SubmitClaim, SubmitFill
<1>3. CASE DispatcherStep
  <2>1. CASE PushJob
    <3>1. UNCHANGED <<handled, lost, dispatched, processed>> /\ dpc = "push"
      BY <1>0, <2>1, PushWays, Zenon
    <3>2. cons_pos + 1 \in Jobs
      BY <1>0, <3>1 DEF BusInv, BusTypes
    <3>3. overflowed' = overflowed \/ overflowed' = overflowed \cup {cons_pos + 1}
      BY <1>0, <2>1, PushWays, Zenon DEF Pushed, Passed, Dropped, DropJob
    <3> QED BY <1>0, <3>1, <3>2, <3>3, Zenon DEF FateTypes
  <2>2. CASE CountDispatched
    BY <1>0, <2>2 DEF CountDispatched, fates, FateTypes
  <2> QED BY <1>1, <1>3, <2>1, <2>2, Zenon
             DEF DispatcherStep, DispatcherCheck, DispatchToWorker, BatchStop, BatchEnd
<1>4. ASSUME NEW w \in Workers, WorkerStep(w) PROVE FateTypes'
  <2>1. CASE WorkerHandle(w)
    <3>1. env[w] \in Jobs /\ InHands(env[w])
      BY <1>0, <2>1, Zenon DEF WorkerHandle, ThreadInv, WorkerTypes, InHands
    <3>2. handled[env[w]] # 1
      BY <3>1, Zenon DEF PlaceInv, OneOf
    <3>3. handled[env[w]] + 1 = 1
      BY <1>0, <3>1, <3>2, SMTT(30) DEF FateTypes
    <3>4. handled' \in [Jobs -> {0, 1}]
      BY <1>0, <2>1, <3>3, Zenon DEF WorkerHandle, FateTypes
    <3> QED BY <1>0, <2>1, <3>4, Zenon DEF WorkerHandle, FateTypes
  <2>2. CASE WorkerCount(w)
    BY <1>0, <2>2, SMTT(30) DEF WorkerCount, fates, FateTypes
  <2> QED BY <1>1, <1>4, <2>1, <2>2, Zenon DEF WorkerStep, WorkerCheck, WorkerPop
<1>5. CASE ControllerStep
  <2>1. CASE JoinWorkers
    <3>1. UNION {Range(queue[w]) : w \in Workers} \subseteq Jobs
      BY <1>0, SMTT(30) DEF WorkerTypes, Range
    <3> QED BY <1>0, <2>1, <3>1, Zenon DEF JoinWorkers, FateTypes
  <2> QED BY <1>1, <1>5, <2>1, Zenon
     DEF ControllerStep, Start, StartFailed, Shutdown, StopAll, Joins, JoinDispatcher,
         FlushAndPause, FlushRound, FlushLoadProd, FlushLoadCons, FlushQueue, FlushLoadDisp,
         FlushLoadProc, FlushAgain, FlushTimeout, Flushing, Resume
<1> QED BY <1>2, <1>3, <1>4, <1>5, Zenon DEF Next

LEMMA FlagsKept == ASSUME Flags, Next PROVE Flags'
<1>1. \A x : (x = TRUE \/ x = FALSE) => x \in BOOLEAN
  BY Zenon
<1>2. ASSUME NEW s \in Submitters, SubmitterStep(s) PROVE Flags'
  BY <1>2, Zenon DEF SubmitterStep, SubmitCheck, SubmitClaim, SubmitFill, Flags, taking, controller
<1>3. CASE DispatcherStep
  BY <1>3, Zenon DEF DispatcherStep, DispatcherCheck, DispatchToWorker, PushJob, CountDispatched,
              BatchStop, BatchEnd, Flags, taking, controller
<1>4. ASSUME NEW w \in Workers, WorkerStep(w) PROVE Flags'
  BY <1>4, Zenon DEF WorkerStep, WorkerCheck, WorkerPop, WorkerHandle, WorkerCount, Flags, taking, controller
<1>5. CASE ControllerStep
  <2>1. CASE FlushAndPause
    BY <2>1, Zenon DEF FlushAndPause, Flags, taking
  <2> QED BY <1>5, <2>1, Zenon
     DEF ControllerStep, Start, StartFailed, Shutdown, StopAll, Joins, JoinDispatcher, JoinWorkers,
         FlushRound, FlushLoadProd, FlushLoadCons, FlushQueue, FlushLoadDisp,
         FlushLoadProc, FlushAgain, FlushTimeout, Flushing, Resume, Flags, taking
<1> QED BY <1>2, <1>3, <1>4, <1>5, Zenon DEF Next

-----------------------------------------------------------------------------
(* The bus and the threads. *)

LEMMA BusKept == ASSUME Types, BusInv, Next PROVE BusInv'
<1> USE Sizes DEF SizeFacts
<1>0. /\ BusTypes /\ SubmitTypes /\ TakeTypes /\ FateTypes /\ batch \in Nat /\ rounds \in Nat
      /\ producer_pos \in Nat /\ cons_pos \in Nat /\ consumer_pos \in Nat /\ dispatched \in Nat
  BY DEF Types, BusTypes, TakeTypes, FateTypes
<1>1. CASE UNCHANGED <<bus, submitter, dpc, cons_pos, batch, rounds, dispatched>>
  BY <1>1, Zenon DEF BusInv, bus, submitter
<1>2. ASSUME NEW s \in Submitters, SubmitterStep(s) PROVE BusInv'
  <2>1. UNCHANGED <<consumer_pos, dpc, cons_pos, batch, rounds, dispatched>>
    BY <1>2, Zenon DEF SubmitterStep, SubmitCheck, SubmitClaim, SubmitFill, bus, taking
  <2>2. producer_pos' \in Nat /\ producer_pos <= producer_pos'
    BY <1>0, <1>2, SMTT(30) DEF SubmitterStep, SubmitCheck, SubmitClaim, SubmitFill, bus
  <2>3. filled' \subseteq 1 .. producer_pos'
    <3>1. filled' = filled \/ (spc[s] = "fill" /\ filled' = filled \cup {job[s]})
      BY <1>2, Zenon DEF SubmitterStep, SubmitCheck, SubmitClaim, SubmitFill, bus
    <3>2. filled' \subseteq 1 .. producer_pos
      BY <3>1 DEF BusInv
    <3> QED BY <1>0, <2>2, <3>2, SMTT(30)
  <2>4. ASSUME NEW t \in Submitters, spc'[t] = "fill" PROVE job'[t] \in 1 .. producer_pos'
    <3>1. CASE spc[t] = "fill" /\ job'[t] = job[t]
      BY <1>0, <2>2, <3>1, SMTT(30) DEF BusInv
    <3>2. CASE job'[t] = producer_pos + 1 /\ producer_pos' = producer_pos + 1
      BY <1>0, <3>2, SMTT(30)
    <3> QED BY <1>0, <1>2, <2>4, <3>1, <3>2, Zenon
            DEF SubmitterStep, SubmitCheck, SubmitClaim, SubmitFill, SubmitTypes
  <2> QED BY <1>0, <2>1, <2>2, <2>3, <2>4, SMTT(30) DEF BusInv
<1>3. CASE DispatcherStep
  <2>1. CASE DispatcherCheck
    BY <1>0, <2>1, SMTT(30) DEF DispatcherCheck, BusInv, bus, submitter
  <2>2. CASE DispatchToWorker
    <3>1. cons_pos + 1 \in filled /\ batch < BatchSize
      BY <2>2, Zenon DEF DispatchToWorker, CanTake
    <3>2. cons_pos < producer_pos
      BY <1>0, <3>1, SMTT(30) DEF BusInv
    <3> QED BY <2>2, <3>1, <3>2, Zenon DEF DispatchToWorker, BusInv, bus, submitter
  <2>3. CASE PushJob
    <3>1. dpc = "push" /\ UNCHANGED <<bus, submitter, rounds, dispatched>>
      BY <1>0, <2>3, PushWays, Zenon
    <3>2. CASE cons_pos' = cons_pos /\ batch' = batch /\ dpc' \in {"push", "count"}
      BY <3>1, <3>2, Zenon DEF BusInv, bus, submitter
    <3>3. CASE cons_pos' = cons_pos + 1 /\ dpc' = "take"
      BY <1>0, <3>1, <3>3, SMTT(30) DEF BusInv, bus, submitter
    <3> QED BY <1>0, <2>3, <3>1, <3>2, <3>3, PushWays, Zenon
               DEF Pushed, Passed, Dropped, DropJob, NextJob
  <2>4. CASE CountDispatched
    BY <1>0, <2>4, SMTT(30) DEF CountDispatched, NextJob, BusInv, bus, submitter
  <2>5. CASE BatchStop
    BY <2>5, Zenon DEF BatchStop, BusInv, bus, submitter, taking
  <2>6. CASE BatchEnd
    <3>1. /\ UNCHANGED <<producer_pos, filled, dispatched, submitter, cons_pos>>
          /\ consumer_pos' = cons_pos /\ rounds < DrainRounds
      BY <2>6, Zenon DEF BatchEnd, BusInv
    <3>2. dpc' \notin {"push", "count"} /\ (dpc' = "check" => rounds' = 0)
          /\ (dpc' = "take" => rounds' < DrainRounds) /\ dpc' # "release"
      BY <1>0, <2>6, <3>1, SMTT(30) DEF BatchEnd, DrainEnds
    <3> QED BY <1>0, <3>1, <3>2, SMTT(30) DEF BusInv, submitter
  <2> QED BY <1>3, <2>1, <2>2, <2>3, <2>4, <2>5, <2>6, ZenonT(40) DEF DispatcherStep
<1>4. ASSUME NEW w \in Workers, WorkerStep(w) PROVE BusInv'
  BY <1>1, <1>4, Zenon DEF WorkerStep, WorkerCheck, WorkerPop, WorkerHandle, WorkerCount, taking
<1>5. CASE ControllerStep
  <2>1. ASSUME NEW n \in 0 .. worker_num + 1, Start(n) PROVE BusInv'
    <3>1. dpc' \in {"check", "none"} /\ rounds' = 0 /\ UNCHANGED <<bus, submitter, cons_pos, dispatched>>
      BY <2>1, Zenon DEF Start
    <3> QED BY <3>1, Zenon DEF BusInv, bus, submitter
  <2>2. CASE JoinDispatcher
    BY <2>2, ZenonT(40) DEF JoinDispatcher, BusInv, bus, submitter, taking
  <2> QED BY <1>1, <1>5, <2>1, <2>2, ZenonT(40)
     DEF ControllerStep, StartFailed, Shutdown, StopAll, Joins, JoinWorkers,
         FlushAndPause, FlushRound, FlushLoadProd, FlushLoadCons, FlushQueue, FlushLoadDisp,
         FlushLoadProc, FlushAgain, FlushTimeout, Flushing, Resume, taking
<1> QED BY <1>2, <1>3, <1>4, <1>5, ZenonT(40) DEF Next

LEMMA ThreadKept == ASSUME Types, ThreadInv, Next PROVE ThreadInv'
<1> USE Sizes DEF SizeFacts
<1>0. WorkerTypes
  BY Zenon DEF Types
<1>1. CASE UNCHANGED <<worker, dpc>> /\ (cpc' = cpc \/ cpc' \notin {"down", "join_workers"})
  BY <1>1, Zenon DEF ThreadInv, worker
<1>2. ASSUME NEW s \in Submitters, SubmitterStep(s) PROVE ThreadInv'
  BY <1>1, <1>2, Zenon DEF SubmitterStep, SubmitCheck, SubmitClaim, SubmitFill, controller
<1>3. CASE DispatcherStep
  <2>1. dpc # "none" /\ UNCHANGED <<worker, cpc>>
    BY <1>3, Zenon DEF DispatcherStep, DispatcherCheck, DispatchToWorker, PushJob, CountDispatched,
                BatchStop, BatchEnd, controller
  <2> QED BY <2>1, Zenon DEF ThreadInv, worker
<1>4. ASSUME NEW w \in Workers, WorkerStep(w) PROVE ThreadInv'
  <2>1. wpc[w] # "none" /\ UNCHANGED <<cpc, dpc>>
    BY <1>4, Zenon DEF WorkerStep, WorkerCheck, WorkerPop, WorkerHandle, WorkerCount, controller
  <2>2. wpc'[w] = "handle" <=> env'[w] # NoJob
    <3>1. CASE WorkerPop(w)
      <4>1. wpc[w] \in {"pop", "drain"} /\ env[w] = NoJob
        BY <3>1, Zenon DEF WorkerPop, ThreadInv
      <4>2. CASE queue[w] # <<>>
        <5>1. Head(queue[w]) \in Jobs
          BY <1>0, <4>2, SMTT(30) DEF WorkerTypes
        <5>2. wpc'[w] = "handle" /\ env'[w] = Head(queue[w])
          BY <1>0, <3>1, <4>2, Zenon DEF WorkerPop, WorkerTypes
        <5> QED BY <5>1, <5>2, SMTT(30) DEF NoJob
      <4>3. CASE queue[w] = <<>>
        BY <1>0, <3>1, <4>1, <4>3, ZenonT(30) DEF WorkerPop, WorkerTypes
      <4> QED BY <4>2, <4>3, Zenon
    <3>2. CASE WorkerCheck(w) \/ WorkerCount(w)
      BY <1>0, <3>2, Zenon DEF WorkerCheck, WorkerCount, WorkerTypes, ThreadInv
    <3>3. CASE WorkerHandle(w)
      BY <1>0, <3>3, Zenon DEF WorkerHandle, WorkerTypes
    <3> QED BY <1>4, <3>1, <3>2, <3>3, Zenon DEF WorkerStep
  <2>3. \A v \in Workers \ {w} : wpc'[v] = wpc[v] /\ env'[v] = env[v]
    BY <1>0, <1>4, Zenon DEF WorkerStep, WorkerCheck, WorkerPop, WorkerHandle, WorkerCount, WorkerTypes
  <2> QED BY <2>1, <2>2, <2>3, Zenon DEF ThreadInv
<1>5. CASE ControllerStep
  <2>1. ASSUME NEW n \in 0 .. worker_num + 1, Start(n) PROVE ThreadInv'
    <3>1. \A w \in Workers : env[w] = NoJob
      BY <2>1, Zenon DEF Start, ThreadInv
    <3>2. \A w \in Workers : wpc'[w] \in {"check", "none"} /\ env'[w] = env[w]
      BY <2>1, Zenon DEF Start
    <3>3. cpc' \in {"up", "failed"}
      BY <2>1, Zenon DEF Start
    <3> QED BY <3>1, <3>2, <3>3, ZenonT(30) DEF ThreadInv
  <2>2. CASE JoinDispatcher
    BY <2>2, Zenon DEF JoinDispatcher, ThreadInv, worker
  <2>3. CASE JoinWorkers
    <3>1. cpc = "join_workers" /\ cpc' = "down" /\ UNCHANGED <<dpc, env>>
      BY <2>3, Zenon DEF JoinWorkers
    <3>2. \A w \in Workers : wpc'[w] = "none" /\ env[w] = NoJob
      BY <2>3, ZenonT(30) DEF JoinWorkers, ThreadInv
    <3> QED BY <3>1, <3>2, Zenon DEF ThreadInv
  <2>4. CASE FlushRound
    BY <1>1, <2>4, Zenon DEF FlushRound, FlushLoadProd, FlushLoadCons, FlushQueue, FlushLoadDisp,
                      FlushLoadProc, Flushing
  <2> QED BY <1>1, <1>5, <2>1, <2>2, <2>3, <2>4, Zenon
     DEF ControllerStep, StartFailed, Shutdown, StopAll, Joins, FlushAndPause, FlushAgain,
         FlushTimeout, Flushing, Resume
<1> QED BY <1>2, <1>3, <1>4, <1>5, Zenon DEF Next

LEMMA TypesKept ==
  ASSUME Types, BusInv, ThreadInv, PlaceInv, FlushInv, Next
  PROVE  Types'
<1>1. Flags
  BY Zenon DEF Types
<1> QED BY <1>1, BusTypesKept, SubmitTypesKept, TakeTypesKept, WorkerTypesKept, ControlTypesKept,
           FateTypesKept, FlagsKept, Zenon
        DEF Types

-----------------------------------------------------------------------------
(* Where the jobs are, and the two counters. *)

Counting == {w \in Workers : wpc[w] = "count"}
Balanced(d, b, p, q, h, l, c) == d + b = p + q + h + l + c
JobInv == PlaceInv /\ OnceQueued /\ OnceInHands /\ CountersAgree
Counts ==
  /\ IsFiniteSet(Queued) /\ IsFiniteSet(InHand) /\ IsFiniteSet(lost) /\ IsFiniteSet(Counting)
  /\ Cardinality(Queued) \in Nat /\ Cardinality(InHand) \in Nat /\ Cardinality(lost) \in Nat
  /\ Cardinality(Counting) \in Nat /\ dispatched \in Nat /\ processed \in Nat
QueuedIs == \A w, k : <<w, k>> \in Queued <=> w \in Workers /\ k \in 1 .. Len(queue[w])

(* Queued, for any queues. *)
PairsOf(S, q) == UNION {{<<v, k>> : k \in DOMAIN q[v]} : v \in S}

LEMMA AgreeIs ==
  CountersAgree <=> Balanced(dispatched, Bit(dpc = "count"), processed, Cardinality(Queued),
                             Cardinality(InHand), Cardinality(lost), Cardinality(Counting))
BY Zenon DEF CountersAgree, Balanced, Counting

LEMMA QueueDomains == ASSUME Types PROVE QueuedIs /\ \A x \in Queued : x = <<x[1], x[2]>>
<1>1. \A w \in Workers : DOMAIN queue[w] = 1 .. Len(queue[w])
  BY DEF Types, WorkerTypes
<1>2. \A w, k : <<w, k>> \in Queued <=> w \in Workers /\ k \in DOMAIN queue[w]
  BY DEF Queued
<1>3. \A x \in Queued : \E w, k : x = <<w, k>>
  BY Zenon DEF Queued
<1>4. QueuedIs
  BY <1>1, <1>2, Zenon DEF QueuedIs
<1> QED BY <1>3, <1>4, SMTT(30)

LEMMA Added ==
  ASSUME NEW S, NEW x, IsFiniteSet(S), x \notin S
  PROVE  Cardinality(S \cup {x}) = Cardinality(S) + 1 /\ Cardinality(S) \in Nat
BY FS_AddElement, FS_CardinalityType, Zenon

LEMMA Removed ==
  ASSUME NEW S, NEW x, IsFiniteSet(S), x \in S
  PROVE  Cardinality(S \ {x}) = Cardinality(S) - 1 /\ Cardinality(S) \in Nat
BY FS_RemoveElement, FS_CardinalityType, Zenon

LEMMA FiniteSets == IsFiniteSet(Workers) /\ IsFiniteSet(Jobs)
<1>1. 0 \in Int /\ 1 \in Int /\ worker_num - 1 \in Int /\ MaxJobs \in Int
  BY Sizes DEF SizeFacts
<1>2. IsFiniteSet(0 .. worker_num - 1) /\ IsFiniteSet(1 .. MaxJobs)
  BY <1>1, FS_Interval, Zenon
<1> QED BY <1>2, Zenon DEF Workers, Jobs

LEMMA FiniteCounts == ASSUME Types PROVE Counts
<1>1. IsFiniteSet(Queued)
  <2>1. Queued \subseteq Workers \X (1 .. QueueDepth)
    <3>1. ASSUME NEW x \in Queued PROVE x \in Workers \X (1 .. QueueDepth)
      <4>1. x = <<x[1], x[2]>> /\ x[1] \in Workers /\ x[2] \in 1 .. Len(queue[x[1]])
        BY QueueDomains, Zenon DEF QueuedIs
      <4>2. Len(queue[x[1]]) \in Nat /\ Len(queue[x[1]]) <= QueueDepth
        BY <4>1, SMTT(30) DEF Types, WorkerTypes
      <4>3. x[2] \in 1 .. QueueDepth
        BY <4>1, <4>2, Sizes, SMTT(30) DEF SizeFacts
      <4> QED BY <4>1, <4>3, Zenon
    <3> QED BY <3>1, Zenon
  <2>2. IsFiniteSet(1 .. QueueDepth)
    <3>1. 1 \in Int /\ QueueDepth \in Int
      BY Sizes DEF SizeFacts
    <3> QED BY <3>1, FS_Interval, Zenon
  <2>3. IsFiniteSet(Workers \X (1 .. QueueDepth))
    BY <2>2, FiniteSets, FS_Product, Zenon
  <2> QED BY <2>1, <2>3, FS_Subset, Zenon
<1>2. IsFiniteSet(InHand) /\ IsFiniteSet(Counting)
  <2>1. InHand \subseteq Workers /\ Counting \subseteq Workers
    BY Zenon DEF InHand, Counting
  <2> QED BY <2>1, FiniteSets, FS_Subset, Zenon
<1>3. IsFiniteSet(lost)
  <2>1. lost \subseteq Jobs
    BY Zenon DEF Types, FateTypes
  <2> QED BY <2>1, FiniteSets, FS_Subset, Zenon
<1>4. dispatched \in Nat /\ processed \in Nat
  BY Zenon DEF Types, FateTypes
<1> QED BY <1>1, <1>2, <1>3, <1>4, FS_CardinalityType, Zenon DEF Counts

(* A step that moves no job. *)
Still ==
  /\ UNCHANGED <<handled, queue, env, overflowed, lost, dispatched, processed, cons_pos>>
  /\ dpc' = "count" <=> dpc = "count"
  /\ \A w \in Workers : wpc'[w] = "count" <=> wpc[w] = "count"

LEMMA StillKept == ASSUME JobInv, Still PROVE JobInv'
<1>1. UNCHANGED <<Queued, InHand, Counting, Bit(dpc = "count")>>
  BY DEF Still, Queued, InHand, Counting, Bit
<1>2. CountersAgree'
  <2>1. CountersAgree
    BY Zenon DEF JobInv
  <2>2. Cardinality({w \in Workers : wpc[w] = "count"})' = Cardinality({w \in Workers : wpc[w] = "count"})
    BY <1>1, ZenonT(40) DEF Counting
  <2> QED BY <1>1, <2>1, <2>2, Zenon DEF CountersAgree, Still
<1>3. PlaceInv'
  <2>1. \A j \in Jobs : Out(j)' <=> Out(j)
    BY Zenon DEF Out, Still
  <2>2. PlaceInv /\ UNCHANGED <<handled, queue, env, overflowed, lost>>
    BY Zenon DEF JobInv, Still
  <2> QED BY <2>1, <2>2, SMTT(30) DEF PlaceInv, InQueue, InHands, OneOf
<1>4. OnceQueued' /\ OnceInHands'
  BY DEF JobInv, Still, OnceQueued, OnceInHands
<1> QED BY <1>2, <1>3, <1>4, Zenon DEF JobInv

(* The dispatcher gives the next job to a worker with room. *)
LEMMA PushedKept ==
  ASSUME Types, Counts, JobInv, dpc = "push", NEW w \in Workers, Pushed(w), cons_pos + 1 \in Jobs,
         UNCHANGED <<env, wpc, handled, lost, dispatched, processed>>
  PROVE  JobInv'
<1>0. PICK n \in Jobs : n = cons_pos + 1
  BY Zenon
<1>1. /\ queue[w] \in Seq(Jobs) /\ Len(queue[w]) \in Nat /\ cons_pos \in Nat
      /\ queue \in [Workers -> Seq(Jobs)]
  BY DEF Types, WorkerTypes, BusTypes
<1>m. PICK m \in Nat : m = Len(queue[w]) + 1
  BY <1>1
<1>2. /\ queue'[w] = Append(queue[w], n) /\ \A v \in Workers : v # w => queue'[v] = queue[v]
      /\ UNCHANGED <<cons_pos, overflowed, env, wpc, handled, lost, dispatched, processed>> /\ dpc' = "count"
  BY <1>0, <1>1, ZenonT(40) DEF Pushed
<1>3. /\ Len(queue'[w]) = m /\ queue'[w][m] = n /\ \A k \in 1 .. Len(queue[w]) : queue'[w][k] = queue[w][k]
      /\ DOMAIN queue[w] = 1 .. Len(queue[w]) /\ DOMAIN queue'[w] = 1 .. m
  BY <1>0, <1>1, <1>m, <1>2, SMTT(30)
<1>4. /\ 1 .. Len(queue'[w]) = (1 .. Len(queue[w])) \cup {m}
      /\ \A v \in Workers : v # w => 1 .. Len(queue'[v]) = 1 .. Len(queue[v])
  <2>1. 1 .. m = (1 .. Len(queue[w])) \cup {m}
    BY <1>1, <1>m, SMTT(30)
  <2> QED BY <1>2, <1>3, <2>1, Zenon
<1>5. \A j \in Jobs : InQueue(j)' <=> InQueue(j) \/ j = n
  <2>1. ASSUME NEW j, InQueue(j)' PROVE InQueue(j) \/ j = n
    <3>1. PICK v \in Workers : \E k \in 1 .. Len(queue'[v]) : queue'[v][k] = j
      BY <2>1, Zenon DEF InQueue
    <3> QED BY <1>2, <1>3, <1>4, <3>1, ZenonT(30) DEF InQueue
  <2>2. ASSUME NEW j, InQueue(j) PROVE InQueue(j)'
    <3>1. PICK v \in Workers : \E k \in 1 .. Len(queue[v]) : queue[v][k] = j
      BY <2>2, Zenon DEF InQueue
    <3>2. \E k \in 1 .. Len(queue'[v]) : queue'[v][k] = j
      BY <1>2, <1>3, <1>4, <3>1, Zenon
    <3> QED BY <3>2, Zenon DEF InQueue
  <2>3. InQueue(n)'
    <3>1. m \in 1 .. Len(queue'[w])
      BY <1>4, Zenon
    <3> QED BY <1>3, <3>1, Zenon DEF InQueue
  <2> QED BY <2>1, <2>2, <2>3, Zenon
<1>6. ~Out(n) /\ \A j \in Jobs : Out(j)' <=> Out(j) \/ j = n
  BY <1>0, <1>1, <1>2, SMTT(30) DEF Out, Jobs
<1>7. handled[n] # 1 /\ ~InQueue(n) /\ ~InHands(n) /\ n \notin overflowed /\ n \notin lost
  BY <1>6, Zenon DEF JobInv, PlaceInv, OneOf
<1>8. PlaceInv'
  <2>1. \A j \in Jobs : InHands(j)' <=> InHands(j)
    BY <1>2, Zenon DEF InHands
  <2>2. ASSUME NEW j \in Jobs
        PROVE  OneOf(handled'[j] = 1, InQueue(j)', InHands(j)', j \in overflowed', j \in lost', Out(j)')
    <3>1. CASE j = n
      BY <1>2, <1>5, <1>6, <1>7, <2>1, <3>1, ZenonT(40) DEF OneOf
    <3>2. CASE j # n
      <4>1. OneOf(handled[j] = 1, InQueue(j), InHands(j), j \in overflowed, j \in lost, Out(j))
        BY Zenon DEF JobInv, PlaceInv
      <4> QED BY <1>2, <1>5, <1>6, <2>1, <3>2, <4>1, ZenonT(40) DEF OneOf
    <3> QED BY <3>1, <3>2, ZenonT(30)
  <2> QED BY <2>2, Zenon DEF PlaceInv
<1>9. OnceQueued'
  <2> SUFFICES ASSUME NEW v \in Workers, NEW u \in Workers,
                      NEW k \in 1 .. Len(queue'[v]), NEW i \in 1 .. Len(queue'[u]), queue'[v][k] = queue'[u][i]
               PROVE  v = u /\ k = i
    BY Zenon DEF OnceQueued
  <2>1. \A x \in Workers : \A l \in 1 .. Len(queue'[x]) :
          \/ x = w /\ l = m /\ queue'[x][l] = n
          \/ l \in 1 .. Len(queue[x]) /\ queue'[x][l] = queue[x][l] /\ queue[x][l] # n
    BY <1>2, <1>3, <1>4, <1>7, ZenonT(30) DEF InQueue
  <2>2. OnceQueued
    BY Zenon DEF JobInv
  <2>3. CASE queue'[v][k] = n
    <3>1. v = w /\ k = m
      BY <2>1, <2>3, Zenon
    <3>2. queue'[u][i] = n
      BY <2>3, Zenon
    <3>3. u = w /\ i = m
      BY <2>1, <3>2, Zenon
    <3> QED BY <3>1, <3>3, Zenon
  <2>4. CASE queue'[v][k] # n
    <3>1. k \in 1 .. Len(queue[v]) /\ i \in 1 .. Len(queue[u]) /\ queue[v][k] = queue[u][i]
      BY <2>1, <2>4, Zenon
    <3> QED BY <2>2, <3>1, SMTT(30) DEF OnceQueued
  <2> QED BY <2>3, <2>4, Zenon
<1>10. CountersAgree'
  <2>1. Queued' = Queued \cup {<<w, m>>} /\ <<w, m>> \notin Queued
    <3>1. /\ DOMAIN queue'[w] = (DOMAIN queue[w]) \cup {m}
          /\ \A v \in Workers : v # w => DOMAIN queue'[v] = DOMAIN queue[v]
      BY <1>2, <1>3, <1>4, ZenonT(30)
    <3>2. m \notin DOMAIN queue[w]
      BY <1>1, <1>m, <1>3, SMTT(30)
    <3> QED BY <3>1, <3>2, SMTT(30) DEF Queued
  <2>2. Cardinality(Queued') = Cardinality(Queued) + 1
    BY <2>1, Added, ZenonT(30) DEF Counts
  <2>3. Bit(dpc = "count") = 0 /\ Bit(dpc = "count")' = 1 /\ UNCHANGED <<InHand, Counting>>
    BY <1>2, Zenon DEF Bit, InHand, Counting
  <2>4. \A d, p, q, h, l, c \in Nat : Balanced(d, 0, p, q, h, l, c) => Balanced(d, 1, p, q + 1, h, l, c)
    BY DEF Balanced
  <2>5. Balanced(dispatched, 0, processed, Cardinality(Queued), Cardinality(InHand), Cardinality(lost),
                 Cardinality(Counting))
    BY <2>3, AgreeIs, Zenon DEF JobInv
  <2>6. Balanced(dispatched, 1, processed, Cardinality(Queued) + 1, Cardinality(InHand), Cardinality(lost),
                 Cardinality(Counting))
    BY <2>4, <2>5, Zenon DEF Counts
  <2> QED BY <1>2, <2>2, <2>3, <2>6, ZenonT(40) DEF CountersAgree, Balanced, Counting
<1>11. OnceInHands'
  BY <1>2, Zenon DEF JobInv, OnceInHands
<1> QED BY <1>8, <1>9, <1>10, <1>11, Zenon DEF JobInv

(* The dispatcher drops the next job and reports it. *)
LEMMA DroppedKept ==
  ASSUME Types, JobInv, dpc = "push", Dropped, cons_pos + 1 \in Jobs,
         UNCHANGED <<env, wpc, handled, lost, dispatched, processed>>
  PROVE  JobInv'
<1> DEFINE n == cons_pos + 1
<1>1. /\ overflowed' = overflowed \cup {n} /\ cons_pos' = n /\ dpc' = "take" /\ cons_pos \in Nat
      /\ UNCHANGED <<queue, env, wpc, handled, lost, dispatched, processed>>
  BY DEF Dropped, DropJob, NextJob, Types, BusTypes
<1>2. ~Out(n) /\ \A j \in Jobs : Out(j)' <=> Out(j) \/ j = n
  BY <1>1 DEF Out, Jobs
<1>3. handled[n] # 1 /\ ~InQueue(n) /\ ~InHands(n) /\ n \notin overflowed /\ n \notin lost
  BY <1>2, Zenon DEF JobInv, PlaceInv, OneOf
<1>4. PlaceInv'
  <2>1. \A j \in Jobs : (InHands(j)' <=> InHands(j)) /\ (InQueue(j)' <=> InQueue(j))
    BY <1>1, Zenon DEF InHands, InQueue
  <2>2. ASSUME NEW j \in Jobs
        PROVE  OneOf(handled'[j] = 1, InQueue(j)', InHands(j)', j \in overflowed', j \in lost', Out(j)')
    <3>1. CASE j = n
      BY <1>1, <1>2, <1>3, <2>1, <3>1, ZenonT(40) DEF OneOf
    <3>2. CASE j # n
      <4>1. OneOf(handled[j] = 1, InQueue(j), InHands(j), j \in overflowed, j \in lost, Out(j))
        BY Zenon DEF JobInv, PlaceInv
      <4>2. j \in overflowed' <=> j \in overflowed
        BY <1>1, <3>2, Zenon
      <4> QED BY <1>1, <1>2, <2>1, <3>2, <4>1, <4>2, Zenon DEF OneOf
    <3> QED BY <3>1, <3>2, Zenon
  <2> QED BY <2>2, Zenon DEF PlaceInv
<1>5. OnceQueued' /\ OnceInHands'
  BY <1>1 DEF JobInv, OnceQueued, OnceInHands
<1>6. CountersAgree'
  <2>1. UNCHANGED <<Queued, InHand, Counting>> /\ Bit(dpc = "count") = 0 /\ Bit(dpc = "count")' = 0
    BY <1>1 DEF Queued, InHand, Counting, Bit
  <2> QED BY <1>1, <2>1, Zenon DEF JobInv, CountersAgree, Counting
<1> QED BY <1>4, <1>5, <1>6, Zenon DEF JobInv

(* The dispatcher counts the job it has pushed and goes on to the next one. *)
LEMMA CountedKept == ASSUME Types, Counts, JobInv, CountDispatched PROVE JobInv'
<1>1. /\ dpc = "count" /\ dpc' = "take" /\ cons_pos' = cons_pos + 1 /\ dispatched' = dispatched + 1
      /\ cons_pos \in Nat /\ UNCHANGED <<queue, env, wpc, handled, overflowed, lost, processed>>
  BY DEF CountDispatched, NextJob, worker, fates, Types, BusTypes
<1>2. \A j \in Jobs : Out(j)' <=> Out(j)
  BY <1>1, Sizes, SMTT(30) DEF Out, SizeFacts
<1>3. PlaceInv'
  BY <1>1, <1>2, ZenonT(30) DEF JobInv, PlaceInv, InQueue, InHands, OneOf
<1>4. OnceQueued' /\ OnceInHands'
  BY <1>1 DEF JobInv, OnceQueued, OnceInHands
<1>5. CountersAgree'
  <2>1. UNCHANGED <<Queued, InHand, Counting>> /\ Bit(dpc = "count") = 1 /\ Bit(dpc = "count")' = 0
    BY <1>1 DEF Queued, InHand, Counting, Bit
  <2>2. \A d, p, q, h, l, c \in Nat : Balanced(d, 1, p, q, h, l, c) => Balanced(d + 1, 0, p, q, h, l, c)
    BY DEF Balanced
  <2>3. Balanced(dispatched, 1, processed, Cardinality(Queued), Cardinality(InHand), Cardinality(lost),
                 Cardinality(Counting))
    BY <2>1, AgreeIs, Zenon DEF JobInv
  <2>4. Balanced(dispatched + 1, 0, processed, Cardinality(Queued), Cardinality(InHand), Cardinality(lost),
                 Cardinality(Counting))
    BY <2>2, <2>3, Zenon DEF Counts
  <2> QED BY <1>1, <2>1, <2>4, Zenon DEF CountersAgree, Balanced, Counting
<1> QED BY <1>3, <1>4, <1>5, Zenon DEF JobInv

(* A worker takes the head of its queue. *)
LEMMA PopKept ==
  ASSUME Types, Counts, ThreadInv, JobInv, NEW w \in Workers, WorkerPop(w), queue[w] # <<>>
  PROVE  JobInv'
<1>1. /\ queue \in [Workers -> Seq(Jobs)] /\ queue[w] \in Seq(Jobs) /\ Len(queue[w]) \in Nat
      /\ Len(queue[w]) >= 1 /\ env \in [Workers -> Jobs \cup {NoJob}]
      /\ wpc \in [Workers -> WorkerPoints]
  BY DEF Types, WorkerTypes
<1>2. PICK h \in Jobs : h = Head(queue[w])
  BY <1>1
<1>3. /\ queue'[w] = Tail(queue[w]) /\ \A v \in Workers : v # w => queue'[v] = queue[v]
      /\ env'[w] = h /\ \A v \in Workers : v # w => env'[v] = env[v]
      /\ wpc[w] \in {"pop", "drain"} /\ wpc'[w] = "handle" /\ \A v \in Workers : v # w => wpc'[v] = wpc[v]
      /\ UNCHANGED <<cons_pos, dpc, handled, overflowed, lost, dispatched, processed>>
  BY <1>1, <1>2, Zenon DEF WorkerPop, taking, fates
<1>4. env[w] = NoJob /\ h # NoJob
  BY <1>3 DEF ThreadInv, Jobs, NoJob
<1>5. PICK n \in Nat : n = Len(queue[w])
  BY <1>1, Zenon
<1>6. /\ queue[w][1] = h /\ 1 \in 1 .. n /\ n \in 1 .. n /\ Len(queue'[w]) = n - 1
      /\ \A k \in 1 .. n - 1 : queue'[w][k] = queue[w][k + 1]
      /\ DOMAIN queue[w] = 1 .. n /\ DOMAIN queue'[w] = 1 .. n - 1
  BY <1>1, <1>2, <1>3, <1>5, SMTT(30)
<1>7. \A k \in 1 .. n : k = 1 \/ (k - 1 \in 1 .. n - 1 /\ queue'[w][k - 1] = queue[w][k])
  <2> SUFFICES ASSUME NEW k \in 1 .. n, k # 1
               PROVE  k - 1 \in 1 .. n - 1 /\ queue'[w][k - 1] = queue[w][k]
    BY Zenon
  <2>1. k - 1 \in 1 .. n - 1 /\ (k - 1) + 1 = k
    OBVIOUS
  <2> QED BY <1>6, <2>1, Zenon
<1>8. InQueue(h) /\ ~InHands(h)
  <2>1. InQueue(h)
    BY <1>5, <1>6, Zenon DEF InQueue
  <2> QED BY <2>1, Zenon DEF JobInv, PlaceInv, OneOf
<1>9. \A j \in Jobs : InQueue(j)' <=> InQueue(j) /\ j # h
  <2>1. ASSUME NEW j \in Jobs, InQueue(j)' PROVE InQueue(j) /\ j # h
    <3>1. PICK v \in Workers : \E k \in 1 .. Len(queue'[v]) : queue'[v][k] = j
      BY <2>1, Zenon DEF InQueue
    <3>2. PICK k \in 1 .. Len(queue'[v]) : queue'[v][k] = j
      BY <3>1, ZenonT(30)
    <3>3. CASE v = w
      <4>1. k \in 1 .. n - 1 /\ k + 1 \in 1 .. n /\ queue[w][k + 1] = j /\ k + 1 # 1
        BY <1>6, <3>2, <3>3, SMTT(30)
      <4>2. j # h
        BY <1>5, <1>6, <4>1, SMTT(30) DEF JobInv, OnceQueued
      <4> QED BY <1>5, <4>1, <4>2, ZenonT(40) DEF InQueue
    <3>4. CASE v # w
      <4>1. k \in 1 .. Len(queue[v]) /\ queue[v][k] = j
        BY <1>3, <3>2, <3>4, Zenon
      <4>2. j # h
        BY <1>5, <1>6, <3>4, <4>1, ZenonT(40) DEF JobInv, OnceQueued
      <4> QED BY <4>1, <4>2, Zenon DEF InQueue
    <3> QED BY <3>3, <3>4, Zenon
  <2>2. ASSUME NEW j \in Jobs, InQueue(j), j # h PROVE InQueue(j)'
    <3>1. PICK v \in Workers : \E k \in 1 .. Len(queue[v]) : queue[v][k] = j
      BY <2>2, Zenon DEF InQueue
    <3>2. PICK k \in 1 .. Len(queue[v]) : queue[v][k] = j
      BY <3>1, Zenon
    <3>3. CASE v = w
      <4>1. k - 1 \in 1 .. n - 1 /\ queue'[w][k - 1] = j
        BY <1>5, <1>6, <1>7, <2>2, <3>2, <3>3, ZenonT(40)
      <4> QED BY <1>6, <4>1, Zenon DEF InQueue
    <3>4. CASE v # w
      BY <1>3, <3>2, <3>4, ZenonT(30) DEF InQueue
    <3> QED BY <3>3, <3>4, Zenon
  <2> QED BY <2>1, <2>2, ZenonT(30)
<1>10. \A j \in Jobs : InHands(j)' <=> InHands(j) \/ j = h
  <2>1. \A j \in Jobs : env[w] # j
    BY <1>4, SMTT(30) DEF Jobs, NoJob
  <2> QED BY <1>3, <2>1, Zenon DEF InHands
<1>11. PlaceInv'
  <2>1. \A j \in Jobs : Out(j)' <=> Out(j)
    BY <1>3, Zenon DEF Out
  <2>2. ASSUME NEW j \in Jobs
        PROVE  OneOf(handled'[j] = 1, InQueue(j)', InHands(j)', j \in overflowed', j \in lost', Out(j)')
    <3>1. OneOf(handled[j] = 1, InQueue(j), InHands(j), j \in overflowed, j \in lost, Out(j))
      BY Zenon DEF JobInv, PlaceInv
    <3>2. CASE j = h
      BY <1>3, <1>8, <1>9, <1>10, <2>1, <3>1, <3>2, ZenonT(40) DEF OneOf
    <3>3. CASE j # h
      BY <1>3, <1>9, <1>10, <2>1, <3>1, <3>3, ZenonT(40) DEF OneOf
    <3> QED BY <3>2, <3>3, ZenonT(30)
  <2> QED BY <2>2, ZenonT(30) DEF PlaceInv
<1>12. OnceQueued'
  <2> SUFFICES ASSUME NEW v \in Workers, NEW u \in Workers,
                      NEW k \in 1 .. Len(queue'[v]), NEW i \in 1 .. Len(queue'[u]), queue'[v][k] = queue'[u][i]
               PROVE  v = u /\ k = i
    BY ZenonT(30) DEF OnceQueued
  <2> DEFINE Old(x, l) == IF x = w THEN l + 1 ELSE l
  <2>1. \A x \in Workers : \A l \in 1 .. Len(queue'[x]) :
          l \in Int /\ Old(x, l) \in 1 .. Len(queue[x]) /\ queue'[x][l] = queue[x][Old(x, l)]
    <3> SUFFICES ASSUME NEW x \in Workers, NEW l \in 1 .. Len(queue'[x])
                 PROVE  l \in Int /\ Old(x, l) \in 1 .. Len(queue[x]) /\ queue'[x][l] = queue[x][Old(x, l)]
      BY Zenon
    <3>1. CASE x = w
      BY <1>5, <1>6, <3>1, SMTT(30)
    <3>2. CASE x # w
      BY <1>3, <3>2, SMTT(30)
    <3> QED BY <3>1, <3>2, Zenon
  <2> HIDE DEF Old
  <2>2. queue[v][Old(v, k)] = queue[u][Old(u, i)]
    BY <2>1, Zenon
  <2>3. v = u /\ Old(v, k) = Old(u, i)
    <3>1. OnceQueued /\ Old(v, k) \in 1 .. Len(queue[v]) /\ Old(u, i) \in 1 .. Len(queue[u])
      BY <2>1, Zenon DEF JobInv
    <3> QED BY <2>2, <3>1, ZenonT(40) DEF OnceQueued
  <2> QED BY <2>1, <2>3, SMTT(30) DEF Old
<1>13. OnceInHands'
  <2>1. \A v \in Workers : v # w => env'[v] # h
    BY <1>3, <1>8, Zenon DEF InHands
  <2>2. OnceInHands
    BY ZenonT(30) DEF JobInv
  <2> QED BY <1>3, <2>1, <2>2, ZenonT(30) DEF OnceInHands
<1>14. CountersAgree'
  <2>1. Queued' = Queued \ {<<w, n>>} /\ <<w, n>> \in Queued
    <3>1. /\ DOMAIN queue'[w] = (DOMAIN queue[w]) \ {n} /\ n \in DOMAIN queue[w]
          /\ \A v \in Workers : v # w => DOMAIN queue'[v] = DOMAIN queue[v]
      <4>1. \A v \in Workers : v # w => DOMAIN queue'[v] = DOMAIN queue[v]
        BY <1>3, Zenon
      <4>2. DOMAIN queue'[w] = (DOMAIN queue[w]) \ {n} /\ n \in DOMAIN queue[w]
        BY <1>6, SMTT(30)
      <4> QED BY <4>1, <4>2, Zenon
    <3>2. PairsOf(Workers, queue') = PairsOf(Workers, queue) \ {<<w, n>>}
          /\ <<w, n>> \in PairsOf(Workers, queue)
      BY <3>1 DEF PairsOf
    <3>3. Queued = PairsOf(Workers, queue) /\ Queued' = PairsOf(Workers, queue')
      BY Zenon DEF Queued, PairsOf
    <3> QED BY <3>2, <3>3, Zenon
  <2>2. Cardinality(Queued') = Cardinality(Queued) - 1
    BY <2>1, Removed, Zenon DEF Counts
  <2>3. InHand' = InHand \cup {w} /\ w \notin InHand
    BY <1>3, <1>4, ZenonT(30) DEF InHand
  <2>4. Cardinality(InHand') = Cardinality(InHand) + 1
    BY <2>3, Added, Zenon DEF Counts
  <2>5. Counting' = Counting /\ Bit(dpc = "count")' = Bit(dpc = "count")
    BY <1>3, Zenon DEF Counting, Bit
  <2>6. \A d, b, p, q, h1, l, c \in Nat :
          Balanced(d, b, p, q, h1, l, c) => Balanced(d, b, p, q - 1, h1 + 1, l, c)
    BY DEF Balanced
  <2>7. Balanced(dispatched, Bit(dpc = "count"), processed, Cardinality(Queued) - 1, Cardinality(InHand) + 1,
                 Cardinality(lost), Cardinality(Counting))
    <3>1. Bit(dpc = "count") \in Nat
      BY Zenon DEF Bit
    <3> QED BY <2>6, <3>1, AgreeIs, Zenon DEF Counts, JobInv
  <2> QED BY <1>3, <2>2, <2>4, <2>5, <2>7, ZenonT(30) DEF CountersAgree, Balanced, Counting
<1> QED BY <1>11, <1>12, <1>13, <1>14, Zenon DEF JobInv

(* A worker's handler returns. *)
LEMMA HandleKept ==
  ASSUME Types, Counts, ThreadInv, JobInv, NEW w \in Workers, WorkerHandle(w)
  PROVE  JobInv'
<1>1. /\ env \in [Workers -> Jobs \cup {NoJob}] /\ wpc \in [Workers -> WorkerPoints]
      /\ handled \in [Jobs -> {0, 1}]
  BY Zenon DEF Types, WorkerTypes, FateTypes
<1>2. PICK h \in Jobs : h = env[w]
  BY <1>1, Zenon DEF WorkerHandle, ThreadInv
<1>3. InHands(h) /\ handled[h] # 1
  <2>1. InHands(h)
    BY <1>2, Zenon DEF InHands
  <2> QED BY <2>1, Zenon DEF JobInv, PlaceInv, OneOf
<1>4. /\ handled'[h] = handled[h] + 1 /\ \A j \in Jobs : j # h => handled'[j] = handled[j]
      /\ env'[w] = NoJob /\ \A v \in Workers : v # w => env'[v] = env[v]
      /\ wpc[w] = "handle" /\ wpc'[w] = "count" /\ \A v \in Workers : v # w => wpc'[v] = wpc[v]
      /\ UNCHANGED <<queue, cons_pos, dpc, overflowed, lost, dispatched, processed>>
  BY <1>1, <1>2, Zenon DEF WorkerHandle, taking
<1>5. handled'[h] = 1 /\ h # NoJob
  <2>1. handled[h] = 0
    BY <1>1, <1>3, Zenon
  <2>2. h # NoJob
    BY DEF Jobs, NoJob
  <2> QED BY <1>4, <2>1, <2>2, SMTT(30)
<1>6. \A j \in Jobs : InHands(j)' <=> InHands(j) /\ j # h
  <2>1. OnceInHands /\ \A j \in Jobs : j # NoJob
    BY DEF JobInv, Jobs, NoJob
  <2>2. \A v \in Workers : env[v] = h => v = w
    BY <1>2, <1>5, <2>1, Zenon DEF OnceInHands
  <2>3. ASSUME NEW j \in Jobs, InHands(j)' PROVE InHands(j) /\ j # h
    <3>1. PICK v \in Workers : env'[v] = j
      BY <2>3, Zenon DEF InHands
    <3>2. v # w
      BY <1>4, <2>1, <3>1, Zenon
    <3> QED BY <1>4, <2>2, <3>1, <3>2, Zenon DEF InHands
  <2>4. ASSUME NEW j \in Jobs, InHands(j), j # h PROVE InHands(j)'
    <3>1. PICK v \in Workers : env[v] = j
      BY <2>4, Zenon DEF InHands
    <3>2. env'[v] = j
      BY <1>2, <1>4, <2>4, <3>1, ZenonT(40)
    <3> QED BY <3>2, Zenon DEF InHands
  <2> QED BY <2>3, <2>4, Zenon
<1>7. PlaceInv'
  <2>1. \A j \in Jobs : (Out(j)' <=> Out(j)) /\ (InQueue(j)' <=> InQueue(j))
    BY <1>4, ZenonT(40) DEF Out, InQueue
  <2>2. ASSUME NEW j \in Jobs
        PROVE  OneOf(handled'[j] = 1, InQueue(j)', InHands(j)', j \in overflowed', j \in lost', Out(j)')
    <3>1. OneOf(handled[j] = 1, InQueue(j), InHands(j), j \in overflowed, j \in lost, Out(j))
      BY ZenonT(30) DEF JobInv, PlaceInv
    <3>2. CASE j = h
      BY <1>3, <1>4, <1>5, <1>6, <2>1, <3>1, <3>2, ZenonT(40) DEF OneOf
    <3>3. CASE j # h
      BY <1>4, <1>6, <2>1, <3>1, <3>3, ZenonT(40) DEF OneOf
    <3> QED BY <3>2, <3>3, Zenon
  <2> QED BY <2>2, ZenonT(30) DEF PlaceInv
<1>8. OnceQueued' /\ OnceInHands'
  <2>1. OnceQueued'
    BY <1>4 DEF JobInv, OnceQueued
  <2>2. OnceInHands
    BY Zenon DEF JobInv
  <2> QED BY <1>4, <2>1, <2>2, ZenonT(30) DEF OnceInHands
<1>9. CountersAgree'
  <2>1. InHand' = InHand \ {w} /\ w \in InHand
    BY <1>2, <1>4, <1>5, Zenon DEF InHand
  <2>2. Cardinality(InHand') = Cardinality(InHand) - 1
    BY <2>1, Removed, Zenon DEF Counts
  <2>3. Counting' = Counting \cup {w} /\ w \notin Counting
    BY <1>4, Zenon DEF Counting
  <2>4. Cardinality(Counting') = Cardinality(Counting) + 1
    BY <2>3, Added, Zenon DEF Counts
  <2>5. Queued' = Queued /\ Bit(dpc = "count")' = Bit(dpc = "count") /\ Bit(dpc = "count") \in Nat
    <3>1. Bit(dpc = "count") \in Nat
      BY Zenon DEF Bit
    <3>2. queue' = queue /\ dpc' = dpc
      BY <1>4, Zenon
    <3> QED BY <3>1, <3>2, SMTT(30) DEF Queued
  <2>6. \A d, b, p, q, h1, l, c \in Nat :
          Balanced(d, b, p, q, h1, l, c) => Balanced(d, b, p, q, h1 - 1, l, c + 1)
    BY DEF Balanced
  <2>7. Balanced(dispatched, Bit(dpc = "count"), processed, Cardinality(Queued), Cardinality(InHand) - 1,
                 Cardinality(lost), Cardinality(Counting) + 1)
    BY <2>5, <2>6, AgreeIs, Zenon DEF Counts, JobInv
  <2> QED BY <1>4, <2>2, <2>4, <2>5, <2>7, ZenonT(30) DEF CountersAgree, Balanced, Counting
<1> QED BY <1>7, <1>8, <1>9, Zenon DEF JobInv

(* A worker counts the job it has handled. *)
LEMMA ProcessedKept ==
  ASSUME Types, Counts, JobInv, NEW w \in Workers, WorkerCount(w)
  PROVE  JobInv'
<1>1. wpc \in [Workers -> WorkerPoints]
  BY Zenon DEF Types, WorkerTypes
<1>2. /\ wpc[w] = "count" /\ wpc'[w] = "check" /\ \A v \in Workers : v # w => wpc'[v] = wpc[v]
      /\ processed' = processed + 1
      /\ UNCHANGED <<queue, env, cons_pos, dpc, handled, overflowed, lost, dispatched>>
  BY <1>1, Zenon DEF WorkerCount, taking, fates
<1>3. PlaceInv' /\ OnceQueued' /\ OnceInHands'
  <2>1. \A j \in Jobs : (Out(j)' <=> Out(j)) /\ (InQueue(j)' <=> InQueue(j)) /\ (InHands(j)' <=> InHands(j))
    BY <1>2, Zenon DEF Out, InQueue, InHands
  <2>2. PlaceInv'
    BY <1>2, <2>1, ZenonT(30) DEF JobInv, PlaceInv, OneOf
  <2>3. OnceQueued'
    <3>1. queue' = queue /\ OnceQueued
      BY <1>2, Zenon DEF JobInv
    <3> QED BY <3>1, SMTT(30) DEF OnceQueued
  <2>4. OnceInHands'
    BY <1>2, Zenon DEF JobInv, OnceInHands
  <2> QED BY <2>2, <2>3, <2>4, Zenon
<1>4. CountersAgree'
  <2>1. Counting' = Counting \ {w} /\ w \in Counting
    BY <1>2, Zenon DEF Counting
  <2>2. Cardinality(Counting') = Cardinality(Counting) - 1
    BY <2>1, Removed, ZenonT(40) DEF Counts
  <2>3. Queued' = Queued /\ InHand' = InHand /\ Bit(dpc = "count")' = Bit(dpc = "count")
        /\ Bit(dpc = "count") \in Nat
    BY <1>2, SMTT(30) DEF Queued, InHand, Bit
  <2>4. \A d, b, p, q, h, l, c \in Nat :
          Balanced(d, b, p, q, h, l, c) => Balanced(d, b, p + 1, q, h, l, c - 1)
    BY DEF Balanced
  <2>5. Balanced(dispatched, Bit(dpc = "count"), processed + 1, Cardinality(Queued), Cardinality(InHand),
                 Cardinality(lost), Cardinality(Counting) - 1)
    BY <2>3, <2>4, AgreeIs, Zenon DEF Counts, JobInv
  <2> QED BY <1>2, <2>2, <2>3, <2>5, ZenonT(30) DEF CountersAgree, Balanced, Counting
<1> QED BY <1>3, <1>4, Zenon DEF JobInv

(* StopAll clears the queues: as many jobs are lost as there were in them. *)
LEMMA JoinKept == ASSUME Types, Counts, ThreadInv, JobInv, JoinWorkers PROVE JobInv'
<1> DEFINE D == UNION {Range(queue[w]) : w \in Workers}
           f == [x \in Queued |-> queue[x[1]][x[2]]]
<1>1. /\ lost' = lost \cup D /\ \A w \in Workers : queue'[w] = <<>> /\ wpc'[w] = "none" /\ wpc[w] \in {"exit", "none"}
      /\ UNCHANGED <<env, cons_pos, dpc, handled, overflowed, dispatched, processed>>
  BY Zenon DEF JoinWorkers, taking
<1>2. \A j \in Jobs : j \in D <=> InQueue(j)
  <2>1. \A w \in Workers : DOMAIN queue[w] = 1 .. Len(queue[w])
    BY SMTT(30) DEF Types, WorkerTypes
  <2> QED BY <2>1, SMTT(30) DEF Range, InQueue
<1>3. D \subseteq Jobs
  BY DEF Types, WorkerTypes, Range
<1>4. ExistsBijection(Queued, D)
  <2>1. \A x \in Queued : /\ x = <<x[1], x[2]>> /\ x[1] \in Workers
                          /\ x[2] \in 1 .. Len(queue[x[1]]) /\ x[2] \in DOMAIN queue[x[1]]
    BY QueueDomains, SMTT(30) DEF QueuedIs, Types, WorkerTypes
  <2>2. f \in [Queued -> D]
    BY <2>1, SMTT(30) DEF Range
  <2>3. ASSUME NEW x \in Queued, NEW y \in Queued, f[x] = f[y] PROVE x = y
    <3>1. queue[x[1]][x[2]] = queue[y[1]][y[2]]
      BY <2>3, Zenon
    <3>2. x[1] = y[1] /\ x[2] = y[2]
      <4>1. /\ x[1] \in Workers /\ x[2] \in 1 .. Len(queue[x[1]])
            /\ y[1] \in Workers /\ y[2] \in 1 .. Len(queue[y[1]])
        BY <2>1, Zenon
      <4>2. PICK w \in Workers, v \in Workers : w = x[1] /\ v = y[1]
        BY <4>1, Zenon
      <4>3. PICK k \in 1 .. Len(queue[w]), i \in 1 .. Len(queue[v]) : k = x[2] /\ i = y[2]
        BY <4>1, <4>2, Zenon
      <4>4. queue[w][k] = queue[v][i]
        BY <3>1, <4>2, <4>3, Zenon
      <4>5. w = v /\ k = i
        BY <4>4, ZenonT(40) DEF JobInv, OnceQueued
      <4> QED BY <4>2, <4>3, <4>5, Zenon
    <3> QED BY <2>1, <3>2, Zenon
  <2>4. \A t \in D : \E x \in Queued : f[x] = t
    <3> SUFFICES ASSUME NEW w \in Workers, NEW k \in DOMAIN queue[w] PROVE \E x \in Queued : f[x] = queue[w][k]
      BY DEF Range
    <3>1. <<w, k>> \in Queued
      BY DEF Queued
    <3> QED BY <3>1, Zenon
  <2> HIDE DEF f, D
  <2>5. f \in Bijection(Queued, D)
    <3>1. DOMAIN f = Queued
      BY <2>2, Zenon
    <3> QED BY <2>2, <2>3, <2>4, <3>1, Zenon DEF Bijection, Injection, Surjection, IsInjective
  <2> QED BY <2>5, Zenon DEF ExistsBijection
<1> HIDE DEF f, D
<1>5. IsFiniteSet(D) /\ Cardinality(D) = Cardinality(Queued)
  BY <1>4, FS_Bijection, Zenon DEF Counts
<1>6. lost \cap D = {}
  <2>1. \A j \in Jobs : ~(j \in lost /\ InQueue(j))
    BY Zenon DEF JobInv, PlaceInv, OneOf
  <2> QED BY <1>2, <1>3, <2>1, ZenonT(30)
<1>7. Cardinality(lost') = Cardinality(lost) + Cardinality(Queued)
  <2>1. Cardinality(lost \cup D) = Cardinality(lost) + Cardinality(D) - Cardinality(lost \cap D)
    BY <1>5, FS_Union, Zenon DEF Counts
  <2>2. Cardinality(lost \cap D) = 0
    BY <1>6, FS_EmptySet, Zenon
  <2> QED BY <1>1, <1>5, <2>1, <2>2, SMTT(30) DEF Counts
<1>8. PlaceInv'
  <2>1. \A j \in Jobs : (Out(j)' <=> Out(j)) /\ (InHands(j)' <=> InHands(j)) /\ ~InQueue(j)'
    <3>1. \A w \in Workers : 1 .. Len(queue'[w]) = {}
      BY <1>1
    <3> QED BY <1>1, <3>1, Zenon DEF Out, InHands, InQueue
  <2>2. ASSUME NEW j \in Jobs
        PROVE  OneOf(handled'[j] = 1, InQueue(j)', InHands(j)', j \in overflowed', j \in lost', Out(j)')
    <3>1. OneOf(handled[j] = 1, InQueue(j), InHands(j), j \in overflowed, j \in lost, Out(j))
      BY Zenon DEF JobInv, PlaceInv
    <3>2. j \in lost' <=> j \in lost \/ InQueue(j)
      BY <1>1, <1>2, ZenonT(30)
    <3> QED BY <1>1, <2>1, <3>1, <3>2, Zenon DEF OneOf
  <2> QED BY <2>2, Zenon DEF PlaceInv
<1>9. OnceQueued' /\ OnceInHands'
  <2>1. OnceInHands'
    BY <1>1, Zenon DEF JobInv, OnceInHands
  <2>2. \A w \in Workers : 1 .. Len(queue'[w]) = {}
    BY <1>1
  <2> QED BY <2>1, <2>2, Zenon DEF OnceQueued
<1>10. CountersAgree'
  <2>1. Counting' = Counting /\ InHand' = InHand /\ Bit(dpc = "count")' = Bit(dpc = "count")
        /\ Bit(dpc = "count") \in Nat
    BY <1>1, Zenon DEF Counting, InHand, Bit
  <2>2. Queued' = {}
    <3>1. \A w \in Workers : DOMAIN queue'[w] = {}
      BY <1>1, SMTT(30)
    <3> QED BY <3>1, Zenon DEF Queued
  <2>3. \A d, b, p, q, h, l, c \in Nat :
          Balanced(d, b, p, q, h, l, c) => Balanced(d, b, p, 0, h, l + q, c)
    BY DEF Balanced
  <2>4. Balanced(dispatched, Bit(dpc = "count"), processed, 0, Cardinality(InHand),
                 Cardinality(lost) + Cardinality(Queued), Cardinality(Counting))
    BY <2>1, <2>3, AgreeIs, Zenon DEF Counts, JobInv
  <2>5. Cardinality(Queued') = 0
    BY <2>2, FS_EmptySet, Zenon
  <2> QED BY <1>1, <1>7, <2>1, <2>4, <2>5, ZenonT(30) DEF CountersAgree, Balanced, Counting
<1> QED BY <1>8, <1>9, <1>10, Zenon DEF JobInv

(* Every step keeps the jobs in their places. *)
LEMMA JobsKept == ASSUME Types, BusInv, ThreadInv, JobInv, Next PROVE JobInv'
<1>0. /\ WorkerTypes /\ TakeTypes /\ BusTypes /\ wpc \in [Workers -> WorkerPoints]
      /\ Counts
  BY FiniteCounts, Zenon DEF Types, WorkerTypes
<1>1. CASE Still
  BY <1>1, StillKept, Zenon
<1>2. ASSUME NEW s \in Submitters, SubmitterStep(s) PROVE JobInv'
  BY <1>1, <1>2, Zenon DEF SubmitterStep, SubmitCheck, SubmitClaim, SubmitFill, Still, taking, worker, fates
<1>3. CASE DispatcherStep
  <2>1. CASE PushJob
    <3>1. dpc = "push" /\ UNCHANGED <<env, wpc, handled, lost, dispatched, processed>>
      BY <1>0, <2>1, PushWays, ZenonT(40) DEF worker
    <3>2. cons_pos + 1 \in Jobs
      BY <1>0, <3>1, Sizes, SMTT(30) DEF BusInv, BusTypes, SizeFacts
    <3>3. ASSUME NEW w \in Workers, Pushed(w) PROVE JobInv'
      BY <1>0, <3>1, <3>2, <3>3, PushedKept, ZenonT(30)
    <3>4. CASE Dropped
      BY <3>1, <3>2, <3>4, DroppedKept, Zenon
    <3>5. CASE Passed
      BY <1>1, <3>1, <3>5, ZenonT(30) DEF Passed, Still
    <3> QED BY <1>0, <2>1, <3>3, <3>4, <3>5, PushWays, ZenonT(40)
  <2>2. CASE CountDispatched
    BY <1>0, <2>2, CountedKept, Zenon
  <2>3. CASE DispatcherCheck \/ DispatchToWorker \/ BatchStop
    BY <1>1, <2>3, Zenon DEF DispatcherCheck, DispatchToWorker, BatchStop, Still, taking, worker, fates
  <2>4. CASE BatchEnd
    <3>1. dpc = "release" /\ dpc' # "count"
      BY <2>4, Zenon DEF BatchEnd
    <3> QED BY <1>1, <2>4, <3>1, Zenon DEF BatchEnd, Still, worker, fates
  <2> QED BY <1>3, <2>1, <2>2, <2>3, <2>4, ZenonT(30) DEF DispatcherStep
<1>4. ASSUME NEW w \in Workers, WorkerStep(w) PROVE JobInv'
  <2>1. CASE WorkerPop(w) /\ queue[w] # <<>>
    BY <1>0, <2>1, PopKept, ZenonT(30)
  <2>2. CASE WorkerCheck(w) \/ (WorkerPop(w) /\ queue[w] = <<>>)
    <3>1. UNCHANGED <<handled, queue, env, overflowed, lost, dispatched, processed, cons_pos, dpc>>
      BY <2>2, Zenon DEF WorkerCheck, WorkerPop, taking, fates
    <3>2. wpc[w] # "count" /\ wpc'[w] # "count" /\ \A v \in Workers : v # w => wpc'[v] = wpc[v]
      BY <1>0, <2>2, ZenonT(30) DEF WorkerCheck, WorkerPop
    <3> QED BY <1>1, <3>1, <3>2, Zenon DEF Still
  <2>3. CASE WorkerHandle(w)
    BY <1>0, <2>3, HandleKept, ZenonT(30)
  <2>4. CASE WorkerCount(w)
    BY <1>0, <2>4, ProcessedKept, Zenon
  <2> QED BY <1>4, <2>1, <2>2, <2>3, <2>4, ZenonT(40) DEF WorkerStep
<1>5. CASE ControllerStep
  <2>1. ASSUME NEW n \in 0 .. worker_num + 1, Start(n) PROVE JobInv'
    <3>1. dpc # "count" /\ \A w \in Workers : wpc[w] # "count"
      BY <2>1, Zenon DEF Start, ThreadInv
    <3>2. dpc' # "count" /\ \A w \in Workers : wpc'[w] # "count"
      BY <2>1, ZenonT(30) DEF Start
    <3> QED BY <1>1, <2>1, <3>1, <3>2, ZenonT(40) DEF Start, Still, fates
  <2>2. CASE JoinDispatcher
    BY <1>1, <2>2, Zenon DEF JoinDispatcher, Still, taking, worker, fates
  <2>3. CASE JoinWorkers
    BY <1>0, <2>3, JoinKept, Zenon
  <2>4. CASE FlushRound
    BY <1>1, <2>4, Zenon DEF FlushRound, FlushLoadProd, FlushLoadCons, FlushQueue, FlushLoadDisp,
                      FlushLoadProc, Flushing, Still, taking, worker, fates
  <2> QED BY <1>1, <1>5, <2>1, <2>2, <2>3, <2>4, ZenonT(30)
     DEF ControllerStep, StartFailed, Shutdown, StopAll, Joins, FlushAndPause, FlushAgain,
         FlushTimeout, Flushing, Resume, Still, taking, worker, fates
<1> QED BY <1>2, <1>3, <1>4, <1>5, ZenonT(30) DEF Next

-----------------------------------------------------------------------------
(* The flush. *)

(* Once a flush that no Submit escapes has seen the bus empty, the dispatcher *)
(* has nothing in its hands; once it has succeeded, no worker has.            *)
BusSeenEmpty == ~late /\ cpc \in {"queues", "load_disp", "load_proc", "flushed"}

LEMMA NothingToPush ==
  ASSUME Types, BusInv, FlushInv, BusSeenEmpty
  PROVE  cons_pos = producer_pos /\ dpc \notin {"push", "count"}
<1>1. producer_pos = consumer_pos
  BY Zenon DEF FlushInv, BusSeenEmpty
<1>2. producer_pos \in Nat /\ consumer_pos \in Nat /\ cons_pos \in Nat
  BY Sizes DEF Types, BusTypes, SizeFacts
<1> QED BY <1>1, <1>2, SMTT(30) DEF BusInv

LEMMA NothingToCount ==
  ASSUME Types, BusInv, CountersAgree, FlushInv, BusSeenEmpty, cpc = "flushed"
  PROVE  Queued = {} /\ InHand = {} /\ Counting = {} /\ lost = {}
<1>1. Counts /\ dpc # "count" /\ dispatched = processed
  BY NothingToPush, FiniteCounts, Zenon DEF FlushInv, BusSeenEmpty
<1>2. Bit(dpc = "count") = 0
  BY <1>1, Zenon DEF Bit
<1>3. Balanced(processed, 0, processed, Cardinality(Queued), Cardinality(InHand), Cardinality(lost),
               Cardinality(Counting))
  BY <1>1, <1>2, AgreeIs, ZenonT(30)
<1>4. \A p, q, h, l, c \in Nat : Balanced(p, 0, p, q, h, l, c) => q = 0 /\ h = 0 /\ l = 0 /\ c = 0
  BY SMTT(30) DEF Balanced
<1>5. /\ Cardinality(Queued) = 0 /\ Cardinality(InHand) = 0 /\ Cardinality(lost) = 0
      /\ Cardinality(Counting) = 0
  <2>1. /\ Cardinality(Queued) \in Nat /\ Cardinality(InHand) \in Nat /\ Cardinality(lost) \in Nat
        /\ Cardinality(Counting) \in Nat /\ processed \in Nat
    BY <1>1, Zenon DEF Counts
  <2> QED BY <1>3, <1>4, <2>1, SMTT(30)
<1> QED BY <1>1, <1>5, FS_EmptySet, Zenon DEF Counts

LEMMA FlushKept ==
  ASSUME Types, BusInv, ThreadInv, CountersAgree, FlushInv, Next
  PROVE  FlushInv'
<1> USE Sizes DEF SizeFacts
<1>0. /\ WorkerTypes /\ spc \in [Submitters -> {"idle", "publish", "fill"}]
      /\ producer_pos \in Nat /\ consumer_pos \in Nat /\ cons_pos \in Nat
  BY DEF Types, SubmitTypes, BusTypes
<1>1. CASE UNCHANGED <<controller, spc, producer_pos, consumer_pos, queue, dispatched, processed>>
  BY <1>1, Zenon DEF FlushInv, controller
<1>2. ASSUME NEW s \in Submitters, SubmitterStep(s) PROVE FlushInv'
  <2>1. UNCHANGED <<controller, consumer_pos, queue, dispatched, processed>>
    BY <1>2, Zenon DEF SubmitterStep, SubmitCheck, SubmitClaim, SubmitFill, bus
  <2>2. CASE ~paused
    BY <2>1, <2>2, Zenon DEF FlushInv, controller, FlushPoints
  <2>3. CASE late
    BY <2>1, <2>3, Zenon DEF FlushInv, controller
  <2>4. CASE paused /\ ~late
    <3>1. spc[s] = "fill" /\ producer_pos' = producer_pos /\ spc' = [spc EXCEPT ![s] = "idle"]
      BY <1>2, <2>4, Zenon DEF SubmitterStep, SubmitCheck, SubmitClaim, SubmitFill, FlushInv
    <3>2. \A t \in Submitters : spc'[t] # "publish"
      BY <1>0, <2>4, <3>1, Zenon DEF FlushInv
    <3> QED BY <2>1, <3>1, <3>2, Zenon DEF FlushInv, controller
  <2> QED BY <2>2, <2>3, <2>4, Zenon
<1>3. CASE DispatcherStep
  <2>1. UNCHANGED <<controller, spc, producer_pos, processed>>
    BY <1>3, ZenonT(30) DEF DispatcherStep, DispatcherCheck, DispatchToWorker, PushJob, CountDispatched,
                BatchStop, BatchEnd, bus, submitter
  <2>2. CASE BusSeenEmpty
    <3>1. UNCHANGED <<queue, dispatched>> /\ consumer_pos' \in {consumer_pos, cons_pos}
      BY <1>3, <2>2, NothingToPush, ZenonT(30)
         DEF DispatcherStep, DispatcherCheck, DispatchToWorker, PushJob, CountDispatched,
             BatchStop, BatchEnd, bus
    <3>2. consumer_pos' = producer_pos
      BY <2>2, <3>1, NothingToPush, ZenonT(30) DEF BusSeenEmpty, FlushInv
    <3> QED BY <2>1, <2>2, <3>1, <3>2, ZenonT(30) DEF FlushInv, BusSeenEmpty, controller
  <2>3. CASE ~BusSeenEmpty
    BY <2>1, <2>3, Zenon DEF FlushInv, BusSeenEmpty, controller
  <2> QED BY <2>2, <2>3, Zenon
<1>4. ASSUME NEW w \in Workers, WorkerStep(w) PROVE FlushInv'
  <2>1. UNCHANGED <<controller, spc, producer_pos, consumer_pos, dispatched>>
    BY <1>4, Zenon DEF WorkerStep, WorkerCheck, WorkerPop, WorkerHandle, WorkerCount, bus, submitter
  <2>2. \A v \in Workers : queue[v] = <<>> => queue'[v] = <<>>
    BY <1>0, <1>4, Zenon DEF WorkerStep, WorkerCheck, WorkerPop, WorkerHandle, WorkerCount, WorkerTypes
  <2>3. cpc = "flushed" /\ ~late => processed' = processed
    <3>1. cpc = "flushed" /\ ~late => wpc[w] # "count"
      BY NothingToCount, ZenonT(30) DEF BusSeenEmpty, Counting
    <3> QED BY <1>4, <3>1, Zenon DEF WorkerStep, WorkerCheck, WorkerPop, WorkerHandle, WorkerCount
  <2> QED BY <2>1, <2>2, <2>3, Zenon DEF FlushInv, controller
<1>5. CASE ControllerStep
  <2>0. UNCHANGED <<spc, producer_pos, consumer_pos, dispatched, processed>>
    BY <1>5, ZenonT(30)
       DEF ControllerStep, Start, StartFailed, Shutdown, StopAll, Joins, JoinDispatcher, JoinWorkers,
         FlushAndPause, FlushRound, FlushLoadProd, FlushLoadCons, FlushQueue, FlushLoadDisp,
         FlushLoadProc, FlushAgain, FlushTimeout, Flushing, Resume, bus, submitter
  <2>1. CASE cpc' \notin FlushPoints \cup {"flushed"} /\ UNCHANGED <<paused, late>>
    BY <2>0, <2>1, ZenonT(30) DEF FlushInv, FlushPoints
  <2>2. CASE FlushAndPause
    BY <1>0, <2>0, <2>2, ZenonT(30) DEF FlushAndPause, FlushInv
  <2>3. CASE Resume
    BY <2>3, ZenonT(30) DEF Resume, FlushInv, FlushPoints
  <2>4. ASSUME NEW from \in FlushPoints, NEW to, NEW value, Flushing(from, to, value)
        PROVE  cpc = from /\ cpc' = to /\ seen' = value /\ paused /\ UNCHANGED <<paused, late, queue>>
    BY <2>4, ZenonT(30) DEF Flushing, FlushInv
  <2>5. CASE FlushLoadProd
    <3>1. cpc' = "load_cons" /\ seen' = producer_pos /\ paused /\ UNCHANGED <<paused, late, queue>>
      BY <2>4, <2>5, Zenon DEF FlushLoadProd, FlushPoints
    <3> QED BY <2>0, <3>1, Zenon DEF FlushInv
  <2>6. CASE FlushLoadCons
    <3>1. cpc = "load_cons" /\ seen' = 0 /\ paused /\ UNCHANGED <<paused, late, queue>>
          /\ (cpc' = "again" \/ (seen = consumer_pos /\ cpc' = "queues"))
      BY <2>4, <2>6, Zenon DEF FlushLoadCons, FlushPoints
    <3>2. 0 \in Workers /\ \A w \in Workers : ~(w < 0)
      OBVIOUS
    <3>3. ~late /\ cpc' = "queues" => producer_pos = consumer_pos
      BY <3>1, Zenon DEF FlushInv
    <3> QED BY <2>0, <3>1, <3>2, <3>3, ZenonT(30) DEF FlushInv
  <2>7. CASE FlushQueue
    <3>1. cpc = "queues" /\ paused /\ UNCHANGED <<paused, late, queue>> /\ seen \in Workers
      BY <2>4, <2>7, ZenonT(30) DEF FlushQueue, FlushPoints, FlushInv
    <3>2. CASE queue[seen] # <<>>
      <4>1. cpc' = "again"
        BY <2>7, <3>2, ZenonT(30) DEF FlushQueue, Flushing
      <4> QED BY <2>0, <3>1, <4>1, Zenon DEF FlushInv
    <3>3. CASE queue[seen] = <<>> /\ seen + 1 < worker_num
      <4>1. cpc' = "queues" /\ seen' = seen + 1
        BY <2>7, <3>3, ZenonT(30) DEF FlushQueue, Flushing
      <4>2. seen' \in Workers /\ \A w \in Workers : w < seen' => w < seen \/ w = seen
        BY <3>1, <3>3, <4>1, SMTT(30)
      <4>3. ~late => producer_pos = consumer_pos /\ \A w \in Workers : w < seen' => queue[w] = <<>>
        BY <3>1, <3>3, <4>2, Zenon DEF FlushInv
      <4> QED BY <2>0, <3>1, <4>1, <4>2, <4>3, ZenonT(30) DEF FlushInv
    <3>4. CASE queue[seen] = <<>> /\ ~(seen + 1 < worker_num)
      <4>1. cpc' = "load_disp"
        BY <2>7, <3>4, Zenon DEF FlushQueue, Flushing
      <4>2. \A w \in Workers : w < seen \/ w = seen
        BY <3>1, <3>4, SMTT(30)
      <4>3. ~late => producer_pos = consumer_pos /\ \A w \in Workers : queue[w] = <<>>
        BY <3>1, <3>4, <4>2, Zenon DEF FlushInv
      <4> QED BY <2>0, <3>1, <4>1, <4>3, ZenonT(40) DEF FlushInv
    <3> QED BY <3>2, <3>3, <3>4, Zenon
  <2>8. CASE FlushLoadDisp
    <3>1. cpc = "load_disp" /\ cpc' = "load_proc" /\ seen' = dispatched /\ paused /\ UNCHANGED <<paused, late, queue>>
      BY <2>4, <2>8, ZenonT(30) DEF FlushLoadDisp, FlushPoints
    <3> QED BY <2>0, <3>1, Zenon DEF FlushInv
  <2>9. CASE FlushLoadProc
    <3>1. cpc = "load_proc" /\ paused /\ UNCHANGED <<paused, late, queue>>
          /\ (cpc' = "again" \/ (seen = processed /\ cpc' = "flushed"))
      BY <2>4, <2>9, Zenon DEF FlushLoadProc, FlushPoints
    <3> QED BY <2>0, <3>1, ZenonT(30) DEF FlushInv
  <2>10. CASE FlushAgain \/ FlushTimeout
    <3>1. cpc' \in {"load_prod", "up"} /\ paused /\ UNCHANGED <<paused, late, queue>>
      BY <2>4, <2>10, ZenonT(30) DEF FlushAgain, FlushTimeout, FlushPoints
    <3> QED BY <2>0, <3>1, Zenon DEF FlushInv
  <2>11. CASE (\E n \in 0 .. worker_num + 1 : Start(n)) \/ StartFailed \/ Shutdown \/ Joins
    <3>1. cpc' \in {"up", "failed", "join_dispatcher", "join_workers", "down"} /\ UNCHANGED <<paused, late>>
      BY <2>11, Zenon DEF Start, StartFailed, Shutdown, StopAll, Joins, JoinDispatcher, JoinWorkers
    <3> QED BY <2>1, <3>1, Zenon DEF FlushPoints
  <2> QED BY <1>5, <2>2, <2>3, <2>5, <2>6, <2>7, <2>8, <2>9, <2>10, <2>11, ZenonT(30)
             DEF ControllerStep, FlushRound
<1> QED BY <1>2, <1>3, <1>4, <1>5, Zenon DEF Next

-----------------------------------------------------------------------------
LEMMA InitInv == ASSUME Init PROVE IInv
<1> USE Sizes DEF SizeFacts
<1>1. Types
  <2>1. BusTypes /\ TakeTypes /\ ControlTypes
    BY DEF Init, BusTypes, TakeTypes, ControlTypes, Points, ControlPoints
  <2>4. SubmitTypes /\ Flags
    BY Zenon DEF Init, SubmitTypes, Flags
  <2>2. WorkerTypes
    <3>1. <<>> \in Seq(Jobs) /\ Len(<<>>) <= QueueDepth
      OBVIOUS
    <3> QED BY <3>1, Zenon DEF Init, WorkerTypes, WorkerPoints
  <2>3. FateTypes
    BY ZenonT(40) DEF Init, FateTypes
  <2> QED BY <2>1, <2>2, <2>3, <2>4, ZenonT(40) DEF Types
<1>2. BusInv /\ ThreadInv /\ FlushInv
  BY SMTT(30) DEF Init, BusInv, ThreadInv, FlushInv, FlushPoints
<1>3. \A w \in Workers : 1 .. Len(queue[w]) = {} /\ DOMAIN queue[w] = {} /\ env[w] = NoJob /\ wpc[w] # "count"
  BY SMTT(30) DEF Init
<1>4. \A j \in Jobs : /\ handled[j] # 1 /\ ~InQueue(j) /\ ~InHands(j) /\ j \notin overflowed
                      /\ j \notin lost /\ ~Out(j)
  BY <1>3, SMTT(30) DEF Init, InQueue, InHands, Out, NoJob
<1>5. PlaceInv /\ OnceQueued /\ OnceInHands
  BY <1>3, <1>4, ZenonT(30) DEF PlaceInv, OneOf, OnceQueued, OnceInHands
<1>6. CountersAgree
  <2>1. Queued = {} /\ InHand = {} /\ lost = {} /\ Counting = {} /\ Bit(dpc = "count") = 0
    BY <1>3, SMTT(30) DEF Init, Queued, InHand, Counting, Bit
  <2>2. Balanced(0, 0, 0, 0, 0, 0, 0)
    BY DEF Balanced
  <2>3. dispatched = 0 /\ processed = 0
    BY Zenon DEF Init
  <2> QED BY <2>1, <2>2, <2>3, FS_EmptySet, AgreeIs, ZenonT(40)
<1> QED BY <1>1, <1>2, <1>5, <1>6, ZenonT(30) DEF IInv

LEMMA StepInv == ASSUME IInv, [Next]_vars PROVE IInv'
<1>1. CASE Next
  <2>1. Types /\ BusInv /\ ThreadInv /\ JobInv /\ FlushInv /\ PlaceInv /\ CountersAgree
    BY Zenon DEF IInv, JobInv
  <2>2. Types' /\ BusInv' /\ ThreadInv' /\ JobInv' /\ FlushInv'
    BY <1>1, <2>1, TypesKept, BusKept, ThreadKept, JobsKept, FlushKept, ZenonT(30)
  <2> QED BY <2>2, Zenon DEF IInv, JobInv
<1>2. CASE UNCHANGED vars
  <2>1. UNCHANGED <<Types, BusInv, ThreadInv, FlushInv>>
    BY <1>2, ZenonT(30)
       DEF vars, bus, submitter, taking, worker, controller, fates, Types, BusTypes, SubmitTypes,
         TakeTypes, WorkerTypes, ControlTypes, FateTypes, Flags, BusInv, ThreadInv, FlushInv
  <2>2. Still
    BY <1>2, Zenon DEF vars, taking, worker, fates, Still
  <2>3. JobInv'
    BY <2>2, StillKept, Zenon DEF IInv, JobInv
  <2> QED BY <2>1, <2>3, Zenon DEF IInv, JobInv
<1> QED BY <1>1, <1>2, Zenon

(* The inductive invariant of the pool holds in every state: jobs are in one *)
(* place, the counters agree and what a flush has seen still holds.          *)
THEOREM PoolInvariant == Spec => []IInv
BY InitInv, StepInv, PTL DEF Spec

-----------------------------------------------------------------------------
LEMMA PlacesIs == ASSUME IInv, NEW j \in Jobs PROVE Places(j) = Bit(Out(j))
<1>1. Cardinality({x \in Queued : queue[x[1]][x[2]] = j}) = Bit(InQueue(j))
  <2> DEFINE S == {x \in Queued : queue[x[1]][x[2]] = j}
  <2>1. QueuedIs /\ \A x \in Queued : x = <<x[1], x[2]>>
    BY QueueDomains, Zenon DEF IInv
  <2>4. OnceQueued
    BY Zenon DEF IInv
  <2>2. CASE InQueue(j)
    <3>1. PICK w \in Workers : \E k \in 1 .. Len(queue[w]) : queue[w][k] = j
      BY <2>2, ZenonT(30) DEF InQueue
    <3>2. PICK k \in 1 .. Len(queue[w]) : queue[w][k] = j
      BY <3>1, Zenon
    <3>3. <<w, k>> \in S
      BY <2>1, <3>2, Zenon DEF QueuedIs
    <3>4. ASSUME NEW x \in S PROVE x = <<w, k>>
      <4>1. x[1] \in Workers /\ x[2] \in 1 .. Len(queue[x[1]]) /\ queue[x[1]][x[2]] = j /\ x = <<x[1], x[2]>>
        BY <2>1, SMTT(30) DEF QueuedIs
      <4>2. PICK v \in Workers : v = x[1]
        BY <4>1, Zenon
      <4>3. PICK i \in 1 .. Len(queue[v]) : i = x[2]
        BY <4>1, <4>2, Zenon
      <4>4. queue[v][i] = queue[w][k]
        BY <3>2, <4>1, <4>2, <4>3, ZenonT(40)
      <4>5. v = w /\ i = k
        <5> HIDE DEF S
        <5> QED BY <2>4, <4>4, ZenonT(40) DEF OnceQueued
      <4> QED BY <4>1, <4>2, <4>3, <4>5, ZenonT(30)
    <3>5. S = {<<w, k>>}
      BY <3>3, <3>4, Zenon
    <3> QED BY <2>2, <3>5, FS_Singleton, ZenonT(30) DEF Bit
  <2>3. CASE ~InQueue(j)
    <3>1. S = {}
      BY <2>1, <2>3, Zenon DEF QueuedIs, InQueue
    <3> QED BY <2>3, <3>1, FS_EmptySet, ZenonT(30) DEF Bit
  <2> QED BY <2>2, <2>3, Zenon
<1>2. Cardinality({w \in Workers : env[w] = j}) = Bit(InHands(j))
  <2>1. CASE InHands(j)
    <3>1. PICK w \in Workers : env[w] = j
      BY <2>1, Zenon DEF InHands
    <3>2. j # NoJob
      BY DEF Jobs, NoJob
    <3>3. \A v \in Workers : env[v] = j => v = w
      BY <3>1, <3>2, Zenon DEF IInv, OnceInHands
    <3>4. {v \in Workers : env[v] = j} = {w}
      BY <3>1, <3>3, ZenonT(30)
    <3> QED BY <2>1, <3>4, FS_Singleton, Zenon DEF Bit
  <2>2. CASE ~InHands(j)
    <3>1. {w \in Workers : env[w] = j} = {}
      BY <2>2, Zenon DEF InHands
    <3> QED BY <2>2, <3>1, FS_EmptySet, ZenonT(30) DEF Bit
  <2> QED BY <2>1, <2>2, Zenon
<1>3. handled[j] = Bit(handled[j] = 1)
  BY Zenon DEF IInv, Types, FateTypes, Bit
<1>5. OneOf(handled[j] = 1, InQueue(j), InHands(j), j \in overflowed, j \in lost, Out(j))
  BY Zenon DEF IInv, PlaceInv
<1>6. Bit(handled[j] = 1) + Bit(InQueue(j)) + Bit(InHands(j)) + Bit(j \in overflowed) + Bit(j \in lost)
        = Bit(Out(j))
  BY <1>5, SMTT(30) DEF OneOf, Bit
<1> QED BY <1>1, <1>2, <1>3, <1>6, ZenonT(30) DEF Places

LEMMA TypesIs == ASSUME IInv PROVE TypeOK
<1> USE Sizes DEF SizeFacts
<1>1. /\ BusTypes /\ SubmitTypes /\ TakeTypes /\ WorkerTypes /\ ControlTypes /\ FateTypes /\ Flags
      /\ BusInv /\ Counts
  BY FiniteCounts, Zenon DEF IInv, Types
<1>2. dispatched \in 0 .. MaxJobs /\ cons_pos \in consumer_pos .. producer_pos
  BY <1>1, SMTT(30) DEF BusTypes, FateTypes, BusInv
<1>3. processed \in 0 .. MaxJobs
  <2>1. dispatched + Bit(dpc = "count") <= MaxJobs
    BY <1>1, SMTT(30) DEF BusTypes, FateTypes, BusInv, Bit
  <2>2. \A d, b, p, q, h, l, c \in Nat : Balanced(d, b, p, q, h, l, c) => p <= d + b
    BY DEF Balanced
  <2>3. Bit(dpc = "count") \in Nat
    BY Zenon DEF Bit
  <2>4. processed <= dispatched + Bit(dpc = "count")
    BY <1>1, <2>2, <2>3, AgreeIs, Zenon DEF Counts, IInv
  <2> QED BY <1>1, <2>1, <2>3, <2>4, SMTT(30) DEF FateTypes
<1>4. handled \in [Jobs -> Nat]
  BY <1>1 DEF FateTypes
<1> QED BY <1>1, <1>2, <1>3, <1>4, ZenonT(30)
        DEF TypeOK, BusTypes, SubmitTypes, TakeTypes, WorkerTypes, ControlTypes, FateTypes, Flags,
            Points, WorkerPoints, ControlPoints, FlushPoints

(* Every job that Submit() published is, once the dispatcher has taken it, in *)
(* exactly one place: a worker's queue, a worker's hands, handled once,       *)
(* reported as overflow or cleared by StopAll(); and the two counters that    *)
(* FlushAndPause() compares differ by the jobs on their way.  For any number  *)
(* of submitters, workers, jobs and starts.                                   *)
THEOREM JobsAreAccounted == Spec => []JobsAccounted
<1>1. ASSUME IInv PROVE JobsAccounted
  <2>1. TypeOK
    BY <1>1, TypesIs, Zenon
  <2>2. \A j \in Jobs : Places(j) = Bit(j <= cons_pos \/ (dpc = "count" /\ j = cons_pos + 1))
    BY <1>1, PlacesIs, Zenon DEF Out
  <2>3. CountersAgree
    BY <1>1, Zenon DEF IInv
  <2> QED BY <2>1, <2>2, <2>3, Zenon DEF JobsAccounted, JobsConserved
<1> QED BY <1>1, PoolInvariant, PTL

(* When FlushAndPause() has returned success, and until Resume(), every job *)
(* that was accepted is handled or reported and the bus is empty, unless a  *)
(* Submit() had passed the paused check before the pause.                   *)
THEOREM FlushedIsIdle == Spec => []FlushMeansIdle
<1>1. ASSUME IInv PROVE FlushMeansIdle
  <2> SUFFICES ASSUME cpc = "flushed", ~late
               PROVE  /\ producer_pos = cons_pos
                      /\ \A j \in 1 .. producer_pos : handled[j] = 1 \/ j \in overflowed \cup lost
    BY Zenon DEF FlushMeansIdle
  <2>1. Types /\ BusInv /\ CountersAgree /\ FlushInv /\ PlaceInv /\ BusSeenEmpty
    BY <1>1, Zenon DEF IInv, BusSeenEmpty
  <2>2. producer_pos = cons_pos
    BY <2>1, NothingToPush, Zenon
  <2>3. ASSUME NEW j \in 1 .. producer_pos PROVE handled[j] = 1 \/ j \in overflowed \cup lost
    <3>1. j \in Jobs /\ Out(j)
      BY <2>1, <2>2, Sizes, SMTT(30) DEF Types, BusTypes, SizeFacts, Out
    <3>2. ~InQueue(j)
      <4>1. QueuedIs /\ Queued = {}
        BY <2>1, NothingToCount, QueueDomains, Zenon
      <4> QED BY <4>1, Zenon DEF QueuedIs, InQueue
    <3>3. ~InHands(j)
      <4>1. InHand = {} /\ j # NoJob
        BY <2>1, <3>1, NothingToCount, SMTT(30) DEF Jobs, NoJob
      <4> QED BY <4>1, Zenon DEF InHand, InHands
    <3> QED BY <2>1, <3>1, <3>2, <3>3, Zenon DEF PlaceInv, OneOf
  <2> QED BY <2>2, <2>3, Zenon
<1> QED BY <1>1, PoolInvariant, PTL
=============================================================================
