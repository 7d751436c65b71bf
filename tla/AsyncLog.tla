------------------------------ MODULE AsyncLog ------------------------------
(***************************************************************************)
(* async_log.hpp: every logging thread pushes to a ring of its own, one    *)
(* writer thread drains all rings into the sink, the first call that finds *)
(* the backend stopped starts it, and StopAsync (also run by atexit) stops *)
(* it.  Only levels below ERROR come here.  A ring is an SpscRing: Push    *)
(* and PopBatch are single steps.  Which sink is called is left out, and   *)
(* so are the drop reports.                                                *)
(***************************************************************************)
EXTENDS Integers, Sequences, FiniteSets, SequencesExt

CONSTANTS
  Loggers,
  MaxThreads, QueueDepth, BatchSize,
  Calls,        \* bound: the log calls of all threads
  StopRaces     \* TRUE: log calls may overlap StopAsync

VARIABLES
  active, queue,          \* the LogBuffers
  running, shutdown,
  thread, wpc, at, round, drained,  \* the writer thread
  lpc, buf, call,         \* the loggers; call: the number of the entry
  spc,                    \* the thread that stops
  written, dropped, synced

vars == <<active, queue, running, shutdown, thread, wpc, at, round, drained,
          lpc, buf, call, spc, written, dropped, synced>>
writer == <<wpc, at, round, drained>>
output == <<written, dropped, synced>>

Buffers == 0 .. MaxThreads - 1
NoBuffer == MaxThreads
DrainRounds == QueueDepth \div BatchSize + 1

Init ==
  /\ active = [i \in Buffers |-> FALSE] /\ queue = [i \in Buffers |-> <<>>]
  /\ running = FALSE /\ shutdown = FALSE
  /\ thread = "none" /\ wpc = "none" /\ at = 0 /\ round = 0 /\ drained = FALSE
  /\ lpc = [l \in Loggers |-> "idle"] /\ buf = [l \in Loggers |-> NoBuffer]
  /\ call = [l \in Loggers |-> 0]
  /\ spc = "idle"
  /\ written = <<>> /\ dropped = {} /\ synced = {}

-----------------------------------------------------------------------------
(* AsyncLogWrite, with StartAsync inside it *)

Goto(l, label) == lpc' = [lpc EXCEPT ![l] = label]
Entry(l) == <<l, call[l]>>
InCall(l) == lpc[l] \notin {"idle", "ended"}

Log(l) ==
  /\ lpc[l] = "idle" /\ FoldFunction(+, 0, call) < Calls /\ (StopRaces \/ spc = "idle")
  /\ call' = [call EXCEPT ![l] = @ + 1]
  /\ Goto(l, IF running THEN "acquire" ELSE "start")
  /\ UNCHANGED <<active, queue, running, shutdown, thread, writer, buf, spc, output>>

StartAsync(l) ==
  /\ lpc[l] = "start" /\ running' = TRUE
  /\ Goto(l, IF running THEN "acquire" ELSE "clear")
  /\ UNCHANGED <<active, queue, shutdown, thread, writer, buf, call, spc, output>>

ClearShutdown(l) ==
  /\ lpc[l] = "clear" /\ shutdown' = FALSE /\ Goto(l, "spawn")
  /\ UNCHANGED <<active, queue, running, thread, writer, buf, call, spc, output>>

(* osp::Thread::Start fails on a joinable thread; the result is ignored. *)
Spawn(l) ==
  /\ lpc[l] = "spawn" /\ Goto(l, "acquire")
  /\ IF thread = "none"
       THEN thread' = "joinable" /\ wpc' = "loop" /\ at' = 0 /\ round' = 0 /\ drained' = FALSE
       ELSE UNCHANGED <<thread, writer>>
  /\ UNCHANGED <<active, queue, running, shutdown, buf, call, spc, output>>

(* AcquireLogBuffer: the first buffer not in use, kept until the thread ends. *)
Acquire(l) ==
  /\ lpc[l] = "acquire"
  /\ IF buf[l] # NoBuffer
       THEN Goto(l, "push") /\ UNCHANGED <<active, buf, synced>>
       ELSE LET free == {i \in Buffers : ~active[i]} IN
            IF free = {}
              THEN /\ synced' = synced \cup {Entry(l)} /\ Goto(l, "idle")
                   /\ UNCHANGED <<active, buf>>
              ELSE LET i == CHOOSE i \in free : \A j \in free : i <= j IN
                   /\ active' = [active EXCEPT ![i] = TRUE]
                   /\ buf' = [buf EXCEPT ![l] = i] /\ Goto(l, "push") /\ UNCHANGED synced
  /\ UNCHANGED <<queue, running, shutdown, thread, writer, call, spc, written, dropped>>

Push(l) ==
  LET i == buf[l] IN
    /\ lpc[l] = "push" /\ Goto(l, "idle")
    /\ IF Len(queue[i]) < QueueDepth
         THEN queue' = [queue EXCEPT ![i] = Append(@, Entry(l))] /\ UNCHANGED dropped
         ELSE dropped' = dropped \cup {Entry(l)} /\ UNCHANGED queue
    /\ UNCHANGED <<active, running, shutdown, thread, writer, buf, call, spc, written, synced>>

(* TlsCleanup, when the thread ends *)
ThreadExit(l) ==
  /\ lpc[l] = "idle" /\ buf[l] # NoBuffer /\ Goto(l, "ended")
  /\ active' = [active EXCEPT ![buf[l]] = FALSE]
  /\ buf' = [buf EXCEPT ![l] = NoBuffer]
  /\ UNCHANGED <<queue, running, shutdown, thread, writer, call, spc, output>>

-----------------------------------------------------------------------------
(* WriterLoop *)

LoopTop ==
  /\ wpc = "loop" /\ wpc' = (IF shutdown THEN "drain" ELSE "pop") /\ at' = 0
  /\ UNCHANGED <<active, queue, running, shutdown, thread, round, drained, lpc, buf, call,
                 spc, output>>

(* PopBatch, the sink, entries_written. *)
Batch(q) == SubSeq(q, 1, IF Len(q) < BatchSize THEN Len(q) ELSE BatchSize)

WriteBatch ==
  /\ wpc \in {"pop", "drain"} /\ at \in Buffers
  /\ written' = written \o Batch(queue[at])
  /\ queue' = [queue EXCEPT ![at] = SubSeq(@, Len(Batch(@)) + 1, Len(@))]
  /\ drained' = (drained \/ (wpc = "drain" /\ queue[at] # <<>>))
  /\ at' = at + 1
  /\ UNCHANGED <<active, running, shutdown, thread, wpc, round, lpc, buf, call, spc,
                 dropped, synced>>

EndPoll ==
  /\ wpc = "pop" /\ at \notin Buffers /\ wpc' = "loop"
  /\ UNCHANGED <<active, queue, running, shutdown, thread, at, round, drained, lpc, buf, call,
                 spc, output>>

(* Mutant: the final drain is a single round. *)
EndRound_Once ==
  /\ wpc = "drain" /\ at \notin Buffers
  /\ wpc' = "exit" /\ at' = 0 /\ round' = 0 /\ drained' = FALSE
  /\ UNCHANGED <<active, queue, running, shutdown, thread, lpc, buf, call, spc, output>>

(* The final drain, of at most kDrainRounds rounds. *)
EndRound ==
  /\ wpc = "drain" /\ at \notin Buffers
  /\ IF drained /\ round + 1 < DrainRounds
       THEN round' = round + 1 /\ at' = 0 /\ drained' = FALSE /\ UNCHANGED wpc
       ELSE wpc' = "exit" /\ at' = 0 /\ round' = 0 /\ drained' = FALSE
  /\ UNCHANGED <<active, queue, running, shutdown, thread, lpc, buf, call, spc, output>>

Writer == LoopTop \/ WriteBatch \/ EndPoll \/ EndRound

-----------------------------------------------------------------------------
(* StopAsync *)

StopAsync ==
  /\ spc = "idle" /\ running /\ (StopRaces \/ ~\E l \in Loggers : InCall(l))
  /\ running' = FALSE /\ spc' = "flag"
  /\ UNCHANGED <<active, queue, shutdown, thread, writer, lpc, buf, call, output>>

SetShutdown ==
  /\ spc = "flag" /\ spc' = "join" /\ shutdown' = TRUE
  /\ UNCHANGED <<active, queue, running, thread, writer, lpc, buf, call, output>>

Join ==
  /\ spc = "join" /\ (thread = "joinable" => wpc = "exit")
  /\ thread' = "none" /\ wpc' = "none" /\ spc' = "idle"
  /\ UNCHANGED <<active, queue, running, shutdown, at, round, drained, lpc, buf, call, output>>

LogCall(l) == StartAsync(l) \/ ClearShutdown(l) \/ Spawn(l) \/ Acquire(l) \/ Push(l)
Stopping == SetShutdown \/ Join

Next ==
  \/ \E l \in Loggers : Log(l) \/ LogCall(l) \/ ThreadExit(l)
  \/ Writer \/ StopAsync \/ Stopping

(* Every thread is scheduled; nobody has to log, exit or stop. *)
Fairness == WF_vars(Writer) /\ WF_vars(Stopping) /\ \A l \in Loggers : WF_vars(LogCall(l))

Spec == Init /\ [][Next]_vars /\ Fairness

-----------------------------------------------------------------------------
(* Properties *)

Places(e) ==
  Cardinality({k \in DOMAIN written : written[k] = e})
    + Cardinality({p \in Buffers \X (1 .. QueueDepth) :
                     p[2] \in DOMAIN queue[p[1]] /\ queue[p[1]][p[2]] = e})
    + (IF e \in dropped THEN 1 ELSE 0) + (IF e \in synced THEN 1 ELSE 0)

(* An entry whose call returned is in one place: written to the sink,      *)
(* queued, counted as dropped or written synchronously.  The entries of a  *)
(* thread reach the sink in the order of its calls, although another thread*)
(* may take over a ring that still holds them.  When no log call overlapped*)
(* it, StopAsync has drained every ring once it returns.                   *)
EntriesOnce ==
  /\ \A l \in Loggers : \A k \in 1 .. call[l] :
       k < call[l] \/ ~InCall(l) => Places(<<l, k>>) = 1
  /\ \A j, k \in DOMAIN written :
       j < k /\ written[j][1] = written[k][1] => written[j][2] < written[k][2]
  /\ ~StopRaces /\ ~running /\ spc = "idle" /\ ~(\E l \in Loggers : InCall(l)) =>
       thread = "none" /\ \A i \in Buffers : queue[i] = <<>>

(* A queued entry is written, and StopAsync returns. *)
EntriesWritten == \A i \in Buffers : []<>(queue[i] = <<>>)
StopReturns == []<>(spc = "idle")
LogProgress == EntriesWritten /\ StopReturns
=============================================================================
