------------------------------ MODULE MCShared -------------------------------
(*****************************************************************************)
(* The consumer slots, the byte channel, the asynchronous log and the        *)
(* event loop, one at a time: which says whose behaviours are explored,      *)
(* the others keep an initial state.                                         *)
(*****************************************************************************)
EXTENDS MCConsumerSlots, Sequences

VARIABLES
  which,
  kind, head, data, tails, b_active, b_wpc, msg, b_slot, slowest, b_rpc, id,
  seen, out, unread,
  a_active, a_queue, running, shutdown, thread, a_wpc, at, round, drained, lpc,
  buf, call, spc, written, dropped, synced,
  stop, pipe, e_queue, timers, scheduled, e_rpc, wait, opc, ppc

B == INSTANCE ByteChannel WITH
  Readers <- {"r1", "r2"}, Waiting <- {"r1"}, MaxConsumers <- 2,
  DataSize <- 11, IndexMod <- 24, Lengths <- {2}, Payloads <- {1},
  Buffers <- {1, 2}, JoinRaces <- FALSE, active <- b_active, wpc <- b_wpc,
  slot <- b_slot, rpc <- b_rpc
A == INSTANCE AsyncLog WITH
  Loggers <- {"l1", "l2", "l3"}, MaxThreads <- 2, QueueDepth <- 2,
  BatchSize <- 1, Calls <- 3, StopRaces <- FALSE, active <- a_active,
  queue <- a_queue, wpc <- a_wpc
E == INSTANCE EventLoop WITH
  Posters <- {"p1"}, MaxTimers <- 2, Periods <- {1, 2}, MaxLate <- 1,
  Schedules <- 2, Foreign <- FALSE, queue <- e_queue, rpc <- e_rpc

channelVars ==
  <<kind, head, data, tails, b_active, b_wpc, msg, b_slot, slowest, b_rpc, id,
    seen, out, unread>>
logVars ==
  <<a_active, a_queue, running, shutdown, thread, a_wpc, at, round, drained,
    lpc, buf, call, spc, written, dropped, synced>>
loopVars ==
  <<stop, pipe, e_queue, timers, scheduled, e_rpc, wait, opc, ppc>>
mcVars == <<which, vars, channelVars, logVars, loopVars>>

(* What the components that are not looked at keep. *)
OnlyConsumers ==
  which = "consumers" /\ UNCHANGED <<which, channelVars, logVars, loopVars>>
OnlyChannel ==
  which = "channel" /\ UNCHANGED <<which, vars, logVars, loopVars>>
OnlyLog ==
  which = "log" /\ UNCHANGED <<which, vars, channelVars, loopVars>>
OnlyLoop ==
  which = "loop" /\ UNCHANGED <<which, vars, channelVars, logVars>>

MCInit ==
  /\ which \in {"consumers", "channel", "log", "loop"}
  /\ Init /\ B!Init /\ A!Init /\ E!Init
  /\ which # "consumers" => joining
  /\ which # "channel" => kind = "spsc"

MCNext ==
  \/ OnlyConsumers /\ Next
  \/ OnlyChannel /\ B!Next
  \/ OnlyLog /\ A!Next
  \/ OnlyLoop /\ E!Next

FairConsumers ==
  /\ WF_vars(which = "consumers" /\ Tick)
  /\ \A c \in Processes : WF_vars(which = "consumers" /\ Consume(c))
  /\ \A c \in Processes : WF_vars(which = "consumers" /\ ConsumerHeartbeat(c))
  /\ \A r \in Reapers : WF_vars(which = "consumers" /\ Reap(r))
FairChannel ==
  /\ WF_channelVars(which = "channel" /\ B!WriterStep)
  /\ \A r \in {"r1", "r2"} : WF_channelVars(which = "channel" /\ B!ReaderStep(r))
  /\ \A r \in {"r1", "r2"} : WF_channelVars(which = "channel" /\ B!WaitTimesOut(r))
FairLog ==
  /\ WF_logVars(which = "log" /\ A!Writer)
  /\ WF_logVars(which = "log" /\ A!Stopping)
  /\ \A l \in {"l1", "l2", "l3"} : WF_logVars(which = "log" /\ A!LogCall(l))
FairLoop ==
  /\ WF_loopVars(which = "loop" /\ E!Loop)
  /\ WF_loopVars(which = "loop" /\ E!Stopping)
  /\ WF_loopVars(which = "loop" /\ E!Tick)
  /\ WF_loopVars(which = "loop" /\ E!Wake("p1"))

MCSpec ==
  /\ MCInit /\ [][MCNext]_mcVars
  /\ FairConsumers /\ FairChannel /\ FairLog /\ FairLoop

-----------------------------------------------------------------------------
(* ByteChannel: what a reader has not taken is intact while others leave or  *)
(* die, or join between two messages, and Read() returns the oldest message; *)
(* a reader that goes on reading gets its next one.                          *)
ChannelCorrect == [](which = "channel" => B!StreamIntact) /\ B!Delivered

(* AsyncLog: an entry is in one place, in order, and StopAsync() leaves none *)
(* behind; what is queued is written and StopAsync() returns.                *)
LogCorrect == [](which = "log" => A!EntriesOnce) /\ A!LogProgress

(* EventLoop: due timers fire, no Wake() is missed, and Stop() ends Run().   *)
LoopProgress == E!LoopProgress
=============================================================================
