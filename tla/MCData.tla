------------------------------- MODULE MCData --------------------------------
(*****************************************************************************)
(* The single-producer ring, the state machines, the callback table of the   *)
(* bus, the fixed pool, the serial frames, the fusion of messages and the    *)
(* circuit breaker, one at a time: which says whose behaviours are           *)
(* explored, the others keep an initial state.                               *)
(*****************************************************************************)
EXTENDS SpscRing

VARIABLES
  which,
  parent, started, current, h_pc, at, target, exits, enters, entered,
  l_state, call, result, configured, activated, errors,
  line, tx_seq, rx, late, expected, s_received, seq_gaps, faults, sent,
  delivered,
  sync, window, active, subscribed, data, d_received, timeout_count, d_count,
  fire_count, fired, newest, replaced,
  k_state, since,
  c_state, entry, c_count, next_callback_id, tl_reader_depth,
  tl_upgrade_writer, tl_upgrade_depth, stack,
  o_head, word, used_count, alive, o_pc, seen, next, block, objects

H == INSTANCE StateMachine WITH
  States <- {"a", "b", "c", "d"}, pc <- h_pc
L == INSTANCE LifecycleNode WITH
  state <- l_state
S == INSTANCE SerialFrames WITH
  Payloads <- {<<>>, <<1>>}, SeqNumbers <- 4, FrameMax <- 9, MaxFrames <- 3,
  MaxFaults <- 2, received <- s_received
D == INSTANCE DataFusion WITH
  NumTypes <- 3, Stamps <- {0, 1, 2}, Windows <- {1, 2}, MaxMessages <- 6,
  received <- d_received, count <- d_count
K == INSTANCE Breaker WITH
  CooldownCycles <- 2, state <- k_state
C == INSTANCE BusCallbacks WITH
  Buses <- {"b1"}, Threads <- {"c1", "w1"},
  Consumer <- [b \in {"b1"} |-> "c1"], MaxCallbacks <- 3, MaxIds <- 3,
  CrossBus <- FALSE, state <- c_state, count <- c_count
O == INSTANCE ObjectPool WITH
  Procs <- {"a1", "a2"}, MaxBlocks <- 2, TagMod <- 4, head <- o_head,
  pc <- o_pc

machineVars ==
  <<parent, started, current, h_pc, at, target, exits, enters, entered>>
lifecycleVars ==
  <<l_state, call, result, configured, activated, errors>>
serialVars ==
  <<line, tx_seq, rx, late, expected, s_received, seq_gaps, faults, sent,
    delivered>>
fusionVars ==
  <<sync, window, active, subscribed, data, d_received, timeout_count, d_count,
    fire_count, fired, newest, replaced>>
breakerVars ==
  <<k_state, since>>
callbacksVars ==
  <<c_state, entry, c_count, next_callback_id, tl_reader_depth,
    tl_upgrade_writer, tl_upgrade_depth, stack>>
objectsVars ==
  <<o_head, word, used_count, alive, o_pc, seen, next, block, objects>>
mcVars == <<which, vars, machineVars, lifecycleVars, serialVars, fusionVars, breakerVars, callbacksVars, objectsVars>>

(* What the components that are not looked at keep. *)
OnlySpsc ==
  which = "spsc" /\ UNCHANGED <<which, machineVars, lifecycleVars, serialVars, fusionVars, breakerVars, callbacksVars, objectsVars>>
OnlyMachine ==
  which = "machine" /\ UNCHANGED <<which, vars, lifecycleVars, serialVars, fusionVars, breakerVars, callbacksVars, objectsVars>>
OnlyLifecycle ==
  which = "lifecycle" /\ UNCHANGED <<which, vars, machineVars, serialVars, fusionVars, breakerVars, callbacksVars, objectsVars>>
OnlySerial ==
  which = "serial" /\ UNCHANGED <<which, vars, machineVars, lifecycleVars, fusionVars, breakerVars, callbacksVars, objectsVars>>
OnlyFusion ==
  which = "fusion" /\ UNCHANGED <<which, vars, machineVars, lifecycleVars, serialVars, breakerVars, callbacksVars, objectsVars>>
OnlyBreaker ==
  which = "breaker" /\ UNCHANGED <<which, vars, machineVars, lifecycleVars, serialVars, fusionVars, callbacksVars, objectsVars>>
OnlyCallbacks ==
  which = "callbacks" /\ UNCHANGED <<which, vars, machineVars, lifecycleVars, serialVars, fusionVars, breakerVars, objectsVars>>
OnlyObjects ==
  which = "objects" /\ UNCHANGED <<which, vars, machineVars, lifecycleVars, serialVars, fusionVars, breakerVars, callbacksVars>>

MCInit ==
  /\ which \in {"spsc", "machine", "lifecycle", "serial", "fusion", "breaker", "callbacks", "objects"}
  /\ Init /\ H!Init /\ L!Init /\ S!Init /\ D!Init /\ K!Init /\ C!Init
  /\ O!Init
  /\ which # "spsc" => data_buff = [s \in Slots |-> CHOOSE v \in Values : TRUE]
  /\ which # "machine" => parent = [s \in {"a", "b", "c", "d"} |-> "none"]
  /\ which # "serial" => tx_seq = 0
  /\ which # "fusion" => ~sync

MCNext ==
  \/ OnlySpsc /\ Next
  \/ OnlyMachine /\ H!Next
  \/ OnlyLifecycle /\ L!Next
  \/ OnlySerial /\ S!Next
  \/ OnlyFusion /\ D!Next
  \/ OnlyBreaker /\ K!Next
  \/ OnlyCallbacks /\ C!Next
  \/ OnlyObjects /\ O!Next

MCSpec == MCInit /\ [][MCNext]_mcVars

-----------------------------------------------------------------------------
(* StateMachine: what was entered and not left is a path from a root, and a  *)
(* transition leaves no ancestor common to its source and its target.        *)
EnteredIsPath == which = "machine" => H!EnteredIsPath /\ H!CommonAncestorsStay

(* LifecycleNode: a call that reports success has made the documented move,  *)
(* and callbacks come in pairs until an error or the shutdown.               *)
CallsHonoured == [](which = "lifecycle" => L!CallbacksPaired) /\ L!SuccessMeansMoved

(* SerialFrames: what is delivered was sent, in order, over a line that      *)
(* loses and garbles bytes, and the loss counters agree with what was lost.  *)
FramesExact == which = "serial" => S!FramesExact

(* DataFusion: a fused callback gets the newest message of every type, each  *)
(* once, and with a time window never two that are further apart; and every  *)
(* message is accounted for.                                                 *)
FusionSound == which = "fusion" => D!FusionSound

(* Breaker: the way back to Normal leads through Recovering, the cooldown    *)
(* and then as many windows with a successful probe as are required.         *)
RecoveryEarned == K!RecoveryEarned

(* BusCallbacks: the lock word of the callback table tells who is inside,    *)
(* its counters agree with its entries, whatever a callback subscribes or    *)
(* unsubscribes while it runs, and a dispatch leaves out no more subscribers *)
(* that stay than it has called that are gone.                               *)
CallbacksCorrect ==
  which = "callbacks" =>
    C!StateEncoding /\ C!CountMatchesEntries /\ C!MissedOnlyForTheGone

(* ObjectPool: a block is free or with one owner, and none is lost, although *)
(* the free list is popped and pushed by compare-exchange.                   *)
BlocksConserved == which = "objects" => O!BlocksConserved
=============================================================================
