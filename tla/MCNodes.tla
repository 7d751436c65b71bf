------------------------------- MODULE MCNodes -------------------------------
(*****************************************************************************)
(* The two node managers and the network node, one at a time: which says     *)
(* whose behaviours are explored, the others keep an initial state.          *)
(*****************************************************************************)
EXTENDS HsmNodeManager

(* One subscriber slot that is given again, on one thread or two, and two *)
(* slots of which one may be silent.                                      *)
NetworkBuilds ==
  {[remotes |-> 1, single |-> TRUE, frames |-> 3],
   [remotes |-> 1, single |-> FALSE, frames |-> 3],
   [remotes |-> 2, single |-> FALSE, frames |-> 1]}

VARIABLES
  which,
  scheduled, nodes, node_count, next_node_id, peer, unread, owner, watched,
  tags, fd_slots, m_running, opc, timers, m_timer, pc, m_event, recvd, targets, gone,
  conns, pubs, pub_count, subs, sub_count, recv_ring_drops, backlog, app, io,
  disp, build

M == INSTANCE NodeManager WITH
  MaxNodes <- 1, Fds <- {1, 2}, Timeout <- 1, MaxConnections <- 3,
  NodeIds <- 3, running <- m_running, timer_id <- m_timer,
  event <- m_event
N == INSTANCE NetworkNode WITH
  MaxConns <- 2, Builds <- NetworkBuilds, Depth <- 2, CountWrap <- 8

managerVars ==
  <<scheduled, nodes, node_count, next_node_id, peer, unread, owner, watched,
    tags, fd_slots, m_running, opc, timers, m_timer, pc, m_event, recvd, targets, gone>>
networkVars ==
  <<conns, pubs, pub_count, subs, sub_count, recv_ring_drops, backlog, app, io,
    disp, build>>
mcVars == <<which, vars, managerVars, networkVars>>

(* What the components that are not looked at keep. *)
OnlyHsm ==
  which = "hsm" /\ UNCHANGED <<which, managerVars, networkVars>>
OnlyManager ==
  which = "manager" /\ UNCHANGED <<which, vars, networkVars>>
OnlyNetwork ==
  which = "network" /\ UNCHANGED <<which, vars, managerVars>>

MCInit ==
  /\ which \in {"hsm", "manager", "network"}
  /\ Init /\ M!Init /\ N!Init
  /\ which # "manager" => ~scheduled
  /\ which # "network" => build.single

MCNext ==
  \/ OnlyHsm /\ Next
  \/ OnlyManager /\ M!Next
  \/ OnlyNetwork /\ N!Next

FairHsm ==
  /\ WF_vars(which = "hsm" /\ Tick)
  /\ WF_vars(which = "hsm" /\ LoopStep)
  /\ WF_vars(which = "hsm" /\ ControlStep)
  /\ \A c \in Callers : WF_vars(which = "hsm" /\ CallerStep(c))
FairManager ==
  /\ WF_managerVars(which = "manager" /\ M!Loop)
  /\ WF_managerVars(which = "manager" /\ M!CloseAll)
  /\ WF_managerVars(which = "manager" /\ M!Tick)
FairNetwork ==
  /\ WF_networkVars(which = "network" /\ N!ReceiveToBuffer)
  /\ WF_networkVars(which = "network" /\ N!DispatchFromBuffer)

MCSpec ==
  /\ MCInit /\ [][MCNext]_mcVars
  /\ FairHsm /\ FairManager /\ FairNetwork

-----------------------------------------------------------------------------
(* HsmNodeManager: the timer disconnects a node only after it was silent at  *)
(* max_missed - 1 checks in a row, and a node that falls silent is           *)
(* disconnected.                                                             *)
SilentMeansDisconnected == BeatingStaysConnected /\ SilentIsDisconnected

(* NodeManager: a connection is dropped only when its own peer is gone or    *)
(* the timeout has passed, and one whose peer is gone is dropped.            *)
ConnectionsCorrect == M!DropDeserved /\ M!GoneIsDropped

(* NetworkNode: the frames of every connection reach the bus in order and   *)
(* none goes missing uncounted, the subscriber count agrees with the slots, *)
(* the rings are emptied and the slots of ended connections are freed.      *)
RemoteFramesKept ==
  /\ [](which = "network" => N!StreamsInOrder /\ N!SubscribersCounted)
  /\ N!BuffersDrain
=============================================================================
