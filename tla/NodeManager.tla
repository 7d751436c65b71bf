---------------------------- MODULE NodeManager -----------------------------
(***************************************************************************)
(* osp::NodeManager over osp::EventLoop and osp::IoPoller: the table of    *)
(* connections, the loop thread that reacts to readable sockets, sends     *)
(* heartbeats and drops connections that are silent, and the application   *)
(* threads that connect and disconnect at any time.  A descriptor closed   *)
(* by one thread is given to the next connection while the loop thread may *)
(* still hold it.  With a TimerScheduler only the heartbeat runs.          *)
(***************************************************************************)
EXTENDS Integers, Sequences, FiniteSets, FiniteSetsExt

CONSTANTS
  MaxNodes,
  Fds,              \* descriptors the kernel gives out
  Timeout,          \* heartbeat_interval_ms * heartbeat_timeout_count, in ticks
  MaxConnections,   \* bound: connections and listeners made
  NodeIds           \* node ids before next_node_id_ wraps to 1

VARIABLES
  scheduled,        \* scheduler_ is set
  nodes,            \* nodes_: active, is_listener, node_id, fd, ticks since
                    \* last_heartbeat_us; conn is the connection it stands for
  node_count, next_node_id,
  peer,             \* each connection's other end
  unread,           \* connections with bytes the peer sent
  owner,            \* kernel: the connection behind a descriptor, 0 if free
  watched, tags,    \* the poller: descriptors it waits for, their user_data
  fd_slots,         \* EventLoop::fds_: the descriptors that take a slot
  running, opc,     \* the thread that starts and stops the manager
  timers, timer_id, \* the loop's timers, and whether timer_id_ names one
  pc, event, recvd, \* the thread that runs the hooks, and what OnFd() holds
  targets, gone     \* (id, fd) to beat; ids to report as disconnected

vars == <<scheduled, nodes, node_count, next_node_id, peer, unread, owner, watched, tags, fd_slots,
          running, opc, timers, timer_id, pc, event, recvd, targets, gone>>
kernel == <<peer, unread, owner>>
poller == <<watched, tags, fd_slots>>
control == <<scheduled, running, opc, timers, timer_id>>
held == <<event, recvd, targets, gone>>

Slots == 1 .. MaxNodes
MaxFds == MaxNodes + 1
LoopTimers == 2
Conns == 1 .. MaxConnections
Empty == [active |-> FALSE, is_listener |-> FALSE, node_id |-> 0, fd |-> 0, age |-> 0, conn |-> 0]
NoEvent == [fd |-> 0, id |-> 0]

Init ==
  /\ scheduled \in BOOLEAN
  /\ nodes = [s \in Slots |-> Empty] /\ node_count = 0 /\ next_node_id = 1
  /\ peer = <<>> /\ unread = {} /\ owner = [f \in Fds |-> 0]
  /\ watched = {} /\ tags = [f \in Fds |-> 0] /\ fd_slots = <<>>
  /\ running = FALSE /\ opc = "idle" /\ pc = "off"
  /\ timers = 0 /\ timer_id = FALSE
  /\ event = NoEvent /\ recvd = "none" /\ targets = <<>> /\ gone = <<>>

Free == {s \in Slots : ~nodes[s].active}
AllocNodeId == next_node_id' = IF next_node_id = NodeIds THEN 1 ELSE next_node_id + 1

(* FindNode(), and the re-validation of the descriptor that follows it. *)
FindNode(id) == {s \in Slots : nodes[s].active /\ nodes[s].node_id = id}
(* Mutant: whoever has the descriptor now. *)
Owns_FdOnly(id, fd) == {s \in Slots : nodes[s].active /\ nodes[s].fd = fd}
Owns(id, fd) == LET found == FindNode(id) IN
  IF found = {} THEN {} ELSE {s \in {Min(found)} : nodes[s].fd = fd}

(* Closing a descriptor also ends the kernel's watch of it and discards what *)
(* was not read; the other end is of no concern any more.                    *)
Close(fds) ==
  LET ended == {owner[f] : f \in fds} IN
  /\ owner' = [f \in Fds |-> IF f \in fds THEN 0 ELSE owner[f]]
  /\ peer' = [c \in DOMAIN peer |-> IF c \in ended THEN "none" ELSE peer[c]]
  /\ unread' = unread \ ended
  /\ watched' = watched \ fds

RemoveFd(fd) ==
  /\ tags' = [tags EXCEPT ![fd] = IF fd \in watched THEN 0 ELSE @]
  /\ fd_slots' = IF fd \in watched
                 THEN LET i == {j \in DOMAIN fd_slots : fd_slots[j] = fd} IN
                      [j \in 1 .. Len(fd_slots) - 1 |->
                         fd_slots[IF j < Min(i) THEN j ELSE j + 1]]
                 ELSE fd_slots

(* A full table, or a refusal of the poller, is ignored by the caller. *)
AddFd(fd, id) ==
  IF Len(fd_slots) = MaxFds THEN UNCHANGED poller
  ELSE /\ watched' = watched \cup {fd} /\ tags' = [tags EXCEPT ![fd] = id]
       /\ fd_slots' = Append(fd_slots, fd)

-----------------------------------------------------------------------------
(* The application *)

Entry(listener, fd) ==
  [active |-> TRUE, is_listener |-> listener, node_id |-> next_node_id, fd |-> fd, age |-> 0,
   conn |-> Len(peer) + 1]

Connect(fd) ==
  /\ Free # {} /\ owner[fd] = 0 /\ Len(peer) < MaxConnections
  /\ nodes' = [nodes EXCEPT ![Min(Free)] = Entry(FALSE, fd)]
  /\ node_count' = node_count + 1 /\ AllocNodeId
  /\ peer' = Append(peer, "up") /\ owner' = [owner EXCEPT ![fd] = Len(peer) + 1]
  /\ AddFd(fd, next_node_id)
  /\ UNCHANGED <<unread, control, pc, held>>

CreateListener(fd) ==
  /\ Free # {} /\ owner[fd] = 0 /\ Len(peer) < MaxConnections
  /\ nodes' = [nodes EXCEPT ![Min(Free)] = Entry(TRUE, fd)]
  /\ node_count' = node_count + 1 /\ AllocNodeId
  /\ peer' = Append(peer, "none") /\ owner' = [owner EXCEPT ![fd] = Len(peer) + 1]
  /\ UNCHANGED <<unread, poller, control, pc, held>>

Drop(s) ==
  /\ nodes' = [nodes EXCEPT ![s] = Empty]
  /\ node_count' = node_count - 1

Disconnect(id) ==
  /\ FindNode(id) # {}
  /\ LET s == Min(FindNode(id)) IN
       /\ Drop(s) /\ Close({nodes[s].fd})
       /\ IF nodes[s].is_listener THEN UNCHANGED <<tags, fd_slots>> ELSE RemoveFd(nodes[s].fd)
  /\ UNCHANGED <<next_node_id, control, pc, held>>

(* Schedule() of the heartbeat, unless a scheduler runs it. *)
Schedule ==
  /\ scheduled \/ timers < LoopTimers
  /\ timers' = IF scheduled THEN timers ELSE timers + 1
  /\ timer_id' = ~scheduled

(* A task of the scheduler may still be in the round it was stopped in. *)
Start ==
  /\ opc = "idle" /\ ~running /\ Schedule
  /\ running' = TRUE /\ pc' = IF pc = "off" THEN "wait" ELSE pc
  /\ UNCHANGED <<scheduled, opc, nodes, node_count, next_node_id, kernel, poller, held>>

(* The thread cannot be created: its timer stays.  A Start() that finds no   *)
(* place for the task or the timer changes nothing.                          *)
StartFails ==
  /\ opc = "idle" /\ ~running /\ ~scheduled /\ Schedule
  /\ UNCHANGED <<scheduled, running, opc, nodes, node_count, next_node_id, kernel, poller, pc, held>>

(* Stop() also closes the connections of a manager that is not running. *)
Stop ==
  /\ opc = "idle"
  /\ running' = FALSE /\ opc' = "join"
  /\ UNCHANGED <<scheduled, timers, timer_id, nodes, node_count, next_node_id, kernel, poller, pc,
                 held>>

(* The loop thread is joined and the last timer cancelled, a task of the     *)
(* scheduler only removed; then the connections are closed, and their        *)
(* watches are not taken back.                                               *)
CloseAll ==
  /\ opc = "join" /\ (scheduled \/ pc = "off")
  /\ opc' = "idle"
  /\ timers' = IF timer_id THEN timers - 1 ELSE timers
  /\ timer_id' = FALSE
  /\ Close({nodes[s].fd : s \in Slots \ Free})
  /\ nodes' = [s \in Slots |-> Empty] /\ node_count' = 0
  /\ UNCHANGED <<scheduled, running, next_node_id, tags, fd_slots, pc, held>>

-----------------------------------------------------------------------------
(* The peers *)

PeerSends(c) ==
  /\ c <= Len(peer) /\ peer[c] = "up" /\ unread' = unread \cup {c}
  /\ UNCHANGED <<nodes, node_count, next_node_id, peer, owner, poller, control, pc, held>>

PeerCloses(c) ==
  /\ c <= Len(peer) /\ peer[c] = "up" /\ peer' = [peer EXCEPT ![c] = "closed"]
  /\ UNCHANGED <<nodes, node_count, next_node_id, unread, owner, poller, control, pc, held>>

-----------------------------------------------------------------------------
(* The thread that runs the hooks.  In Run() it sees stop_ between them. *)

LoopEnds ==
  /\ pc = "wait" /\ ~running /\ pc' = "off"
  /\ UNCHANGED <<nodes, node_count, next_node_id, kernel, poller, control, held>>

Ready(fd) == owner[fd] # 0 /\ (owner[fd] \in unread \/ peer[owner[fd]] \in {"closed", "reset"})

(* Wait() reports a descriptor together with its user_data. *)
PollerWait(fd) ==
  /\ pc = "wait" /\ running /\ ~scheduled
  /\ fd \in watched /\ Ready(fd)
  /\ event' = [fd |-> fd, id |-> tags[fd]] /\ pc' = "recv"
  /\ UNCHANGED <<nodes, node_count, next_node_id, kernel, poller, control, recvd, targets, gone>>

(* Recv() reads whatever connection the descriptor stands for by now. *)
OnFd ==
  /\ pc = "recv"
  /\ LET c == owner[event.fd] IN
       recvd' = IF c = 0 THEN "error"
                ELSE IF c \in unread THEN "bytes"
                ELSE CASE peer[c] = "closed" -> "fin" [] peer[c] = "up" -> "again"
                       [] OTHER -> "error"
  /\ unread' = unread \ {owner[event.fd]}
  /\ pc' = "apply"
  /\ UNCHANGED <<nodes, node_count, next_node_id, peer, owner, poller, control, event, targets, gone>>

(* last_heartbeat_us, or DisconnectByNodeId(). *)
Apply ==
  /\ pc = "apply"
  /\ LET own == Owns(event.id, event.fd) IN
     \/ /\ recvd = "again" \/ own = {}
        /\ pc' = "wait" /\ UNCHANGED <<nodes, node_count, kernel, poller, gone>>
     \/ /\ recvd = "bytes" /\ own # {}
        /\ nodes' = [s \in Slots |-> IF s \in own THEN [nodes[s] EXCEPT !.age = 0] ELSE nodes[s]]
        /\ pc' = "wait" /\ UNCHANGED <<node_count, kernel, poller, gone>>
     \/ /\ recvd \in {"fin", "error"} /\ own # {}
        /\ \E s \in own : Drop(s)
        /\ RemoveFd(event.fd) /\ Close({event.fd})
        /\ gone' = <<event.id>> /\ pc' = "report"
  /\ event' = NoEvent /\ recvd' = "none"
  /\ UNCHANGED <<next_node_id, control, targets>>

Beating == {s \in Slots : nodes[s].active /\ ~nodes[s].is_listener}

(* HeartbeatOnce(): the snapshot under the lock. *)
Snapshot ==
  /\ pc = "wait" /\ running /\ (scheduled \/ timers > 0)
  /\ targets' = [i \in 1 .. Cardinality(Beating) |->
                   LET s == CHOOSE r \in Beating : Cardinality({q \in Beating : q <= r}) = i IN
                   [id |-> nodes[s].node_id, fd |-> nodes[s].fd]]
  /\ pc' = "send"
  /\ UNCHANGED <<nodes, node_count, next_node_id, kernel, poller, control, event, recvd, gone>>

(* Send() on the descriptor.  The first one after the peer closed succeeds   *)
(* and is answered by a reset.                                               *)
SendHeartbeatByFd ==
  /\ pc = "send"
  /\ IF targets = <<>> THEN pc' = "collect" /\ UNCHANGED <<peer, targets>>
     ELSE LET c == owner[Head(targets).fd] IN
          IF c # 0 /\ peer[c] \in {"up", "closed"}
          THEN /\ peer' = [peer EXCEPT ![c] = IF @ = "closed" THEN "reset" ELSE @]
               /\ pc' = "credit" /\ UNCHANGED targets
          ELSE targets' = Tail(targets) /\ UNCHANGED <<peer, pc>>
  /\ UNCHANGED <<nodes, node_count, next_node_id, unread, owner, poller, control, event, recvd, gone>>

(* The time stamp was read just before Send(). *)
Credit ==
  /\ pc = "credit"
  /\ nodes' = [s \in Slots |-> IF s \in Owns(Head(targets).id, Head(targets).fd)
                               THEN [nodes[s] EXCEPT !.age = 0] ELSE nodes[s]]
  /\ targets' = Tail(targets) /\ pc' = "send"
  /\ UNCHANGED <<node_count, next_node_id, kernel, poller, control, event, recvd, gone>>

Expired == {s \in Beating : nodes[s].age > Timeout}

(* The sockets are closed; the watches of the loop are not taken back. *)
CollectTimeouts ==
  /\ pc = "collect"
  /\ nodes' = [s \in Slots |-> IF s \in Expired THEN Empty ELSE nodes[s]]
  /\ node_count' = node_count - Cardinality(Expired)
  /\ Close({nodes[s].fd : s \in Expired})
  /\ gone' = [i \in 1 .. Cardinality(Expired) |->
                nodes[CHOOSE r \in Expired : Cardinality({q \in Expired : q <= r}) = i].node_id]
  /\ pc' = "report"
  /\ UNCHANGED <<next_node_id, tags, fd_slots, control, event, recvd, targets>>

DisconnectCallback ==
  /\ pc = "report"
  /\ gone' = IF gone = <<>> THEN gone ELSE Tail(gone)
  /\ pc' = IF Len(gone) <= 1 THEN "wait" ELSE "report"
  /\ UNCHANGED <<nodes, node_count, next_node_id, kernel, poller, control, event, recvd, targets>>

Tick ==
  /\ nodes' = [s \in Slots |-> IF s \in Beating /\ nodes[s].age <= Timeout
                               THEN [nodes[s] EXCEPT !.age = @ + 1] ELSE nodes[s]]
  /\ UNCHANGED <<node_count, next_node_id, kernel, poller, control, pc, held>>

Loop ==
  \/ LoopEnds \/ Snapshot \/ \E f \in Fds : PollerWait(f)
  \/ OnFd \/ Apply \/ SendHeartbeatByFd \/ Credit \/ CollectTimeouts \/ DisconnectCallback

Next ==
  \/ \E f \in Fds : Connect(f) \/ CreateListener(f)
  \/ \E id \in 1 .. NodeIds : Disconnect(id)
  \/ Start \/ StartFails \/ Stop \/ CloseAll
  \/ \E c \in Conns : PeerSends(c) \/ PeerCloses(c)
  \/ Loop \/ Tick

(* The loop goes on, a Stop() that waits for it too, and time passes. *)
Spec ==
  /\ Init /\ [][Next]_vars /\ WF_vars(Loop) /\ WF_vars(CloseAll) /\ WF_vars(Tick)

-----------------------------------------------------------------------------
(* A connection is dropped by the loop thread only when its own peer closed  *)
(* it or nothing has vouched for it for the timeout: what the thread read    *)
(* from, or sent on, a descriptor that meanwhile stands for another          *)
(* connection is not held against that connection.  node_count_ is the       *)
(* number of entries in use whichever threads drop them.                     *)
DropDeserved ==
  [][/\ node_count' = Cardinality({s \in Slots : nodes'[s].active})
     /\ \A s \in Slots :
          nodes[s].active /\ ~nodes'[s].active /\ pc' # pc
            => peer[nodes[s].conn] \in {"closed", "reset"} \/ nodes[s].age > Timeout]_vars

(* A connection whose peer is gone is dropped while the manager runs, by the *)
(* event or, where the loop does not watch it, by the heartbeat.             *)
GoneIsDropped ==
  \A c \in Conns :
    []<>~(running /\ \E s \in Beating : nodes[s].conn = c /\ peer[c] # "up")
=============================================================================
