----------------------------- MODULE Discovery ------------------------------
(***************************************************************************)
(* osp::MulticastDiscovery: the receive thread that enters announcements   *)
(* in the node table and reports joins, the timeout check that takes       *)
(* silent nodes out and reports leaves, and Start() and Stop().  In legacy *)
(* mode the receive thread also checks timeouts; with a TimerScheduler the *)
(* scheduler's thread does.  Callbacks run after the lock is released.     *)
(* Time is kept as ages: the ticks since an announcement was entered and   *)
(* since a thread read the clock.                                          *)
(***************************************************************************)
EXTENDS Integers, Sequences, FiniteSets, FiniteSetsExt

CONSTANTS
  Names,            \* what nodes announce
  Self,             \* the local node, which hears itself
  MaxNodes,
  Timeout,          \* timeout_ms in ticks
  MaxLag,           \* bound: the ticks between reading the clock and locking
  MaxBacklog,       \* datagrams the socket holds; the rest are lost
  ClockMod,         \* differences of clock values are kept modulo this
  MaxStarts         \* bound: calls of Start()

VARIABLES
  scheduled,        \* scheduler_ is set
  running, sockfd,  \* running_, and whether the socket is open
  tasks, ids,       \* how often each task is registered with the scheduler,
                    \* and the tasks whose id is the one Stop() removes
  opc, starts,      \* the thread that starts and stops discovery
  apc,              \* the announce thread
  pc, lag,          \* the receive thread and the scheduler's, and their clock
  packet,           \* the announcement being processed
  leaving,          \* leave_copies of each thread
  socket,           \* datagrams received and not yet read
  nodes,            \* nodes_: name, alive, and the age of last_seen_us
  node_count,
  balance           \* history: the joins less the leaves reported of a name

vars == <<scheduled, running, sockfd, tasks, ids, opc, starts, apc, pc, lag, packet,
          leaving, socket, nodes, node_count, balance>>
owner == <<running, sockfd, tasks, ids, opc, starts>>
table == <<nodes, node_count>>

Slots == 1 .. MaxNodes
Threads == {"recv", "timer"}
Tasks == {"announce", "timeout"}
Oldest == Timeout + 1 + MaxLag
Older(age) == IF age < Oldest THEN age + 1 ELSE Oldest
None == [name |-> Self, alive |-> FALSE, age |-> 0]

Init ==
  /\ scheduled \in BOOLEAN
  /\ running = FALSE /\ sockfd = FALSE
  /\ tasks = [k \in Tasks |-> 0] /\ ids = {}
  /\ opc = "idle" /\ starts = 0 /\ apc = "off"
  /\ pc = [t \in Threads |-> IF t = "timer" THEN "top" ELSE "off"]
  /\ lag = [t \in Threads |-> 0]
  /\ packet = Self /\ leaving = [t \in Threads |-> <<>>] /\ socket = <<>>
  /\ nodes = [s \in Slots |-> None] /\ node_count = 0
  /\ balance = [n \in Names |-> 0]

-----------------------------------------------------------------------------
(* Start() and Stop() *)

(* Add() of the two tasks: a scheduler that is full refuses them, and the  *)
(* id of an earlier start stays.                                           *)
AddTasks ==
  \E added \in IF scheduled THEN SUBSET Tasks ELSE {{}} :
    /\ tasks' = [k \in Tasks |-> IF k \in added THEN tasks[k] + 1 ELSE tasks[k]]
    /\ ids' = ids \cup added

Start ==
  /\ opc = "idle" /\ ~running /\ starts < MaxStarts
  /\ starts' = starts + 1
  /\ running' = TRUE /\ sockfd' = TRUE /\ socket' = <<>>
  /\ AddTasks
  /\ apc' = IF scheduled THEN "off" ELSE "on"
  /\ pc' = [pc EXCEPT !["recv"] = "top"]
  /\ UNCHANGED <<scheduled, opc, lag, packet, leaving, table, balance>>

(* A thread that cannot be created: the socket stays open and the tasks stay *)
(* registered, since Stop() does nothing to what is not running.             *)
StartFails ==
  /\ opc = "idle" /\ ~running /\ starts < MaxStarts
  /\ starts' = starts + 1
  /\ sockfd' = TRUE /\ socket' = <<>> /\ AddTasks
  /\ UNCHANGED <<scheduled, running, opc, apc, pc, lag, packet, leaving, table, balance>>

Stop ==
  /\ opc = "idle" /\ running
  /\ running' = FALSE /\ opc' = "close"
  /\ UNCHANGED <<scheduled, sockfd, tasks, ids, starts, apc, pc, lag, packet, leaving, socket,
                 table, balance>>

CloseSocket ==
  /\ opc = "close"
  /\ sockfd' = FALSE /\ socket' = <<>> /\ opc' = "remove"
  /\ UNCHANGED <<scheduled, running, tasks, ids, starts, apc, pc, lag, packet, leaving, table, balance>>

(* Remove() of the tasks, or the join of the announce thread. *)
EndAnnouncing ==
  /\ opc = "remove" /\ apc = "off"
  /\ tasks' = [k \in Tasks |-> IF k \in ids THEN tasks[k] - 1 ELSE tasks[k]] /\ ids' = {}
  /\ opc' = "join"
  /\ UNCHANGED <<scheduled, running, sockfd, starts, apc, pc, lag, packet, leaving, socket,
                 table, balance>>

JoinReceiver ==
  /\ opc = "join" /\ pc["recv"] = "off"
  /\ opc' = "idle"
  /\ UNCHANGED <<scheduled, running, sockfd, tasks, ids, starts, apc, pc, lag, packet, leaving,
                 socket, table, balance>>

-----------------------------------------------------------------------------
(* Announcements *)

Arrives(name) == socket' = IF sockfd /\ Len(socket) < MaxBacklog
                           THEN Append(socket, name) ELSE socket

PeerAnnounce(name) ==
  /\ name # Self /\ Arrives(name)
  /\ UNCHANGED <<scheduled, owner, apc, pc, lag, packet, leaving, table, balance>>

AnnounceLoop ==
  /\ apc = "on"
  /\ IF running THEN Arrives(Self) /\ UNCHANGED apc ELSE apc' = "off" /\ UNCHANGED socket
  /\ UNCHANGED <<scheduled, owner, pc, lag, packet, leaving, table, balance>>

AnnounceTick ==
  /\ tasks["announce"] > 0 /\ pc["timer"] = "top" /\ Arrives(Self)
  /\ UNCHANGED <<scheduled, owner, apc, pc, lag, packet, leaving, table, balance>>

-----------------------------------------------------------------------------
(* The receive thread.  One datagram is read in each round. *)

Go(t, to) == pc' = [pc EXCEPT ![t] = to]
Round == IF scheduled THEN "top" ELSE "clock"
Processed == Go("recv", Round) /\ packet' = Self

ReceiveTop ==
  /\ pc["recv"] = "top"
  /\ Go("recv", IF running THEN "read" ELSE "off")
  /\ UNCHANGED <<scheduled, owner, apc, lag, packet, leaving, socket, table, balance>>

(* recvfrom() and the clock read of ProcessAnnounce(). *)
Receive ==
  /\ pc["recv"] = "read"
  /\ IF sockfd /\ socket # <<>>
     THEN packet' = Head(socket) /\ socket' = Tail(socket) /\ Go("recv", "enter")
     ELSE Go("recv", Round) /\ UNCHANGED <<packet, socket>>
  /\ lag' = [lag EXCEPT !["recv"] = 0]
  /\ UNCHANGED <<scheduled, owner, apc, leaving, table, balance>>

Known(name) == {s \in Slots : nodes[s].alive /\ nodes[s].name = name}
Free == {s \in Slots : ~nodes[s].alive}
Places(name) == IF Known(name) # {} THEN Known(name) ELSE Free

Enter(s, name) ==
  /\ nodes' = [nodes EXCEPT ![s] = [name |-> name, alive |-> TRUE, age |-> lag["recv"]]]
  /\ node_count' = IF nodes[s].alive THEN node_count ELSE node_count + 1
  /\ IF nodes[s].alive THEN Processed ELSE Go("recv", "joined") /\ UNCHANGED packet

(* The first slot of the name, else the first free one, else none. *)
ProcessAnnounce ==
  /\ pc["recv"] = "enter"
  /\ IF Places(packet) = {} THEN Processed /\ UNCHANGED table
     ELSE Enter(Min(Places(packet)), packet)
  /\ UNCHANGED <<scheduled, owner, apc, lag, leaving, socket, balance>>

JoinCallback ==
  /\ pc["recv"] = "joined"
  /\ balance' = [balance EXCEPT ![packet] = @ + 1] /\ Processed
  /\ UNCHANGED <<scheduled, owner, apc, lag, leaving, socket, table>>

-----------------------------------------------------------------------------
(* CheckTimeouts(), on the receive thread or the scheduler's *)

TimeoutTick ==
  /\ tasks["timeout"] > 0 /\ pc["timer"] = "top" /\ Go("timer", "clock")
  /\ UNCHANGED <<scheduled, owner, apc, lag, packet, leaving, socket, table, balance>>

ReadClock(t) ==
  /\ pc[t] = "clock"
  /\ lag' = [lag EXCEPT ![t] = 0] /\ Go(t, "check")
  /\ UNCHANGED <<scheduled, owner, apc, packet, leaving, socket, table, balance>>

(* now - last_seen_us, from a clock read lag ticks ago: an announcement may   *)
(* have been entered since, and the difference is unsigned.                  *)
Elapsed(s, t) == nodes[s].age - lag[t]

(* Mutant: the difference alone decides. *)
Expired_NoOrder(s, t) == Elapsed(s, t) % ClockMod > Timeout

Expired(s, t) == Elapsed(s, t) > 0 /\ Elapsed(s, t) % ClockMod > Timeout

TimedOut(t) == {s \in Slots : nodes[s].alive /\ Expired(s, t)}

Collect(t) ==
  /\ pc[t] = "check"
  /\ nodes' = [s \in Slots |-> IF s \in TimedOut(t) THEN None ELSE nodes[s]]
  /\ node_count' = node_count - Cardinality(TimedOut(t))
  /\ leaving' = [leaving EXCEPT ![t] =
                   [i \in 1 .. Cardinality(TimedOut(t)) |->
                      nodes[CHOOSE s \in TimedOut(t) :
                              Cardinality({r \in TimedOut(t) : r <= s}) = i].name]]
  /\ Go(t, "leave")
  /\ UNCHANGED <<scheduled, owner, apc, lag, packet, socket, balance>>

LeaveCallback(t) ==
  /\ pc[t] = "leave"
  /\ IF leaving[t] = <<>> THEN Go(t, "top") /\ UNCHANGED <<leaving, balance>>
     ELSE /\ balance' = [balance EXCEPT ![Head(leaving[t])] = @ - 1]
          /\ leaving' = [leaving EXCEPT ![t] = Tail(@)]
          /\ UNCHANGED pc
  /\ UNCHANGED <<scheduled, owner, apc, lag, packet, socket, table>>

-----------------------------------------------------------------------------
Timing(t) == pc[t] \in {"enter", "check"}

Tick ==
  /\ \A t \in Threads : Timing(t) => lag[t] < MaxLag
  /\ lag' = [t \in Threads |-> IF Timing(t) THEN lag[t] + 1 ELSE 0]
  /\ nodes' = [s \in Slots |-> [nodes[s] EXCEPT !.age = IF nodes[s].alive THEN Older(@) ELSE @]]
  /\ UNCHANGED <<scheduled, owner, apc, pc, packet, leaving, socket, node_count, balance>>

Receiver == ReceiveTop \/ Receive \/ ProcessAnnounce \/ JoinCallback
              \/ ReadClock("recv") \/ Collect("recv") \/ LeaveCallback("recv")
TimerThread == TimeoutTick \/ ReadClock("timer") \/ Collect("timer") \/ LeaveCallback("timer")
Stopping == CloseSocket \/ EndAnnouncing \/ JoinReceiver

Next ==
  \/ Start \/ StartFails \/ Stop \/ Stopping
  \/ AnnounceLoop \/ AnnounceTick \/ \E n \in Names : PeerAnnounce(n)
  \/ Receiver \/ TimerThread \/ Tick

(* The threads and the clock go on; nobody has to announce. *)
Spec ==
  /\ Init /\ [][Next]_vars
  /\ WF_vars(Receiver) /\ WF_vars(TimerThread) /\ WF_vars(AnnounceLoop) /\ WF_vars(Stopping)
  /\ WF_vars(Tick)

-----------------------------------------------------------------------------
Joining(n) == IF pc["recv"] = "joined" /\ packet = n THEN 1 ELSE 0
Leaving(n) == Cardinality({<<t, i>> \in Threads \X Slots :
                             i \in DOMAIN leaving[t] /\ leaving[t][i] = n})

(* A node has one slot and node_count_ counts the slots in use.  Every stay  *)
(* in the table is reported by one join and one leave: but for the callbacks *)
(* still due, the joins of a name exceed its leaves by one exactly while it  *)
(* is in the table, also across Stop() and Start() and when it announces     *)
(* itself again before its leave is reported; and where one thread makes all *)
(* the calls, joins and leaves alternate.                                    *)
NodesReported ==
  /\ \A n \in Names :
       /\ Cardinality(Known(n)) <= 1
       /\ balance[n] = Cardinality(Known(n)) - Joining(n) + Leaving(n)
       /\ ~scheduled => balance[n] \in {0, 1}
  /\ node_count = Cardinality({s \in Slots : nodes[s].alive})

(* A node is taken out of the table only when it has really been silent for  *)
(* longer than the timeout, also when CheckTimeouts() read the clock before  *)
(* an announcement was entered that it then finds, of which the unsigned     *)
(* difference of the clock values would make a long silence.                 *)
LeaveDeserved ==
  [][\A s \in Slots : nodes[s].alive /\ ~nodes'[s].alive => nodes[s].age > Timeout]_vars

(* A node that falls silent leaves while discovery runs, with a scheduler    *)
(* if that took the timeout task.                                            *)
SilentLeaves ==
  LET checked == running /\ (scheduled => tasks["timeout"] > 0) IN
    \A s \in Slots : []<>~(checked /\ nodes[s].alive /\ nodes[s].age > Timeout)
=============================================================================
