---------------------------- MODULE NetworkNode -----------------------------
(***************************************************************************)
(* osp::NetworkNode over TcpTransport: one node forwards what is published *)
(* on its bus (AdvertiseTo); another one accepts or opens connections,     *)
(* receives frames into a ring per connection (ReceiveToBuffer) and hands  *)
(* them to its own bus (DispatchFromBuffer), on two threads or, with       *)
(* ProcessRemote, on one.  The sockets block.  A frame is its number on    *)
(* its connection: both ends are built with the same frame size, so that   *)
(* RecvFrame meets whole v0 frames or the end of the stream.  The rings    *)
(* are the queues of BoundedFifo.                                          *)
(***************************************************************************)
EXTENDS Integers, Sequences, FiniteSets, FiniteSetsExt

CONSTANTS
  MaxConns,     \* bound: connections ever made
  Builds,       \* kMaxRemoteConnections, whether one thread calls
                \* ProcessRemote(), and a bound: the frames ever sent
  Depth,        \* OSP_TRANSPORT_RECV_RING_DEPTH
  CountWrap     \* sub_count_ is kept modulo this

VARIABLES
  conns,        \* per connection: its state, the frames on their way; history
  pubs, pub_count,
  subs, sub_count, recv_ring_drops,
  backlog,      \* connections the listener has not accepted yet
  app,          \* the thread in AcceptOne() or SubscribeFrom()
  io, disp,     \* the threads in ReceiveToBuffer() and DispatchFromBuffer()
  build         \* one of Builds

vars == <<conns, pubs, pub_count, subs, sub_count, recv_ring_drops,
          backlog, app, io, disp, build>>
sender == <<pubs, pub_count>>

Conns == 1 .. MaxConns
MaxRemote == build.remotes
single == build.single
Slots == 1 .. MaxRemote
None == 0
Idle == [pc |-> "idle", i |-> None, conn |-> None]

Init ==
  /\ build \in Builds
  /\ conns = [k \in Conns |-> [state |-> "new", wire |-> <<>>,
                               sent |-> 0, cut |-> 0, done |-> <<>>]]
  /\ pubs = [s \in Slots |-> [active |-> FALSE, conn |-> None, connected |-> FALSE]]
  /\ pub_count = 0
  /\ subs = [s \in Slots |-> [active |-> FALSE, conn |-> None,
                              connected |-> FALSE, ring |-> <<>>]]
  /\ sub_count = 0 /\ recv_ring_drops = 0 /\ backlog = <<>>
  /\ app = Idle
  /\ io = [pc |-> "check", i |-> 1, frame |-> None]
  /\ disp = [i |-> 1, draining |-> FALSE]
  

-----------------------------------------------------------------------------
(* The connections *)

Fresh == {k \in Conns : conns[k].state = "new"}

(* A connection ends: what was on its way is lost from some frame on. *)
Cut(k, n) ==
  [conns EXCEPT ![k].state = "down", ![k].wire = SubSeq(@, 1, n),
                ![k].cut = @ + Len(conns[k].wire) - n]

ConnectionFails(k) ==
  /\ conns[k].state = "up"
  /\ \E n \in 0 .. Len(conns[k].wire) : conns' = Cut(k, n)
  /\ UNCHANGED <<sender, subs, sub_count, recv_ring_drops, backlog, app, io, disp, build>>

MayBeSent == MapThenSumSet(LAMBDA k : conns[k].sent, Conns) < build.frames
Sent(k) == [conns EXCEPT ![k].sent = @ + 1, ![k].wire = Append(@, conns[k].sent + 1)]

(* An endpoint that SubscribeFrom() connected to sends a frame. *)
EndpointSends(k) ==
  /\ conns[k].state = "up" /\ MayBeSent
  /\ \A s \in Slots : pubs[s].conn # k
  /\ conns' = Sent(k)
  /\ UNCHANGED <<sender, subs, sub_count, recv_ring_drops, backlog, app, io, disp, build>>

-----------------------------------------------------------------------------
(* The publishing node *)

(* AdvertiseTo(): the forwarding callback is subscribed once the peer is   *)
(* connected; a failed Connect() changes nothing.                          *)
AdvertiseTo ==
  LET free == {s \in Slots : ~pubs[s].active} IN
    /\ pub_count < MaxRemote /\ free # {} /\ Fresh # {}
    /\ LET k == Min(Fresh) IN
         /\ conns' = [conns EXCEPT ![k].state = "up"] /\ backlog' = Append(backlog, k)
         /\ pubs' = [pubs EXCEPT ![Min(free)] =
                       [active |-> TRUE, conn |-> k, connected |-> TRUE]]
    /\ pub_count' = pub_count + 1
    /\ UNCHANGED <<subs, sub_count, recv_ring_drops, app, io, disp, build>>

(* The bus has no place for the callback: the new connection is closed and *)
(* the publisher given back.                                               *)
AdvertiseFails ==
  /\ pub_count < MaxRemote /\ Fresh # {}
  /\ conns' = [conns EXCEPT ![Min(Fresh)].state = "down"]
  /\ backlog' = Append(backlog, Min(Fresh))
  /\ UNCHANGED <<sender, subs, sub_count, recv_ring_drops, app, io, disp, build>>

(* The forwarding callback: SendFrame() on a broken connection marks the   *)
(* transport, and the publisher stays.                                     *)
Forward(s) ==
  LET k == pubs[s].conn IN
    /\ pubs[s].active /\ pubs[s].connected
    /\ IF conns[k].state = "up"
       THEN MayBeSent /\ conns' = Sent(k) /\ UNCHANGED pubs
       ELSE pubs' = [pubs EXCEPT ![s].connected = FALSE] /\ UNCHANGED conns
    /\ UNCHANGED <<pub_count, subs, sub_count, recv_ring_drops, backlog, app, io,
                   disp, build>>

-----------------------------------------------------------------------------
(* AcceptOne() and SubscribeFrom() of the receiving node *)

Accept ==
  /\ app.pc = "idle" /\ backlog # <<>>
  /\ app' = [pc |-> "scan", i |-> 1, conn |-> Head(backlog)]
  /\ backlog' = Tail(backlog)
  /\ UNCHANGED <<conns, sender, subs, sub_count, recv_ring_drops, io, disp, build>>

SubscribeFrom ==
  /\ app.pc = "idle" /\ sub_count < MaxRemote
  /\ app' = [pc |-> "scan", i |-> 1, conn |-> None]
  /\ UNCHANGED <<conns, sender, subs, sub_count, recv_ring_drops, backlog, io, disp, build>>

ScanNext ==
  /\ app.pc = "scan" /\ app.i <= MaxRemote /\ subs[app.i].active
  /\ app' = [app EXCEPT !.i = @ + 1]
  /\ UNCHANGED <<conns, sender, subs, sub_count, recv_ring_drops, backlog, io, disp, build>>

(* Every slot was taken: an accepted socket is closed as it goes out of scope. *)
ScanFull ==
  /\ app.pc = "scan" /\ app.i > MaxRemote
  /\ conns' = IF app.conn = None THEN conns ELSE Cut(app.conn, 0)
  /\ app' = Idle
  /\ UNCHANGED <<sender, subs, sub_count, recv_ring_drops, backlog, io, disp, build>>

(* AcceptFrom(), or Connect() which may fail.  The frames that an earlier  *)
(* connection left in the ring stay there.                                 *)
Bind(k) ==
  /\ subs' = [subs EXCEPT ![app.i].active = TRUE, ![app.i].conn = k,
                          ![app.i].connected = TRUE]
  /\ app' = [app EXCEPT !.pc = "count"]

FoundSlot ==
  /\ app.pc = "scan" /\ app.i <= MaxRemote /\ ~subs[app.i].active
  /\ \/ app.conn # None /\ Bind(app.conn) /\ UNCHANGED conns
     \/ /\ app.conn = None /\ Fresh # {}
        /\ Bind(Min(Fresh)) /\ conns' = [conns EXCEPT ![Min(Fresh)].state = "up"]
     \/ app.conn = None /\ app' = Idle /\ UNCHANGED <<conns, subs>>
  /\ UNCHANGED <<sender, sub_count, recv_ring_drops, backlog, io, disp, build>>

CountSubscriber ==
  /\ app.pc = "count"
  /\ sub_count' = (sub_count + 1) % CountWrap /\ app' = Idle
  /\ UNCHANGED <<conns, sender, subs, recv_ring_drops, backlog, io, disp, build>>

-----------------------------------------------------------------------------
(* ReceiveToBuffer(), called again and again: one frame of each subscriber *)

NextSubscriber ==
  IF io.i < MaxRemote THEN [pc |-> "check", i |-> io.i + 1, frame |-> None]
  ELSE [pc |-> IF single THEN "dispatch" ELSE "check", i |-> 1, frame |-> None]

ReceiveCheck ==
  LET s == subs[io.i] IN
    /\ io.pc = "check"
    /\ \/ ~s.active /\ io' = NextSubscriber /\ UNCHANGED subs
       \/ /\ s.active /\ ~s.connected
          /\ subs' = [subs EXCEPT ![io.i].active = FALSE]
          /\ io' = [io EXCEPT !.pc = "uncount"]
       \/ s.active /\ s.connected /\ io' = [io EXCEPT !.pc = "recv"] /\ UNCHANGED subs
    /\ UNCHANGED <<conns, sender, sub_count, recv_ring_drops, backlog, app, disp, build>>

UncountSubscriber ==
  /\ io.pc = "uncount"
  /\ sub_count' = (sub_count - 1) % CountWrap /\ io' = NextSubscriber
  /\ UNCHANGED <<conns, sender, subs, recv_ring_drops, backlog, app, disp, build>>

(* RecvFrame() blocks until there is a frame or the stream has ended. *)
RecvFrame ==
  LET k == subs[io.i].conn IN
    /\ io.pc = "recv"
    /\ \/ /\ conns[k].wire # <<>>
          /\ conns' = [conns EXCEPT ![k].wire = Tail(@)]
          /\ io' = [io EXCEPT !.pc = "push", !.frame = Head(conns[k].wire)]
          /\ UNCHANGED subs
       \/ /\ conns[k].wire = <<>> /\ conns[k].state = "down"
          /\ subs' = [subs EXCEPT ![io.i].connected = FALSE]
          /\ io' = NextSubscriber /\ UNCHANGED conns
    /\ UNCHANGED <<sender, sub_count, recv_ring_drops, backlog, app, disp, build>>

Received == [conn |-> subs[io.i].conn, n |-> io.frame]

(* Mutant: a frame that finds the ring full replaces the last one silently. *)
PushFrame_Overwrites ==
  LET ring == subs[io.i].ring IN
    /\ io.pc = "push" /\ io' = NextSubscriber
    /\ subs' = [subs EXCEPT ![io.i].ring =
                  Append(IF Len(ring) < Depth THEN ring ELSE SubSeq(ring, 1, Depth - 1), Received)]
    /\ UNCHANGED <<conns, sender, sub_count, recv_ring_drops, backlog, app, disp, build>>

PushFrame ==
  LET ring == subs[io.i].ring IN
    /\ io.pc = "push" /\ io' = NextSubscriber
    /\ IF Len(ring) < Depth
       THEN /\ subs' = [subs EXCEPT ![io.i].ring = Append(ring, Received)]
            /\ UNCHANGED recv_ring_drops
       ELSE recv_ring_drops' = recv_ring_drops + 1 /\ UNCHANGED subs
    /\ UNCHANGED <<conns, sender, sub_count, backlog, app, disp, build>>

-----------------------------------------------------------------------------
(* DispatchFromBuffer() *)

MayDispatch == single => io.pc = "dispatch"

NextRing ==
  /\ disp' = [i |-> (disp.i % MaxRemote) + 1, draining |-> FALSE]
  /\ io' = IF single /\ disp.i = MaxRemote THEN [io EXCEPT !.pc = "check"] ELSE io

DispatchCheck ==
  /\ MayDispatch /\ ~disp.draining
  /\ IF subs[disp.i].active THEN disp' = [disp EXCEPT !.draining = TRUE] /\ UNCHANGED io
                            ELSE NextRing
  /\ UNCHANGED <<conns, sender, subs, sub_count, recv_ring_drops, backlog, app, build>>

(* Pop() and DeserializeAndPublish(), until the ring is empty. *)
DispatchPop ==
  LET ring == subs[disp.i].ring IN
    /\ MayDispatch /\ disp.draining
    /\ IF ring = <<>> THEN NextRing /\ UNCHANGED <<conns, subs>>
       ELSE /\ subs' = [subs EXCEPT ![disp.i].ring = Tail(ring)]
            /\ conns' = [conns EXCEPT ![Head(ring).conn].done = Append(@, Head(ring).n)]
            /\ UNCHANGED <<io, disp>>
    /\ UNCHANGED <<sender, sub_count, recv_ring_drops, backlog, app, build>>

-----------------------------------------------------------------------------
AppStep == ScanNext \/ ScanFull \/ FoundSlot \/ CountSubscriber
ReceiveToBuffer == ReceiveCheck \/ UncountSubscriber \/ RecvFrame \/ PushFrame
DispatchFromBuffer == DispatchCheck \/ DispatchPop

Next ==
  \/ \E k \in Conns : ConnectionFails(k) \/ EndpointSends(k)
  \/ AdvertiseTo \/ AdvertiseFails \/ \E s \in Slots : Forward(s)
  \/ Accept \/ SubscribeFrom \/ AppStep
  \/ ReceiveToBuffer \/ DispatchFromBuffer

(* The two loops go on; a peer need not send, nor the application accept.  *)
Fairness == WF_vars(ReceiveToBuffer) /\ WF_vars(DispatchFromBuffer)

Spec == Init /\ [][Next]_vars /\ Fairness

-----------------------------------------------------------------------------
(* Properties *)

Active == {s \in Slots : subs[s].active}

(* The frames of connection k in the order in which they will leave. *)
Stream(k) ==
  LET slot == {s \in Slots : \E j \in DOMAIN subs[s].ring : subs[s].ring[j].conn = k}
      OfK(f) == f.conn = k
      mine == IF slot = {} THEN <<>> ELSE SelectSeq(subs[Min(slot)].ring, OfK)
      hand == IF io.pc = "push" /\ subs[io.i].conn = k THEN <<io.frame>> ELSE <<>>
  IN conns[k].done \o [j \in DOMAIN mine |-> mine[j].n] \o hand \o conns[k].wire

(* However often slots are given to new connections with frames of the old *)
(* one still in the ring, the frames of each connection reach the bus in   *)
(* the order they were sent, none twice, and those missing are the ones    *)
(* that the broken connections lost and the ones recv_ring_drops_ counts.  *)
StreamsInOrder ==
  LET Missing(k) == conns[k].sent - conns[k].cut - Len(Stream(k)) IN
    /\ \A k \in Conns : \A j \in 2 .. Len(Stream(k)) : Stream(k)[j - 1] < Stream(k)[j]
    /\ MapThenSumSet(Missing, Conns) = recv_ring_drops

(* No two subscribers share a connection, and RemoteSubscriberCount() is   *)
(* the number of active ones but for the call in between its two updates.  *)
SubscribersCounted ==
  /\ \A s, t \in Active : subs[s].conn = subs[t].conn => s = t
  /\ LET adding == IF app.pc = "count" THEN 1 ELSE 0
         taking == IF io.pc = "uncount" THEN 1 ELSE 0
     IN sub_count = (Cardinality(Active) - adding + taking) % CountWrap

(* With a dispatch thread the ring of an active subscriber is emptied; and *)
(* the slot of a connection that has ended is freed, unless the I/O thread *)
(* waits for a frame of a subscriber that is silent.                       *)
BuffersDrain ==
  LET waiting == /\ io.pc = "recv" /\ conns[subs[io.i].conn].state = "up"
                 /\ conns[subs[io.i].conn].wire = <<>>
      Ended(s) == s \in Active /\ conns[subs[s].conn].state = "down"
  IN \A s \in 1 .. Max({b.remotes : b \in Builds}) :
       /\ []<>(s \in Active => single \/ subs[s].ring = <<>>)
       /\ []<>(Ended(s) => waiting)
=============================================================================
