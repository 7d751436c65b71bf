------------------------------ MODULE BusQueue ------------------------------
(***************************************************************************)
(* What the ring of osp::AsyncBus promises, without sequence numbers and   *)
(* positions: a queue of at most Depth places, delivered from its head in  *)
(* the order the places were claimed.  A place is claimed first and filled *)
(* later.  A message of priority High may take the place of a pending      *)
(* message of lower priority, which is then lost; nothing else is ever     *)
(* lost, repeated or altered.                                              *)
(***************************************************************************)
EXTENDS Naturals, Sequences

CONSTANTS Depth,    \* capacity of the queue
          High,     \* the highest priority
          Messages  \* records with at least the fields id and prio

VARIABLES queue,     \* places, oldest first
          delivered, \* messages handed to the subscribers, in order
          evicted    \* ids of the messages replaced by one of priority High

vars == <<queue, delivered, evicted>>

Empty == [st |-> "claimed"]
Holding(m) == [st |-> "ready", msg |-> m]

Ids == {queue[i].msg.id : i \in {j \in DOMAIN queue : queue[j].st = "ready"}}
         \cup {delivered[i].id : i \in DOMAIN delivered} \cup evicted

Init == queue = <<>> /\ delivered = <<>> /\ evicted = {}

Claim ==
  /\ Len(queue) < Depth
  /\ queue' = Append(queue, Empty)
  /\ UNCHANGED <<delivered, evicted>>

Fill(i, m) ==
  /\ queue[i].st = "claimed" /\ m.id \notin Ids
  /\ queue' = [queue EXCEPT ![i] = Holding(m)]
  /\ UNCHANGED <<delivered, evicted>>

Replace(i, m) ==
  /\ queue[i].st = "ready" /\ queue[i].msg.prio < High
  /\ m.prio = High /\ m.id \notin Ids
  /\ queue' = [queue EXCEPT ![i] = Holding(m)]
  /\ evicted' = evicted \cup {queue[i].msg.id}
  /\ UNCHANGED delivered

Deliver ==
  /\ queue # <<>> /\ Head(queue).st = "ready"
  /\ delivered' = Append(delivered, Head(queue).msg)
  /\ queue' = Tail(queue)
  /\ UNCHANGED evicted

Next ==
  \/ Claim
  \/ \E i \in DOMAIN queue, m \in Messages : Fill(i, m) \/ Replace(i, m)
  \/ Deliver

Spec == Init /\ [][Next]_vars
=============================================================================
