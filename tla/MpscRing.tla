------------------------------ MODULE MpscRing ------------------------------
(***************************************************************************)
(* The multi-producer single-consumer ring with one sequence number per    *)
(* slot that newosp has three copies of: osp::EventQueue (hsm.hpp),        *)
(* detail::FaultRingBuffer (fault_collector.hpp) and osp::ShmRingBuffer    *)
(* (shm_transport.hpp).  They differ in what TryPush does on finding a     *)
(* slot that is neither free nor behind: the first two reload and retry    *)
(* (retry), the third returns false.                                       *)
(*                                                                         *)
(* One action is one access to a shared atomic.  Positions are naturals:   *)
(* the signed differences of the code compare positions less than 2^31     *)
(* apart.                                                                  *)
(***************************************************************************)
EXTENDS Integers, Sequences

CONSTANTS
  Producers,
  Depth,
  MaxCalls       \* bound on the number of TryPush calls

ASSUME RingAssumption ==
  /\ Depth \in Nat /\ Depth > 1
  /\ MaxCalls \in Nat

Slots == 0 .. Depth - 1
Slot(p) == p % Depth

VARIABLES
  retry,                  \* which copy of the ring: constant over a behaviour
  sequence, event, producer_pos, consumer_pos,
  pc, pos, item,          \* locals of each TryPush
  cpc,                    \* TryPop
  calls, delivered        \* history

ring == <<retry, sequence, event, producer_pos, consumer_pos>>
locals == <<pc, pos, item>>
history == <<calls, delivered>>
vars == <<ring, locals, cpc, history>>

Init ==
  /\ retry \in BOOLEAN
  /\ sequence = [s \in Slots |-> s]
  /\ event = [s \in Slots |-> 0]
  /\ producer_pos = 0 /\ consumer_pos = 0
  /\ pc = [p \in Producers |-> "idle"]
  /\ pos = [p \in Producers |-> 0]
  /\ item = [p \in Producers |-> 0]
  /\ cpc = "idle" /\ calls = 0 /\ delivered = <<>>

Goto(p, from, to) == pc[p] = from /\ pc' = [pc EXCEPT ![p] = to]

Return(p) ==
  /\ pc' = [pc EXCEPT ![p] = "idle"]
  /\ pos' = [pos EXCEPT ![p] = 0]
  /\ item' = [item EXCEPT ![p] = 0]

-----------------------------------------------------------------------------
(* TryPush *)

Begin(p) ==
  /\ calls < MaxCalls
  /\ Goto(p, "idle", "load")
  /\ calls' = calls + 1
  /\ item' = [item EXCEPT ![p] = calls + 1]
  /\ UNCHANGED <<ring, pos, cpc, delivered>>

LoadPos(p) ==
  /\ Goto(p, "load", "check")
  /\ pos' = [pos EXCEPT ![p] = producer_pos]
  /\ UNCHANGED <<ring, item, cpc, history>>

SlotFree(p) ==
  /\ sequence[Slot(pos[p])] = pos[p]
  /\ Goto(p, "check", "cas")
  /\ UNCHANGED <<ring, pos, item, cpc, history>>

(* The slot still holds the previous lap: full. *)
SlotBehind(p) ==
  /\ pc[p] = "check" /\ sequence[Slot(pos[p])] < pos[p]
  /\ Return(p)
  /\ UNCHANGED <<ring, cpc, history>>

(* Another producer has been here since producer_pos was read. *)
SlotAhead(p) ==
  /\ pc[p] = "check" /\ sequence[Slot(pos[p])] > pos[p]
  /\ IF retry
       THEN Goto(p, "check", "load") /\ UNCHANGED <<pos, item>>
       ELSE Return(p)
  /\ UNCHANGED <<ring, cpc, history>>

Claim(p) ==
  /\ producer_pos = pos[p]
  /\ Goto(p, "cas", "fill")
  /\ producer_pos' = producer_pos + 1
  /\ UNCHANGED <<retry, sequence, event, consumer_pos, pos, item, cpc, history>>

(* A failed exchange reloads the position; the weak one may fail spuriously. *)
ClaimFails(p) ==
  /\ Goto(p, "cas", "load")
  /\ UNCHANGED <<ring, pos, item, cpc, history>>

Fill(p) ==
  /\ Goto(p, "fill", "publish")
  /\ event' = [event EXCEPT ![Slot(pos[p])] = item[p]]
  /\ UNCHANGED <<retry, sequence, producer_pos, consumer_pos, pos, item, cpc, history>>

(* Mutant: the slot is filled but not published. *)
Publish_NoSequence(p) ==
  /\ pc[p] = "publish"
  /\ Return(p)
  /\ UNCHANGED <<ring, cpc, history>>

Publish(p) ==
  /\ pc[p] = "publish"
  /\ sequence' = [sequence EXCEPT ![Slot(pos[p])] = pos[p] + 1]
  /\ Return(p)
  /\ UNCHANGED <<retry, event, producer_pos, consumer_pos, cpc, history>>

-----------------------------------------------------------------------------
(* TryPop: an empty answer leaves the state unchanged. *)

(* Mutant: a claimed slot is taken for a published one. *)
SeeEvent_Early ==
  /\ cpc = "idle" /\ sequence[Slot(consumer_pos)] >= consumer_pos
  /\ cpc' = "copy"
  /\ UNCHANGED <<ring, locals, history>>

SeeEvent ==
  /\ cpc = "idle" /\ sequence[Slot(consumer_pos)] >= consumer_pos + 1
  /\ cpc' = "copy"
  /\ UNCHANGED <<ring, locals, history>>

CopyEvent ==
  /\ cpc = "copy" /\ cpc' = "free"
  /\ delivered' = Append(delivered, event[Slot(consumer_pos)])
  /\ UNCHANGED <<ring, locals, calls>>

FreeSlot ==
  /\ cpc = "free" /\ cpc' = "advance"
  /\ sequence' = [sequence EXCEPT ![Slot(consumer_pos)] = consumer_pos + Depth]
  /\ UNCHANGED <<retry, event, producer_pos, consumer_pos, locals, history>>

Advance ==
  /\ cpc = "advance" /\ cpc' = "idle"
  /\ consumer_pos' = consumer_pos + 1
  /\ UNCHANGED <<retry, sequence, event, producer_pos, locals, history>>

-----------------------------------------------------------------------------
Push(p) ==
  \/ LoadPos(p) \/ SlotFree(p) \/ SlotBehind(p) \/ SlotAhead(p)
  \/ Claim(p) \/ ClaimFails(p) \/ Fill(p) \/ Publish(p)

Pop == SeeEvent \/ CopyEvent \/ FreeSlot \/ Advance

Next == (\E p \in Producers : Begin(p) \/ Push(p)) \/ Pop

Spec == Init /\ [][Next]_vars
FairSpec == Spec /\ WF_vars(Pop) /\ \A p \in Producers : WF_vars(Push(p))

-----------------------------------------------------------------------------
TypeOK ==
  /\ retry \in BOOLEAN
  /\ sequence \in [Slots -> Nat] /\ event \in [Slots -> Nat]
  /\ producer_pos \in Nat /\ consumer_pos \in Nat
  /\ pc \in [Producers -> {"idle", "load", "check", "cas", "fill", "publish"}]
  /\ pos \in [Producers -> Nat] /\ item \in [Producers -> Nat]
  /\ cpc \in {"idle", "copy", "free", "advance"}
  /\ calls \in Nat /\ delivered \in Seq(Nat)

(* slot.event is plain memory: whoever is between the claim of a position  *)
(* and the store that publishes it is alone on the slot, and the consumer  *)
(* is not copying from it.                                                 *)
ExclusiveSlot ==
  \A p \in Producers : pc[p] \in {"fill", "publish"} =>
    /\ \A q \in Producers \ {p} :
         pc[q] \in {"fill", "publish"} => Slot(pos[q]) # Slot(pos[p])
    /\ cpc \in {"copy", "free"} => Slot(consumer_pos) # Slot(pos[p])

FirstPending == IF cpc \in {"free", "advance"} THEN consumer_pos + 1 ELSE consumer_pos
AsMessage(v) == [id |-> v, prio |-> 0]
PendingQueue ==
  [n \in 1 .. producer_pos - FirstPending |->
     LET at == FirstPending + n - 1 IN
     IF sequence[Slot(at)] = at
       THEN [st |-> "claimed"]
       ELSE [st |-> "ready", msg |-> AsMessage(event[Slot(at)])]]

Queue == INSTANCE BusQueue WITH
  High <- 0, evicted <- {}, queue <- PendingQueue,
  delivered <- [n \in DOMAIN delivered |-> AsMessage(delivered[n])],
  Messages <- {AsMessage(v) : v \in 1 .. MaxCalls}

(* The ring is a queue of Depth places served in the order of the claims:  *)
(* nothing is lost, repeated, reordered or overrun.                        *)
ImplementsQueue == Queue!Spec

(* EventQueue and FaultRingBuffer: "Returns false when full."  A push is   *)
(* refused only if all Depth places are taken, however far other producers *)
(* and the consumer have moved since the position was read.                *)
FalseOnlyWhenFull ==
  [][\A p \in Producers : (retry /\ pc[p] = "check" /\ pc'[p] = "idle") =>
       producer_pos - consumer_pos >= Depth]_vars

(* A slot is filled by one producer at a time, the ring is a FIFO queue,   *)
(* and TryPush() fails only if it is full (or, in the copy that does not   *)
(* retry, was overtaken).                                                  *)
RingIsQueue ==
  [](TypeOK /\ ExclusiveSlot) /\ ImplementsQueue /\ FalseOnlyWhenFull

(* Every event a producer has claimed a place for is eventually dequeued:  *)
(* since the producers make finitely many calls, the consumer catches up   *)
(* with their claims again and again.                                      *)
EventuallyDelivered == []<>(consumer_pos = producer_pos)
=============================================================================
