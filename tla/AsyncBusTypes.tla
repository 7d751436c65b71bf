--------------------------- MODULE AsyncBusTypes ----------------------------
(***************************************************************************)
(* Type correctness of the bus, for every number of publishers, every queue*)
(* depth above one and every batch size.                                   *)
(***************************************************************************)
EXTENDS AsyncBus, RingArith

(* Every slot a position falls on is a slot of the ring. *)
LEMMA SlotType == ASSUME NEW pos \in Nat PROVE Slot(pos) \in Slots
BY ModRange, BusAssumption DEF Slot, Slots

(* A step of Publish keeps the type invariant. *)
LEMMA PublisherType ==
  ASSUME TypeOK, NEW p \in Producers, PublisherStep(p)
  PROVE  TypeOK'
<1> USE DEF TypeOK, ring, positions, stats, publisher, consumer, history, Goto
<1>0. Slot(prod[p]) \in Slots /\ Candidate(p) \in Nat /\ Slot(Candidate(p)) \in Slots
  <2>1. Candidate(p) \in Nat
    BY DEF Candidate
  <2> QED BY <2>1, SlotType
<1>00. kEvictOffset \in Nat
  BY BusAssumption DEF kEvictOffset
<1>1. CASE LoadProducerPos(p) BY <1>1 DEF LoadProducerPos
<1>2. CASE EstimateDepth(p) BY <1>2 DEF EstimateDepth
<1>3. CASE RecheckDepth(p) BY <1>3 DEF RecheckDepth
<1>4. CASE CacheConsumerPos(p)
  <2>1. CASE Drop(p)
    BY <1>4, <2>1 DEF CacheConsumerPos, Drop, Return, Priorities
  <2>2. CASE Goto(p, "cache", "claim") /\ UNCHANGED <<stats, priority, prod, cons, i>>
    BY <1>4, <2>2 DEF CacheConsumerPos
  <2>3. CASE Goto(p, "cache", "evict_prod") /\ UNCHANGED <<stats, priority, prod, cons, i>>
    BY <1>4, <2>3 DEF CacheConsumerPos
  <2> QED BY <1>4, <2>1, <2>2, <2>3, Zenon DEF CacheConsumerPos
<1>5. CASE LoadClaimPos(p) BY <1>5 DEF LoadClaimPos
<1>6. CASE CheckSequence(p) BY <1>6 DEF CheckSequence
<1>7. CASE VerifyFull(p)
  <2>1. CASE Drop(p)
    BY <1>7, <2>1 DEF VerifyFull, Drop, Return, Priorities
  <2>2. CASE Goto(p, "verify", "cas") /\ UNCHANGED <<stats, priority, prod, cons, i>>
    BY <1>7, <2>2 DEF VerifyFull
  <2> QED BY <1>7, <2>1, <2>2, Zenon DEF VerifyFull
<1>8. CASE ClaimSucceeds(p) BY <1>8 DEF ClaimSucceeds
<1>9. CASE ClaimFails(p) BY <1>9 DEF ClaimFails
<1>10. CASE FillEnvelope(p)
  <2>1. Message(next_msg_id, priority[p]) \in Messages
    BY DEF Message, Messages
  <2>2. /\ envelope' \in [Slots -> Messages] /\ slot_priority' \in [Slots -> Priorities]
        /\ next_msg_id' \in Nat
    BY <1>10, <2>1, <1>0 DEF FillEnvelope, Write
  <2> QED BY <1>10, <2>2 DEF FillEnvelope
<1>11. CASE PublishSlot(p)
  <2>1. sequence' \in [Slots -> Nat]
    BY <1>11, <1>0 DEF PublishSlot
  <2> QED BY <1>11, <2>1 DEF PublishSlot, Return, Priorities
<1>12. CASE EvictLoadProd(p) BY <1>12 DEF EvictLoadProd
<1>13. CASE EvictLoadCons(p) BY <1>13 DEF EvictLoadCons
<1>14. CASE ScanEnds(p) BY <1>14 DEF ScanEnds, Drop, Return, Priorities
<1>15. CASE ScanSlot(p)
  <2>1. CASE SkipCandidate(p)
    BY <1>15, <2>1 DEF ScanSlot, SkipCandidate
  <2>2. CASE Goto(p, "scan", "peek") /\ UNCHANGED i
    BY <1>15, <2>2 DEF ScanSlot
  <2> QED BY <1>15, <2>1, <2>2 DEF ScanSlot
<1>16. CASE PeekPriority(p)
  <2>1. CASE SkipCandidate(p)
    BY <1>16, <2>1 DEF PeekPriority, SkipCandidate
  <2>2. CASE Goto(p, "peek", "reserve") /\ UNCHANGED i
    BY <1>16, <2>2 DEF PeekPriority
  <2> QED BY <1>16, <2>1, <2>2 DEF PeekPriority
<1>17. CASE ReserveSlot(p)
  <2>1. CASE SkipCandidate(p) /\ UNCHANGED sequence
    BY <1>17, <2>1 DEF ReserveSlot, SkipCandidate
  <2>2. CASE sequence[Slot(Candidate(p))] = Candidate(p) + 1
    <3>1. /\ Goto(p, "reserve", "reverify") /\ UNCHANGED i
          /\ sequence' = [sequence EXCEPT ![Slot(Candidate(p))] = Candidate(p) + 1 + kEvictOffset]
      BY <1>17, <2>2 DEF ReserveSlot
    <3>2. Candidate(p) + 1 + kEvictOffset \in Nat
      BY <1>0, <1>00
    <3>3. sequence' \in [Slots -> Nat]
      BY <3>1, <3>2, <1>0
    <3> QED BY <1>17, <3>1, <3>3 DEF ReserveSlot
  <2> QED BY <1>17, <2>1, <2>2 DEF ReserveSlot
<1>18. CASE ReverifyPriority(p) BY <1>18 DEF ReverifyPriority
<1>19. CASE RestoreSlot(p)
  <2>1. sequence' \in [Slots -> Nat]
    BY <1>19, <1>0 DEF RestoreSlot
  <2>2. pc' = [pc EXCEPT ![p] = "scan"] /\ i' \in [Producers -> Nat]
    BY <1>19 DEF RestoreSlot, SkipCandidate
  <2> QED BY <1>19, <2>1, <2>2 DEF RestoreSlot
<1>20. CASE OverwriteVictim(p)
  <2>1. envelope[Slot(Candidate(p))].id \in Nat
    BY <1>0 DEF Messages
  <2>2. Message(next_msg_id, kHigh) \in Messages /\ kHigh \in Priorities
    BY DEF Message, Messages, Priorities
  <2>3. /\ envelope' \in [Slots -> Messages]
        /\ slot_priority' \in [Slots -> Priorities] /\ next_msg_id' \in Nat
    BY <1>20, <2>2, <1>0 DEF OverwriteVictim, Write
  <2>4. evicted' \subseteq Nat
    BY <1>20, <2>1, Zenon DEF OverwriteVictim
  <2> QED BY <1>20, <2>3, <2>4 DEF OverwriteVictim
<1>21. CASE RepublishSlot(p)
  <2>1. sequence' \in [Slots -> Nat]
    BY <1>21, <1>0 DEF RepublishSlot
  <2> QED BY <1>21, <2>1 DEF RepublishSlot, Return, Priorities
<1> QED
  BY <1>1, <1>2, <1>3, <1>4, <1>5, <1>6, <1>7, <1>8, <1>9, <1>10, <1>11, <1>12, <1>13,
     <1>14, <1>15, <1>16, <1>17, <1>18, <1>19, <1>20, <1>21, Zenon DEF PublisherStep

(* A step of ProcessBatch keeps the type invariant. *)
LEMMA ConsumerType == ASSUME TypeOK, ConsumerStep PROVE TypeOK'
<1> USE DEF TypeOK, ring, positions, stats, publisher, consumer, history
<1>0. Slot(cons_pos) \in Slots
  BY SlotType
<1>1. CASE BatchBegin BY <1>1 DEF BatchBegin
<1>2. CASE ConsumerClaim BY <1>2, <1>0, BusAssumption DEF ConsumerClaim, kConsumedOffset
<1>3. CASE Dispatch BY <1>3, <1>0 DEF Dispatch
<1>4. CASE ConsumerRelease BY <1>4, <1>0, BusAssumption DEF ConsumerRelease
<1>5. CASE BatchStop BY <1>5 DEF BatchStop
<1>6. CASE BatchEnd BY <1>6 DEF BatchEnd
<1> QED BY <1>1, <1>2, <1>3, <1>4, <1>5, <1>6, Zenon DEF ConsumerStep

(* Every step keeps the type invariant. *)
LEMMA TypeStep == TypeOK /\ [Next]_vars => TypeOK'
<1> SUFFICES ASSUME TypeOK, [Next]_vars PROVE TypeOK'
  OBVIOUS
<1>1. CASE \E p \in Producers : \E pr \in Inputs : Publish(p, pr)
  <2> PICK p \in Producers, pr \in Inputs : Publish(p, pr)
    BY <1>1
  <2> USE DEF Publish, Goto, TypeOK, ring, positions, stats, publisher, consumer
  <2>0. pr \in Priorities
    BY InputAssumption
  <2>1. CASE UNCHANGED publisher
    BY <2>1
  <2>2. CASE ~(next_msg_id >= kMsgIdWrapThreshold)
    <3>1. /\ pc' = [pc EXCEPT ![p] = "admit"] /\ priority' = [priority EXCEPT ![p] = pr]
          /\ UNCHANGED <<prod, cons, i>>
      BY <2>2
    <3> QED BY <3>1, <2>0
  <2> QED BY <2>1, <2>2
<1>2. CASE \E p \in Producers : PublisherStep(p)
  BY <1>2, PublisherType
<1>3. CASE ConsumerStep
  BY <1>3, ConsumerType
<1>4. CASE UNCHANGED vars
  BY <1>4 DEF vars, TypeOK, ring, positions, stats, publisher, consumer, history
<1> QED BY <1>1, <1>2, <1>3, <1>4 DEF Next

(* The initial state of the bus has its types. *)
LEMMA TypeInit == Init => TypeOK
BY BusAssumption DEF Init, TypeOK, Slots, NoMessage, Messages, Message, Priorities, kMedium, kLow

(* TypeOK holds in every state of every behaviour: the fields of the ring, *)
(* the counters and the locals of Publish and ProcessBatch keep their      *)
(* types, and no step indexes the ring outside its slots.                  *)
THEOREM TypeCorrect == Spec => []TypeOK
BY TypeInit, TypeStep, PTL DEF Spec

=============================================================================
