--------------------------- MODULE AsyncBusProofs ---------------------------
(***************************************************************************)
(* The steps that claim a position or store to a sequence keep the         *)
(* invariant, and with them the theorem: an envelope has one user at a time.*)
(***************************************************************************)
EXTENDS AsyncBusInvariant

-----------------------------------------------------------------------------
(* Steps that claim a position or store to a sequence. *)

(* The claim: the new position is the only one in its slot. *)
LEMMA ClaimStep ==
  ASSUME IInv, TypeOK', NEW p \in Producers, ClaimSucceeds(p)
  PROVE  IInv'
<1> USE DEF ring, positions, stats, publisher, consumer, history
<1>1. /\ pc[p] = "cas" /\ prod[p] = producer_pos /\ producer_pos' = producer_pos + 1
      /\ pc' = [pc EXCEPT ![p] = "fill"]
      /\ UNCHANGED <<sequence, consumer_pos, cpc, cons_pos, processed, prod, cons, i>>
  BY DEF ClaimSucceeds, Goto
<1>2. /\ kQueueDepth \in Nat /\ producer_pos \in Nat /\ cons_pos \in Nat
      /\ prod \in [Producers -> Nat] /\ cons \in [Producers -> Nat]
      /\ producer_pos < cons_pos + kQueueDepth /\ cons_pos <= producer_pos
  BY <1>1, BusAssumption DEF IInv, TypeOK, PublisherInv, PositionsInv
<1>3. pc'[p] = "fill" /\ \A q \in Producers \ {p} : pc'[q] = pc[q]
  BY <1>1 DEF IInv, TypeOK
<1>4. sequence[Slot(producer_pos)] = producer_pos
  BY <1>2 DEF IInv, RingInv, Window
<1>5. PositionsInv'
  BY <1>1, <1>2 DEF IInv, PositionsInv
<1>6. RingInv'
  <2>1. \A pos \in Window : pos < producer_pos \/ pos = producer_pos \/ pos > producer_pos
    BY <1>2 DEF Window
  <2>2. sequence[Slot(producer_pos)] \in PendingSequences(producer_pos)
    BY <1>4 DEF PendingSequences
  <2> QED BY <1>1, <1>2, <2>1, <2>2 DEF IInv, RingInv, Window, PendingSequences
<1>7. ASSUME NEW q \in Producers PROVE PublisherInv(q)'
  <2>1. CASE q = p
    BY <1>1, <1>2, <1>3, <1>4, <2>1 DEF PublisherInv, Filling, Evicting
  <2>2. CASE q # p
    <3>1. prod[q] <= producer_pos /\ prod[q] \in Nat
      BY <1>2 DEF IInv, PositionsInv
    <3>2. Candidate(q)' = Candidate(q) /\ Candidate(q) \in Nat
      BY <1>1 DEF Candidate, IInv, TypeOK
    <3> QED BY <1>1, <1>2, <1>3, <2>2, <3>1, <3>2 DEF IInv, PublisherInv, Filling, Evicting
  <2> QED BY <2>1, <2>2
<1>8. DistinctInv'
  <2>1. \A q \in Producers : Filling(q) => prod[q] < producer_pos
    BY DEF IInv, PublisherInv
  <2>2. ~Evicting(p)' /\ \A q \in Producers \ {p} : Filling(q)' = Filling(q) /\ Evicting(q)' = Evicting(q)
    BY <1>3 DEF Filling, Evicting
  <2>3. \A q \in Producers : Candidate(q)' = Candidate(q) /\ prod'[q] = prod[q]
    BY <1>1 DEF Candidate
  <2>4. \A q \in Producers \ {p} : Filling(q) => prod[q] # prod[p]
    BY <1>1, <1>2, <2>1
  <2> QED BY <2>2, <2>3, <2>4 DEF IInv, DistinctInv
<1>9. ConsumerInv'
  BY <1>1, <1>2 DEF IInv, ConsumerInv, Holding
<1> QED BY <1>5, <1>6, <1>7, <1>8, <1>9 DEF IInv

(* The marks in the sequences tell the holders of different kinds apart. *)
LEMMA MarksApart ==
  ASSUME IInv, NEW p \in Producers
  PROVE  /\ Filling(p) => sequence[Slot(prod[p])] # prod[p] + 1
         /\ Holding /\ Filling(p) => prod[p] # cons_pos
         /\ Holding /\ Evicting(p) => Candidate(p) # cons_pos
         /\ \A q \in Producers : Filling(p) /\ Evicting(q) => prod[p] # Candidate(q)
<1>1. /\ kQueueDepth \in Nat /\ kQueueDepth > 1 /\ prod[p] \in Nat /\ cons_pos \in Nat
      /\ \A q \in Producers : Candidate(q) \in Nat
  BY BusAssumption DEF IInv, TypeOK, Candidate
<1>2. Filling(p) => sequence[Slot(prod[p])] = prod[p]
  BY DEF IInv, PublisherInv
<1>3. \A q \in Producers :
        Evicting(q) => sequence[Slot(Candidate(q))] = Candidate(q) + 1 + kEvictOffset
  BY DEF IInv, PublisherInv
<1>4. Holding => sequence[Slot(cons_pos)] = cons_pos + 1 + kConsumedOffset
  BY DEF IInv, ConsumerInv
<1> QED BY <1>1, <1>2, <1>3, <1>4 DEF kEvictOffset, kConsumedOffset

(* A store to the sequence of a pending position x that no other thread    *)
(* holds keeps what is known of the other threads and of the ring.         *)
LEMMA StoreStep ==
  ASSUME IInv, TypeOK', NEW p \in Producers, NEW x \in Nat, NEW v \in PendingSequences(x),
         cons_pos <= x, x < producer_pos,
         sequence' = [sequence EXCEPT ![Slot(x)] = v],
         UNCHANGED <<producer_pos, consumer_pos, cpc, cons_pos, processed>>,
         \A q \in Producers \ {p} :
           pc'[q] = pc[q] /\ prod'[q] = prod[q] /\ cons'[q] = cons[q] /\ i'[q] = i[q],
         prod'[p] <= producer_pos, cons'[p] <= cons_pos,
         \A q \in Producers \ {p} :
           (Filling(q) => prod[q] # x) /\ (Evicting(q) => Candidate(q) # x),
         Holding => x # cons_pos,
         PublisherInv(p)', ~Filling(p)', Evicting(p)' => Candidate(p)' = x
  PROVE  IInv'
<1>1. /\ kQueueDepth \in Nat /\ producer_pos \in Nat /\ cons_pos \in Nat
      /\ cons_pos <= producer_pos /\ producer_pos <= cons_pos + kQueueDepth
  BY BusAssumption DEF IInv, TypeOK, PositionsInv
<1>2. x \in Window
  BY <1>1 DEF Window
<1>3. /\ sequence'[Slot(x)] = v
      /\ \A pos \in Window : pos # x => sequence'[Slot(pos)] = sequence[Slot(pos)]
  BY Zenon, <1>2, SequenceWrite DEF IInv
<1>4. PositionsInv'
  BY DEF IInv, PositionsInv
<1>5. RingInv'
  BY <1>1, <1>2, <1>3 DEF IInv, RingInv, Window, PendingSequences
<1>6. ASSUME NEW q \in Producers \ {p} PROVE PublisherInv(q)'
  <2>1. /\ Filling(q)' = Filling(q) /\ Evicting(q)' = Evicting(q)
        /\ Candidate(q)' = Candidate(q)
    BY DEF Filling, Evicting, Candidate
  <2>2. prod[q] \in Nat /\ Candidate(q) \in Nat
    <3>1. prod[q] \in Nat /\ cons[q] \in Nat /\ i[q] \in Nat
      BY DEF IInv, TypeOK
    <3> QED BY <3>1 DEF Candidate
  <2>3. Filling(q) => prod[q] \in Window /\ prod[q] # x
    BY <1>1, <2>2 DEF IInv, PublisherInv, Window
  <2>4. Evicting(q) => Candidate(q) \in Window /\ Candidate(q) # x
    BY <1>1, <2>2 DEF IInv, PublisherInv, Window
  <2> QED BY SMTT(20), <1>3, <2>1, <2>3, <2>4 DEF IInv, PublisherInv
<1>7. DistinctInv'
  <2>1. \A q \in Producers \ {p} : /\ Filling(q)' = Filling(q) /\ Evicting(q)' = Evicting(q)
                                  /\ Candidate(q)' = Candidate(q)
    BY DEF Filling, Evicting, Candidate
  <2> QED BY <2>1 DEF IInv, DistinctInv
<1>8. ConsumerInv'
  <2>1. Holding => cons_pos \in Window /\ cons_pos # x
    BY <1>1, <1>2 DEF Window
  <2> QED BY <1>3, <2>1 DEF IInv, ConsumerInv, Holding
<1> QED BY <1>4, <1>5, <1>6, <1>7, <1>8 DEF IInv

(* The stores of Publish and TryEvictAndPublish. *)
LEMMA PublisherStores ==
  ASSUME IInv, TypeOK', NEW p \in Producers,
         PublishSlot(p) \/ ReserveSlot(p) \/ RestoreSlot(p) \/ RepublishSlot(p)
  PROVE  IInv'
<1> USE DEF ring, positions, stats, publisher, consumer, history
<1>0. /\ prod[p] \in Nat /\ cons[p] \in Nat /\ i[p] \in Nat /\ Candidate(p) \in Nat
      /\ producer_pos \in Nat /\ cons_pos \in Nat
      /\ kQueueDepth \in Nat /\ kQueueDepth > 1
      /\ prod[p] <= producer_pos /\ cons[p] <= cons_pos
  <2>1. /\ prod[p] \in Nat /\ cons[p] \in Nat /\ i[p] \in Nat
        /\ producer_pos \in Nat /\ cons_pos \in Nat
    BY DEF IInv, TypeOK
  <2> QED BY <2>1, BusAssumption DEF Candidate, IInv, PositionsInv
<1>1. ASSUME pc'[p] \in Outside PROVE PublisherInv(p)' /\ ~Filling(p)' /\ ~Evicting(p)'
  BY <1>1 DEF PublisherInv, Filling, Evicting, Outside
<1>2. ASSUME Return(p) \/ (SkipCandidate(p) /\ UNCHANGED <<prod, cons>>)
      PROVE  /\ pc'[p] \in Outside /\ prod'[p] <= producer_pos /\ cons'[p] <= cons_pos
             /\ \A q \in Producers \ {p} :
                  pc'[q] = pc[q] /\ prod'[q] = prod[q] /\ cons'[q] = cons[q] /\ i'[q] = i[q]
  <2>1. CASE Return(p)
    BY <1>0, <2>1 DEF Return, Outside, IInv, TypeOK
  <2>2. CASE SkipCandidate(p) /\ UNCHANGED <<prod, cons>>
    BY <1>0, <2>2 DEF SkipCandidate, Outside, IInv, TypeOK
  <2> QED BY <1>2, <2>1, <2>2
<1>3. CASE PublishSlot(p)
  <2>1. Filling(p)
    BY Zenon, <1>3 DEF PublishSlot, Filling
  <2>2. cons_pos <= prod[p] /\ prod[p] < producer_pos
    BY <2>1 DEF IInv, PublisherInv
  <2>3. /\ \A q \in Producers \ {p} :
             (Filling(q) => prod[q] # prod[p]) /\ (Evicting(q) => Candidate(q) # prod[p])
        /\ Holding => prod[p] # cons_pos
    BY <2>1, MarksApart DEF IInv, DistinctInv
  <2>4. prod[p] + 1 \in PendingSequences(prod[p])
    BY DEF PendingSequences
  <2>5. /\ sequence' = [sequence EXCEPT ![Slot(prod[p])] = prod[p] + 1]
        /\ UNCHANGED <<producer_pos, consumer_pos, cpc, cons_pos, processed>>
        /\ Return(p)
    BY <1>3 DEF PublishSlot
  <2> QED BY Zenon, <1>0, <1>1, <1>2, <2>2, <2>3, <2>4, <2>5, StoreStep
<1>4. CASE RestoreSlot(p) \/ RepublishSlot(p)
  <2>1. Evicting(p)
    BY <1>4 DEF RestoreSlot, RepublishSlot, Evicting
  <2>2. cons_pos <= Candidate(p) /\ Candidate(p) < producer_pos
    BY <2>1 DEF IInv, PublisherInv
  <2>3. /\ \A q \in Producers \ {p} :
             (Filling(q) => prod[q] # Candidate(p)) /\ (Evicting(q) => Candidate(q) # Candidate(p))
        /\ Holding => Candidate(p) # cons_pos
    BY <2>1, MarksApart DEF IInv, DistinctInv
  <2>4. Candidate(p) + 1 \in PendingSequences(Candidate(p))
    BY DEF PendingSequences
  <2>5. /\ sequence' = [sequence EXCEPT ![Slot(Candidate(p))] = Candidate(p) + 1]
        /\ UNCHANGED <<producer_pos, consumer_pos, cpc, cons_pos, processed>>
        /\ Return(p) \/ (SkipCandidate(p) /\ UNCHANGED <<prod, cons>>)
    BY <1>4 DEF RestoreSlot, RepublishSlot
  <2> QED BY Zenon, <1>0, <1>1, <1>2, <2>2, <2>3, <2>4, <2>5, StoreStep
<1>5. CASE ReserveSlot(p)
  <2>1. CASE SkipCandidate(p) /\ UNCHANGED sequence
    <3>1. /\ UNCHANGED <<sequence, producer_pos, consumer_pos, cpc, cons_pos, processed>>
          /\ UNCHANGED <<prod, cons>>
      BY <1>5, <2>1 DEF ReserveSlot
    <3> QED BY <2>1, <3>1, <1>2, OutsideStep DEF OnlyLocals
  <2>2. CASE ~(SkipCandidate(p) /\ UNCHANGED sequence)
    <3>1. /\ pc[p] = "reserve" /\ sequence[Slot(Candidate(p))] = Candidate(p) + 1
          /\ pc' = [pc EXCEPT ![p] = "reverify"]
          /\ sequence' = [sequence EXCEPT ![Slot(Candidate(p))] = Candidate(p) + 1 + kEvictOffset]
          /\ UNCHANGED <<producer_pos, consumer_pos, cpc, cons_pos, processed, prod, cons, i>>
      BY <1>5, <2>2 DEF ReserveSlot, Goto
    <3>2. i[p] < kQueueDepth
      BY <3>1 DEF IInv, PublisherInv
    <3>3. Candidate(p) < cons_pos + kQueueDepth
      BY <1>0, <3>2 DEF Candidate
    <3>4. cons_pos <= Candidate(p) /\ Candidate(p) < producer_pos
      BY <1>0, <3>1, <3>3, PublishedIsPending
    <3>5. Holding => Candidate(p) # cons_pos
      BY <1>0, <3>1 DEF IInv, ConsumerInv, kConsumedOffset
    <3>6. \A q \in Producers \ {p} : Filling(q) => prod[q] # Candidate(p)
      BY <3>1, MarksApart
    <3>7. ASSUME NEW q \in Producers \ {p}, Evicting(q), Candidate(q) = Candidate(p)
          PROVE  FALSE
      <4>1. sequence[Slot(Candidate(p))] = Candidate(p) + 1 + kEvictOffset
        BY <3>7 DEF IInv, PublisherInv
      <4> QED BY <1>0, <3>1, <4>1 DEF kEvictOffset
    <3>8. Candidate(p) + 1 + kEvictOffset \in PendingSequences(Candidate(p))
      BY DEF PendingSequences
    <3>9. /\ pc'[p] = "reverify" /\ prod'[p] = prod[p] /\ cons'[p] = cons[p] /\ i'[p] = i[p]
          /\ \A q \in Producers \ {p} :
               pc'[q] = pc[q] /\ prod'[q] = prod[q] /\ cons'[q] = cons[q] /\ i'[q] = i[q]
      BY <3>1 DEF IInv, TypeOK
    <3>10. ~Filling(p)' /\ Candidate(p)' = Candidate(p)
      BY <3>9 DEF Filling, Candidate
    <3>11. Candidate(p) \in Window
      BY <1>0, <3>3, <3>4 DEF Window
    <3>12. sequence'[Slot(Candidate(p))] = Candidate(p) + 1 + kEvictOffset
      BY Zenon, <3>1, <3>11, SequenceWrite DEF IInv
    <3>13. PublisherInv(p)'
      BY <3>1, <3>4, <3>9, <3>10, <3>12 DEF PublisherInv
    <3> HIDE DEF ring, positions, stats, publisher, consumer, history
    <3> QED BY Zenon, <1>0, <3>1, <3>4, <3>5, <3>6, <3>7, <3>8, <3>9, <3>10, <3>13, StoreStep
  <2> QED BY Zenon, <2>1, <2>2
<1> QED BY <1>3, <1>4, <1>5

(* The steps of ProcessBatch. *)
LEMMA ConsumerSteps == ASSUME IInv, TypeOK', ConsumerStep PROVE IInv'
<1> USE DEF ring, positions, stats, publisher, consumer, history
<1>0. /\ kQueueDepth \in Nat /\ kQueueDepth > 1 /\ producer_pos \in Nat /\ cons_pos \in Nat
      /\ consumer_pos \in Nat /\ processed \in Nat
      /\ cons_pos = consumer_pos + processed /\ cons_pos <= producer_pos
      /\ producer_pos <= cons_pos + kQueueDepth /\ (cpc = "idle" => processed = 0)
  BY BusAssumption DEF IInv, TypeOK, PositionsInv
<1>1. ASSUME UNCHANGED <<sequence, producer_pos, cons_pos, pc, prod, cons, i>>,
             PositionsInv', Holding' => Holding
      PROVE  IInv'
  <2>1. RingInv'
    BY <1>1 DEF IInv, RingInv, Window, PendingSequences
  <2>2. \A p \in Producers : PublisherInv(p)'
    BY <1>1 DEF IInv, PublisherInv, Filling, Evicting, Candidate
  <2>3. DistinctInv'
    BY <1>1 DEF IInv, DistinctInv, Filling, Evicting, Candidate
  <2>4. ConsumerInv'
    BY <1>1 DEF IInv, ConsumerInv
  <2> QED BY <1>1, <2>1, <2>2, <2>3, <2>4 DEF IInv
<1>2. CASE BatchBegin
  <2>1. UNCHANGED <<sequence, producer_pos, cons_pos, pc, prod, cons, i>>
    BY <1>0, <1>2 DEF BatchBegin
  <2>2. PositionsInv'
    BY <1>0, <1>2, <2>1 DEF BatchBegin, PositionsInv, IInv
  <2> QED BY <1>1, <1>2, <2>1, <2>2 DEF BatchBegin, Holding
<1>3. CASE Dispatch
  <2>1. PositionsInv'
    BY <1>0, <1>3 DEF Dispatch, PositionsInv, IInv
  <2> QED BY <1>1, <1>3, <2>1 DEF Dispatch, Holding
<1>4. CASE BatchEnd
  <2>1. consumer_pos' = cons_pos
    BY <1>0, <1>4 DEF BatchEnd
  <2>2. PositionsInv'
    BY <1>0, <1>4, <2>1 DEF BatchEnd, PositionsInv, IInv
  <2> QED BY <1>1, <1>4, <2>2 DEF BatchEnd, Holding
<1>5. CASE BatchStop
  <2>1. PositionsInv'
    BY <1>0, <1>5 DEF BatchStop, PositionsInv, IInv
  <2> QED BY <1>1, <1>5, <2>1 DEF BatchStop, Holding
<1>6. CASE ConsumerClaim
  <2>1. /\ sequence[Slot(cons_pos)] = cons_pos + 1 /\ cpc = "claim" /\ cpc' = "dispatch"
        /\ sequence' = [sequence EXCEPT ![Slot(cons_pos)] = cons_pos + 1 + kConsumedOffset]
        /\ UNCHANGED <<producer_pos, consumer_pos, cons_pos, processed, pc, prod, cons, i>>
    BY <1>6 DEF ConsumerClaim, HeadPublished
  <2>2. cons_pos \in Window
    BY <1>0 DEF Window
  <2>3. cons_pos < producer_pos
    BY <1>0, <2>1, <2>2 DEF IInv, RingInv
  <2>4. /\ sequence'[Slot(cons_pos)] = cons_pos + 1 + kConsumedOffset
        /\ \A pos \in Window : pos # cons_pos => sequence'[Slot(pos)] = sequence[Slot(pos)]
    BY Zenon, <2>1, <2>2, SequenceWrite DEF IInv
  <2>5. PositionsInv'
    BY <2>1 DEF IInv, PositionsInv
  <2>6. RingInv'
    <3>1. cons_pos + 1 + kConsumedOffset \in PendingSequences(cons_pos)
      BY DEF PendingSequences
    <3> QED BY <1>0, <2>1, <2>3, <2>4, <3>1 DEF IInv, RingInv, Window, PendingSequences
  <2>7. ASSUME NEW p \in Producers PROVE PublisherInv(p)'
    <3>1. prod[p] \in Nat /\ cons[p] \in Nat /\ i[p] \in Nat
      BY DEF IInv, TypeOK
    <3>2. Candidate(p) \in Nat
      BY <3>1 DEF Candidate
    <3>3. Filling(p) => prod[p] \in Window /\ prod[p] # cons_pos
      BY <1>0, <2>1, <3>1 DEF IInv, PublisherInv, Window
    <3>4. Evicting(p) => Candidate(p) \in Window /\ Candidate(p) # cons_pos
      BY SMTT(20), <1>0, <2>1, <3>2 DEF IInv, PublisherInv, Window, kEvictOffset
    <3> QED BY <2>1, <2>4, <3>3, <3>4 DEF IInv, PublisherInv, Filling, Evicting, Candidate
  <2>8. DistinctInv'
    BY <2>1 DEF IInv, DistinctInv, Filling, Evicting, Candidate
  <2>9. ConsumerInv'
    BY <2>1, <2>3, <2>4 DEF ConsumerInv
  <2> QED BY <2>5, <2>6, <2>7, <2>8, <2>9 DEF IInv
<1>7. CASE ConsumerRelease
  <2>1. /\ cpc = "release" /\ cpc' = "claim" /\ cons_pos' = cons_pos + 1
        /\ sequence' = [sequence EXCEPT ![Slot(cons_pos)] = cons_pos + kQueueDepth]
        /\ processed' = processed + 1
        /\ UNCHANGED <<producer_pos, consumer_pos, pc, prod, cons, i>>
    BY <1>7 DEF ConsumerRelease
  <2>2. Holding /\ cons_pos < producer_pos /\ cons_pos \in Window
    BY <1>0, <2>1 DEF Holding, Window, IInv, ConsumerInv
  <2>3. /\ sequence'[Slot(cons_pos)] = cons_pos + kQueueDepth
        /\ \A pos \in Window : pos # cons_pos => sequence'[Slot(pos)] = sequence[Slot(pos)]
    BY Zenon, <2>1, <2>2, SequenceWrite DEF IInv
  <2>4. PositionsInv'
    <3>1. \A p \in Producers : cons[p] \in Nat /\ cons[p] <= cons_pos
      BY DEF IInv, TypeOK, PositionsInv
    <3> QED BY <1>0, <2>1, <2>2, <3>1 DEF IInv, PositionsInv
  <2>5. RingInv'
    <3> SUFFICES ASSUME NEW pos \in Window'
                 PROVE  /\ pos < producer_pos => sequence'[Slot(pos)] \in PendingSequences(pos)
                        /\ pos >= producer_pos => sequence'[Slot(pos)] = pos
      BY <2>1 DEF RingInv, PendingSequences
    <3>1. pos \in Int /\ cons_pos < pos /\ pos <= cons_pos + kQueueDepth
      BY <1>0, <2>1 DEF Window
    <3>2. CASE pos = cons_pos + kQueueDepth
      <4>1. sequence'[Slot(pos)] = pos
        BY <1>0, <2>3, <3>2, SlotLap
      <4> QED BY <4>1 DEF PendingSequences
    <3>3. CASE pos < cons_pos + kQueueDepth
      <4>1. pos \in Window /\ pos # cons_pos
        BY <1>0, <3>1, <3>3 DEF Window
      <4> QED BY <2>3, <4>1 DEF IInv, RingInv
    <3> QED BY <1>0, <3>1, <3>2, <3>3
  <2>6. ASSUME NEW p \in Producers PROVE PublisherInv(p)'
    <3>1. prod[p] \in Nat /\ cons[p] \in Nat /\ i[p] \in Nat
      BY DEF IInv, TypeOK
    <3>2. Candidate(p) \in Nat /\ Candidate(p)' = Candidate(p)
      BY SMTT(20), <2>1, <3>1 DEF Candidate
    <3>3. Filling(p) => prod[p] \in Window /\ prod[p] # cons_pos
      BY <1>0, <2>2, <3>1, MarksApart DEF IInv, PublisherInv, Window
    <3>4. Evicting(p) => Candidate(p) \in Window /\ Candidate(p) # cons_pos
      BY <1>0, <2>2, <3>2, MarksApart DEF IInv, PublisherInv, Window
    <3> QED BY <1>0, <2>1, <2>3, <3>1, <3>2, <3>3, <3>4
            DEF IInv, PublisherInv, Filling, Evicting, Window
  <2>7. DistinctInv'
    BY <2>1 DEF IInv, DistinctInv, Filling, Evicting, Candidate
  <2>8. ConsumerInv'
    BY <2>1 DEF ConsumerInv, Holding
  <2> QED BY <2>4, <2>5, <2>6, <2>7, <2>8 DEF IInv
<1> QED BY <1>2, <1>3, <1>4, <1>5, <1>6, <1>7 DEF ConsumerStep

-----------------------------------------------------------------------------
(* Initially the ring is empty and every slot free. *)
LEMMA InvInit == Init => IInv
<1> SUFFICES ASSUME Init PROVE IInv
  OBVIOUS
<1>1. TypeOK
  BY TypeInit
<1>2. \A pos \in Window : Slot(pos) = pos
  <2>1. \A pos \in Window : pos \in Nat /\ pos \in 0 .. kQueueDepth - 1 /\ pos = kQueueDepth * 0 + pos
    BY BusAssumption DEF Init, Window
  <2> QED BY <2>1, DepthPositive, ModUnique, 0 \in Nat, Zenon DEF Slot
<1>3. RingInv
  BY <1>2, BusAssumption DEF Init, RingInv, Window, Slots
<1>4. PositionsInv
  BY BusAssumption DEF Init, PositionsInv
<1>5. (\A p \in Producers : PublisherInv(p)) /\ DistinctInv /\ ConsumerInv
  BY DEF Init, PublisherInv, DistinctInv, ConsumerInv, Filling, Evicting, Holding
<1> QED BY <1>1, <1>3, <1>4, <1>5 DEF IInv

(* Every step keeps the invariant. *)
LEMMA InvStep == IInv /\ [Next]_vars => IInv'
<1> SUFFICES ASSUME IInv, [Next]_vars PROVE IInv'
  OBVIOUS
<1>0. TypeOK'
  BY TypeStep DEF IInv
<1>1. CASE \E p \in Producers : \E pr \in Inputs : Publish(p, pr)
  <2> PICK p \in Producers, pr \in Inputs : Publish(p, pr)
    BY <1>1
  <2>1. prod[p] <= producer_pos /\ cons[p] <= cons_pos
    BY DEF IInv, PositionsInv
  <2>2. /\ pc' = [pc EXCEPT ![p] = "admit"] \/ (pc' = pc /\ pc[p] = "idle")
        /\ UNCHANGED <<prod, cons, i>>
        /\ UNCHANGED <<sequence, producer_pos, consumer_pos, cpc, cons_pos, processed>>
    BY DEF Publish, Goto, ring, positions, stats, publisher, consumer
  <2>3. OnlyLocals(p) /\ pc'[p] \in Outside
    BY <2>2 DEF OnlyLocals, Outside, IInv, TypeOK
  <2>4. prod'[p] <= producer_pos /\ cons'[p] <= cons_pos
    BY <2>1, <2>2
  <2> QED BY <1>0, <2>3, <2>4, OutsideStep
<1>2. CASE \E p \in Producers : PublisherStep(p)
  BY <1>0, <1>2, OutsideSteps, CheckSteps, ScanAndFillSteps, ClaimStep, PublisherStores
  DEF PublisherStep
<1>3. CASE ConsumerStep
  BY <1>0, <1>3, ConsumerSteps
<1>4. CASE UNCHANGED vars
  <2>1. UNCHANGED <<sequence, producer_pos, consumer_pos, cons_pos, processed, cpc,
                    pc, prod, cons, i>>
    BY <1>4 DEF vars, ring, positions, stats, publisher, consumer, history
  <2>2. PositionsInv' /\ RingInv'
    BY Zenon, <2>1 DEF IInv, PositionsInv, RingInv, Window, PendingSequences
  <2>3. (\A p \in Producers : PublisherInv(p)') /\ DistinctInv' /\ ConsumerInv'
    BY <2>1 DEF IInv, PublisherInv, DistinctInv, ConsumerInv, Filling, Evicting,
                Candidate, Holding
  <2> QED BY <1>0, <2>2, <2>3 DEF IInv
<1> QED BY <1>1, <1>2, <1>3, <1>4 DEF Next

(* The invariant gives every thread a slot of its own. *)
LEMMA InvExclusive == IInv => ExclusiveEnvelope
<1> SUFFICES ASSUME IInv, NEW p \in Producers
             PROVE  /\ \A q \in Producers \ {p} : WriterSlots(p) \cap WriterSlots(q) = {}
                    /\ WriterSlots(p) \cap ReaderSlots = {}
  BY DEF ExclusiveEnvelope
<1> DEFINE Held(q) == IF Filling(q) THEN {prod[q]}
                      ELSE IF Evicting(q) THEN {Candidate(q)} ELSE {}
           Read == IF Holding THEN {cons_pos} ELSE {}
<1>0. /\ kQueueDepth \in Nat /\ producer_pos \in Nat /\ cons_pos \in Nat
      /\ producer_pos <= cons_pos + kQueueDepth
  BY BusAssumption DEF IInv, TypeOK, PositionsInv
<1>1. ASSUME NEW q \in Producers
      PROVE  Held(q) \subseteq Window /\ WriterSlots(q) = {Slot(pos) : pos \in Held(q)}
  <2>1. prod[q] \in Nat /\ cons[q] \in Nat /\ i[q] \in Nat
    BY DEF IInv, TypeOK
  <2>2. Candidate(q) \in Nat
    BY <2>1 DEF Candidate
  <2>3. (Filling(q) => prod[q] \in Window) /\ (Evicting(q) => Candidate(q) \in Window)
    BY <1>0, <2>1, <2>2 DEF IInv, PublisherInv, Window
  <2> QED BY <2>3 DEF WriterSlots, Filling, Evicting
<1>2. Read \subseteq Window /\ ReaderSlots = {Slot(pos) : pos \in Read}
  BY <1>0 DEF IInv, ConsumerInv, Window, ReaderSlots, Holding
<1>3. \A q \in Producers \ {p} : Held(p) \cap Held(q) = {}
  BY MarksApart DEF IInv, DistinctInv
<1>4. Held(p) \cap Read = {}
  BY MarksApart
<1>5. \A a, b \in Window : a # b => Slot(a) # Slot(b)
  BY SlotsApart DEF IInv
<1> HIDE DEF Held, Read
<1> QED BY <1>1, <1>2, <1>3, <1>4, <1>5

(* The inductive invariant holds in every reachable state. *)
LEMMA Invariance == Spec => []IInv
BY InvInit, InvStep, PTL DEF Spec

(* ExclusiveEnvelope for any number of publishers and any depth above one: *)
(* the sequence protocol of Publish, TryEvictAndPublish and ProcessBatch   *)
(* never lets two threads at the envelope of one slot, evictions and stale *)
(* positions included.                                                     *)
THEOREM EnvelopesExclusive == Spec => []ExclusiveEnvelope
BY Invariance, InvExclusive, PTL

(* The claim loop of Publish never overruns the consumer: there are never  *)
(* more than kQueueDepth claimed positions that it has not released,       *)
(* however many publishers pass the admission check together and although  *)
(* a failed full test goes on to the compare-exchange.                     *)
THEOREM NeverOverruns ==
  Spec => [](cons_pos <= producer_pos /\ producer_pos <= cons_pos + kQueueDepth)
<1>1. IInv => cons_pos <= producer_pos /\ producer_pos <= cons_pos + kQueueDepth
  BY DEF IInv, PositionsInv
<1> QED BY <1>1, Invariance, PTL
=============================================================================
