------------------------- MODULE AsyncBusInvariant --------------------------
(***************************************************************************)
(* The inductive invariant behind ExclusiveEnvelope, the facts about the   *)
(* window of positions it rests on, and the steps of Publish that leave the*)
(* sequences of the ring alone.                                            *)
(***************************************************************************)
EXTENDS AsyncBusTypes

-----------------------------------------------------------------------------
(* The inductive invariant behind ExclusiveEnvelope. *)

Filling(p) == pc[p] \in {"fill", "publish"}
Evicting(p) == pc[p] \in {"reverify", "restore", "overwrite", "republish"}
Holding == cpc \in {"dispatch", "release"}

(* No position is ahead of the shared one it was read from, and at most    *)
(* kQueueDepth positions are claimed and not yet released.                 *)
PositionsInv ==
  /\ cons_pos = consumer_pos + processed
  /\ cpc = "idle" => processed = 0
  /\ cons_pos <= producer_pos /\ producer_pos <= cons_pos + kQueueDepth
  /\ \A p \in Producers : prod[p] <= producer_pos /\ cons[p] <= cons_pos

(* What the sequence of a slot can be, for each of the kQueueDepth         *)
(* positions from the consumer's on: one per slot.                         *)
Window == cons_pos .. cons_pos + kQueueDepth - 1
PendingSequences(pos) == {pos, pos + 1, pos + 1 + kConsumedOffset, pos + 1 + kEvictOffset}
RingInv ==
  \A pos \in Window :
    /\ pos < producer_pos => sequence[Slot(pos)] \in PendingSequences(pos)
    /\ pos >= producer_pos => sequence[Slot(pos)] = pos

(* A publisher about to claim the next position has seen it free; one that *)
(* fills or evicts holds a pending position, marked by its sequence.       *)
PublisherInv(p) ==
  /\ (pc[p] = "cas" /\ prod[p] = producer_pos) => producer_pos < cons_pos + kQueueDepth
  /\ Filling(p) =>
       /\ cons_pos <= prod[p] /\ prod[p] < producer_pos
       /\ sequence[Slot(prod[p])] = prod[p]
  /\ pc[p] \in {"peek", "reserve"} => i[p] < kQueueDepth
  /\ Evicting(p) =>
       /\ cons_pos <= Candidate(p) /\ Candidate(p) < producer_pos
       /\ sequence[Slot(Candidate(p))] = Candidate(p) + 1 + kEvictOffset

DistinctInv ==
  \A p \in Producers : \A q \in Producers \ {p} :
    /\ Filling(p) /\ Filling(q) => prod[p] # prod[q]
    /\ Evicting(p) /\ Evicting(q) => Candidate(p) # Candidate(q)

ConsumerInv ==
  Holding => /\ cons_pos < producer_pos
             /\ sequence[Slot(cons_pos)] = cons_pos + 1 + kConsumedOffset

IInv ==
  /\ TypeOK /\ PositionsInv /\ RingInv
  /\ \A p \in Producers : PublisherInv(p)
  /\ DistinctInv /\ ConsumerInv

-----------------------------------------------------------------------------
(* Facts about the window of positions. *)

(* The ring has at least one slot. *)
LEMMA DepthPositive == kQueueDepth \in Nat /\ kQueueDepth > 0
BY BusAssumption

(* Two positions of one slot are a lap apart. *)
LEMMA SlotApart ==
  ASSUME NEW a \in Nat, NEW b \in Nat, Slot(a) = Slot(b), a < b
  PROVE  a + kQueueDepth <= b
BY DepthPositive, ModApart, Zenon DEF Slot

(* A lap later the slot is the same. *)
LEMMA SlotLap == ASSUME NEW a \in Nat PROVE Slot(a + kQueueDepth) = Slot(a)
BY DepthPositive, ModShift, Zenon DEF Slot

(* Every slot is met within a lap. *)
LEMMA SlotCover ==
  ASSUME NEW a \in Nat, NEW c \in Nat
  PROVE  \E q \in c .. c + kQueueDepth - 1 : Slot(q) = Slot(a)
BY DepthPositive, ModCover, Zenon DEF Slot

(* Two positions of the window have different slots. *)
LEMMA SlotsApart ==
  ASSUME TypeOK, NEW a \in Window, NEW b \in Window, a # b
  PROVE  Slot(a) # Slot(b)
<1>1. a \in Nat /\ b \in Nat /\ kQueueDepth \in Nat /\ kQueueDepth > 0 /\ cons_pos \in Nat
  BY BusAssumption DEF Window, TypeOK
<1>2. (a < b => ~(a + kQueueDepth <= b)) /\ (b < a => ~(b + kQueueDepth <= a))
  BY <1>1 DEF Window
<1> QED BY <1>1, <1>2, SlotApart

(* A store to the sequence of a position of the window leaves the others.  *)
LEMMA SequenceWrite ==
  ASSUME TypeOK, NEW x \in Window, NEW v,
         sequence' = [sequence EXCEPT ![Slot(x)] = v]
  PROVE  /\ sequence'[Slot(x)] = v
         /\ \A pos \in Window : pos # x => sequence'[Slot(pos)] = sequence[Slot(pos)]
<1>1. \A pos \in Window : pos \in Nat
  BY BusAssumption DEF Window, TypeOK
<1>2. \A pos \in Window : Slot(pos) \in Slots
  BY <1>1, SlotType
<1> QED BY <1>2, SlotsApart DEF TypeOK

(* A slot published under position c belongs to a pending position, unless *)
(* c is more than a lap old: this is why a stale scan is harmless.         *)
LEMMA PublishedIsPending ==
  ASSUME IInv, NEW c \in Nat, c < cons_pos + kQueueDepth, sequence[Slot(c)] = c + 1
  PROVE  cons_pos <= c /\ c < producer_pos
<1> USE BusAssumption DEF IInv, TypeOK
<1>1. CASE c >= cons_pos
  BY <1>1 DEF RingInv, Window
<1>2. CASE c < cons_pos
  <2>1. PICK q \in cons_pos .. cons_pos + kQueueDepth - 1 : Slot(q) = Slot(c)
    BY Zenon, SlotCover
  <2>2. c + kQueueDepth <= q
    BY <2>1, <1>2, SlotApart
  <2>3. sequence[Slot(q)] \in PendingSequences(q) \cup {q}
    BY <2>1 DEF RingInv, Window
  <2>4. sequence[Slot(q)] >= q
    BY <2>3 DEF PendingSequences, kConsumedOffset, kEvictOffset
  <2> QED BY <2>1, <2>2, <2>4
<1> QED BY <1>1, <1>2

(* A full ring does not offer its next position. *)
LEMMA FullIsNotFree ==
  ASSUME IInv, producer_pos = cons_pos + kQueueDepth
  PROVE  sequence[Slot(producer_pos)] # producer_pos
<1> USE BusAssumption DEF IInv, TypeOK
<1>1. Slot(producer_pos) = Slot(cons_pos)
  BY SlotLap
<1>2. sequence[Slot(cons_pos)] \in PendingSequences(cons_pos)
  BY DEF RingInv, Window
<1> QED BY <1>1, <1>2 DEF PendingSequences, kConsumedOffset, kEvictOffset

-----------------------------------------------------------------------------
(* Steps of Publish that store to no sequence and claim nothing. *)

OnlyLocals(p) ==
  /\ UNCHANGED <<sequence, producer_pos, consumer_pos, cpc, cons_pos, processed>>
  /\ \A q \in Producers \ {p} :
       pc'[q] = pc[q] /\ prod'[q] = prod[q] /\ cons'[q] = cons[q] /\ i'[q] = i[q]

(* Such a step keeps the invariant if the thread's own part is kept and it *)
(* acquires no slot.                                                       *)
LEMMA LocalStep ==
  ASSUME IInv, TypeOK', NEW p \in Producers, OnlyLocals(p),
         prod'[p] <= producer_pos, cons'[p] <= cons_pos, PublisherInv(p)',
         Filling(p)' => Filling(p) /\ prod'[p] = prod[p],
         Evicting(p)' => Evicting(p) /\ Candidate(p)' = Candidate(p)
  PROVE  IInv'
<1>1. PositionsInv'
  BY DEF IInv, PositionsInv, OnlyLocals
<1>2. RingInv'
  BY DEF IInv, RingInv, Window, PendingSequences, OnlyLocals
<1>3. \A q \in Producers : PublisherInv(q)'
  <2> TAKE q \in Producers
  <2>1. CASE q = p BY <2>1
  <2>2. CASE q # p
    BY <2>2 DEF IInv, PublisherInv, Filling, Evicting, Candidate, OnlyLocals
  <2> QED BY <2>1, <2>2
<1>4. DistinctInv'
  BY DEF IInv, DistinctInv, Filling, Evicting, Candidate, OnlyLocals
<1>5. ConsumerInv'
  BY DEF IInv, ConsumerInv, Holding, OnlyLocals
<1> QED BY <1>1, <1>2, <1>3, <1>4, <1>5 DEF IInv

Outside == {"idle", "admit", "estimate", "recheck", "cache", "claim", "check_seq",
            "verify", "evict_prod", "evict_cons", "scan"}

(* A step to a point where nothing is held or about to be claimed. *)
LEMMA OutsideStep ==
  ASSUME IInv, TypeOK', NEW p \in Producers, OnlyLocals(p), pc'[p] \in Outside,
         prod'[p] <= producer_pos, cons'[p] <= cons_pos
  PROVE  IInv'
<1>1. ~Filling(p)' /\ ~Evicting(p)'
  BY DEF Filling, Evicting, Outside
<1>2. PublisherInv(p)'
  BY <1>1 DEF PublisherInv, Outside
<1> QED BY <1>1, <1>2, LocalStep

(* The end of the call leaves nothing held. *)
LEMMA ReturnStep ==
  ASSUME IInv, TypeOK', NEW p \in Producers, Return(p),
         UNCHANGED <<sequence, producer_pos, consumer_pos, cpc, cons_pos, processed>>
  PROVE  IInv'
<1>1. OnlyLocals(p)
  BY DEF OnlyLocals, Return, IInv, TypeOK
<1>2. pc'[p] \in Outside /\ prod'[p] <= producer_pos /\ cons'[p] <= cons_pos
  BY DEF Return, Outside, IInv, TypeOK
<1> QED BY <1>1, <1>2, OutsideStep

(* The steps of Publish that end outside the critical parts. *)
LEMMA OutsideSteps ==
  ASSUME IInv, TypeOK', NEW p \in Producers,
         \/ LoadProducerPos(p) \/ EstimateDepth(p) \/ RecheckDepth(p) \/ CacheConsumerPos(p)
         \/ LoadClaimPos(p) \/ ClaimFails(p) \/ EvictLoadProd(p) \/ EvictLoadCons(p)
         \/ ScanEnds(p)
  PROVE  IInv'
<1> USE DEF ring, positions, stats, publisher, consumer, history, Goto, Outside
<1>0. /\ prod[p] <= producer_pos /\ cons[p] <= cons_pos /\ consumer_pos <= cons_pos
      /\ producer_pos <= producer_pos
  BY DEF IInv, PositionsInv, TypeOK
<1>1. ASSUME \/ LoadProducerPos(p) \/ EstimateDepth(p) \/ RecheckDepth(p)
             \/ LoadClaimPos(p) \/ ClaimFails(p) \/ EvictLoadProd(p) \/ EvictLoadCons(p)
      PROVE  IInv'
  <2> USE DEF LoadProducerPos, EstimateDepth, RecheckDepth, LoadClaimPos, ClaimFails,
              EvictLoadProd, EvictLoadCons
  <2>1. OnlyLocals(p)
    BY Zenon, <1>1 DEF OnlyLocals, IInv, TypeOK
  <2>2. pc'[p] \in Outside /\ prod'[p] <= producer_pos /\ cons'[p] <= cons_pos
    BY Zenon, <1>0, <1>1 DEF IInv, TypeOK
  <2> QED BY <2>1, <2>2, OutsideStep
<1>2. CASE CacheConsumerPos(p)
  <2>1. CASE Drop(p)
    BY <1>2, <2>1, ReturnStep DEF CacheConsumerPos, Drop
  <2>2. CASE ~Drop(p)
    <3>1. OnlyLocals(p)
      BY <1>2, <2>2 DEF CacheConsumerPos, OnlyLocals, IInv, TypeOK
    <3>2. pc'[p] \in Outside /\ prod'[p] <= producer_pos /\ cons'[p] <= cons_pos
      BY <1>0, <1>2, <2>2 DEF CacheConsumerPos, IInv, TypeOK
    <3> QED BY <3>1, <3>2, OutsideStep
  <2> QED BY <2>1, <2>2
<1>3. CASE ScanEnds(p)
  BY <1>3, ReturnStep DEF ScanEnds, Drop
<1> QED BY <1>1, <1>2, <1>3

(* A publisher reaches the compare-exchange only with a stale position or  *)
(* with one the ring has room for, by either check.                        *)
LEMMA CheckSteps ==
  ASSUME IInv, TypeOK', NEW p \in Producers, CheckSequence(p) \/ VerifyFull(p)
  PROVE  IInv'
<1> USE DEF ring, positions, stats, publisher, consumer, history, Goto
<1>0. /\ prod[p] <= producer_pos /\ cons[p] <= cons_pos /\ consumer_pos <= cons_pos
      /\ producer_pos <= cons_pos + kQueueDepth /\ cons_pos <= producer_pos
      /\ prod[p] \in Nat /\ producer_pos \in Nat /\ cons_pos \in Nat /\ consumer_pos \in Nat
      /\ kQueueDepth \in Nat
  BY BusAssumption DEF IInv, PositionsInv, TypeOK
<1>1. ASSUME pc' = [pc EXCEPT ![p] = "cas"], UNCHANGED <<prod, cons, i>>,
             UNCHANGED <<sequence, producer_pos, consumer_pos, cpc, cons_pos, processed>>,
             prod[p] = producer_pos => producer_pos < cons_pos + kQueueDepth
      PROVE  IInv'
  <2>1. OnlyLocals(p) /\ pc'[p] = "cas" /\ prod'[p] = prod[p] /\ cons'[p] = cons[p]
    BY <1>1 DEF OnlyLocals, IInv, TypeOK
  <2>2. ~Filling(p)' /\ ~Evicting(p)'
    BY <2>1 DEF Filling, Evicting
  <2>3. PublisherInv(p)'
    BY <2>1, <2>2, <1>1 DEF PublisherInv
  <2> QED BY <2>1, <2>2, <2>3, <1>0, LocalStep
<1>2. CASE CheckSequence(p)
  <2>1. CASE sequence[Slot(prod[p])] = prod[p]
    <3>1. prod[p] = producer_pos => producer_pos < cons_pos + kQueueDepth
      BY <1>0, <2>1, FullIsNotFree
    <3> QED BY <1>1, <1>2, <2>1, <3>1 DEF CheckSequence
  <2>2. CASE sequence[Slot(prod[p])] # prod[p]
    <3>1. OnlyLocals(p)
      BY <1>2 DEF CheckSequence, OnlyLocals, IInv, TypeOK
    <3>2. pc'[p] = "verify" /\ prod'[p] = prod[p] /\ cons'[p] = cons[p]
      BY <1>2, <2>2 DEF CheckSequence, IInv, TypeOK
    <3> QED BY <1>0, <3>1, <3>2, OutsideStep DEF Outside
  <2> QED BY <2>1, <2>2
<1>3. CASE VerifyFull(p)
  <2>1. CASE Drop(p)
    BY <1>3, <2>1, ReturnStep DEF VerifyFull, Drop
  <2>2. CASE ~Drop(p)
    <3>1. ~(kQueueDepth <= Sub(prod[p], consumer_pos))
      BY <1>3, <2>2 DEF VerifyFull
    <3>2. prod[p] = producer_pos => producer_pos < cons_pos + kQueueDepth
      BY <1>0, <3>1 DEF Sub
    <3> QED BY <1>1, <1>3, <2>2, <3>2 DEF VerifyFull
  <2> QED BY <2>1, <2>2
<1> QED BY <1>2, <1>3

(* The scan for a victim, and the steps of a thread that keeps its slot. *)
LEMMA ScanAndFillSteps ==
  ASSUME IInv, TypeOK', NEW p \in Producers,
         \/ ScanSlot(p) \/ PeekPriority(p)
         \/ FillEnvelope(p) \/ ReverifyPriority(p) \/ OverwriteVictim(p)
  PROVE  IInv'
<1> USE DEF ring, positions, stats, publisher, consumer, history, Goto
<1>0. prod[p] <= producer_pos /\ cons[p] <= cons_pos
  BY DEF IInv, PositionsInv
<1>1. ASSUME SkipCandidate(p), UNCHANGED <<prod, cons>>,
             UNCHANGED <<sequence, producer_pos, consumer_pos, cpc, cons_pos, processed>>
      PROVE  IInv'
  <2>1. OnlyLocals(p)
    BY <1>1 DEF OnlyLocals, SkipCandidate, IInv, TypeOK
  <2>2. pc'[p] \in Outside /\ prod'[p] = prod[p] /\ cons'[p] = cons[p]
    BY <1>1 DEF SkipCandidate, Outside, IInv, TypeOK
  <2> QED BY <1>0, <2>1, <2>2, OutsideStep
<1>2. ASSUME NEW to \in {"peek", "reserve"}, pc' = [pc EXCEPT ![p] = to],
             i[p] < kQueueDepth, UNCHANGED <<prod, cons, i>>,
             UNCHANGED <<sequence, producer_pos, consumer_pos, cpc, cons_pos, processed>>
      PROVE  IInv'
  <2>1. OnlyLocals(p) /\ pc'[p] = to /\ prod'[p] = prod[p] /\ cons'[p] = cons[p] /\ i'[p] = i[p]
    BY <1>2 DEF OnlyLocals, IInv, TypeOK
  <2>2. ~Filling(p)' /\ ~Evicting(p)'
    BY <2>1 DEF Filling, Evicting
  <2>3. PublisherInv(p)'
    BY <2>1, <2>2, <1>2 DEF PublisherInv
  <2> QED BY <1>0, <2>1, <2>2, <2>3, LocalStep
<1>3. CASE ScanSlot(p)
  <2>1. CASE SkipCandidate(p)
    BY <1>1, <1>3, <2>1 DEF ScanSlot
  <2>2. CASE ~SkipCandidate(p)
    <3>1. pc' = [pc EXCEPT ![p] = "peek"] /\ UNCHANGED i
      BY <1>3, <2>2 DEF ScanSlot
    <3>2. i[p] < kQueueDepth
      BY <1>3, BusAssumption DEF ScanSlot, ScanOver, IInv, TypeOK
    <3> QED BY <1>2, <1>3, <3>1, <3>2 DEF ScanSlot
  <2> QED BY <2>1, <2>2
<1>4. CASE PeekPriority(p)
  <2>1. CASE SkipCandidate(p)
    BY <1>1, <1>4, <2>1 DEF PeekPriority
  <2>2. CASE ~SkipCandidate(p)
    <3>1. pc' = [pc EXCEPT ![p] = "reserve"] /\ UNCHANGED i
      BY <1>4, <2>2 DEF PeekPriority
    <3>2. i[p] < kQueueDepth
      BY <1>4 DEF PeekPriority, IInv, PublisherInv
    <3> QED BY <1>2, <1>4, <3>1, <3>2 DEF PeekPriority
  <2> QED BY <2>1, <2>2
<1>5. CASE FillEnvelope(p) \/ ReverifyPriority(p) \/ OverwriteVictim(p)
  <2> USE DEF FillEnvelope, ReverifyPriority, OverwriteVictim
  <2>1. OnlyLocals(p) /\ prod'[p] = prod[p] /\ cons'[p] = cons[p] /\ i'[p] = i[p]
    BY Zenon, <1>5 DEF OnlyLocals, IInv, TypeOK
  <2>2. /\ Filling(p)' => Filling(p)
        /\ Evicting(p)' => Evicting(p)
        /\ pc'[p] \notin {"cas", "peek", "reserve"}
    <3>1. CASE FillEnvelope(p) BY <3>1 DEF Filling, Evicting, IInv, TypeOK
    <3>2. CASE ReverifyPriority(p) BY <3>2 DEF Filling, Evicting, IInv, TypeOK
    <3>3. CASE OverwriteVictim(p) BY <3>3 DEF Filling, Evicting, IInv, TypeOK
    <3> QED BY Zenon, <1>5, <3>1, <3>2, <3>3
  <2>3. Candidate(p)' = Candidate(p)
    BY Zenon, <2>1 DEF Candidate
  <2>4. UNCHANGED <<sequence, producer_pos, cons_pos>>
    BY <1>5
  <2>5. PublisherInv(p)'
    BY Zenon, <2>1, <2>2, <2>3, <2>4 DEF PublisherInv, IInv
  <2> QED BY Zenon, <1>0, <2>1, <2>2, <2>3, <2>4, <2>5, LocalStep
<1> QED BY <1>3, <1>4, <1>5

=============================================================================
