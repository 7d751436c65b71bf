---------------------------- MODULE QueueProofs -----------------------------
(***************************************************************************)
(* The two queues that several threads fill and one empties.               *)
(*                                                                         *)
(* The multi-producer single-consumer ring, for every number of producers, *)
(* every depth above one and every number of calls: one user of a slot at  *)
(* a time, the queue of BusQueue, and no refusal while there is room.  A   *)
(* ring of depth one is left out: there the sequence that publishes a slot *)
(* is the one that frees it for the next lap.                              *)
(*                                                                         *)
(* The queue of an application, for any number of callers, requests and    *)
(* instances and any depth: who still has a response channel, and who      *)
(* frees it.                                                               *)
(***************************************************************************)
EXTENDS MpscRing, RingArith

-----------------------------------------------------------------------------
(* The inductive invariant. *)

Filling(p) == pc[p] \in {"fill", "publish"}

(* The oldest position whose slot is not free yet: the slot of             *)
(* consumer_pos is freed one step before consumer_pos moves on.            *)
Oldest == IF cpc = "advance" THEN consumer_pos + 1 ELSE consumer_pos
Window == Oldest .. Oldest + Depth - 1

PositionsInv ==
  /\ Oldest <= producer_pos /\ producer_pos <= Oldest + Depth
  /\ \A p \in Producers : pos[p] <= producer_pos

(* The sequence of the one slot of each position of the window. *)
SequencesInv ==
  \A x \in Window :
    IF x < producer_pos THEN sequence[Slot(x)] \in {x, x + 1} ELSE sequence[Slot(x)] = x

(* A producer about to claim the next position has seen it free; one that  *)
(* fills holds a claimed position that is not published.                   *)
ProducerInv(p) ==
  /\ pc[p] = "cas" /\ pos[p] = producer_pos => producer_pos < Oldest + Depth
  /\ Filling(p) => /\ Oldest <= pos[p] /\ pos[p] < producer_pos
                   /\ sequence[Slot(pos[p])] = pos[p]
  /\ pc[p] = "publish" => event[Slot(pos[p])] = item[p]

DistinctInv ==
  \A p \in Producers, q \in Producers : p # q /\ Filling(p) /\ Filling(q) => pos[p] # pos[q]

ConsumerInv ==
  cpc \in {"copy", "free"} =>
    consumer_pos < producer_pos /\ sequence[Slot(consumer_pos)] = consumer_pos + 1

(* What is published and what was delivered are items of earlier calls,    *)
(* none of them that of a call that is still under way.                    *)
Unused(v) == v \in 1 .. calls /\ \A p \in Producers : pc[p] # "idle" => item[p] # v
ItemsInv ==
  /\ calls <= MaxCalls
  /\ \A p \in Producers : pc[p] # "idle" => item[p] \in 1 .. calls
  /\ \A p \in Producers, q \in Producers :
       p # q /\ pc[p] # "idle" /\ pc[q] # "idle" => item[p] # item[q]
  /\ \A x \in Window : x < producer_pos /\ sequence[Slot(x)] = x + 1 => Unused(event[Slot(x)])
  /\ \A n \in 1 .. Len(delivered) : Unused(delivered[n])

IInv ==
  /\ TypeOK /\ PositionsInv /\ SequencesInv /\ DistinctInv /\ ConsumerInv /\ ItemsInv
  /\ \A p \in Producers : ProducerInv(p)

-----------------------------------------------------------------------------
(* Type correctness, and the slots of the window. *)

(* A position falls on a slot. *)
LEMMA SlotType == ASSUME NEW x \in Nat PROVE Slot(x) \in Slots
BY RingAssumption, ModRange DEF Slot, Slots

(* Every step keeps the types. *)
LEMMA TypeStep == TypeOK /\ [Next]_vars => TypeOK'
<1> SUFFICES ASSUME TypeOK, [Next]_vars PROVE TypeOK'
  BY Zenon
<1> USE DEF TypeOK, ring, locals, history
<1>1. ASSUME NEW p \in Producers, Begin(p) PROVE TypeOK'
  BY <1>1 DEF Begin, Goto
<1>2. ASSUME NEW p \in Producers, Push(p) PROVE TypeOK'
  <2>0. Slot(pos[p]) \in Slots
    BY SlotType, Zenon
  <2>1. CASE LoadPos(p) BY <2>1, Zenon DEF LoadPos, Goto
  <2>2. CASE SlotFree(p) BY <2>2, Zenon DEF SlotFree, Goto
  <2>3. CASE SlotBehind(p) BY <2>3, Zenon DEF SlotBehind, Return
  <2>4. CASE SlotAhead(p)
    <3>1. CASE Return(p) BY <2>4, <3>1, Zenon DEF SlotAhead, Return
    <3>2. CASE ~Return(p) BY <2>4, <3>2, Zenon DEF SlotAhead, Goto
    <3> QED BY <3>1, <3>2, Zenon
  <2>5. CASE Claim(p) BY <2>5, SMTT(30) DEF Claim, Goto
  <2>6. CASE ClaimFails(p) BY <2>6, Zenon DEF ClaimFails, Goto
  <2>7. CASE Fill(p) BY <2>0, <2>7, Zenon DEF Fill, Goto
  <2>8. CASE Publish(p) BY <2>0, <2>8, SMTT(30) DEF Publish, Return
  <2> QED BY <1>2, <2>1, <2>2, <2>3, <2>4, <2>5, <2>6, <2>7, <2>8, Zenon DEF Push
<1>3. CASE Pop
  <2>0. Slot(consumer_pos) \in Slots
    BY SlotType, Zenon
  <2>1. CASE SeeEvent BY <2>1, Zenon DEF SeeEvent
  <2>2. CASE CopyEvent BY <2>0, <2>2 DEF CopyEvent
  <2>3. CASE FreeSlot BY <2>0, <2>3, RingAssumption DEF FreeSlot
  <2>4. CASE Advance BY <2>4 DEF Advance
  <2> QED BY <1>3, <2>1, <2>2, <2>3, <2>4, Zenon DEF Pop
<1>4. CASE UNCHANGED vars
  BY <1>4, Zenon DEF vars
<1> QED BY <1>1, <1>2, <1>3, <1>4, Zenon DEF Next

(* Two positions of a lap have different slots. *)
LEMMA SlotsDiffer ==
  ASSUME NEW o \in Nat, NEW a \in o .. o + Depth - 1, NEW b \in o .. o + Depth - 1, a # b
  PROVE  Slot(a) # Slot(b)
<1>1. a \in Nat /\ b \in Nat /\ Depth \in Nat /\ Depth > 0
  BY RingAssumption
<1>2. a < b \/ b < a
  BY <1>1
<1>3. Slot(a) = Slot(b) => (a < b => a + Depth <= b) /\ (b < a => b + Depth <= a)
  BY <1>1, ModApart, Zenon DEF Slot
<1> QED BY <1>1, <1>2, <1>3

(* A lap later the slot is the same. *)
LEMMA SlotLap == ASSUME NEW a \in Nat PROVE Slot(a + Depth) = Slot(a)
<1>1. Depth \in Nat /\ Depth > 0
  BY RingAssumption
<1> QED BY <1>1, ModShift, Zenon DEF Slot

(* The numbers of the invariant. *)
LEMMA Numbers ==
  ASSUME IInv
  PROVE  /\ Oldest \in Nat /\ consumer_pos \in Nat /\ producer_pos \in Nat
         /\ Depth \in Nat /\ Depth > 1 /\ calls \in Nat
         /\ Oldest <= producer_pos /\ producer_pos <= Oldest + Depth
         /\ \A x \in Window : x \in Nat /\ Slot(x) \in Slots
         /\ \A x \in Window : \A y \in Window : x # y => Slot(x) # Slot(y)
         /\ \A p \in Producers : /\ pos[p] \in Nat /\ pos[p] <= producer_pos
                                 /\ Filling(p) => pos[p] \in Window
<1>1. /\ Oldest \in Nat /\ consumer_pos \in Nat /\ producer_pos \in Nat
      /\ Depth \in Nat /\ Depth > 1 /\ calls \in Nat
      /\ Oldest <= producer_pos /\ producer_pos <= Oldest + Depth
  BY RingAssumption DEF IInv, TypeOK, PositionsInv, Oldest
<1>2. \A x \in Window : x \in Nat
  BY <1>1 DEF Window
<1>3. \A p \in Producers : pos[p] \in Nat /\ pos[p] <= producer_pos
  BY Zenon DEF IInv, TypeOK, PositionsInv
<1>4. \A p \in Producers : Filling(p) => pos[p] \in Window
  BY <1>1, <1>3 DEF IInv, ProducerInv, Window
<1>5. \A x \in Window : \A y \in Window : x # y => Slot(x) # Slot(y)
  BY <1>1, SlotsDiffer, Zenon DEF Window
<1> QED BY <1>1, <1>2, <1>3, <1>4, <1>5, SlotType, Zenon

-----------------------------------------------------------------------------
(* Steps of TryPush that leave the ring alone. *)

Others(p) ==
  \A q \in Producers \ {p} : pc'[q] = pc[q] /\ pos'[q] = pos[q] /\ item'[q] = item[q]

(* Such a step keeps the invariant if the thread ends up holding nothing   *)
(* and has seen what it may claim.                                         *)
LEMMA LocalStep ==
  ASSUME IInv, TypeOK', NEW p \in Producers, Others(p), ItemsInv',
         UNCHANGED <<sequence, event, producer_pos, consumer_pos, cpc>>,
         ~Filling(p)', pos'[p] <= producer_pos,
         pc'[p] = "cas" /\ pos'[p] = producer_pos => producer_pos < Oldest + Depth
  PROVE  IInv'
<1>0. Oldest' = Oldest /\ Window' = Window
  BY Zenon DEF Oldest, Window
<1>1. PositionsInv'
  BY <1>0, Zenon DEF IInv, PositionsInv, Others
<1>2. SequencesInv'
  BY <1>0, Zenon DEF IInv, SequencesInv
<1>3. DistinctInv'
  BY ZenonT(30) DEF IInv, DistinctInv, Filling, Others
<1>4. ConsumerInv'
  BY Zenon DEF IInv, ConsumerInv
<1>5. ASSUME NEW q \in Producers PROVE ProducerInv(q)'
  <2>1. CASE q = p
    BY <1>0, <2>1, Zenon DEF ProducerInv, Filling
  <2>2. CASE q # p
    BY <1>0, <2>2, Zenon DEF IInv, ProducerInv, Filling, Others
  <2> QED BY <2>1, <2>2, Zenon
<1> QED BY <1>1, <1>2, <1>3, <1>4, <1>5, Zenon DEF IInv

(* The items stay as they are while no call begins and nothing is          *)
(* published or delivered.                                                 *)
LEMMA SameItems ==
  ASSUME IInv, NEW p \in Producers, Others(p),
         UNCHANGED <<sequence, event, producer_pos, consumer_pos, cpc, calls, delivered>>,
         pc'[p] # "idle" => pc[p] # "idle" /\ item'[p] = item[p]
  PROVE  ItemsInv'
<1>0. Window' = Window
  BY Zenon DEF Oldest, Window
<1>1. \A q \in Producers : pc'[q] # "idle" => pc[q] # "idle" /\ item'[q] = item[q]
  BY Zenon DEF Others
<1>2. \A v : Unused(v) => Unused(v)'
  BY <1>1, Zenon DEF Unused
<1>3. \A q \in Producers : pc'[q] # "idle" => item'[q] \in 1 .. calls
  BY <1>1, Zenon DEF IInv, ItemsInv
<1>4. \A q \in Producers, r \in Producers :
        q # r /\ pc'[q] # "idle" /\ pc'[r] # "idle" => item'[q] # item'[r]
  BY <1>1, Zenon DEF IInv, ItemsInv
<1> QED BY <1>0, <1>2, <1>3, <1>4, Zenon DEF IInv, ItemsInv

(* A free slot is not a slot of a full ring. *)
LEMMA FreeHasRoom ==
  ASSUME IInv, sequence[Slot(producer_pos)] = producer_pos
  PROVE  producer_pos < Oldest + Depth
<1> SUFFICES ASSUME producer_pos = Oldest + Depth PROVE FALSE
  BY Numbers
<1>1. Slot(producer_pos) = Slot(Oldest)
  BY Numbers, SlotLap, Zenon
<1>2. Oldest \in Window /\ Oldest < producer_pos
  BY Numbers DEF Window
<1>3. sequence[Slot(Oldest)] \in {Oldest, Oldest + 1}
  BY <1>2, Zenon DEF IInv, SequencesInv
<1> QED BY <1>1, <1>3, Numbers

(* The steps that leave the ring alone keep the invariant. *)
LEMMA LocalSteps ==
  ASSUME IInv, TypeOK', NEW p \in Producers,
         \/ Begin(p) \/ LoadPos(p) \/ SlotFree(p) \/ SlotBehind(p) \/ SlotAhead(p)
         \/ ClaimFails(p)
  PROVE  IInv'
<1> USE DEF ring, locals, history
<1>0. /\ pc \in [Producers -> {"idle", "load", "check", "cas", "fill", "publish"}]
      /\ pos \in [Producers -> Nat] /\ item \in [Producers -> Nat] /\ producer_pos \in Nat
      /\ pos[p] <= producer_pos /\ calls \in Nat
  BY Zenon DEF IInv, TypeOK, PositionsInv
<1>1. CASE Begin(p)
  <2>1. /\ calls < MaxCalls /\ pc[p] = "idle" /\ pc' = [pc EXCEPT ![p] = "load"]
        /\ calls' = calls + 1 /\ item' = [item EXCEPT ![p] = calls + 1]
        /\ UNCHANGED <<ring, pos, cpc, delivered>>
    BY <1>1, Zenon DEF Begin, Goto
  <2>2. Others(p) /\ pc'[p] = "load" /\ item'[p] = calls + 1 /\ pos'[p] = pos[p]
    BY <1>0, <2>1, Zenon DEF Others
  <2>3. ItemsInv'
    <3>0. Window' = Window
      BY <2>1, Zenon DEF Oldest, Window
    <3>1. \A v : Unused(v) => Unused(v)'
      BY <1>0, <2>1, <2>2 DEF Unused, Others
    <3>2. \A q \in Producers : pc'[q] # "idle" => item'[q] \in 1 .. calls'
      BY <1>0, <2>1, <2>2 DEF IInv, ItemsInv, Others
    <3>3. \A q \in Producers : q # p /\ pc'[q] # "idle" => item'[q] # calls + 1
      BY <1>0, <2>2, SMTT(30) DEF IInv, ItemsInv, Others
    <3>4. \A q \in Producers, r \in Producers :
            q # r /\ pc'[q] # "idle" /\ pc'[r] # "idle" => item'[q] # item'[r]
      BY <2>2, <3>3 DEF IInv, ItemsInv, Others
    <3>5. calls' <= MaxCalls
      BY <1>0, <2>1, RingAssumption
    <3> QED BY <2>1, <3>0, <3>1, <3>2, <3>4, <3>5, Zenon DEF IInv, ItemsInv
  <2> QED BY <1>0, <2>1, <2>2, <2>3, LocalStep, Zenon DEF Filling
<1>2. ASSUME pc[p] # "idle", Others(p), item'[p] = item[p] \/ pc'[p] = "idle",
             UNCHANGED <<ring, cpc, history>>, pc'[p] \in {"idle", "load", "check", "cas"},
             pos'[p] <= producer_pos,
             pc'[p] = "cas" /\ pos'[p] = producer_pos => producer_pos < Oldest + Depth
      PROVE  IInv'
  <2>1. ItemsInv'
    BY <1>2, SameItems, Zenon
  <2> QED BY <1>2, <2>1, LocalStep, Zenon DEF Filling
<1>3. CASE LoadPos(p)
  <2>1. Others(p) /\ item'[p] = item[p] /\ pc'[p] = "check" /\ pos'[p] = producer_pos
    BY <1>0, <1>3, Zenon DEF LoadPos, Goto, Others
  <2> QED BY <1>0, <1>2, <1>3, <2>1 DEF LoadPos, Goto
<1>4. CASE SlotFree(p)
  <2>1. Others(p) /\ item'[p] = item[p] /\ pc'[p] = "cas" /\ pos'[p] = pos[p]
    BY <1>0, <1>4, Zenon DEF SlotFree, Goto, Others
  <2>2. pos'[p] = producer_pos => producer_pos < Oldest + Depth
    BY <1>4, <2>1, FreeHasRoom, Zenon DEF SlotFree
  <2> QED BY <1>0, <1>2, <1>4, <2>1, <2>2, Zenon DEF SlotFree, Goto
<1>5. ASSUME Return(p), pc[p] # "idle", UNCHANGED <<ring, cpc, history>> PROVE IInv'
  <2>1. Others(p) /\ pc'[p] = "idle" /\ pos'[p] = 0
    BY <1>0, <1>5, Zenon DEF Return, Others
  <2> QED BY <1>0, <1>2, <1>5, <2>1
<1>6. ASSUME pc[p] # "idle", pc' = [pc EXCEPT ![p] = "load"], UNCHANGED <<pos, item>>,
             UNCHANGED <<ring, cpc, history>>
      PROVE  IInv'
  <2>1. Others(p) /\ item'[p] = item[p] /\ pc'[p] = "load" /\ pos'[p] = pos[p]
    BY <1>0, <1>6, Zenon DEF Others
  <2> QED BY <1>0, <1>2, <1>6, <2>1, Zenon
<1>7. CASE SlotBehind(p)
  BY <1>5, <1>7, Zenon DEF SlotBehind
<1>8. CASE SlotAhead(p)
  BY <1>5, <1>6, <1>8, Zenon DEF SlotAhead, Goto
<1>9. CASE ClaimFails(p)
  BY <1>6, <1>9, Zenon DEF ClaimFails, Goto
<1> QED BY <1>1, <1>3, <1>4, <1>7, <1>8, <1>9, Zenon

-----------------------------------------------------------------------------
(* Steps of TryPush that change the ring. *)

(* The exchange on producer_pos claims a free position nobody else holds. *)
LEMMA ClaimStep == ASSUME IInv, TypeOK', NEW p \in Producers, Claim(p) PROVE IInv'
<1> USE DEF ring, locals, history
<1>1. /\ pc[p] = "cas" /\ pc' = [pc EXCEPT ![p] = "fill"] /\ pos[p] = producer_pos
      /\ producer_pos' = producer_pos + 1
      /\ UNCHANGED <<sequence, event, consumer_pos, pos, item, cpc, calls, delivered>>
  BY Zenon DEF Claim, Goto
<1>2. /\ Oldest' = Oldest /\ Window' = Window
      /\ pc'[p] = "fill" /\ \A q \in Producers \ {p} : pc'[q] = pc[q]
  BY <1>1, Zenon DEF Oldest, Window, IInv, TypeOK
<1>3. producer_pos < Oldest + Depth /\ producer_pos \in Window
  BY <1>1, Numbers DEF IInv, ProducerInv, Window
<1>4. sequence[Slot(producer_pos)] = producer_pos
  BY <1>3, Numbers DEF IInv, SequencesInv
<1>5. PositionsInv'
  BY <1>1, <1>2, <1>3, Numbers DEF PositionsInv
<1>6. SequencesInv'
  <2> SUFFICES ASSUME NEW x \in Window
               PROVE  IF x < producer_pos + 1 THEN sequence[Slot(x)] \in {x, x + 1}
                                              ELSE sequence[Slot(x)] = x
    BY <1>1, <1>2, Zenon DEF SequencesInv
  <2>1. IF x < producer_pos THEN sequence[Slot(x)] \in {x, x + 1} ELSE sequence[Slot(x)] = x
    BY Zenon DEF IInv, SequencesInv
  <2> QED BY <2>1, Numbers
<1>7. DistinctInv'
  <2>1. \A q \in Producers : Filling(q) => pos[q] < producer_pos /\ pos[q] \in Nat
    BY Numbers, Zenon DEF IInv, ProducerInv
  <2> QED BY <1>1, <1>2, <2>1, Numbers DEF IInv, DistinctInv, Filling
<1>8. ConsumerInv'
  BY <1>1, Numbers DEF IInv, ConsumerInv
<1>9. ItemsInv'
  <2>1. \A v : Unused(v) => Unused(v)'
    BY <1>1, <1>2, Zenon DEF Unused
  <2>2. \A q \in Producers : pc'[q] # "idle" => pc[q] # "idle"
    BY <1>1, <1>2, Zenon
  <2>3. ASSUME NEW x \in Window, x < producer_pos + 1, sequence[Slot(x)] = x + 1
        PROVE  Unused(event[Slot(x)])'
    <3>1. x < producer_pos
      BY <1>4, <2>3, Numbers
    <3> QED BY <1>1, <2>1, <2>3, <3>1, Zenon DEF IInv, ItemsInv
  <2>4. \A n \in 1 .. Len(delivered') : Unused(delivered[n])'
    BY <1>1, <2>1, Zenon DEF IInv, ItemsInv
  <2> QED BY <1>1, <1>2, <2>2, <2>3, <2>4, Zenon DEF IInv, ItemsInv
<1>10. ASSUME NEW q \in Producers PROVE ProducerInv(q)'
  <2>1. CASE q = p
    BY <1>1, <1>2, <1>4, <2>1, Numbers, SMTT(30) DEF ProducerInv, Filling
  <2>2. CASE q # p
    BY <1>1, <1>2, <2>2, Numbers DEF IInv, ProducerInv, Filling
  <2> QED BY <2>1, <2>2, Zenon
<1> QED BY <1>5, <1>6, <1>7, <1>8, <1>9, <1>10, Zenon DEF IInv

(* The copy of the event touches only the slot the thread has claimed. *)
LEMMA FillStep == ASSUME IInv, TypeOK', NEW p \in Producers, Fill(p) PROVE IInv'
<1> USE DEF ring, locals, history
<1>1. /\ pc[p] = "fill" /\ pc' = [pc EXCEPT ![p] = "publish"]
      /\ event' = [event EXCEPT ![Slot(pos[p])] = item[p]]
      /\ UNCHANGED <<sequence, producer_pos, consumer_pos, pos, item, cpc, calls, delivered>>
  BY Zenon DEF Fill, Goto
<1>2. /\ Oldest' = Oldest /\ Window' = Window
      /\ pc'[p] = "publish" /\ \A q \in Producers \ {p} : pc'[q] = pc[q]
  BY <1>1, Zenon DEF Oldest, Window, IInv, TypeOK
<1>3. /\ pos[p] \in Window /\ sequence[Slot(pos[p])] = pos[p] /\ pos[p] < producer_pos
      /\ Oldest <= pos[p] /\ pos[p] \in Nat
  BY <1>1, Numbers, Zenon DEF IInv, ProducerInv, Filling
<1>4. /\ event'[Slot(pos[p])] = item[p]
      /\ \A x \in Window : x # pos[p] => event'[Slot(x)] = event[Slot(x)]
  BY <1>1, <1>3, Numbers, Zenon DEF IInv, TypeOK
<1>5. PositionsInv' /\ SequencesInv' /\ ConsumerInv'
  BY <1>1, <1>2, Zenon DEF IInv, PositionsInv, SequencesInv, ConsumerInv
<1>6. DistinctInv'
  BY <1>1, <1>2, ZenonT(30) DEF IInv, DistinctInv, Filling
<1>7. ItemsInv'
  <2>1. \A v : Unused(v) => Unused(v)'
    BY <1>1, <1>2, Zenon DEF Unused
  <2>2. \A q \in Producers : pc'[q] # "idle" => pc[q] # "idle"
    BY <1>1, <1>2, Zenon
  <2>3. ASSUME NEW x \in Window, x < producer_pos, sequence[Slot(x)] = x + 1
        PROVE  Unused(event[Slot(x)])'
    <3>1. x # pos[p]
      BY <1>3, <2>3, Numbers
    <3>2. Unused(event[Slot(x)])
      BY <2>3, Zenon DEF IInv, ItemsInv
    <3>3. event'[Slot(x)] = event[Slot(x)]
      BY <1>4, <3>1, Zenon
    <3> QED BY <1>1, <1>2, <3>2, <3>3, Zenon DEF Unused
  <2>4. \A n \in 1 .. Len(delivered') : Unused(delivered[n])'
    BY <1>1, <2>1, Zenon DEF IInv, ItemsInv
  <2> QED BY <1>1, <1>2, <2>2, <2>3, <2>4, Zenon DEF IInv, ItemsInv
<1>8. ASSUME NEW q \in Producers PROVE ProducerInv(q)'
  <2>1. CASE q = p
    BY <1>1, <1>2, <1>3, <1>4, <2>1, Zenon DEF ProducerInv, Filling
  <2>2. CASE q # p
    <3>1. pc[q] = "publish" => pos[q] \in Window /\ pos[q] # pos[p]
      BY <1>1, <2>2, Numbers, Zenon DEF IInv, DistinctInv, Filling
    <3> QED BY <1>1, <1>2, <1>4, <2>2, <3>1, Zenon DEF IInv, ProducerInv, Filling
  <2> QED BY <2>1, <2>2, Zenon
<1> QED BY <1>5, <1>6, <1>7, <1>8, Zenon DEF IInv

(* The store of the sequence hands the slot over to the consumer. *)
LEMMA PublishStep == ASSUME IInv, TypeOK', NEW p \in Producers, Publish(p) PROVE IInv'
<1> USE DEF ring, locals, history
<1>1. /\ pc[p] = "publish" /\ pc' = [pc EXCEPT ![p] = "idle"]
      /\ pos' = [pos EXCEPT ![p] = 0] /\ item' = [item EXCEPT ![p] = 0]
      /\ sequence' = [sequence EXCEPT ![Slot(pos[p])] = pos[p] + 1]
      /\ UNCHANGED <<event, producer_pos, consumer_pos, cpc, calls, delivered>>
  BY Zenon DEF Publish, Return
<1>2. /\ Oldest' = Oldest /\ Window' = Window /\ pc'[p] = "idle" /\ pos'[p] = 0
      /\ Others(p)
  BY <1>1, Zenon DEF Oldest, Window, IInv, TypeOK, Others
<1>3. /\ pos[p] \in Window /\ sequence[Slot(pos[p])] = pos[p] /\ pos[p] < producer_pos
      /\ Oldest <= pos[p] /\ pos[p] \in Nat /\ event[Slot(pos[p])] = item[p]
  BY <1>1, Numbers, Zenon DEF IInv, ProducerInv, Filling
<1>4. /\ sequence'[Slot(pos[p])] = pos[p] + 1
      /\ \A x \in Window : x # pos[p] => sequence'[Slot(x)] = sequence[Slot(x)]
  BY <1>1, <1>3, Numbers, Zenon DEF IInv, TypeOK
<1>5. PositionsInv'
  <2>1. \A q \in Producers : pos'[q] <= producer_pos
    BY <1>2, Numbers DEF Others
  <2> QED BY <1>1, <1>2, <2>1, Zenon DEF IInv, PositionsInv
<1>6. SequencesInv'
  <2> SUFFICES ASSUME NEW x \in Window
               PROVE  IF x < producer_pos THEN sequence'[Slot(x)] \in {x, x + 1}
                                          ELSE sequence'[Slot(x)] = x
    BY <1>1, <1>2, Zenon DEF SequencesInv
  <2>1. CASE x = pos[p] BY <1>3, <1>4, <2>1, Zenon
  <2>2. CASE x # pos[p] BY <1>4, <2>2, Zenon DEF IInv, SequencesInv
  <2> QED BY <2>1, <2>2, Zenon
<1>7. DistinctInv'
  BY <1>2, ZenonT(30) DEF IInv, DistinctInv, Filling, Others
<1>8. ConsumerInv'
  <2> SUFFICES ASSUME cpc \in {"copy", "free"}
               PROVE  sequence'[Slot(consumer_pos)] = sequence[Slot(consumer_pos)]
    BY <1>1, Zenon DEF IInv, ConsumerInv
  <2>1. consumer_pos = Oldest /\ consumer_pos \in Window
    BY Numbers DEF Oldest, Window
  <2>2. consumer_pos # pos[p]
    BY <1>3, Numbers DEF IInv, ConsumerInv
  <2> QED BY <1>4, <2>1, <2>2, Zenon
<1>9. ItemsInv'
  <2>1. \A v : Unused(v) => Unused(v)'
    BY <1>1, <1>2, Zenon DEF Unused, Others
  <2>2. \A q \in Producers : pc'[q] # "idle" => q # p /\ pc[q] # "idle" /\ item'[q] = item[q]
    BY <1>2, Zenon DEF Others
  <2>4. ASSUME NEW x \in Window, x < producer_pos, sequence'[Slot(x)] = x + 1
        PROVE  Unused(event[Slot(x)])'
    <3>1. event' = event
      BY <1>1, Zenon
    <3>2. CASE x = pos[p]
      <4>1. event'[Slot(x)] = item[p]
        BY <1>3, <3>1, <3>2, Zenon
      <4> QED BY <1>1, <2>2, <4>1, ZenonT(30) DEF IInv, ItemsInv, Unused
    <3>3. CASE x # pos[p]
      <4>1. Unused(event[Slot(x)])
        BY <1>4, <2>4, <3>3, Zenon DEF IInv, ItemsInv
      <4> QED BY <1>1, <2>2, <3>1, <4>1, Zenon DEF Unused
    <3> QED BY <3>2, <3>3, Zenon
  <2>5. \A n \in 1 .. Len(delivered') : Unused(delivered[n])'
    BY <1>1, <2>1, Zenon DEF IInv, ItemsInv
  <2>6. \A q \in Producers : pc'[q] # "idle" => item'[q] \in 1 .. calls
    BY <2>2, Zenon DEF IInv, ItemsInv
  <2>7. \A q \in Producers, r \in Producers :
          q # r /\ pc'[q] # "idle" /\ pc'[r] # "idle" => item'[q] # item'[r]
    BY <2>2, Zenon DEF IInv, ItemsInv
  <2> QED BY <1>1, <1>2, <2>4, <2>5, <2>6, <2>7, Zenon DEF IInv, ItemsInv
<1>10. ASSUME NEW q \in Producers PROVE ProducerInv(q)'
  <2>1. CASE q = p
    BY <1>2, <2>1, Zenon DEF ProducerInv, Filling
  <2>2. CASE q # p
    <3>1. /\ Filling(q) => pos[q] \in Window /\ pos[q] # pos[p]
          /\ pc'[q] = pc[q] /\ pos'[q] = pos[q] /\ item'[q] = item[q]
      BY <1>1, <1>2, <2>2, Numbers, Zenon DEF IInv, DistinctInv, Filling, Others
    <3> QED BY <1>1, <1>2, <1>4, <3>1, ZenonT(30) DEF IInv, ProducerInv, Filling
  <2> QED BY <2>1, <2>2, Zenon
<1> QED BY <1>5, <1>6, <1>7, <1>8, <1>9, <1>10, Zenon DEF IInv

-----------------------------------------------------------------------------
(* Steps of TryPop. *)

(* The slot of the next position to be consumed is published. *)
LEMMA SeeEventStep == ASSUME IInv, TypeOK', SeeEvent PROVE IInv'
<1> USE DEF ring, locals, history
<1>1. /\ cpc = "idle" /\ cpc' = "copy" /\ sequence[Slot(consumer_pos)] >= consumer_pos + 1
      /\ UNCHANGED <<ring, locals, history>>
  BY Zenon DEF SeeEvent
<1>2. Oldest' = Oldest /\ Window' = Window /\ Oldest = consumer_pos /\ consumer_pos \in Window
  BY <1>1, Numbers DEF Oldest, Window
<1>3. consumer_pos < producer_pos /\ sequence[Slot(consumer_pos)] = consumer_pos + 1
  BY <1>1, <1>2, Numbers DEF IInv, SequencesInv
<1>4. PositionsInv' /\ SequencesInv' /\ DistinctInv' /\ ConsumerInv'
  BY <1>1, <1>2, <1>3, Zenon DEF IInv, PositionsInv, SequencesInv, DistinctInv, ConsumerInv, Filling
<1>5. ItemsInv'
  BY <1>1, <1>2, Zenon DEF IInv, ItemsInv, Unused
<1>6. \A p \in Producers : ProducerInv(p)'
  BY <1>1, <1>2, Zenon DEF IInv, ProducerInv, Filling
<1> QED BY <1>4, <1>5, <1>6, Zenon DEF IInv

(* The event handed out is one that was published. *)
LEMMA CopyEventStep == ASSUME IInv, TypeOK', CopyEvent PROVE IInv'
<1> USE DEF ring, locals, history
<1>1. /\ cpc = "copy" /\ cpc' = "free" /\ delivered' = Append(delivered, event[Slot(consumer_pos)])
      /\ UNCHANGED <<ring, locals, calls>>
  BY Zenon DEF CopyEvent
<1>2. Oldest' = Oldest /\ Window' = Window /\ Oldest = consumer_pos /\ consumer_pos \in Window
  BY <1>1, Numbers DEF Oldest, Window
<1>3. consumer_pos < producer_pos /\ sequence[Slot(consumer_pos)] = consumer_pos + 1
  BY <1>1, Zenon DEF IInv, ConsumerInv
<1>4. PositionsInv' /\ SequencesInv' /\ DistinctInv' /\ ConsumerInv'
  BY <1>1, <1>2, <1>3, Zenon DEF IInv, PositionsInv, SequencesInv, DistinctInv, ConsumerInv, Filling
<1>5. ItemsInv'
  <2>1. \A v : Unused(v) => Unused(v)'
    BY <1>1, Zenon DEF Unused
  <2>2. Unused(event[Slot(consumer_pos)])
    BY <1>2, <1>3, Zenon DEF IInv, ItemsInv
  <2>3. \A n \in 1 .. Len(delivered') : Unused(delivered'[n])
    BY <1>1, <2>2, SMTT(30) DEF IInv, ItemsInv, TypeOK
  <2>4. \A n \in 1 .. Len(delivered') : Unused(delivered[n])'
    BY <1>1, <2>3, Zenon DEF Unused
  <2>5. \A x \in Window : x < producer_pos /\ sequence[Slot(x)] = x + 1
                           => Unused(event[Slot(x)])'
    BY <1>1, Zenon DEF IInv, ItemsInv, Unused
  <2> QED BY <1>1, <1>2, <2>4, <2>5, Zenon DEF IInv, ItemsInv
<1>6. \A p \in Producers : ProducerInv(p)'
  BY <1>1, <1>2, Zenon DEF IInv, ProducerInv, Filling
<1> QED BY <1>4, <1>5, <1>6, Zenon DEF IInv

(* Freeing a slot moves the window: its last position is the freed one, a  *)
(* lap later.                                                              *)
LEMMA FreeSlotStep == ASSUME IInv, TypeOK', FreeSlot PROVE IInv'
<1> USE DEF ring, locals, history
<1>1. /\ cpc = "free" /\ cpc' = "advance"
      /\ sequence' = [sequence EXCEPT ![Slot(consumer_pos)] = consumer_pos + Depth]
      /\ UNCHANGED <<event, producer_pos, consumer_pos, locals, history>>
  BY Zenon DEF FreeSlot
<1> DEFINE c == consumer_pos
<1>2. /\ Oldest = c /\ Oldest' = c + 1 /\ c \in Window /\ c \in Nat
      /\ Window = c .. c + Depth - 1 /\ Window' = c + 1 .. c + Depth
  <2>1. Oldest = c /\ Oldest' = c + 1
    BY <1>1, Zenon DEF Oldest
  <2> QED BY <2>1, Numbers, SMTT(30) DEF Window
<1>3. c < producer_pos /\ sequence[Slot(c)] = c + 1
  BY <1>1, Zenon DEF IInv, ConsumerInv
<1>4. /\ sequence'[Slot(c)] = c + Depth
      /\ \A x \in Window : x # c => sequence'[Slot(x)] = sequence[Slot(x)]
  BY <1>1, <1>2, Numbers, Zenon DEF IInv, TypeOK
<1>5. Slot(c + Depth) = Slot(c)
  BY <1>2, SlotLap, Zenon
<1> HIDE DEF c
<1>6. PositionsInv'
  BY <1>1, <1>2, <1>3, Numbers, SMTT(30) DEF IInv, PositionsInv
<1>7. \A x \in Window' : x \in Nat /\ (x = c + Depth \/ (x \in Window /\ x # c))
  BY <1>2, Numbers, SMTT(30)
<1>8. SequencesInv'
  <2> SUFFICES ASSUME NEW x \in Window'
               PROVE  IF x < producer_pos THEN sequence'[Slot(x)] \in {x, x + 1}
                                          ELSE sequence'[Slot(x)] = x
    BY <1>1, Zenon DEF SequencesInv
  <2>1. CASE x = c + Depth BY <1>4, <1>5, <2>1, Zenon
  <2>2. CASE x \in Window /\ x # c BY <1>4, <2>2, Zenon DEF IInv, SequencesInv
  <2> QED BY <1>7, <2>1, <2>2, Zenon
<1>9. DistinctInv' /\ ConsumerInv'
  BY <1>1, Zenon DEF IInv, DistinctInv, ConsumerInv, Filling
<1>10. ItemsInv'
  <2>1. ASSUME NEW x \in Window', x < producer_pos, sequence'[Slot(x)] = x + 1
        PROVE  Unused(event[Slot(x)])'
    <3>1. x # c + Depth
      BY <1>2, <1>4, <1>5, <2>1, Numbers, SMTT(30)
    <3>2. x \in Window /\ sequence[Slot(x)] = x + 1
      BY <1>4, <1>7, <2>1, <3>1, Zenon
    <3> QED BY <1>1, <2>1, <3>2, Zenon DEF IInv, ItemsInv, Unused
  <2>2. \A n \in 1 .. Len(delivered') : Unused(delivered[n])'
    BY <1>1, Zenon DEF IInv, ItemsInv, Unused
  <2> QED BY <1>1, <2>1, <2>2, Zenon DEF IInv, ItemsInv
<1>11. ASSUME NEW p \in Producers PROVE ProducerInv(p)'
  <2>1. Filling(p) => pos[p] \in Window /\ pos[p] # c /\ pos[p] >= c + 1
    BY <1>2, <1>3, Numbers, SMTT(30) DEF IInv, ProducerInv
  <2>2. pc[p] = "cas" /\ pos[p] = producer_pos => producer_pos < c + 1 + Depth
    BY <1>2, Numbers, SMTT(30) DEF IInv, ProducerInv
  <2> QED BY <1>1, <1>2, <1>4, <2>1, <2>2, Zenon DEF IInv, ProducerInv, Filling
<1> QED BY <1>6, <1>8, <1>9, <1>10, <1>11, Zenon DEF IInv

(* Moving consumer_pos on changes nothing else: the slot is free already. *)
LEMMA AdvanceStep == ASSUME IInv, TypeOK', Advance PROVE IInv'
<1> USE DEF ring, locals, history
<1>1. /\ cpc = "advance" /\ cpc' = "idle" /\ consumer_pos' = consumer_pos + 1
      /\ UNCHANGED <<sequence, event, producer_pos, locals, history>>
  BY Zenon DEF Advance
<1>2. Oldest' = Oldest /\ Window' = Window
  <2>1. Oldest' = Oldest
    BY <1>1, Zenon DEF Oldest
  <2> QED BY <2>1, Zenon DEF Window
<1>3. PositionsInv' /\ SequencesInv' /\ DistinctInv' /\ ConsumerInv'
  BY <1>1, <1>2, Zenon DEF IInv, PositionsInv, SequencesInv, DistinctInv, ConsumerInv, Filling
<1>4. ItemsInv'
  BY <1>1, <1>2, Zenon DEF IInv, ItemsInv, Unused
<1>5. \A p \in Producers : ProducerInv(p)'
  BY <1>1, <1>2, Zenon DEF IInv, ProducerInv, Filling
<1> QED BY <1>3, <1>4, <1>5, Zenon DEF IInv

-----------------------------------------------------------------------------
(* The invariant. *)

(* The ring starts empty, every slot free for its first position. *)
LEMMA InitInv == Init => IInv
<1> SUFFICES ASSUME Init PROVE IInv
  BY Zenon
<1>1. Depth \in Nat /\ Depth > 1 /\ MaxCalls \in Nat
  BY RingAssumption, Zenon
<1>2. Oldest = 0 /\ Window = 0 .. Depth - 1
  BY <1>1 DEF Init, Oldest, Window
<1>3. \A x \in Window : Slot(x) = x
  <2> SUFFICES ASSUME NEW x \in 0 .. Depth - 1 PROVE x % Depth = x
    BY <1>2, Zenon DEF Slot
  <2>1. Depth > 0 /\ x \in Nat /\ x < Depth
    BY <1>1
  <2> QED BY <1>1, <2>1
<1>4. TypeOK
  BY <1>1 DEF Init, TypeOK, Slots
<1>5. PositionsInv /\ DistinctInv /\ ConsumerInv
  BY <1>1, <1>2 DEF Init, PositionsInv, DistinctInv, ConsumerInv, Filling
<1>6. SequencesInv
  BY <1>1, <1>2, <1>3, Zenon DEF Init, SequencesInv, Slots
<1>7. ItemsInv
  BY <1>1, <1>2 DEF Init, ItemsInv
<1>8. \A p \in Producers : ProducerInv(p)
  BY <1>1, <1>2, Zenon DEF Init, ProducerInv, Filling
<1> QED BY <1>4, <1>5, <1>6, <1>7, <1>8, Zenon DEF IInv

(* Every step keeps the invariant. *)
LEMMA StepInv == IInv /\ [Next]_vars => IInv'
<1> SUFFICES ASSUME IInv, [Next]_vars PROVE IInv'
  BY Zenon
<1>0. TypeOK'
  BY TypeStep, Zenon DEF IInv
<1>1. ASSUME NEW p \in Producers, Begin(p) \/ Push(p) PROVE IInv'
  BY <1>0, <1>1, LocalSteps, ClaimStep, FillStep, PublishStep, Zenon DEF Push
<1>2. CASE Pop
  BY <1>0, <1>2, SeeEventStep, CopyEventStep, FreeSlotStep, AdvanceStep, ZenonT(40) DEF Pop
<1>3. CASE UNCHANGED vars
  BY <1>3 DEF vars, ring, locals, history, IInv, TypeOK, PositionsInv, SequencesInv,
              DistinctInv, ConsumerInv, ItemsInv, Unused, ProducerInv, Filling, Oldest, Window
<1> QED BY <1>1, <1>2, <1>3, Zenon DEF Next

(* The invariant holds throughout. *)
LEMMA InvHolds == Spec => []IInv
BY InitInv, StepInv, PTL DEF Spec

(* Nobody else uses the slot a producer is filling. *)
LEMMA InvExclusive == ASSUME IInv PROVE ExclusiveSlot
<1> SUFFICES ASSUME NEW p \in Producers, Filling(p)
             PROVE  /\ \A q \in Producers \ {p} : Filling(q) => Slot(pos[q]) # Slot(pos[p])
                    /\ cpc \in {"copy", "free"} => Slot(consumer_pos) # Slot(pos[p])
  BY Zenon DEF ExclusiveSlot, Filling
<1>1. \A q \in Producers \ {p} : Filling(q) => Slot(pos[q]) # Slot(pos[p])
  BY Numbers, Zenon DEF IInv, DistinctInv
<1>2. ASSUME cpc \in {"copy", "free"} PROVE Slot(consumer_pos) # Slot(pos[p])
  <2>1. sequence[Slot(consumer_pos)] = consumer_pos + 1 /\ sequence[Slot(pos[p])] = pos[p]
    BY <1>2, Zenon DEF IInv, ConsumerInv, ProducerInv
  <2>2. consumer_pos \in Window /\ pos[p] \in Window
    BY <1>2, Numbers DEF Oldest, Window
  <2>3. pos[p] # consumer_pos
    BY <2>1, Numbers
  <2> QED BY <2>2, <2>3, Numbers, Zenon
<1> QED BY <1>1, <1>2, Zenon

-----------------------------------------------------------------------------
(* The ring implements the queue of BusQueue: the queue is PendingQueue. *)

Place(x) ==
  IF sequence[Slot(x)] = x THEN [st |-> "claimed"]
                           ELSE [st |-> "ready", msg |-> AsMessage(event[Slot(x)])]

(* The queue as a sequence of places. *)
PendingFacts ==
  /\ FirstPending \in Nat /\ producer_pos \in Nat /\ FirstPending <= producer_pos
  /\ PendingQueue = [n \in 1 .. producer_pos - FirstPending |-> Place(FirstPending + n - 1)]
  /\ \A x \in FirstPending .. producer_pos - 1 : x \in Window

LEMMA PendingSeq == IInv => PendingFacts
<1> SUFFICES ASSUME IInv PROVE PendingFacts
  BY Zenon
<1>1. FirstPending \in Nat /\ Oldest <= FirstPending
  BY Numbers DEF FirstPending, Oldest
<1>2. FirstPending <= producer_pos
  BY Numbers DEF IInv, ConsumerInv, TypeOK, FirstPending, Oldest
<1>3. \A x \in FirstPending .. producer_pos - 1 : x \in Window
  BY <1>1, Numbers DEF Window
<1>4. PendingQueue = [n \in 1 .. producer_pos - FirstPending |-> Place(FirstPending + n - 1)]
  BY Zenon DEF PendingQueue, Place
<1> QED BY <1>1, <1>2, <1>3, <1>4, Numbers, Zenon DEF PendingFacts

(* The queue stays while no place of it changes. *)
LEMMA QueueKept ==
  ASSUME IInv, IInv', UNCHANGED <<producer_pos, FirstPending>>,
         \A x \in FirstPending .. producer_pos - 1 : Place(x)' = Place(x)
  PROVE  PendingQueue' = PendingQueue
<1>1. PendingFacts /\ PendingFacts'
  BY PendingSeq, PTL
<1> DEFINE n0 == producer_pos - FirstPending
<1>2. PendingQueue' = [n \in 1 .. n0 |-> Place(FirstPending + n - 1)']
  BY <1>1, Zenon DEF PendingFacts
<1>3. \A n \in 1 .. n0 : FirstPending + n - 1 \in FirstPending .. producer_pos - 1
  BY <1>1 DEF PendingFacts
<1>4. \A n \in 1 .. n0 : Place(FirstPending + n - 1)' = Place(FirstPending + n - 1)
  BY <1>3, Zenon
<1> QED BY <1>1, <1>2, <1>4, Zenon DEF PendingFacts

(* A claim appends an empty place, which the queue has room for. *)
LEMMA ClaimsPlace ==
  ASSUME IInv, IInv', NEW p \in Producers, Claim(p)
  PROVE  Queue!Claim
<1>1. /\ pc[p] = "cas" /\ pos[p] = producer_pos /\ producer_pos' = producer_pos + 1
      /\ UNCHANGED <<sequence, event, consumer_pos, cpc, delivered>>
  BY Zenon DEF Claim, Goto, history
<1>2. PendingFacts /\ PendingFacts'
  BY PendingSeq, PTL
<1>3. FirstPending' = FirstPending /\ \A x : Place(x)' = Place(x)
  BY <1>1, Zenon DEF FirstPending, Place
<1>4. producer_pos < Oldest + Depth /\ producer_pos \in Window
  BY <1>1, Numbers DEF IInv, ProducerInv, Window
<1>5. Place(producer_pos) = Queue!Empty
  <2>1. sequence[Slot(producer_pos)] = producer_pos
    BY <1>4, Numbers DEF IInv, SequencesInv
  <2> QED BY <2>1, Zenon DEF Place, Queue!Empty
<1> DEFINE f == FirstPending
           n0 == producer_pos - f
           q == PendingQueue
           r == PendingQueue'
           S == {Place(x) : x \in Nat}
<1>6. f \in Nat /\ n0 \in Nat /\ f + n0 = producer_pos
  BY <1>2 DEF PendingFacts
<1>7. q = [n \in 1 .. n0 |-> Place(f + n - 1)] /\ r = [n \in 1 .. n0 + 1 |-> Place(f + n - 1)]
  <2>1. r = [n \in 1 .. producer_pos + 1 - f |-> Place(f + n - 1)]
    BY <1>1, <1>2, <1>3 DEF PendingFacts
  <2>2. producer_pos + 1 - f = n0 + 1
    BY <1>6, Numbers
  <2> QED BY <1>2, <2>1, <2>2, Zenon DEF PendingFacts
<1>8. n0 < Depth
  <2>1. Oldest <= FirstPending
    BY Numbers DEF FirstPending, Oldest
  <2> QED BY <1>4, <1>6, <2>1, Numbers
<1>9. \A n \in 1 .. n0 + 1 : f + n - 1 \in Nat /\ Place(f + n - 1) \in S
  BY <1>6
<1> HIDE DEF f, n0, q, r, S
<1>10. q \in [1 .. n0 -> S] /\ r \in [1 .. n0 + 1 -> S]
  <2>1. \A n \in 1 .. n0 : n \in 1 .. n0 + 1
    BY <1>6
  <2> QED BY <1>7, <1>9, <2>1, Zenon
<1>11. \A n \in 1 .. n0 : r[n] = q[n]
  BY <1>6, <1>7
<1>12. r[n0 + 1] = Queue!Empty
  <2>1. f + (n0 + 1) - 1 = producer_pos /\ n0 + 1 \in 1 .. n0 + 1
    BY <1>6
  <2> QED BY <1>5, <1>7, <2>1, Zenon
<1>13. r = Append(q, Queue!Empty) /\ Len(q) = n0
  BY <1>6, <1>10, <1>11, <1>12, AppendTo
<1> QED BY <1>1, <1>8, <1>13, Zenon DEF Queue!Claim, q, r

(* The items of published and delivered events. *)
LEMMA IdsUnused == ASSUME IInv, NEW v \in Queue!Ids PROVE Unused(v)
<1>1. PendingFacts
  BY PendingSeq, Zenon
<1>2. CASE \E i \in DOMAIN PendingQueue :
             PendingQueue[i].st = "ready" /\ v = PendingQueue[i].msg.id
  <2>1. PICK i \in DOMAIN PendingQueue :
               PendingQueue[i].st = "ready" /\ v = PendingQueue[i].msg.id
    BY <1>2, Zenon
  <2> DEFINE x == FirstPending + i - 1
  <2>2. i \in 1 .. producer_pos - FirstPending /\ PendingQueue[i] = Place(x)
    BY <1>1, <2>1, Zenon DEF PendingFacts
  <2>3. x \in FirstPending .. producer_pos - 1 /\ x \in Window /\ x < producer_pos
    BY <1>1, <2>2, SMTT(30) DEF PendingFacts
  <2> HIDE DEF x
  <2>4. sequence[Slot(x)] # x /\ v = event[Slot(x)]
    BY <2>1, <2>2 DEF Place, AsMessage
  <2>5. sequence[Slot(x)] = x + 1
    BY <2>3, <2>4, Zenon DEF IInv, SequencesInv
  <2> QED BY <2>3, <2>4, <2>5, Zenon DEF IInv, ItemsInv
<1>3. CASE \E n \in DOMAIN delivered : v = delivered[n]
  BY <1>3, SMTT(30) DEF IInv, ItemsInv, TypeOK
<1> QED BY <1>2, <1>3, Zenon DEF Queue!Ids, AsMessage

(* Publishing fills the claimed place with an item that is in use nowhere  *)
(* else.                                                                   *)
LEMMA PublishFills ==
  ASSUME IInv, IInv', NEW p \in Producers, Publish(p), NEW x \in Nat, x = pos[p]
  PROVE  Queue!Next
<1>1. /\ pc[p] = "publish"
      /\ sequence' = [sequence EXCEPT ![Slot(x)] = x + 1]
      /\ UNCHANGED <<event, producer_pos, consumer_pos, cpc, delivered>>
  BY Zenon DEF Publish, history
<1>2. PendingFacts /\ PendingFacts'
  BY PendingSeq, PTL
<1> DEFINE f == FirstPending
           m == AsMessage(item[p])
           i == x - f + 1
           n0 == producer_pos - f
           q == PendingQueue
<1>3. /\ x \in Window /\ x < producer_pos /\ Oldest <= x
      /\ sequence[Slot(x)] = x /\ event[Slot(x)] = item[p]
  BY <1>1, Numbers, Zenon DEF IInv, ProducerInv, Filling
<1>4. f <= x
  <2>1. cpc \in {"copy", "free"} => x # consumer_pos
    BY <1>3, Numbers DEF IInv, ConsumerInv
  <2> QED BY <1>3, <2>1, Numbers, SMTT(30) DEF FirstPending, Oldest
<1>5. FirstPending' = f
  BY <1>1, Zenon DEF FirstPending
<1>n. f \in Nat /\ producer_pos \in Nat /\ f <= x /\ x < producer_pos
  BY <1>2, <1>3, <1>4, Zenon DEF PendingFacts
<1> HIDE DEF f
<1>6. i \in 1 .. n0 /\ f + i - 1 = x /\ n0 \in Nat
  BY <1>n
<1>7. /\ Place(x) = Queue!Empty /\ Place(x)' = Queue!Holding(m)
      /\ \A y \in Window : y # x => Place(y)' = Place(y)
  <2>1. /\ sequence'[Slot(x)] = x + 1
        /\ \A y \in Window : y # x => sequence'[Slot(y)] = sequence[Slot(y)]
    BY <1>1, <1>3, Numbers, Zenon DEF IInv, TypeOK
  <2>2. sequence'[Slot(x)] # x
    BY <1>3, <2>1
  <2>3. Place(x)' = Queue!Holding(m)
    BY <1>1, <1>3, <2>2, Zenon DEF Place, AsMessage, Queue!Holding
  <2> QED BY <1>1, <1>3, <2>1, <2>3, Zenon DEF Place, Queue!Empty
<1>8. q = [n \in 1 .. n0 |-> Place(f + n - 1)] /\ q' = [n \in 1 .. n0 |-> Place(f + n - 1)']
  BY <1>1, <1>2, <1>5, Zenon DEF PendingFacts, f
<1>f. f' = f
  BY <1>5, Zenon DEF f
<1>9. q' = [q EXCEPT ![i] = Queue!Holding(m)]
  <2> SUFFICES ASSUME NEW n \in 1 .. n0
               PROVE  Place(f + n - 1)' = IF n = i THEN Queue!Holding(m) ELSE Place(f + n - 1)
    BY <1>8, Zenon
  <2> DEFINE y == f + n - 1
  <2>1. y \in f .. producer_pos - 1 /\ (y = x <=> n = i)
    BY <1>n
  <2>2. y \in Window
    BY <1>2, <2>1, Zenon DEF PendingFacts, f
  <2>3. ASSUME NEW z \in Window PROVE Place(z)' = IF z = x THEN Queue!Holding(m) ELSE Place(z)
    BY <1>7, Zenon
  <2>4. PICK z \in Window : z = y
    BY <2>2, Zenon
  <2>5. Place(f + n - 1)' = Place(z)'
    BY <1>f, <2>4, Zenon
  <2> QED BY <2>1, <2>3, <2>4, <2>5, Zenon
<1>10. i \in DOMAIN q /\ q[i].st = "claimed"
  BY <1>6, <1>7, <1>8 DEF Queue!Empty
<1>11. item[p] \in 1 .. MaxCalls /\ item[p] \notin Queue!Ids
  <2>1. pc[p] # "idle"
    BY <1>1, Zenon
  <2>2. item[p] \in 1 .. calls /\ calls <= MaxCalls
    BY <2>1, Zenon DEF IInv, ItemsInv
  <2>3. item[p] \in 1 .. MaxCalls
    BY <2>2, RingAssumption, Numbers
  <2> QED BY <2>1, <2>3, IdsUnused, Zenon DEF Unused
<1>12. m.id \notin Queue!Ids /\ m \in {AsMessage(v) : v \in 1 .. MaxCalls}
  BY <1>11, Zenon DEF AsMessage
<1>13. Queue!Fill(i, m)
  BY <1>1, <1>9, <1>10, <1>12, Zenon DEF Queue!Fill
<1> QED BY <1>10, <1>12, <1>13, Zenon DEF Queue!Next

(* Copying the event delivers the head of the queue. *)
LEMMA CopyDelivers == ASSUME IInv, IInv', CopyEvent PROVE Queue!Deliver
<1>1. /\ cpc = "copy" /\ cpc' = "free" /\ delivered' = Append(delivered, event[Slot(consumer_pos)])
      /\ UNCHANGED <<sequence, event, producer_pos, consumer_pos>>
  BY Zenon DEF CopyEvent, ring
<1>2. PendingFacts /\ PendingFacts'
  BY PendingSeq, PTL
<1> DEFINE c == consumer_pos
           n0 == producer_pos - c
           q == PendingQueue
           r == PendingQueue'
           S == {Place(x) : x \in Nat}
           d == [n \in DOMAIN delivered |-> AsMessage(delivered[n])]
           e == AsMessage(event[Slot(c)])
<1>3. FirstPending = c /\ FirstPending' = c + 1 /\ c \in Nat /\ n0 \in Nat /\ n0 > 0
  BY <1>1, Numbers, SMTT(30) DEF FirstPending, IInv, ConsumerInv
<1>4. \A x : Place(x)' = Place(x)
  BY <1>1, Zenon DEF Place
<1>5. q = [n \in 1 .. n0 |-> Place(c + n - 1)] /\ r = [n \in 1 .. n0 - 1 |-> Place(c + n)]
  <2>1. r = [n \in 1 .. producer_pos - (c + 1) |-> Place(c + 1 + n - 1)]
    BY <1>1, <1>2, <1>3, <1>4, Zenon DEF PendingFacts
  <2>2. producer_pos - (c + 1) = n0 - 1 /\ \A n \in 1 .. n0 - 1 : c + 1 + n - 1 = c + n
    BY <1>3, Numbers
  <2> QED BY <1>2, <1>3, <2>1, <2>2, Zenon DEF PendingFacts
<1>6. q \in [1 .. n0 -> S] /\ r \in [1 .. n0 - 1 -> S]
  <2>1. \A n \in 1 .. n0 : Place(c + n - 1) \in S
    <3>1. \A n \in 1 .. n0 : c + n - 1 \in Nat
      BY <1>3
    <3> QED BY <3>1, Zenon
  <2>2. \A n \in 1 .. n0 - 1 : Place(c + n) \in S
    <3>1. \A n \in 1 .. n0 - 1 : c + n \in Nat
      BY <1>3
    <3> QED BY <3>1, Zenon
  <2> HIDE DEF q, r, n0, S, c
  <2> QED BY <1>5, <2>1, <2>2, Zenon
<1>7. \A n \in 1 .. n0 - 1 : r[n] = q[n + 1]
  <2>1. \A n \in 1 .. n0 - 1 : n + 1 \in 1 .. n0 /\ c + (n + 1) - 1 = c + n
    BY <1>3
  <2> QED BY <1>5, <2>1, Zenon
<1>8. q[1] = [st |-> "ready", msg |-> e]
  <2>1. sequence[Slot(c)] # c
    BY <1>1, <1>3 DEF IInv, ConsumerInv
  <2>2. c + 1 - 1 = c /\ 1 \in 1 .. n0
    BY <1>3
  <2> QED BY <1>5, <2>1, <2>2, Zenon DEF Place
<1> HIDE DEF c, n0, q, r, S, e
<1>9. r = Tail(q) /\ q # <<>> /\ Head(q) = q[1]
  BY <1>3, <1>6, <1>7, TailOf, ZenonT(30)
<1>10. d' = Append(d, e)
  <2>1. delivered \in Seq(Nat) /\ event[Slot(c)] \in Nat
    <3>1. Slot(c) \in Slots
      BY <1>3, SlotType, Zenon
    <3> QED BY <3>1, Zenon DEF IInv, TypeOK
  <2> DEFINE n1 == Len(delivered)
             T == {AsMessage(v) : v \in Nat}
  <2>2. /\ n1 \in Nat /\ delivered \in [1 .. n1 -> Nat] /\ delivered' \in [1 .. n1 + 1 -> Nat]
        /\ \A n \in 1 .. n1 : delivered'[n] = delivered[n]
        /\ delivered'[n1 + 1] = event[Slot(c)]
    <3> DEFINE v == event[Slot(c)]
               a == Append(delivered, v)
    <3>1. v \in Nat /\ delivered' = a
      BY <1>1, <2>1, Zenon DEF c
    <3> HIDE DEF v
    <3>2. /\ a \in Seq(Nat) /\ Len(a) = n1 + 1 /\ a[n1 + 1] = v /\ n1 \in Nat
          /\ \A n \in 1 .. n1 : a[n] = delivered[n]
      BY <2>1, <3>1
    <3> HIDE DEF a
    <3> QED BY <2>1, <3>1, <3>2, SMTT(30) DEF v
  <2> HIDE DEF n1, T
  <2>3. d = [n \in 1 .. n1 |-> AsMessage(delivered[n])]
        /\ d' = [n \in 1 .. n1 + 1 |-> AsMessage(delivered'[n])]
    BY <2>2, Zenon DEF AsMessage
  <2>4. \A v \in Nat : AsMessage(v) \in T
    BY Zenon DEF T
  <2> HIDE DEF d
  <2>5. /\ d \in [1 .. n1 -> T] /\ d' \in [1 .. n1 + 1 -> T]
        /\ \A n \in 1 .. n1 : d'[n] = d[n]
        /\ d'[n1 + 1] = e
    BY <2>2, <2>3, <2>4 DEF e
  <2> QED BY <2>2, <2>5, AppendTo
<1>11. Head(q).st = "ready" /\ Head(q).msg = e
  BY <1>8, <1>9
<1> QED BY <1>9, <1>10, <1>11, Zenon DEF Queue!Deliver, q, r

(* Every step of the ring is a step of the queue or leaves it alone. *)
LEMMA QueueStep ==
  ASSUME IInv, IInv', [Next]_vars
  PROVE  [Queue!Next]_(Queue!vars)
<1> USE DEF ring, locals, history
<1>0. PendingFacts
  BY PendingSeq, Zenon
<1>1. ASSUME UNCHANGED <<producer_pos, FirstPending, delivered>>,
             \A x \in FirstPending .. producer_pos - 1 : Place(x)' = Place(x)
      PROVE  UNCHANGED Queue!vars
  BY <1>1, QueueKept, Zenon DEF Queue!vars
<1>2. ASSUME UNCHANGED <<sequence, event, producer_pos, FirstPending, delivered>>
      PROVE  UNCHANGED Queue!vars
  BY <1>1, <1>2, Zenon DEF Place
<1>3. ASSUME NEW p \in Producers, Begin(p) \/ Push(p) PROVE [Queue!Next]_(Queue!vars)
  <2>1. CASE \/ Begin(p) \/ LoadPos(p) \/ SlotFree(p) \/ SlotBehind(p) \/ SlotAhead(p)
             \/ ClaimFails(p)
    <3>1. UNCHANGED <<sequence, event, producer_pos, FirstPending, delivered>>
      BY <2>1, Zenon DEF Begin, LoadPos, SlotFree, SlotBehind, SlotAhead, ClaimFails, FirstPending
    <3> QED BY <1>2, <3>1, Zenon
  <2>2. CASE Claim(p)
    BY <2>2, ClaimsPlace, Zenon DEF Queue!Next
  <2>3. CASE Fill(p)
    <3>1. /\ pc[p] = "fill" /\ event' = [event EXCEPT ![Slot(pos[p])] = item[p]]
          /\ UNCHANGED <<sequence, producer_pos, FirstPending, delivered>>
      BY <2>3, Zenon DEF Fill, Goto, FirstPending
    <3>2. pos[p] \in Window /\ sequence[Slot(pos[p])] = pos[p]
      BY <3>1, Numbers, Zenon DEF IInv, ProducerInv, Filling
    <3>3. \A x \in Window : x # pos[p] => event'[Slot(x)] = event[Slot(x)]
      BY <3>1, <3>2, Numbers, Zenon DEF IInv, TypeOK
    <3>4. \A x \in Window : Place(x)' = Place(x)
      BY <3>1, <3>2, <3>3, Zenon DEF Place, AsMessage
    <3> QED BY <1>0, <1>1, <3>1, <3>4, Zenon DEF PendingFacts
  <2>4. CASE Publish(p)
    BY <2>4, PublishFills, Zenon DEF IInv, TypeOK
  <2> QED BY <1>3, <2>1, <2>2, <2>3, <2>4, Zenon DEF Push
<1>4. CASE Pop
  <2>1. CASE SeeEvent
    <3>1. UNCHANGED <<sequence, event, producer_pos, FirstPending, delivered>>
      BY <2>1, Zenon DEF SeeEvent, FirstPending
    <3> QED BY <1>2, <3>1, Zenon
  <2>2. CASE CopyEvent
    BY <2>2, CopyDelivers, Zenon DEF Queue!Next
  <2>3. CASE FreeSlot
    <3>1. /\ sequence' = [sequence EXCEPT ![Slot(consumer_pos)] = consumer_pos + Depth]
          /\ FirstPending = consumer_pos + 1 /\ Oldest = consumer_pos
          /\ UNCHANGED <<event, producer_pos, FirstPending, delivered>>
      BY <2>3, Zenon DEF FreeSlot, FirstPending, Oldest
    <3>2. consumer_pos \in Window
      BY <3>1, Numbers DEF Window
    <3>3. \A x \in Window : x # consumer_pos => sequence'[Slot(x)] = sequence[Slot(x)]
      BY <3>1, <3>2, Numbers, Zenon DEF IInv, TypeOK
    <3>4. \A x \in FirstPending .. producer_pos - 1 : x \in Window /\ x # consumer_pos
      BY <1>0, <3>1, Numbers, SMTT(30) DEF PendingFacts
    <3>5. \A x \in FirstPending .. producer_pos - 1 : Place(x)' = Place(x)
      BY <3>1, <3>3, <3>4, Zenon DEF Place
    <3> QED BY <1>1, <3>1, <3>5, Zenon
  <2>4. CASE Advance
    <3>1. UNCHANGED <<sequence, event, producer_pos, FirstPending, delivered>>
      BY <2>4, Zenon DEF Advance, FirstPending
    <3> QED BY <1>2, <3>1, Zenon
  <2> QED BY <1>4, <2>1, <2>2, <2>3, <2>4, Zenon DEF Pop
<1>5. CASE UNCHANGED vars
  <2>1. UNCHANGED <<sequence, event, producer_pos, FirstPending, delivered>>
    BY <1>5, Zenon DEF vars, FirstPending
  <2> QED BY <1>2, <2>1, Zenon
<1> QED BY <1>3, <1>4, <1>5, Zenon DEF Next

-----------------------------------------------------------------------------
(* A slot behind the position that was read belongs to a full ring: if the *)
(* position is stale, the slot has been taken for a later one.             *)
LEMMA BehindMeansFull ==
  ASSUME IInv, NEW p \in Producers, sequence[Slot(pos[p])] < pos[p]
  PROVE  producer_pos - consumer_pos >= Depth
<1>1. pos[p] \in Nat /\ pos[p] <= producer_pos
  BY Numbers, Zenon
<1>2. \A x \in Window : x \in Nat /\ sequence[Slot(x)] >= x
  BY Numbers DEF IInv, SequencesInv
<1>3. PICK y \in Window : Slot(y) = Slot(pos[p])
  <2>1. Depth \in Nat /\ Depth > 0 /\ Oldest \in Nat
    BY Numbers
  <2> QED BY <1>1, <2>1, ModCover, Zenon DEF Window, Slot
<1>a. sequence[Slot(pos[p])] \in Nat
  BY <1>1, SlotType, Zenon DEF IInv, TypeOK
<1>4. y < pos[p]
  <2>1. y \in Nat /\ sequence[Slot(pos[p])] >= y
    BY <1>2, <1>3, Zenon
  <2> QED BY <1>1, <1>a, <2>1
<1>5. pos[p] \notin Window
  <2>1. pos[p] \in Window => sequence[Slot(pos[p])] >= pos[p]
    BY <1>2, Zenon
  <2> QED BY <1>1, <1>a, <2>1
<1>6. pos[p] >= Oldest + Depth
  BY <1>1, <1>3, <1>4, <1>5, Numbers, SMTT(30) DEF Window
<1>7. Oldest >= consumer_pos
  BY Numbers DEF Oldest
<1> QED BY <1>1, <1>6, <1>7, Numbers

(* TryPush() of the two copies that retry gives up only on a full ring. *)
LEMMA RefusalStep ==
  ASSUME IInv, [Next]_vars, NEW p \in Producers, retry, pc[p] = "check", pc'[p] = "idle"
  PROVE  producer_pos - consumer_pos >= Depth
<1> USE DEF ring, locals, history
<1>0. pc \in [Producers -> {"idle", "load", "check", "cas", "fill", "publish"}]
  BY Zenon DEF IInv, TypeOK
<1>1. ASSUME NEW q \in Producers, q # p, Begin(q) \/ Push(q) PROVE FALSE
  BY <1>0, <1>1, Zenon DEF Begin, Push, LoadPos, SlotFree, SlotBehind, SlotAhead, Claim, ClaimFails,
                    Fill, Publish, Goto, Return
<1>2. CASE Begin(p) \/ Push(p)
  <2>1. SlotBehind(p)
    BY <1>0, <1>2, Zenon DEF Begin, Push, LoadPos, SlotFree, SlotAhead, Claim, ClaimFails, Fill,
                      Publish, Goto
  <2> QED BY <2>1, BehindMeansFull, Zenon DEF SlotBehind
<1>3. CASE Pop \/ UNCHANGED vars
  BY <1>3, Zenon DEF Pop, SeeEvent, CopyEvent, FreeSlot, Advance, vars
<1> QED BY <1>1, <1>2, <1>3, Zenon DEF Next

(* RingIsQueue, for every number of producers, depth and number of calls:  *)
(* whoever fills a slot is alone on it, events leave in the order in which *)
(* their places were claimed and none is lost, repeated or overwritten,    *)
(* and the copies of TryPush() that retry refuse an event only when all    *)
(* Depth places are taken.                                                 *)
THEOREM RingImplementsQueue == Spec => RingIsQueue
<1>1. IInv => TypeOK /\ ExclusiveSlot
  BY InvExclusive, Zenon DEF IInv
<1>2. Init => Queue!Init
  <2> SUFFICES ASSUME Init PROVE Queue!Init
    BY Zenon
  <2>1. producer_pos = 0 /\ FirstPending = 0 /\ delivered = <<>>
    BY Zenon DEF Init, FirstPending
  <2>2. PendingQueue = <<>>
    BY <2>1 DEF PendingQueue
  <2> QED BY <2>1, <2>2 DEF Queue!Init
<1>3. IInv /\ IInv' /\ [Next]_vars => [Queue!Next]_(Queue!vars)
  BY QueueStep, Zenon
<1>4. IInv /\ [Next]_vars =>
        [\A p \in Producers : (retry /\ pc[p] = "check" /\ pc'[p] = "idle") =>
           producer_pos - consumer_pos >= Depth]_vars
  BY RefusalStep, Zenon
<1> QED BY <1>1, <1>2, <1>3, <1>4, InvHolds, PTL
        DEF Spec, RingIsQueue, ImplementsQueue, FalseOnlyWhenFull, Queue!Spec
-----------------------------------------------------------------------------
(* AppPost: the requests and their response channels, on variables and     *)
(* constants of its own.                                                   *)

CONSTANTS Callers, MaxInstances, QueueDepth, Posts, AcquireFirst
VARIABLES p_queue, p_cpc, targets, inst, p_pc, call, refs, replied, result

P == INSTANCE AppPost WITH
  Calls <- Posts, queue <- p_queue, cpc <- p_cpc, pc <- p_pc

PostBounds == Posts \in Nat /\ MaxInstances \in Nat

PostMessages == [to : 0 .. P!kInsEach, ch : P!Channels \cup {P!NoChannel}]
PostTypes ==
  /\ p_queue \in Seq(PostMessages) /\ p_cpc \in {"idle", "deliver", "advance"}
  /\ p_pc \in [Callers -> {"idle", "post", "acquire", "wait", "release"}]
  /\ call \in [Callers -> 0 .. Posts] /\ refs \in [P!Channels -> Int]
  /\ Posts \in Nat /\ MaxInstances \in Nat

(* A channel is in at most one message, which was posted by its caller. *)
PostQueueInv ==
  /\ p_cpc # "idle" => p_queue # <<>>
  /\ \A k \in 1 .. Len(p_queue), c \in Callers, n \in 1 .. Posts :
       p_queue[k].ch = <<c, n>> => n <= call[c] /\ (n = call[c] => p_pc[c] # "post")
  /\ \A j, k \in 1 .. Len(p_queue) :
       p_queue[j].ch = p_queue[k].ch /\ p_queue[j].ch # P!NoChannel => j = k
  /\ \A c \in Callers : p_pc[c] # "idle" => call[c] \in 1 .. Posts

(* The references of a channel: one of its message, one of its caller, who  *)
(* has none between Post() and the call that takes it.                      *)
UsesChannel(c, n) == n = call[c] /\ p_pc[c] \in {"post", "wait", "release"}
ChannelInv(c, n) ==
  refs[<<c, n>>] = (IF P!InQueue(<<c, n>>) THEN 1 ELSE 0) + (IF UsesChannel(c, n) THEN 1 ELSE 0)

(* Under AcquireFirst a message stays queued until its caller has acquired.   *)
PostInv ==
  /\ PostTypes /\ PostQueueInv
  /\ \A c \in Callers, n \in 1 .. Posts : ChannelInv(c, n)
  /\ \A i \in P!Instances : inst[i] # "processing"
  /\ AcquireFirst => \A c \in Callers : p_pc[c] = "acquire" => P!InQueue(P!Channel(c))

(* A channel is known by its caller and the number of the call. *)
LEMMA ChannelPairs ==
  /\ \A ch \in P!Channels : \E c \in Callers, n \in 1 .. Posts : ch = <<c, n>>
  /\ \A c \in Callers, n \in 1 .. Posts : <<c, n>> \in P!Channels /\ <<c, n>> # P!NoChannel
  /\ \A c, e, n, m : <<c, n>> = <<e, m>> <=> c = e /\ n = m
<1>1. \A ch \in P!Channels : \E c \in Callers, n \in 1 .. Posts : ch = <<c, n>>
  BY DEF P!Channels
<1>2. \A c \in Callers, n \in 1 .. Posts : <<c, n>> \in P!Channels /\ <<c, n>> # P!NoChannel
  BY DEF P!Channels, P!NoChannel
<1>3. \A c, e, n, m : <<c, n>> = <<e, m>> <=> c = e /\ n = m
  OBVIOUS
<1> QED BY <1>1, <1>2, <1>3, Zenon

(* What Append and Tail make of the p_queue: a message more, *)
LEMMA PostAppended ==
  ASSUME NEW M, NEW q \in Seq(M), NEW m \in M
  PROVE  /\ Append(q, m) \in Seq(M) /\ Len(Append(q, m)) = Len(q) + 1 /\ Len(q) \in Nat
         /\ \A k \in 1 .. Len(q) : Append(q, m)[k] = q[k]
         /\ Append(q, m)[Len(q) + 1] = m
  OBVIOUS

(* or one less. *)
LEMMA PostRemoved ==
  ASSUME NEW M, NEW q \in Seq(M), q # <<>>
  PROVE  /\ Tail(q) \in Seq(M) /\ Len(q) \in Nat \ {0} /\ Len(Tail(q)) = Len(q) - 1
         /\ \A k \in 1 .. Len(q) - 1 : Tail(q)[k] = q[k + 1]
         /\ Head(q) = q[1] /\ Head(q) \in M
  OBVIOUS

(* No call of a handler, and no end of a message, leads to Processing. *)
LEMMA NeverProcessing ==
  /\ \A s, f : P!Step(s, "msgDone", f) # "processing"
  /\ \A s, f : s # "processing" =>
       \A e \in {"suspend", "resume", "recover", "destroy", "markError", "initialize", "initDone"} :
         P!Step(s, e, f) # "processing"
<1>1. \A s, f : P!Step(s, "msgDone", f) # "processing"
  BY ZenonT(40) DEF P!Step
<1>2. ASSUME NEW s, NEW f, s # "processing"
      PROVE  /\ P!Step(s, "suspend", f) # "processing" /\ P!Step(s, "resume", f) # "processing"
             /\ P!Step(s, "recover", f) # "processing"
  BY <1>2, ZenonT(40) DEF P!Step
<1>3. ASSUME NEW s, NEW f, s # "processing"
      PROVE  P!Step(s, "destroy", f) # "processing" /\ P!Step(s, "markError", f) # "processing"
  BY <1>3, ZenonT(40) DEF P!Step
<1>4. ASSUME NEW s, NEW f, s # "processing"
      PROVE  P!Step(s, "initialize", f) # "processing" /\ P!Step(s, "initDone", f) # "processing"
  BY <1>4, ZenonT(40) DEF P!Step
<1> QED BY <1>1, <1>2, <1>3, <1>4, ZenonT(40)

(* The application starts with an empty queue and no call. *)
LEMMA PostInit == PostBounds /\ P!Init => PostInv
<1> SUFFICES ASSUME PostBounds, P!Init PROVE PostInv
  OBVIOUS
<1>1. p_queue = <<>> /\ Len(p_queue) = 0 /\ p_queue \in Seq(PostMessages)
  BY DEF P!Init
<1>2. PostTypes
  BY <1>1 DEF P!Init, PostTypes, PostBounds
<1>3. PostQueueInv
  BY <1>1 DEF P!Init, PostQueueInv
<1>4. ASSUME NEW c \in Callers, NEW n \in 1 .. Posts PROVE ChannelInv(c, n)
  <2>1. ~P!InQueue(<<c, n>>) /\ ~UsesChannel(c, n) /\ refs[<<c, n>>] = 0
    BY <1>1, ChannelPairs, SMTT(30) DEF P!Init, P!InQueue, UsesChannel
  <2> QED BY <2>1, SMTT(30) DEF ChannelInv
<1>5. (\A i \in P!Instances : inst[i] # "processing") /\ \A c \in Callers : p_pc[c] # "acquire"
  BY DEF P!Init
<1> QED BY <1>2, <1>3, <1>4, <1>5, Zenon DEF PostInv

-----------------------------------------------------------------------------
(* Steps that leave p_queue, callers and references alone. *)
LEMMA InstancesKeep ==
  ASSUME PostInv, UNCHANGED <<p_queue, p_pc, call, refs>>, p_cpc' \in {"idle", "deliver", "advance"},
         p_cpc' # "idle" => p_queue # <<>>, p_cpc' = "advance" <=> p_cpc = "advance",
         \A i \in P!Instances : inst'[i] # "processing"
  PROVE  PostInv'
<1>1. PostTypes' /\ PostQueueInv'
  BY Zenon DEF PostInv, PostTypes, PostQueueInv
<1>2. ASSUME NEW ch PROVE P!InQueue(ch)' <=> P!InQueue(ch)
  BY Zenon DEF P!InQueue
<1>3. ASSUME NEW c \in Callers, NEW n \in 1 .. Posts PROVE ChannelInv(c, n)'
  BY <1>2, Zenon DEF PostInv, ChannelInv, UsesChannel
<1> QED BY <1>1, <1>2, <1>3, ZenonT(40) DEF PostInv, P!Channel

(* The instances come, go, change and take a message. *)
LEMMA LifecycleKeeps ==
  ASSUME PostInv, P!CreateInstance \/ P!DestroyInstance \/ P!Lifecycle \/ P!Take \/ P!Deliver
  PROVE  PostInv'
<1>1. PostTypes /\ PostQueueInv /\ \A i \in P!Instances : inst[i] # "processing"
  BY Zenon DEF PostInv
<1>2. ASSUME NEW i, NEW s, s # "processing", inst' = [inst EXCEPT ![i] = s]
      PROVE  \A j \in P!Instances : inst'[j] # "processing"
  <2> SUFFICES ASSUME NEW j \in P!Instances PROVE inst'[j] # "processing"
    OBVIOUS
  <2>1. inst'[j] = inst[j] \/ inst'[j] = s
    BY <1>2, SMTT(30)
  <2> QED BY <1>1, <1>2, <2>1, ZenonT(40)
<1>3. CASE P!CreateInstance
  <2>1. \A j \in P!Instances : inst'[j] # "processing"
    BY <1>3, <1>2, ZenonT(40) DEF P!CreateInstance
  <2> QED BY <1>1, <1>3, <2>1, InstancesKeep, ZenonT(40)
             DEF P!CreateInstance, PostTypes, PostQueueInv
<1>4. CASE P!DestroyInstance
  <2>1. \A j \in P!Instances : inst'[j] # "processing"
    BY <1>4, <1>2, Zenon DEF P!DestroyInstance
  <2> QED BY <1>1, <1>4, <2>1, InstancesKeep, ZenonT(40)
             DEF P!DestroyInstance, PostTypes, PostQueueInv
<1>5. CASE P!Lifecycle
  <2>0. PICK i \in P!Instances :
          \E s \in P!Handler(inst[i]) \cup {P!Initialize(inst[i])} : inst' = [inst EXCEPT ![i] = s]
    BY <1>5, Zenon DEF P!Lifecycle
  <2>1. PICK s \in P!Handler(inst[i]) \cup {P!Initialize(inst[i])} : inst' = [inst EXCEPT ![i] = s]
    BY <2>0, Zenon
  <2>2. s # "processing"
    BY <1>1, <2>1, NeverProcessing, ZenonT(40) DEF P!Handler, P!Initialize
  <2>3. \A j \in P!Instances : inst'[j] # "processing"
    BY <1>2, <2>1, <2>2, ZenonT(40)
  <2> QED BY <1>1, <1>5, <2>3, InstancesKeep, ZenonT(40) DEF P!Lifecycle, PostTypes, PostQueueInv
<1>6. CASE P!Take
  BY <1>1, <1>6, InstancesKeep, ZenonT(40) DEF P!Take, PostTypes, PostQueueInv
<1>7. CASE P!Deliver
  <2>1. PICK i, s : inst' = [inst EXCEPT ![i] = P!Step(s, "msgDone", FALSE)]
    BY <1>7, Zenon DEF P!Deliver
  <2>2. \A j \in P!Instances : inst'[j] # "processing"
    BY <1>2, <2>1, NeverProcessing, ZenonT(40)
  <2> QED BY <1>1, <1>7, <2>2, InstancesKeep, ZenonT(40) DEF P!Deliver, PostTypes, PostQueueInv
<1> QED BY <1>3, <1>4, <1>5, <1>6, <1>7, ZenonT(40)

(* ReleaseMessage gives back the reference of the message at the head. *)
LEMMA ReleaseKeeps == ASSUME PostInv, P!ReleaseMessage PROVE PostInv'
<1>1. PostTypes /\ PostQueueInv /\ p_queue # <<>> /\ p_cpc = "deliver" /\ p_cpc' = "advance"
      /\ UNCHANGED <<p_queue, inst, p_pc, call>>
  BY Zenon DEF PostInv, P!ReleaseMessage, PostQueueInv
<1>2. Len(p_queue) \in Nat \ {0} /\ Head(p_queue) = p_queue[1] /\ Head(p_queue) \in PostMessages
  BY <1>1, PostRemoved, ZenonT(40) DEF PostTypes
<1>3. ASSUME NEW ch, ch # P!NoChannel
      PROVE  P!InQueue(ch)' <=> P!InQueue(ch) /\ ch # p_queue[1].ch
  <2>1. P!InQueue(ch) <=> \E k \in 1 .. Len(p_queue) : p_queue[k].ch = ch
    BY <1>1, Zenon DEF P!InQueue
  <2>2. P!InQueue(ch)' <=> \E k \in 1 .. Len(p_queue) : p_queue[k].ch = ch /\ k # 1
    BY <1>1, Zenon DEF P!InQueue
  <2>3. 1 \in 1 .. Len(p_queue)
    BY <1>2, SMTT(30)
  <2>4. \A k \in 1 .. Len(p_queue) : p_queue[k].ch = ch /\ p_queue[1].ch = ch => k = 1
    BY <1>1, <1>3, <2>3, ZenonT(40) DEF PostQueueInv
  <2> QED BY <2>1, <2>2, <2>4, ZenonT(40)
<1>4. P!InQueue(p_queue[1].ch)
  <2>1. 1 \in 1 .. Len(p_queue)
    BY <1>2
  <2> QED BY <1>1, <2>1, ZenonT(40) DEF P!InQueue
<1>5. PostTypes' /\ PostQueueInv'
  <2>1. refs' \in [P!Channels -> Int]
    BY <1>1, <1>2, SMTT(30) DEF P!ReleaseMessage, PostTypes, PostMessages
  <2> QED BY <1>1, <2>1, ZenonT(40) DEF PostTypes, PostQueueInv
<1>6. ASSUME NEW c \in Callers, NEW n \in 1 .. Posts PROVE ChannelInv(c, n)'
  <2>1. /\ ChannelInv(c, n) /\ (UsesChannel(c, n)' <=> UsesChannel(c, n))
        /\ <<c, n>> \in P!Channels /\ <<c, n>> # P!NoChannel
    BY <1>1, ChannelPairs, Zenon DEF PostInv, UsesChannel
  <2>2. refs[<<c, n>>] \in Int
    BY <1>1, <2>1, ZenonT(40) DEF PostTypes
  <2>3. CASE <<c, n>> = p_queue[1].ch
    <3>1. refs'[<<c, n>>] = refs[<<c, n>>] - 1
      BY <1>1, <1>2, <2>1, <2>3, ZenonT(40) DEF P!ReleaseMessage, PostTypes
    <3>2. P!InQueue(<<c, n>>) /\ ~P!InQueue(<<c, n>>)'
      BY <1>3, <1>4, <2>1, <2>3, ZenonT(40)
    <3> QED BY <2>1, <2>2, <3>1, <3>2, SMTT(30) DEF ChannelInv
  <2>4. CASE <<c, n>> # p_queue[1].ch
    <3>1. refs'[<<c, n>>] = refs[<<c, n>>]
      BY <1>1, <1>2, <2>1, <2>4, ZenonT(40) DEF P!ReleaseMessage, PostTypes
    <3>2. P!InQueue(<<c, n>>)' <=> P!InQueue(<<c, n>>)
      BY <1>3, <2>1, <2>4, ZenonT(40)
    <3> QED BY <2>1, <3>1, <3>2, ZenonT(40) DEF ChannelInv
  <2> QED BY <2>3, <2>4, ZenonT(40)
<1>7. ASSUME AcquireFirst, NEW c \in Callers, p_pc[c] = "acquire" PROVE P!InQueue(P!Channel(c))'
  <2>1. P!InQueue(P!Channel(c)) /\ P!Channel(c)' = P!Channel(c) /\ call[c] \in 1 .. Posts
    BY <1>1, <1>7, ZenonT(40) DEF PostInv, P!Channel, PostQueueInv
  <2>2. P!Channel(c) # p_queue[1].ch
    BY <1>2, <1>7, ZenonT(40) DEF P!ReleaseMessage, P!Holding
  <2>3. P!Channel(c) # P!NoChannel
    BY <2>1, ChannelPairs, ZenonT(40) DEF P!Channel
  <2> QED BY <1>3, <2>1, <2>2, <2>3, ZenonT(40)
<1> QED BY <1>1, <1>5, <1>6, <1>7, ZenonT(40) DEF PostInv

(* Advance drops the head, which has no reference any more. *)
LEMMA AdvanceKeeps == ASSUME PostInv, P!Advance PROVE PostInv'
<1>1. PostTypes /\ PostQueueInv /\ p_queue # <<>> /\ p_cpc = "advance" /\ p_cpc' = "idle"
      /\ p_queue' = Tail(p_queue) /\ UNCHANGED <<inst, p_pc, call, refs>>
  BY Zenon DEF PostInv, P!Advance, PostQueueInv
<1>2. /\ p_queue' \in Seq(PostMessages) /\ Len(p_queue) \in Nat \ {0}
      /\ Len(p_queue') = Len(p_queue) - 1
      /\ \A k \in 1 .. Len(p_queue) - 1 : p_queue'[k] = p_queue[k + 1]
  BY <1>1, PostRemoved, ZenonT(40) DEF PostTypes
<1>3. \A k \in 1 .. Len(p_queue') :
        k + 1 \in 1 .. Len(p_queue) /\ k + 1 # 1 /\ p_queue'[k] = p_queue[k + 1]
  BY <1>2, SMTT(30)
<1>4. \A k \in 1 .. Len(p_queue) : k # 1 => \E j \in 1 .. Len(p_queue') : k = j + 1
  <2> SUFFICES ASSUME NEW k \in 1 .. Len(p_queue), k # 1
               PROVE  k - 1 \in 1 .. Len(p_queue') /\ k = (k - 1) + 1
    BY Zenon
  <2> QED BY <1>2, SMTT(30)
<1>5. ASSUME NEW ch PROVE P!InQueue(ch)' <=> P!InQueue(ch)
  <2>1. P!InQueue(ch) <=> \E k \in 1 .. Len(p_queue) : p_queue[k].ch = ch /\ k # 1
    BY <1>1, Zenon DEF P!InQueue
  <2>2. P!InQueue(ch)' <=> \E k \in 1 .. Len(p_queue') : p_queue'[k].ch = ch
    BY <1>1, Zenon DEF P!InQueue
  <2>3. ASSUME NEW k \in 1 .. Len(p_queue'), p_queue'[k].ch = ch PROVE P!InQueue(ch)
    BY <1>3, <2>1, <2>3, ZenonT(40)
  <2>4. ASSUME NEW k \in 1 .. Len(p_queue), p_queue[k].ch = ch, k # 1 PROVE P!InQueue(ch)'
    <3>1. PICK j \in 1 .. Len(p_queue') : k = j + 1
      BY <1>4, <2>4, ZenonT(40)
    <3> QED BY <1>3, <2>2, <2>4, <3>1, ZenonT(40)
  <2> QED BY <2>1, <2>2, <2>3, <2>4, ZenonT(40)
<1>6. PostTypes'
  BY <1>1, <1>2, ZenonT(40) DEF PostTypes
<1>7. PostQueueInv'
  <2>1. ASSUME NEW j \in 1 .. Len(p_queue'), NEW k \in 1 .. Len(p_queue'),
               p_queue'[j].ch = p_queue'[k].ch, p_queue'[j].ch # P!NoChannel
        PROVE  j = k
    <3>1. j + 1 = k + 1
      BY <1>1, <1>3, <2>1, ZenonT(40) DEF PostQueueInv
    <3> QED BY <3>1, SMTT(30)
  <2>2. ASSUME NEW k \in 1 .. Len(p_queue'), NEW c \in Callers, NEW n \in 1 .. Posts,
               p_queue'[k].ch = <<c, n>>
        PROVE  n <= call[c] /\ (n = call[c] => p_pc[c] # "post")
    BY <1>1, <1>3, <2>2, ZenonT(40) DEF PostQueueInv
  <2> QED BY <1>1, <2>1, <2>2, ZenonT(40) DEF PostQueueInv
<1>8. ASSUME NEW c \in Callers, NEW n \in 1 .. Posts PROVE ChannelInv(c, n)'
  BY <1>1, <1>5, Zenon DEF PostInv, ChannelInv, UsesChannel
<1> QED BY <1>1, <1>5, <1>6, <1>7, <1>8, ZenonT(40) DEF PostInv, P!Channel

-----------------------------------------------------------------------------
(* A caller goes from one step of OspSendAndWait() to the next and takes or  *)
(* gives back its reference.                                                 *)
LEMMA CallerKeeps ==
  ASSUME PostInv, NEW c \in Callers, NEW t \in {"idle", "wait", "release"}, p_pc[c] # "idle",
         p_pc' = [p_pc EXCEPT ![c] = t], UNCHANGED <<p_queue, p_cpc, call, inst>>,
         refs' \in [P!Channels -> Int],
         \A ch \in P!Channels : ch # P!Channel(c) => refs'[ch] = refs[ch],
         refs'[P!Channel(c)] = refs[P!Channel(c)] + (IF t # "idle" THEN 1 ELSE 0)
                                              - (IF p_pc[c] # "acquire" THEN 1 ELSE 0)
  PROVE  PostInv'
<1>1. PostTypes /\ PostQueueInv /\ p_pc'[c] = t /\ call[c] \in 1 .. Posts
      /\ \A e \in Callers : e # c => p_pc'[e] = p_pc[e]
  <2>1. PostTypes /\ PostQueueInv /\ call[c] \in 1 .. Posts
    BY ZenonT(40) DEF PostInv, PostQueueInv
  <2>2. DOMAIN p_pc = Callers
    BY <2>1, Zenon DEF PostTypes
  <2> QED BY <2>1, <2>2, ZenonT(40)
<1>2. ASSUME NEW ch PROVE P!InQueue(ch)' <=> P!InQueue(ch)
  BY Zenon DEF P!InQueue
<1>3. PostTypes'
  <2>1. p_pc' \in [Callers -> {"idle", "post", "acquire", "wait", "release"}]
    BY <1>1, SMTT(30) DEF PostTypes
  <2> QED BY <1>1, <2>1, Zenon DEF PostTypes
<1>4. \A e \in Callers : /\ p_pc'[e] = "post" => p_pc[e] = "post"
                         /\ p_pc'[e] = "acquire" => p_pc[e] = "acquire"
                         /\ p_pc'[e] # "idle" => p_pc[e] # "idle"
  BY <1>1, SMTT(30)
<1>5. PostQueueInv'
  BY <1>1, <1>4, ZenonT(40) DEF PostQueueInv
<1>6. ASSUME NEW e \in Callers, NEW n \in 1 .. Posts PROVE ChannelInv(e, n)'
  <2>1. ChannelInv(e, n) /\ <<e, n>> \in P!Channels
    BY ChannelPairs, Zenon DEF PostInv
  <2>2. CASE e = c /\ n = call[c]
    <3>1. /\ UsesChannel(e, n) <=> p_pc[c] # "acquire"
          /\ UsesChannel(e, n)' <=> t # "idle"
      BY <1>1, <2>2, SMTT(30) DEF UsesChannel, PostTypes
    <3>2. refs[<<e, n>>] \in Int /\ P!Channel(c) = <<e, n>>
      BY <1>1, <2>1, <2>2, Zenon DEF PostTypes, P!Channel
    <3> QED BY <1>2, <2>1, <3>1, <3>2, SMTT(30) DEF ChannelInv
  <2>3. CASE ~(e = c /\ n = call[c])
    <3>1. UsesChannel(e, n)' <=> UsesChannel(e, n)
      BY <1>1, <2>3, Zenon DEF UsesChannel
    <3>2. refs'[<<e, n>>] = refs[<<e, n>>]
      BY <2>1, <2>3, ChannelPairs, Zenon DEF P!Channel
    <3> QED BY <1>2, <2>1, <3>1, <3>2, ZenonT(40) DEF ChannelInv
  <2> QED BY <2>2, <2>3, Zenon
<1> QED BY <1>2, <1>3, <1>4, <1>5, <1>6, ZenonT(40) DEF PostInv, P!Channel

(* A refused post, Acquire(), the end of the wait and Release(). *)
LEMMA CallingKeeps ==
  ASSUME PostInv, NEW c \in Callers,
         \/ P!Posted(c) /\ refs' = [refs EXCEPT ![P!Channel(c)] = @ - 1]
            /\ P!Go(c, "idle") /\ UNCHANGED p_queue
         \/ P!Acquire(c) \/ P!WaitEnds(c) \/ P!Release(c)
  PROVE  PostInv'
<1>1. PostTypes /\ PostQueueInv
  BY Zenon DEF PostInv
<1>2. p_pc[c] # "idle" /\ UNCHANGED <<p_queue, p_cpc, call, inst>>
  BY DEF P!Posted, P!Acquire, P!WaitEnds, P!Release
<1>3. P!Channel(c) \in P!Channels
  BY <1>1, <1>2, ChannelPairs, ZenonT(40) DEF PostQueueInv, P!Channel
<1>4. CASE \/ P!Posted(c) /\ refs' = [refs EXCEPT ![P!Channel(c)] = @ - 1] /\ P!Go(c, "idle")
           \/ P!Release(c)
  <2>1. p_pc' = [p_pc EXCEPT ![c] = "idle"] /\ p_pc[c] \in {"post", "release"}
        /\ refs' = [refs EXCEPT ![P!Channel(c)] = @ - 1]
    BY <1>4 DEF P!Posted, P!Release, P!Go
  <2>2. /\ refs' \in [P!Channels -> Int]
        /\ \A ch \in P!Channels : ch # P!Channel(c) => refs'[ch] = refs[ch]
        /\ refs'[P!Channel(c)] = refs[P!Channel(c)] + 0 - 1
    BY <1>1, <1>3, <2>1 DEF PostTypes
  <2> QED BY <1>2, <2>1, <2>2, CallerKeeps, ZenonT(40)
<1>5. CASE P!Acquire(c)
  <2>1. p_pc' = [p_pc EXCEPT ![c] = "wait"] /\ p_pc[c] = "acquire"
        /\ refs' = [refs EXCEPT ![P!Channel(c)] = @ + 1]
    BY <1>5, Zenon DEF P!Acquire, P!Go
  <2>2. /\ refs' \in [P!Channels -> Int]
        /\ \A ch \in P!Channels : ch # P!Channel(c) => refs'[ch] = refs[ch]
        /\ refs'[P!Channel(c)] = refs[P!Channel(c)] + 1 - 0
    BY <1>1, <1>3, <2>1 DEF PostTypes
  <2> QED BY <1>2, <2>1, <2>2, CallerKeeps, ZenonT(40)
<1>6. CASE P!WaitEnds(c)
  <2>1. p_pc' = [p_pc EXCEPT ![c] = "release"] /\ p_pc[c] = "wait" /\ refs' = refs
    BY <1>6, Zenon DEF P!WaitEnds, P!Go
  <2>2. /\ refs' \in [P!Channels -> Int]
        /\ \A ch \in P!Channels : ch # P!Channel(c) => refs'[ch] = refs[ch]
        /\ refs'[P!Channel(c)] = refs[P!Channel(c)] + 1 - 1
    BY <1>1, <1>3, <2>1, SMTT(30) DEF PostTypes
  <2> QED BY <1>2, <2>1, <2>2, CallerKeeps, ZenonT(40)
<1> QED BY <1>4, <1>5, <1>6, Zenon

(* A new call has a new channel. *)
LEMMA SendKeeps == ASSUME PostInv, NEW c \in Callers, P!SendAndWait(c) PROVE PostInv'
<1> DEFINE new == call[c] + 1
<1>1. PostTypes /\ PostQueueInv /\ p_pc[c] = "idle" /\ UNCHANGED <<p_queue, p_cpc, inst>>
  BY ZenonT(40) DEF PostInv, P!SendAndWait
<1>2. /\ new \in 1 .. Posts /\ call[c] \in Int /\ call'[c] = new /\ p_pc'[c] = "post"
      /\ \A e \in Callers : e # c => p_pc'[e] = p_pc[e] /\ call'[e] = call[e]
      /\ call' \in [Callers -> 0 .. Posts]
      /\ p_pc' \in [Callers -> {"idle", "post", "acquire", "wait", "release"}]
  <2>1. /\ call \in [Callers -> 0 .. Posts] /\ Posts \in Nat /\ call[c] < Posts
        /\ p_pc \in [Callers -> {"idle", "post", "acquire", "wait", "release"}]
        /\ call' = [call EXCEPT ![c] = call[c] + 1] /\ p_pc' = [p_pc EXCEPT ![c] = "post"]
    BY <1>1, ZenonT(40) DEF P!SendAndWait, P!Go, PostTypes
  <2> QED BY <2>1, SMTT(30)
<1>3. /\ refs' \in [P!Channels -> Int] /\ refs'[<<c, new>>] = 1
      /\ \A ch \in P!Channels : ch # <<c, new>> => refs'[ch] = refs[ch]
  <2> HIDE DEF new
  <2>1. <<c, new>> \in P!Channels /\ refs' = [refs EXCEPT ![<<c, new>>] = 1]
    BY <1>2, ChannelPairs, ZenonT(40) DEF P!SendAndWait, new
  <2> QED BY <1>1, <2>1, SMTT(30) DEF PostTypes
<1>4. ASSUME NEW ch PROVE P!InQueue(ch)' <=> P!InQueue(ch)
  BY <1>1, ZenonT(40) DEF P!InQueue
<1>5. \A n \in 1 .. Posts : n <= call[c] => n <= new /\ n # new
  BY <1>2, SMTT(30)
<1>6. PostTypes'
  BY <1>1, <1>2, <1>3, ZenonT(40) DEF PostTypes
<1>7. PostQueueInv'
  <2> HIDE DEF new
  <2>1. ASSUME NEW k \in 1 .. Len(p_queue), NEW e \in Callers, NEW n \in 1 .. Posts,
               p_queue[k].ch = <<e, n>>
        PROVE  n <= call'[e] /\ (n = call'[e] => p_pc'[e] # "post")
    <3>1. n <= call[e] /\ (n = call[e] => p_pc[e] # "post")
      BY <1>1, <2>1, ZenonT(40) DEF PostQueueInv
    <3> QED BY <1>2, <1>5, <3>1, ZenonT(40)
  <2>2. \A e \in Callers : p_pc'[e] # "idle" => call'[e] \in 1 .. Posts
    BY <1>1, <1>2, ZenonT(40) DEF PostQueueInv
  <2> QED BY <1>1, <2>1, <2>2, ZenonT(40) DEF PostQueueInv
<1>8. ASSUME NEW e \in Callers, NEW n \in 1 .. Posts PROVE ChannelInv(e, n)'
  <2> HIDE DEF new
  <2>1. ChannelInv(e, n) /\ <<e, n>> \in P!Channels
    BY ChannelPairs, ZenonT(40) DEF PostInv
  <2>2. CASE e = c /\ n = new
    <3>1. ~P!InQueue(<<e, n>>)
      BY <1>1, <1>2, <1>5, <2>2, ZenonT(40) DEF P!InQueue, PostQueueInv
    <3>2. UsesChannel(e, n)'
      BY <1>2, <2>2, Zenon DEF UsesChannel
    <3> QED BY <1>3, <1>4, <2>2, <3>1, <3>2, SMTT(30) DEF ChannelInv
  <2>3. CASE ~(e = c /\ n = new)
    <3>1. refs'[<<e, n>>] = refs[<<e, n>>]
      BY <1>3, <2>1, <2>3, ChannelPairs, ZenonT(40)
    <3>2. UsesChannel(e, n)' <=> UsesChannel(e, n)
      <4>1. CASE e = c
        BY <1>1, <1>2, <2>3, <4>1, SMTT(30) DEF UsesChannel
      <4>2. CASE e # c
        BY <1>2, <4>2, ZenonT(40) DEF UsesChannel
      <4> QED BY <4>1, <4>2, ZenonT(40)
    <3> QED BY <1>4, <2>1, <3>1, <3>2, ZenonT(40) DEF ChannelInv
  <2> QED BY <2>2, <2>3, ZenonT(40)
<1>9. ASSUME AcquireFirst, NEW e \in Callers, p_pc'[e] = "acquire" PROVE P!InQueue(P!Channel(e))'
  <2>1. e # c
    BY <1>2, <1>9, SMTT(30)
  <2>2. p_pc[e] = "acquire" /\ P!Channel(e)' = P!Channel(e)
    BY <1>2, <1>9, <2>1, ZenonT(40) DEF P!Channel
  <2> QED BY <1>4, <1>9, <2>2, ZenonT(40) DEF PostInv
<1> QED BY <1>1, <1>6, <1>7, <1>8, <1>9, ZenonT(40) DEF PostInv

-----------------------------------------------------------------------------
(* A message goes to the end of the p_queue. *)
LEMMA PostQueued ==
  ASSUME PostInv, NEW m \in PostMessages, p_queue' = Append(p_queue, m), p_cpc' = p_cpc
  PROVE  /\ p_queue' \in Seq(PostMessages) /\ p_queue' # <<>>
         /\ Len(p_queue') = Len(p_queue) + 1 /\ Len(p_queue) \in Nat
         /\ \A k \in 1 .. Len(p_queue') : (k \in 1 .. Len(p_queue) /\ p_queue'[k] = p_queue[k])
                                      \/ (k = Len(p_queue) + 1 /\ p_queue'[k] = m)
         /\ \A ch : P!InQueue(ch)' <=> P!InQueue(ch) \/ ch = m.ch
<1>1. PostTypes /\ PostQueueInv
  BY ZenonT(40) DEF PostInv
<1>2. /\ p_queue' \in Seq(PostMessages) /\ Len(p_queue') = Len(p_queue) + 1 /\ Len(p_queue) \in Nat
      /\ \A k \in 1 .. Len(p_queue) : p_queue'[k] = p_queue[k]
      /\ p_queue'[Len(p_queue) + 1] = m
  <2>1. p_queue \in Seq(PostMessages)
    BY <1>1, Zenon DEF PostTypes
  <2> QED BY <2>1, PostAppended, SMTT(30)
<1>3. p_queue' # <<>>
  BY <1>2, SMTT(30)
<1>4. \A k \in 1 .. Len(p_queue') : k \in 1 .. Len(p_queue) \/ k = Len(p_queue) + 1
  BY <1>2, SMTT(30)
<1>5. /\ \A k \in 1 .. Len(p_queue) : k \in 1 .. Len(p_queue')
      /\ Len(p_queue) + 1 \in 1 .. Len(p_queue')
      /\ Len(p_queue) + 1 = 1 => p_queue = <<>>
  BY <1>1, <1>2, SMTT(30) DEF PostTypes
<1>6. ~(Len(p_queue) + 1 = 1 /\ p_cpc = "advance")
  BY <1>1, <1>5, SMTT(30) DEF PostQueueInv
<1>7. ASSUME NEW ch PROVE P!InQueue(ch)' <=> P!InQueue(ch) \/ ch = m.ch
  <2>1. P!InQueue(ch) => P!InQueue(ch)'
    BY <1>2, <1>5, ZenonT(40) DEF P!InQueue
  <2>2. ch = m.ch => P!InQueue(ch)'
    BY <1>2, <1>5, <1>6, ZenonT(40) DEF P!InQueue
  <2>3. P!InQueue(ch)' => P!InQueue(ch) \/ ch = m.ch
    BY <1>2, <1>4, ZenonT(40) DEF P!InQueue
  <2> QED BY <2>1, <2>2, <2>3, ZenonT(40)
<1> QED BY <1>2, <1>3, <1>4, <1>7, ZenonT(40)

(* OspPost() queues a message without a channel. *)
LEMMA OspPostKeeps == ASSUME PostInv, NEW c \in Callers, P!OspPost(c) PROVE PostInv'
<1>1. PICK to \in P!Instances : p_queue' = Append(p_queue, [to |-> to, ch |-> P!NoChannel])
  BY Zenon DEF P!OspPost, P!Post
<1> DEFINE m == [to |-> to, ch |-> P!NoChannel]
<1>2. m \in PostMessages /\ m.ch = P!NoChannel
  <2>1. MaxInstances \in Nat
    BY Zenon DEF PostInv, PostTypes
  <2> QED BY <2>1, SMTT(30) DEF PostMessages, P!Instances, P!kInsEach
<1>3. PostTypes /\ PostQueueInv /\ UNCHANGED <<p_cpc, inst, p_pc, call, refs>>
  BY Zenon DEF PostInv, P!OspPost
<1> HIDE DEF m
<1>4. /\ p_queue' \in Seq(PostMessages) /\ p_queue' # <<>>
      /\ \A k \in 1 .. Len(p_queue') : (k \in 1 .. Len(p_queue) /\ p_queue'[k] = p_queue[k])
                                   \/ p_queue'[k].ch = P!NoChannel
      /\ \A ch : P!InQueue(ch)' <=> P!InQueue(ch) \/ ch = P!NoChannel
  <2>1. p_queue' = Append(p_queue, m)
    BY <1>1, Zenon DEF m
  <2> QED BY <1>2, <1>3, <2>1, PostQueued, ZenonT(40)
<1>5. PostTypes'
  BY <1>3, <1>4, ZenonT(40) DEF PostTypes
<1>6. PostQueueInv'
  <2>1. ASSUME NEW k \in 1 .. Len(p_queue'), NEW e \in Callers, NEW n \in 1 .. Posts,
               p_queue'[k].ch = <<e, n>>
        PROVE  n <= call[e] /\ (n = call[e] => p_pc[e] # "post")
    <3>1. k \in 1 .. Len(p_queue) /\ p_queue[k].ch = <<e, n>>
      <4>1. <<e, n>> # P!NoChannel
        BY ChannelPairs, Zenon
      <4>2. p_queue'[k].ch # P!NoChannel
        BY <2>1, <4>1
      <4> QED BY <1>4, <2>1, <4>2, ZenonT(40)
    <3> QED BY <1>3, <3>1, Zenon DEF PostQueueInv
  <2>2. ASSUME NEW j \in 1 .. Len(p_queue'), NEW k \in 1 .. Len(p_queue'),
               p_queue'[j].ch = p_queue'[k].ch, p_queue'[j].ch # P!NoChannel
        PROVE  j = k
    <3>1. /\ j \in 1 .. Len(p_queue) /\ k \in 1 .. Len(p_queue)
          /\ p_queue'[j] = p_queue[j] /\ p_queue'[k] = p_queue[k]
      BY <1>4, <2>2, ZenonT(40)
    <3> QED BY <1>3, <2>2, <3>1, ZenonT(40) DEF PostQueueInv
  <2> QED BY <1>3, <1>4, <2>1, <2>2, ZenonT(40) DEF PostQueueInv
<1>7. ASSUME NEW e \in Callers, NEW n \in 1 .. Posts PROVE ChannelInv(e, n)'
  <2>1. P!InQueue(<<e, n>>)' <=> P!InQueue(<<e, n>>)
    BY <1>4, ChannelPairs, ZenonT(40)
  <2> QED BY <1>3, <2>1, ZenonT(40) DEF PostInv, ChannelInv, UsesChannel
<1> QED BY <1>3, <1>4, <1>5, <1>6, <1>7, ZenonT(40) DEF PostInv, P!Channel

(* A post that is accepted hands the reference of the caller to the message. *)
LEMMA PostedKeeps ==
  ASSUME PostInv, NEW c \in Callers, p_pc[c] = "post", P!Go(c, "acquire"),
         UNCHANGED <<p_cpc, inst, call, refs>>,
         \E to \in 0 .. P!kInsEach : P!Post(to, P!Channel(c))
  PROVE  PostInv'
<1>1. PICK to \in 0 .. P!kInsEach : p_queue' = Append(p_queue, [to |-> to, ch |-> P!Channel(c)])
  BY Zenon DEF P!Post
<1> DEFINE m == [to |-> to, ch |-> P!Channel(c)]
<1>2. PostTypes /\ PostQueueInv
  BY Zenon DEF PostInv
<1>3. call[c] \in 1 .. Posts /\ P!Channel(c) \in P!Channels /\ P!Channel(c) # P!NoChannel
  BY <1>2, ChannelPairs, ZenonT(40) DEF PostQueueInv, P!Channel
<1>4. m \in PostMessages /\ m.ch = P!Channel(c)
  BY <1>3, SMTT(30) DEF PostMessages
<1> HIDE DEF m
<1>5. p_queue' = Append(p_queue, m)
  BY <1>1, ZenonT(40) DEF m
<1>6. /\ p_queue' \in Seq(PostMessages) /\ p_queue' # <<>>
      /\ Len(p_queue') = Len(p_queue) + 1 /\ Len(p_queue) \in Nat
      /\ \A k \in 1 .. Len(p_queue') : (k \in 1 .. Len(p_queue) /\ p_queue'[k] = p_queue[k])
                                   \/ (k = Len(p_queue) + 1 /\ p_queue'[k] = m)
      /\ \A ch : P!InQueue(ch)' <=> P!InQueue(ch) \/ ch = m.ch
  BY <1>4, <1>5, PostQueued, ZenonT(40)
<1>7. /\ p_pc'[c] = "acquire" /\ \A e \in Callers : e # c => p_pc'[e] = p_pc[e]
      /\ p_pc' \in [Callers -> {"idle", "post", "acquire", "wait", "release"}]
  BY <1>2, SMTT(30) DEF P!Go, PostTypes
<1>8. PostTypes'
  BY <1>2, <1>6, <1>7, ZenonT(40) DEF PostTypes
<1>9. \A k \in 1 .. Len(p_queue) : p_queue[k].ch # P!Channel(c)
  BY <1>2, <1>3, ZenonT(40) DEF PostQueueInv, P!Channel
<1>10. PostQueueInv'
  <2>1. ASSUME NEW k \in 1 .. Len(p_queue'), NEW e \in Callers, NEW n \in 1 .. Posts,
               p_queue'[k].ch = <<e, n>>
        PROVE  n <= call[e] /\ (n = call[e] => p_pc'[e] # "post")
    <3>1. CASE (k \in 1 .. Len(p_queue) /\ p_queue'[k] = p_queue[k])
      <4>1. n <= call[e] /\ (n = call[e] => p_pc[e] # "post")
        BY <1>2, <2>1, <3>1, ZenonT(40) DEF PostQueueInv
      <4> QED BY <1>7, <4>1, SMTT(30)
    <3>2. CASE p_queue'[k] = m
      <4>1. e = c /\ n = call[c]
        <5>1. <<c, call[c]>> = <<e, n>>
          BY <1>4, <2>1, <3>2, ZenonT(40) DEF P!Channel
        <5> QED BY <5>1, SMTT(30)
      <4> QED BY <1>3, <1>7, <4>1, SMTT(30)
    <3> QED BY <1>6, <3>1, <3>2, ZenonT(40)
  <2>2. ASSUME NEW j \in 1 .. Len(p_queue'), NEW k \in 1 .. Len(p_queue'),
               p_queue'[j].ch = p_queue'[k].ch, p_queue'[j].ch # P!NoChannel
        PROVE  j = k
    BY <1>2, <1>4, <1>6, <1>9, <2>2, ZenonT(40) DEF PostQueueInv
  <2>3. \A e \in Callers : p_pc'[e] # "idle" => call[e] \in 1 .. Posts
    BY <1>2, <1>3, <1>7, ZenonT(40) DEF PostQueueInv
  <2> QED BY <1>6, <2>1, <2>2, <2>3, ZenonT(40) DEF PostQueueInv
<1>11. ASSUME NEW e \in Callers, NEW n \in 1 .. Posts PROVE ChannelInv(e, n)'
  <2>1. ChannelInv(e, n)
    BY ZenonT(40) DEF PostInv
  <2>2. CASE e = c /\ n = call[c]
    <3>1. UsesChannel(e, n) /\ ~UsesChannel(e, n)'
      BY <1>7, <2>2, SMTT(30) DEF UsesChannel
    <3>2. P!InQueue(<<e, n>>)' /\ ~P!InQueue(<<e, n>>)
      BY <1>4, <1>6, <1>9, <2>2, ZenonT(40) DEF P!InQueue, P!Channel
    <3> QED BY <2>1, <3>1, <3>2, SMTT(30) DEF ChannelInv
  <2>3. CASE ~(e = c /\ n = call[c])
    <3>1. UsesChannel(e, n)' <=> UsesChannel(e, n)
      BY <1>7, <2>3, Zenon DEF UsesChannel
    <3>2. P!InQueue(<<e, n>>)' <=> P!InQueue(<<e, n>>)
      <4>1. <<e, n>> # <<c, call[c]>>
        BY <2>3, SMTT(30)
      <4> QED BY <1>4, <1>6, <4>1, ZenonT(40) DEF P!Channel
    <3> QED BY <2>1, <3>1, <3>2, Zenon DEF ChannelInv
  <2> QED BY <2>2, <2>3, ZenonT(40)
<1>12. ASSUME AcquireFirst, NEW e \in Callers, p_pc'[e] = "acquire" PROVE P!InQueue(P!Channel(e))'
  <2>1. P!Channel(e)' = P!Channel(e)
    BY Zenon DEF P!Channel
  <2>2. e = c \/ p_pc[e] = "acquire"
    BY <1>7, <1>12, Zenon
  <2> QED BY <1>4, <1>6, <1>12, <2>1, <2>2, ZenonT(40) DEF PostInv
<1> QED BY <1>8, <1>10, <1>11, <1>12, ZenonT(40) DEF PostInv

-----------------------------------------------------------------------------
(* Every step of the application and of its callers keeps the invariant. *)
LEMMA PostNext == PostInv /\ [P!Next]_(P!vars) => PostInv'
<1> SUFFICES ASSUME PostInv, [P!Next]_(P!vars) PROVE PostInv'
  BY SMTT(30)
<1>1. CASE P!CreateInstance \/ P!DestroyInstance \/ P!Lifecycle \/ P!Take \/ P!Deliver
  BY <1>1, LifecycleKeeps, SMTT(30)
<1>2. CASE P!ReleaseMessage
  BY <1>2, ReleaseKeeps, SMTT(30)
<1>3. CASE P!Advance
  BY <1>3, AdvanceKeeps, SMTT(30)
<1>4. ASSUME NEW c \in Callers, P!SendAndWait(c) PROVE PostInv'
  BY <1>4, SendKeeps, SMTT(30)
<1>5. ASSUME NEW c \in Callers, P!Posted(c) PROVE PostInv'
  BY <1>5, PostedKeeps, CallingKeeps, ZenonT(40) DEF P!Posted
<1>6. ASSUME NEW c \in Callers, P!Acquire(c) \/ P!WaitEnds(c) \/ P!Release(c) PROVE PostInv'
  BY <1>6, CallingKeeps, ZenonT(40)
<1>7. ASSUME NEW c \in Callers, P!OspPost(c) PROVE PostInv'
  BY <1>7, OspPostKeeps
<1>8. CASE UNCHANGED P!vars
  <2>1. UNCHANGED <<p_queue, p_cpc, inst, p_pc, call, refs>>
    BY <1>8, Zenon DEF P!vars
  <2>2. (\A i \in P!Instances : inst'[i] # "processing") /\ PostTypes /\ PostQueueInv
    BY <2>1, Zenon DEF PostInv
  <2> QED BY <2>1, <2>2, InstancesKeep, ZenonT(40) DEF PostTypes, PostQueueInv
<1> QED BY <1>1, <1>2, <1>3, <1>4, <1>5, <1>6, <1>7, <1>8, ZenonT(40)
           DEF P!Next, P!Processing, P!Calling

(* What the references of the invariant say of the users of a channel. *)
LEMMA PostSound ==
  ASSUME PostInv
  PROVE  P!ChannelsExact /\ (AcquireFirst => P!ChannelAlive)
<1>1. PostTypes /\ PostQueueInv
  BY ZenonT(40) DEF PostInv
<1>2. ASSUME NEW ch \in P!Channels
      PROVE  /\ refs[ch] = P!Holders(ch) - IF P!Holding(ch) THEN 1 ELSE 0
             /\ AcquireFirst /\ P!Holders(ch) > 0 => refs[ch] > 0
  <2>1. PICK c \in Callers, n \in 1 .. Posts : ch = <<c, n>>
    BY ChannelPairs, Zenon
  <2>2. (\E e \in Callers : ch = P!Channel(e) /\ P!Waiting(e)) <=> n = call[c] /\ p_pc[c] # "idle"
    <3>1. \A e \in Callers : P!Waiting(e) <=> p_pc[e] # "idle"
      BY <1>1, SMTT(30) DEF P!Waiting, PostTypes
    <3>2. \A e \in Callers : ch = P!Channel(e) <=> e = c /\ n = call[c]
      BY <2>1, ChannelPairs, ZenonT(40) DEF P!Channel
    <3> QED BY <3>1, <3>2, ZenonT(40)
  <2>3. P!Holding(ch) <=> n = call[c] /\ p_pc[c] = "acquire"
    BY <2>1, ChannelPairs, ZenonT(40) DEF P!Holding, P!Channel
  <2>4. UsesChannel(c, n) <=> n = call[c] /\ p_pc[c] # "idle" /\ p_pc[c] # "acquire"
    BY <1>1, SMTT(30) DEF UsesChannel, PostTypes
  <2>5. ChannelInv(c, n)
    BY Zenon DEF PostInv
  <2>6. AcquireFirst /\ P!Holding(ch) => P!InQueue(ch)
    BY <2>1, <2>3, ZenonT(40) DEF PostInv, P!Channel
  <2>7. refs[ch] = (IF P!InQueue(ch) THEN 1 ELSE 0)
                   + (IF n = call[c] /\ p_pc[c] # "idle" /\ p_pc[c] # "acquire" THEN 1 ELSE 0)
    BY <2>1, <2>4, <2>5, ZenonT(40) DEF ChannelInv
  <2>8. P!Holders(ch) = (IF P!InQueue(ch) THEN 1 ELSE 0)
                        + (IF n = call[c] /\ p_pc[c] # "idle" THEN 1 ELSE 0)
    BY <2>2, ZenonT(40) DEF P!Holders
  <2> QED BY <2>3, <2>6, <2>7, <2>8, SMTT(30)
<1> QED BY <1>2, Zenon DEF PostInv, P!ChannelsExact, P!ChannelAlive

(* AppPost: a response channel has one reference for its message and one   *)
(* for its caller, who has none between Post() and Acquire(): it is freed  *)
(* by the last of its users, and no instance is left in Processing.  And   *)
(* if no message is released before its caller took that reference, a      *)
(* channel that somebody still uses is never freed.                        *)
THEOREM ChannelsAreExact ==
  PostBounds /\ P!Spec => [](P!ChannelsExact /\ (AcquireFirst => P!ChannelAlive))
<1>1. PostInv => P!ChannelsExact /\ (AcquireFirst => P!ChannelAlive)
  BY PostSound, Zenon
<1> QED BY <1>1, PostInit, PostNext, PTL DEF P!Spec
=============================================================================
