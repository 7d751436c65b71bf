------------------------------ MODULE AsyncBus ------------------------------
(***************************************************************************)
(* The ring of osp::AsyncBus (include/osp/bus.hpp): any number of threads  *)
(* publish, one thread runs ProcessBatch.  One action is one access to a   *)
(* shared atomic (plus the local work that goes with it), so every         *)
(* interleaving of the atomic accesses is a behaviour.                     *)
(*                                                                         *)
(* Positions are uint32_t in the code.  Here they are naturals; the        *)
(* differences the code takes of two positions are computed modulo W       *)
(* (2^32 in the code), which is where a wrapped result changes a decision. *)
(***************************************************************************)
EXTENDS Integers, Sequences, FiniteSets

CONSTANTS
  Producers,            \* threads that call Publish
  kQueueDepth,          \* OSP_BUS_QUEUE_DEPTH
  kBatchSize,           \* OSP_BUS_BATCH_SIZE
  kMsgIdWrapThreshold,  \* no message is accepted once this many ids are used
  Eviction,             \* OSP_BUS_EVICTION
  W,                    \* the modulus of the position type
  Inputs,               \* the priorities the callers of Publish use
  MaxCalls              \* bound on the number of Publish calls

ASSUME BusAssumption ==
  /\ kQueueDepth \in Nat /\ kQueueDepth > 1 /\ kBatchSize \in Nat \ {0}
  /\ kMsgIdWrapThreshold \in Nat /\ MaxCalls \in Nat
  /\ W \in Nat /\ W > 4 * kQueueDepth
  /\ Eviction \in BOOLEAN

kLow == 0
kMedium == 1
kHigh == 2
Priorities == {kLow, kMedium, kHigh}

Slots == 0 .. kQueueDepth - 1
Slot(pos) == pos % kQueueDepth

Message(id, pr) == [id |-> id, prio |-> pr]
NoMessage == Message(0, kMedium)
Messages == [id : Nat, prio : Priorities]

ASSUME InputAssumption == Inputs \subseteq Priorities

VARIABLES
  sequence, slot_priority, envelope,           \* the fields of ring_buffer_[s]
  producer_pos, cached_consumer_pos, consumer_pos,
  next_msg_id,
  messages_published, messages_dropped, messages_processed,
  pc, priority, prod, cons, i,                 \* locals of each publisher
  cpc, cons_pos, processed,                    \* locals of the consumer
  calls, delivered, evicted                    \* history

ring == <<sequence, slot_priority, envelope>>
positions == <<producer_pos, cached_consumer_pos, consumer_pos>>
stats == <<messages_published, messages_dropped, messages_processed>>
publisher == <<pc, priority, prod, cons, i>>
consumer == <<cpc, cons_pos, processed>>
history == <<calls, delivered, evicted>>
vars == <<ring, positions, next_msg_id, stats, publisher, consumer, history>>

(* uint32_t subtraction of two positions less than W apart. *)
Sub(a, b) == IF a >= b THEN a - b ELSE W + a - b

GetThresholdForPriority(pr) ==
  CASE pr = kHigh   -> (kQueueDepth * 99) \div 100
    [] pr = kMedium -> (kQueueDepth * 80) \div 100
    [] OTHER        -> (kQueueDepth * 60) \div 100

Init ==
  /\ sequence = [s \in Slots |-> s]
  /\ slot_priority = [s \in Slots |-> kMedium]
  /\ envelope = [s \in Slots |-> NoMessage]
  /\ producer_pos = 0 /\ cached_consumer_pos = 0 /\ consumer_pos = 0
  /\ next_msg_id = 1
  /\ messages_published = 0 /\ messages_dropped = 0 /\ messages_processed = 0
  /\ pc = [p \in Producers |-> "idle"]
  /\ priority = [p \in Producers |-> kLow]
  /\ prod = [p \in Producers |-> 0]
  /\ cons = [p \in Producers |-> 0]
  /\ i = [p \in Producers |-> 0]
  /\ cpc = "idle" /\ cons_pos = 0 /\ processed = 0
  /\ calls = 0 /\ delivered = <<>> /\ evicted = {}

(* Thread p moves from one point of its call to another. *)
Goto(p, from, to) == pc[p] = from /\ pc' = [pc EXCEPT ![p] = to]

(* Publish returns; its locals go out of scope. *)
Return(p) ==
  /\ pc' = [pc EXCEPT ![p] = "idle"]
  /\ priority' = [priority EXCEPT ![p] = kLow]
  /\ prod' = [prod EXCEPT ![p] = 0]
  /\ cons' = [cons EXCEPT ![p] = 0]
  /\ i' = [i EXCEPT ![p] = 0]

(* The call returns false: the message is counted as dropped. *)
Drop(p) ==
  /\ Return(p)
  /\ messages_dropped' = messages_dropped + 1
  /\ UNCHANGED <<messages_published, messages_processed>>

-----------------------------------------------------------------------------
(* Publish: identifier check and admission control. *)

Publish(p, pr) ==
  /\ pc[p] = "idle" /\ calls < MaxCalls
  /\ calls' = calls + 1
  /\ IF next_msg_id >= kMsgIdWrapThreshold
       THEN UNCHANGED publisher           \* kOverflowDetected, not counted
       ELSE /\ Goto(p, "idle", "admit")
            /\ priority' = [priority EXCEPT ![p] = pr]
            /\ UNCHANGED <<prod, cons, i>>
  /\ UNCHANGED <<ring, positions, next_msg_id, stats, consumer, delivered, evicted>>

LoadProducerPos(p) ==
  /\ Goto(p, "admit", "estimate")
  /\ prod' = [prod EXCEPT ![p] = producer_pos]
  /\ UNCHANGED <<ring, positions, next_msg_id, stats, priority, cons, i, consumer, history>>

EstimateDepth(p) ==
  /\ pc[p] = "estimate"
  /\ pc' = [pc EXCEPT ![p] =
       IF Sub(prod[p], cached_consumer_pos) >= GetThresholdForPriority(priority[p])
         THEN "recheck" ELSE "claim"]
  /\ UNCHANGED <<ring, positions, next_msg_id, stats, priority, prod, cons, i, consumer, history>>

RecheckDepth(p) ==
  /\ Goto(p, "recheck", "cache")
  /\ cons' = [cons EXCEPT ![p] = consumer_pos]
  /\ UNCHANGED <<ring, positions, next_msg_id, stats, priority, prod, i, consumer, history>>

CacheConsumerPos(p) ==
  /\ pc[p] = "cache"
  /\ cached_consumer_pos' = cons[p]
  /\ IF Sub(prod[p], cons[p]) < GetThresholdForPriority(priority[p])
       THEN Goto(p, "cache", "claim") /\ UNCHANGED <<stats, priority, prod, cons, i>>
       ELSE IF Eviction /\ priority[p] = kHigh
              THEN Goto(p, "cache", "evict_prod") /\ UNCHANGED <<stats, priority, prod, cons, i>>
              ELSE Drop(p)
  /\ UNCHANGED <<ring, producer_pos, consumer_pos, next_msg_id, consumer, history>>

-----------------------------------------------------------------------------
(* Publish: claiming a position and publishing the message in its slot.    *)

LoadClaimPos(p) ==
  /\ Goto(p, "claim", "check_seq")
  /\ prod' = [prod EXCEPT ![p] = producer_pos]
  /\ UNCHANGED <<ring, positions, next_msg_id, stats, priority, cons, i, consumer, history>>

CheckSequence(p) ==
  /\ pc[p] = "check_seq"
  /\ pc' = [pc EXCEPT ![p] = IF sequence[Slot(prod[p])] = prod[p] THEN "cas" ELSE "verify"]
  /\ UNCHANGED <<ring, positions, next_msg_id, stats, priority, prod, cons, i, consumer, history>>

(* The "continue" of the do-while goes on to the compare-exchange. *)
VerifyFull(p) ==
  /\ pc[p] = "verify"
  /\ IF kQueueDepth <= Sub(prod[p], consumer_pos)
       THEN Drop(p)
       ELSE Goto(p, "verify", "cas") /\ UNCHANGED <<stats, priority, prod, cons, i>>
  /\ UNCHANGED <<ring, positions, next_msg_id, consumer, history>>

ClaimSucceeds(p) ==
  /\ Goto(p, "cas", "fill")
  /\ producer_pos = prod[p]
  /\ producer_pos' = producer_pos + 1
  /\ UNCHANGED <<ring, cached_consumer_pos, consumer_pos, next_msg_id, stats,
                 priority, prod, cons, i, consumer, history>>

(* Another thread moved producer_pos, or the weak exchange failed. *)
ClaimFails(p) ==
  /\ Goto(p, "cas", "claim")
  /\ UNCHANGED <<ring, positions, next_msg_id, stats, priority, prod, cons, i, consumer, history>>

Write(s, pr) ==
  /\ envelope' = [envelope EXCEPT ![s] = Message(next_msg_id, pr)]
  /\ slot_priority' = [slot_priority EXCEPT ![s] = pr]
  /\ next_msg_id' = next_msg_id + 1

FillEnvelope(p) ==
  /\ Goto(p, "fill", "publish")
  /\ Write(Slot(prod[p]), priority[p])
  /\ UNCHANGED <<sequence, positions, stats, priority, prod, cons, i, consumer, history>>

PublishSlot(p) ==
  /\ pc[p] = "publish"
  /\ sequence' = [sequence EXCEPT ![Slot(prod[p])] = prod[p] + 1]
  /\ messages_published' = messages_published + 1
  /\ Return(p)
  /\ UNCHANGED <<slot_priority, envelope, positions, next_msg_id,
                 messages_dropped, messages_processed, consumer, history>>

-----------------------------------------------------------------------------
(* TryEvictAndPublish: a High message takes the slot of a pending lower    *)
(* one.  The candidate is position cons + i.                               *)

Candidate(p) == cons[p] + i[p]

EvictLoadProd(p) ==
  /\ Goto(p, "evict_prod", "evict_cons")
  /\ prod' = [prod EXCEPT ![p] = producer_pos]
  /\ UNCHANGED <<ring, positions, next_msg_id, stats, priority, cons, i, consumer, history>>

EvictLoadCons(p) ==
  /\ Goto(p, "evict_cons", "scan")
  /\ cons' = [cons EXCEPT ![p] = consumer_pos]
  /\ i' = [i EXCEPT ![p] = 1]
  /\ UNCHANGED <<ring, positions, next_msg_id, stats, priority, prod, consumer, history>>

ScanOver(p) == i[p] >= kQueueDepth \/ Candidate(p) = prod[p]

(* No victim: TryEvictAndPublish returns false and the message is dropped. *)
ScanEnds(p) ==
  /\ pc[p] = "scan" /\ ScanOver(p)
  /\ Drop(p)
  /\ UNCHANGED <<ring, positions, next_msg_id, consumer, history>>

(* "continue" in the scan loop. *)
SkipCandidate(p) ==
  /\ pc' = [pc EXCEPT ![p] = "scan"]
  /\ i' = [i EXCEPT ![p] = @ + 1]

ScanSlot(p) ==
  /\ pc[p] = "scan" /\ ~ScanOver(p)
  /\ IF sequence[Slot(Candidate(p))] = Candidate(p) + 1
       THEN Goto(p, "scan", "peek") /\ UNCHANGED i
       ELSE SkipCandidate(p)
  /\ UNCHANGED <<ring, positions, next_msg_id, stats, priority, prod, cons, consumer, history>>

PeekPriority(p) ==
  /\ pc[p] = "peek"
  /\ IF slot_priority[Slot(Candidate(p))] >= kHigh
       THEN SkipCandidate(p)
       ELSE Goto(p, "peek", "reserve") /\ UNCHANGED i
  /\ UNCHANGED <<ring, positions, next_msg_id, stats, priority, prod, cons, consumer, history>>

kEvictOffset == 2 * kQueueDepth

ReserveSlot(p) ==
  /\ pc[p] = "reserve"
  /\ LET s == Slot(Candidate(p)) IN
     IF sequence[s] = Candidate(p) + 1
       THEN /\ Goto(p, "reserve", "reverify")
            /\ sequence' = [sequence EXCEPT ![s] = Candidate(p) + 1 + kEvictOffset]
            /\ UNCHANGED i
       ELSE SkipCandidate(p) /\ UNCHANGED sequence
  /\ UNCHANGED <<slot_priority, envelope, positions, next_msg_id, stats,
                 priority, prod, cons, consumer, history>>

(* Mutant: the priority is not looked at again under the reservation. *)
ReverifyPriority_Skipped(p) ==
  /\ Goto(p, "reverify", "overwrite")
  /\ UNCHANGED <<ring, positions, next_msg_id, stats, priority, prod, cons, i, consumer, history>>

ReverifyPriority(p) ==
  /\ pc[p] = "reverify"
  /\ pc' = [pc EXCEPT ![p] =
       IF slot_priority[Slot(Candidate(p))] >= kHigh THEN "restore" ELSE "overwrite"]
  /\ UNCHANGED <<ring, positions, next_msg_id, stats, priority, prod, cons, i, consumer, history>>

RestoreSlot(p) ==
  /\ pc[p] = "restore"
  /\ sequence' = [sequence EXCEPT ![Slot(Candidate(p))] = Candidate(p) + 1]
  /\ SkipCandidate(p)
  /\ UNCHANGED <<slot_priority, envelope, positions, next_msg_id, stats,
                 priority, prod, cons, consumer, history>>

OverwriteVictim(p) ==
  /\ Goto(p, "overwrite", "republish")
  /\ Write(Slot(Candidate(p)), kHigh)
  /\ evicted' = evicted \cup {envelope[Slot(Candidate(p))].id}
  /\ UNCHANGED <<sequence, positions, stats, priority, prod, cons, i, consumer, calls, delivered>>

(* Mutant: the lost message is not counted. *)
RepublishSlot_DropNotCounted(p) ==
  /\ pc[p] = "republish"
  /\ sequence' = [sequence EXCEPT ![Slot(Candidate(p))] = Candidate(p) + 1]
  /\ messages_published' = messages_published + 1
  /\ Return(p)
  /\ UNCHANGED <<slot_priority, envelope, positions, next_msg_id,
                 messages_dropped, messages_processed, consumer, history>>

(* Mutant: the reservation is not given up. *)
RepublishSlot_StaysReserved(p) ==
  /\ pc[p] = "republish"
  /\ messages_dropped' = messages_dropped + 1
  /\ messages_published' = messages_published + 1
  /\ Return(p)
  /\ UNCHANGED <<ring, positions, next_msg_id, messages_processed, consumer, history>>

RepublishSlot(p) ==
  /\ pc[p] = "republish"
  /\ sequence' = [sequence EXCEPT ![Slot(Candidate(p))] = Candidate(p) + 1]
  /\ messages_dropped' = messages_dropped + 1
  /\ messages_published' = messages_published + 1
  /\ Return(p)
  /\ UNCHANGED <<slot_priority, envelope, positions, next_msg_id,
                 messages_processed, consumer, history>>

-----------------------------------------------------------------------------
(* ProcessBatch (ProcessBatchWith differs only in how it dispatches).      *)

kConsumedOffset == kQueueDepth

BatchBegin ==
  /\ cpc = "idle" /\ cpc' = "claim"
  /\ cons_pos' = consumer_pos /\ processed' = 0
  /\ UNCHANGED <<ring, positions, next_msg_id, stats, publisher, history>>

HeadPublished == sequence[Slot(cons_pos)] = cons_pos + 1

(* Mutant: the consumer reads the head without marking it. *)
ConsumerClaim_Unmarked ==
  /\ cpc = "claim" /\ processed < kBatchSize /\ HeadPublished
  /\ cpc' = "dispatch"
  /\ UNCHANGED <<ring, positions, next_msg_id, stats,
                 publisher, cons_pos, processed, history>>

ConsumerClaim ==
  /\ cpc = "claim" /\ processed < kBatchSize /\ HeadPublished
  /\ sequence' = [sequence EXCEPT ![Slot(cons_pos)] = cons_pos + 1 + kConsumedOffset]
  /\ cpc' = "dispatch"
  /\ UNCHANGED <<slot_priority, envelope, positions, next_msg_id, stats,
                 publisher, cons_pos, processed, history>>

(* The subscribers (or the visitor) read the envelope. *)
Dispatch ==
  /\ cpc = "dispatch" /\ cpc' = "release"
  /\ delivered' = Append(delivered, envelope[Slot(cons_pos)])
  /\ UNCHANGED <<ring, positions, next_msg_id, stats, publisher,
                 cons_pos, processed, calls, evicted>>

(* Mutant: the slot is released for the previous lap. *)
ConsumerRelease_PreviousLap ==
  /\ cpc = "release" /\ cpc' = "claim"
  /\ sequence' = [sequence EXCEPT ![Slot(cons_pos)] = cons_pos - kQueueDepth]
  /\ cons_pos' = cons_pos + 1
  /\ processed' = processed + 1
  /\ UNCHANGED <<slot_priority, envelope, positions, next_msg_id, stats, publisher, history>>

ConsumerRelease ==
  /\ cpc = "release" /\ cpc' = "claim"
  /\ sequence' = [sequence EXCEPT ![Slot(cons_pos)] = cons_pos + kQueueDepth]
  /\ cons_pos' = cons_pos + 1
  /\ processed' = processed + 1
  /\ UNCHANGED <<slot_priority, envelope, positions, next_msg_id, stats, publisher, history>>

BatchStop ==
  /\ cpc = "claim" /\ (processed >= kBatchSize \/ ~HeadPublished)
  /\ cpc' = "end"
  /\ UNCHANGED <<ring, positions, next_msg_id, stats, publisher, cons_pos, processed, history>>

(* The consumer position is stored once, at the end of the batch. *)
BatchEnd ==
  /\ cpc = "end" /\ cpc' = "idle"
  /\ consumer_pos' = IF processed > 0 THEN cons_pos ELSE consumer_pos
  /\ messages_processed' = messages_processed + processed
  /\ processed' = 0
  /\ UNCHANGED <<ring, producer_pos, cached_consumer_pos, next_msg_id,
                 messages_published, messages_dropped, publisher, cons_pos, history>>

-----------------------------------------------------------------------------
PublisherStep(p) ==
  \/ LoadProducerPos(p) \/ EstimateDepth(p) \/ RecheckDepth(p) \/ CacheConsumerPos(p)
  \/ LoadClaimPos(p) \/ CheckSequence(p) \/ VerifyFull(p)
  \/ ClaimSucceeds(p) \/ ClaimFails(p) \/ FillEnvelope(p) \/ PublishSlot(p)
  \/ EvictLoadProd(p) \/ EvictLoadCons(p) \/ ScanEnds(p) \/ ScanSlot(p)
  \/ PeekPriority(p) \/ ReserveSlot(p) \/ ReverifyPriority(p) \/ RestoreSlot(p)
  \/ OverwriteVictim(p) \/ RepublishSlot(p)

ConsumerStep == BatchBegin \/ ConsumerClaim \/ Dispatch \/ ConsumerRelease \/ BatchStop \/ BatchEnd

Next ==
  \/ \E p \in Producers : \E pr \in Inputs : Publish(p, pr)
  \/ \E p \in Producers : PublisherStep(p)
  \/ ConsumerStep

Spec == Init /\ [][Next]_vars

-----------------------------------------------------------------------------
TypeOK ==
  /\ sequence \in [Slots -> Nat]
  /\ slot_priority \in [Slots -> Priorities]
  /\ envelope \in [Slots -> Messages]
  /\ producer_pos \in Nat /\ cached_consumer_pos \in Nat /\ consumer_pos \in Nat
  /\ next_msg_id \in Nat
  /\ messages_published \in Nat /\ messages_dropped \in Nat /\ messages_processed \in Nat
  /\ pc \in [Producers -> {"idle", "admit", "estimate", "recheck", "cache", "claim",
                           "check_seq", "verify", "cas", "fill", "publish",
                           "evict_prod", "evict_cons", "scan", "peek", "reserve",
                           "reverify", "restore", "overwrite", "republish"}]
  /\ priority \in [Producers -> Priorities]
  /\ prod \in [Producers -> Nat] /\ cons \in [Producers -> Nat] /\ i \in [Producers -> Nat]
  /\ cpc \in {"idle", "claim", "dispatch", "release", "end"}
  /\ cons_pos \in Nat /\ processed \in Nat
  /\ calls \in Nat /\ delivered \in Seq(Messages) /\ evicted \subseteq Nat

(* The slot whose envelope thread p may be writing, if any. *)
WriterSlots(p) ==
  CASE pc[p] \in {"fill", "publish"} -> {Slot(prod[p])}
    [] pc[p] \in {"reverify", "restore", "overwrite", "republish"} -> {Slot(Candidate(p))}
    [] OTHER -> {}

ReaderSlots == IF cpc \in {"dispatch", "release"} THEN {Slot(cons_pos)} ELSE {}

(* The envelope of a slot is plain memory: from its claim or reservation   *)
(* to the store that publishes it, a thread is alone on it, whatever other *)
(* publishers, evictors and the consumer do, stale positions included.     *)
ExclusiveEnvelope ==
  \A p \in Producers :
    /\ \A q \in Producers \ {p} : WriterSlots(p) \cap WriterSlots(q) = {}
    /\ WriterSlots(p) \cap ReaderSlots = {}

(* The places still to be delivered, as the abstract queue sees them. *)
FirstPending == IF cpc = "release" THEN cons_pos + 1 ELSE cons_pos
PendingQueue ==
  [n \in 1 .. producer_pos - FirstPending |->
     LET pos == FirstPending + n - 1 IN
     IF sequence[Slot(pos)] = pos
       THEN [st |-> "claimed"]
       ELSE [st |-> "ready", msg |-> envelope[Slot(pos)]]]

Queue == INSTANCE BusQueue WITH
  Depth <- kQueueDepth, High <- kHigh, queue <- PendingQueue,
  Messages <- [id : 1 .. MaxCalls, prio : Priorities]

(* The ring behaves as a queue of kQueueDepth places delivered in claim    *)
(* order: a message is delivered once and unaltered or, if its priority is *)
(* below High, replaced by a High one; the claim loop never overruns.      *)
ImplementsQueue == Queue!Spec

Quiescent == cpc = "idle" /\ \A p \in Producers : pc[p] = "idle"

(* The counters of GetStatistics agree with what happened once no call is  *)
(* in progress: everything published is processed, evicted or pending, and *)
(* an eviction is counted as one drop and one publication.                 *)
StatisticsBalance ==
  Quiescent =>
    /\ messages_published =
         messages_processed + Cardinality(evicted) + (producer_pos - consumer_pos)
    /\ messages_processed = Len(delivered)
    /\ Cardinality(evicted) <= messages_dropped

Fairness == WF_vars(ConsumerStep) /\ \A p \in Producers : WF_vars(PublisherStep(p))
FairSpec == Spec /\ Fairness

(* Since the publishers make finitely many calls, the consumer catches up  *)
(* with them again and again: no interleaving of claims, evictions and     *)
(* batches leaves it stuck behind a claimed or reserved slot.              *)
RingDrains == []<>(consumer_pos = producer_pos)
=============================================================================
