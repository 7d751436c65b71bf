------------------------------ MODULE SpscRing ------------------------------
(***************************************************************************)
(* osp::SpscRingbuffer: one producer thread and one consumer thread over   *)
(* an array and two free-running indices of type IndexT.  Each step makes  *)
(* at most one access to an index the other thread writes.                 *)
(*                                                                         *)
(* Indices are kept modulo IndexMod = 2^width.  The C++ expression         *)
(* cur_head - cur_tail is computed in IndexT when IndexT is at least as    *)
(* wide as int and in (signed) int when it is narrower (Promoted).         *)
(***************************************************************************)
EXTENDS Integers, Sequences

CONSTANTS
  Values,
  BufferSize,
  IndexMod,
  Promoted,
  ClearAnyTime, \* whether ProducerClear may overlap a call of the consumer
  MaxBatch      \* bound on the count given to the batch operations

ASSUME RingAssumption ==
  /\ BufferSize \in Nat \ {0}
  /\ IndexMod \in Nat /\ 2 * BufferSize < IndexMod
  /\ IndexMod % BufferSize = 0
  /\ Promoted \in BOOLEAN /\ ClearAnyTime \in BOOLEAN /\ MaxBatch \in Nat \ {0}

VARIABLES
  head, tail, data_buff,
  ppc, items, batch, to_write,      \* the producer's call
  cpc, op, count, to_read, buf,     \* the consumer's call
  got                               \* what the completed part of the call returned

producer == <<ppc, items, batch, to_write>>
consumer == <<cpc, op, count, to_read, buf>>
vars == <<head, tail, data_buff, producer, consumer, got>>

Index == 0 .. IndexMod - 1
Slots == 0 .. BufferSize - 1
Slot(x) == x % BufferSize
Wrap(x) == x % IndexMod
Minus(a, b) == IF Promoted THEN a - b ELSE Wrap(a - b)
MinOf(a, b) == IF a < b THEN a ELSE b
Batches == UNION {[1 .. n -> Values] : n \in 1 .. MaxBatch}

Init ==
  /\ head = 0 /\ tail = 0
  /\ data_buff \in [Slots -> Values]
  /\ ppc = "idle" /\ items = <<>> /\ batch = FALSE /\ to_write = 0
  /\ cpc = "idle" /\ op = "none" /\ count = 0 /\ to_read = 0 /\ buf = <<>>
  /\ got = <<>>

-----------------------------------------------------------------------------
(* Producer *)

BeginPush(v) ==
  /\ ppc = "idle"
  /\ ppc' = "load" /\ items' = <<v>> /\ batch' = FALSE
  /\ UNCHANGED <<to_write, head, tail, data_buff, consumer, got>>

BeginPushBatch(s) ==
  /\ ppc = "idle"
  /\ ppc' = "load" /\ items' = s /\ batch' = TRUE
  /\ UNCHANGED <<to_write, head, tail, data_buff, consumer, got>>

EndProduce ==
  ppc' = "idle" /\ items' = <<>> /\ batch' = FALSE /\ to_write' = 0

(* Mutant: the full ring is noticed one element late. *)
Space_Late ==
  IF batch THEN Wrap(BufferSize - Minus(head, tail))
           ELSE IF Minus(head, tail) > BufferSize THEN 0 ELSE 1

(* Push and PushFromCallback test for the one full difference; PushBatch   *)
(* narrows the free space back to IndexT.                                  *)
Space ==
  IF batch THEN Wrap(BufferSize - Minus(head, tail))
           ELSE IF Minus(head, tail) = BufferSize THEN 0 ELSE 1

LoadTail ==
  /\ ppc = "load"
  /\ IF Space = 0
       THEN EndProduce
       ELSE /\ ppc' = "write" /\ to_write' = MinOf(Len(items), Space)
            /\ UNCHANGED <<items, batch>>
  /\ UNCHANGED <<head, tail, data_buff, consumer, got>>

Written == {Slot(head + k - 1) : k \in 1 .. to_write}

CopyIn ==
  /\ ppc = "write"
  /\ data_buff' = [s \in Slots |->
       IF s \in Written
         THEN items[CHOOSE k \in 1 .. to_write :
                      /\ Slot(head + k - 1) = s
                      /\ \A j \in k + 1 .. to_write : Slot(head + j - 1) # s]
         ELSE data_buff[s]]
  /\ ppc' = "store"
  /\ UNCHANGED <<items, batch, to_write, head, tail, consumer, got>>

StoreHead ==
  /\ ppc = "store"
  /\ head' = Wrap(head + to_write)
  /\ IF batch /\ to_write < Len(items)
       THEN /\ ppc' = "load" /\ items' = SubSeq(items, to_write + 1, Len(items))
            /\ UNCHANGED <<batch, to_write>>
       ELSE EndProduce
  /\ UNCHANGED <<tail, data_buff, consumer, got>>

(* ProducerClear loads tail_, then stores it to head_.  The application     *)
(* calls it while the consumer is between calls (see ClearAnyTime).        *)
BeginProducerClear ==
  /\ ppc = "idle" /\ (ClearAnyTime \/ cpc = "idle")
  /\ ppc' = "clear" /\ to_write' = Wrap(tail - head)
  /\ UNCHANGED <<items, batch, head, tail, data_buff, consumer, got>>

ProducerClear ==
  /\ ppc = "clear"
  /\ head' = Wrap(head + to_write) /\ EndProduce
  /\ UNCHANGED <<tail, data_buff, consumer, got>>

-----------------------------------------------------------------------------
(* Consumer *)

(* n is the count of PopBatch and Discard and the index of At (Peek = At(0)). *)
BeginConsume(o, n) ==
  /\ cpc = "idle" /\ (ClearAnyTime \/ ppc # "clear")
  /\ cpc' = "load" /\ op' = o /\ count' = n /\ got' = <<>>
  /\ UNCHANGED <<to_read, buf, head, tail, data_buff, producer>>

EndConsume ==
  cpc' = "idle" /\ op' = "none" /\ count' = 0 /\ to_read' = 0 /\ buf' = <<>>

Available == Wrap(head - tail)

PopLoadsHead ==
  /\ cpc = "load" /\ op \in {"pop", "pop_batch"}
  /\ IF Available = 0
       THEN EndConsume
       ELSE /\ cpc' = "read" /\ to_read' = MinOf(count, Available)
            /\ UNCHANGED <<op, count, buf>>
  /\ UNCHANGED <<got, head, tail, data_buff, producer>>

DiscardLoadsHead ==
  /\ cpc = "load" /\ op = "discard"
  /\ IF Available = 0
       THEN EndConsume
       ELSE /\ cpc' = "store" /\ to_read' = MinOf(count, Available)
            /\ UNCHANGED <<op, count, buf>>
  /\ UNCHANGED <<got, head, tail, data_buff, producer>>

ClearLoadsHead ==
  /\ cpc = "load" /\ op = "clear"
  /\ to_read' = Available /\ cpc' = "store"
  /\ UNCHANGED <<op, count, buf, got, head, tail, data_buff, producer>>

AtLoadsHead ==
  /\ cpc = "load" /\ op = "at"
  /\ IF Minus(head, tail) <= count
       THEN EndConsume
       ELSE /\ cpc' = "read" /\ to_read' = count + 1
            /\ UNCHANGED <<op, count, buf>>
  /\ UNCHANGED <<got, head, tail, data_buff, producer>>

CopyOut ==
  /\ cpc = "read" /\ op \in {"pop", "pop_batch"}
  /\ buf' = [k \in 1 .. to_read |-> data_buff[Slot(tail + k - 1)]]
  /\ cpc' = "store"
  /\ UNCHANGED <<op, count, to_read, got, head, tail, data_buff, producer>>

ReadAt ==
  /\ cpc = "read" /\ op = "at"
  /\ got' = <<data_buff[Slot(tail + count)]>> /\ EndConsume
  /\ UNCHANGED <<head, tail, data_buff, producer>>

(* Mutant: a batch moves the tail by one element. *)
StoreTail_One ==
  /\ cpc = "store"
  /\ tail' = Wrap(tail + 1)
  /\ got' = buf /\ EndConsume
  /\ UNCHANGED <<head, data_buff, producer>>

StoreTail ==
  /\ cpc = "store"
  /\ tail' = Wrap(tail + to_read)
  /\ got' = buf
  /\ IF op = "pop_batch" /\ to_read < count
       THEN /\ cpc' = "load" /\ count' = count - to_read /\ buf' = <<>>
            /\ UNCHANGED <<op, to_read>>
       ELSE EndConsume
  /\ UNCHANGED <<head, data_buff, producer>>

-----------------------------------------------------------------------------
Producer ==
  \/ \E v \in Values : BeginPush(v)
  \/ \E s \in Batches : BeginPushBatch(s)
  \/ LoadTail \/ CopyIn \/ StoreHead \/ BeginProducerClear \/ ProducerClear

Consumer ==
  \/ BeginConsume("pop", 1) \/ BeginConsume("clear", 0)
  \/ \E n \in 1 .. MaxBatch : BeginConsume("pop_batch", n) \/ BeginConsume("discard", n)
  \/ \E n \in 0 .. MaxBatch : BeginConsume("at", n)
  \/ PopLoadsHead \/ DiscardLoadsHead \/ ClearLoadsHead \/ AtLoadsHead
  \/ CopyOut \/ ReadAt \/ StoreTail

Next == Producer \/ Consumer

Spec == Init /\ [][Next]_vars

-----------------------------------------------------------------------------
TypeOK ==
  /\ head \in Index /\ tail \in Index
  /\ data_buff \in [Slots -> Values]
  /\ ppc \in {"idle", "load", "write", "store", "clear"}
  /\ items \in Batches \cup {<<>>} /\ batch \in BOOLEAN /\ to_write \in Index
  /\ cpc \in {"idle", "load", "read", "store"}
  /\ op \in {"none", "pop", "pop_batch", "discard", "clear", "at"}
  /\ count \in 0 .. MaxBatch /\ to_read \in Index
  /\ Len(buf) <= MaxBatch /\ Len(got) <= MaxBatch

(* The number of stored elements never exceeds the capacity, also while    *)
(* both threads are in the middle of a call: Size() is what either side    *)
(* uses for flow control.                                                  *)
SizeWithinCapacity == Available <= BufferSize

(* No data race on the storage: the slots the producer is copying into are *)
(* disjoint from the slots the consumer is copying out of, so neither      *)
(* thread needs a lock ("Exactly ONE producer thread may call Push" and    *)
(* "Exactly ONE consumer thread may call Pop" is all the class asks).      *)
NoOverlap ==
  (ppc = "write" /\ cpc = "read") =>
    Written \cap {Slot(tail + k - 1) : k \in 1 .. to_read} = {}

Contents == [k \in 1 .. Available |-> data_buff[Slot(tail + k - 1)]]

(* The ring implements the bounded FIFO, for every interleaving and across *)
(* the wrap of the indices.                                                *)
Fifo == INSTANCE BoundedFifo WITH
          Capacity <- BufferSize, queue <- Contents
ImplementsFifo == Fifo!Spec

(* At(): "Pointer to the element, or nullptr if index is out of range".  A *)
(* null answer is given only for an index that is out of range.            *)
NullOnlyOutOfRange ==
  [][(AtLoadsHead /\ cpc' = "idle") => Available <= count]_vars

(* No data race on the storage, and indices that stay in their type: what  *)
(* Push() copies into is disjoint from what Pop() copies out of.           *)
RingExclusive == TypeOK /\ NoOverlap

(* The ring is a bounded FIFO across the wrap of its indices, and At()     *)
(* answers null only for an index that is out of range.                    *)
RingIsFifo == ImplementsFifo /\ NullOnlyOutOfRange
=============================================================================
