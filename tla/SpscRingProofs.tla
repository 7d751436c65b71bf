--------------------------- MODULE SpscRingProofs ---------------------------
(***************************************************************************)
(* The single-producer single-consumer ring, for every buffer size that    *)
(* divides the range of the index type and every set of values: the slots  *)
(* being written and being read never overlap, and the ring is a bounded   *)
(* FIFO across the wrap of its indices.  The index type is at least as wide *)
(* as int (the difference of two indices wraps), and ProducerClear is      *)
(* called while the consumer is between calls.                             *)
(***************************************************************************)
EXTENDS SpscRing, RingArith

-----------------------------------------------------------------------------
(* The inductive invariant. *)

Popping == op \in {"pop", "pop_batch"}

(* A producer past its check owns to_write free slots after the head; what *)
(* it has copied stays there until the head is stored.                     *)
ProducerInv ==
  /\ ppc \in {"load", "write", "store"} =>
       items \in Batches /\ (~batch => Len(items) = 1)
  /\ ppc \in {"write", "store"} =>
       to_write >= 1 /\ to_write <= Len(items) /\ Available + to_write <= BufferSize
  /\ ppc = "store" =>
       \A k \in 1 .. to_write : data_buff[Slot(head + k - 1)] = items[k]
  /\ ppc = "clear" => cpc = "idle" /\ to_write = Wrap(tail - head)

(* A consumer past its check owns to_read stored elements after the tail;  *)
(* what it has copied out is still what the ring holds.                    *)
ConsumerInv ==
  /\ buf \in Seq(Values) /\ got \in Seq(Values)
  /\ cpc = "load" => op # "none"
  /\ Popping \/ op = "discard" => count >= 1
  /\ cpc = "read" =>
       /\ to_read >= 1 /\ to_read <= Available
       /\ \/ Popping /\ to_read <= count
          \/ op = "at" /\ to_read = count + 1
  /\ cpc = "store" =>
       /\ to_read <= Available
       /\ \/ /\ Popping /\ to_read >= 1 /\ to_read <= count
             /\ buf = [k \in 1 .. to_read |-> data_buff[Slot(tail + k - 1)]]
          \/ op \in {"discard", "clear"} /\ buf = <<>>
  /\ cpc # "store" => buf = <<>>

IInv == TypeOK /\ SizeWithinCapacity /\ ProducerInv /\ ConsumerInv

-----------------------------------------------------------------------------
(* Positions, slots and the wrap of the indices. *)

(* The sizes as numbers. *)
LEMMA Sizes ==
  /\ BufferSize \in Nat /\ BufferSize > 0
  /\ IndexMod \in Nat /\ IndexMod > 0 /\ 2 * BufferSize < IndexMod
  /\ MaxBatch \in Nat /\ MaxBatch > 0
BY RingAssumption

(* A position falls on a slot. *)
LEMMA SlotType == ASSUME NEW x \in Nat PROVE Slot(x) \in Slots
BY Sizes, ModRange, Zenon DEF Slot, Slots

(* The number of stored elements, as Size() computes it. *)
LEMMA WrapDiff ==
  ASSUME NEW h \in Index, NEW t \in Index
  PROVE  /\ Wrap(h - t) \in Index
         /\ Wrap(h - t) = IF t <= h THEN h - t ELSE h - t + IndexMod
<1>1. h - t \in Int /\ -IndexMod <= h - t /\ h - t < 2 * IndexMod /\ h - t < IndexMod
  BY Sizes DEF Index
<1>2. Wrap(h - t) = IF h - t < 0 THEN (h - t) + IndexMod
                    ELSE IF h - t < IndexMod THEN h - t ELSE (h - t) - IndexMod
  BY <1>1, Sizes, WrapOnce, Zenon DEF Wrap
<1> QED BY <1>1, <1>2, Sizes DEF Index

(* An index moved on by a number of elements. *)
LEMMA WrapSum ==
  ASSUME NEW h \in Index, NEW n \in Index
  PROVE  /\ Wrap(h + n) \in Index
         /\ Wrap(h + n) = IF h + n < IndexMod THEN h + n ELSE h + n - IndexMod
<1>1. h + n \in Int /\ -IndexMod <= h + n /\ h + n < 2 * IndexMod /\ 0 <= h + n
  BY Sizes DEF Index
<1>2. Wrap(h + n) = IF h + n < 0 THEN (h + n) + IndexMod
                    ELSE IF h + n < IndexMod THEN h + n ELSE (h + n) - IndexMod
  BY <1>1, Sizes, WrapOnce, Zenon DEF Wrap
<1> QED BY <1>1, <1>2, Sizes DEF Index

(* The wrap of an index does not change the slots of the positions after it. *)
LEMMA SlotWrap ==
  ASSUME NEW h \in Index, NEW n \in Index, NEW j \in Nat
  PROVE  Slot(Wrap(h + n) + j) = Slot(h + n + j)
<1>1. CASE h + n < IndexMod
  BY <1>1, WrapSum, Zenon
<1>2. CASE ~(h + n < IndexMod)
  <2> DEFINE a == h + n - IndexMod + j
  <2>1. a \in Nat /\ a + IndexMod = h + n + j
    BY <1>2, Sizes DEF Index
  <2>2. (a + IndexMod) % BufferSize = a % BufferSize
    BY <2>1, Sizes, RingAssumption, ModMultiple, Zenon
  <2> QED BY <1>2, <2>1, <2>2, WrapSum, Zenon DEF Slot
<1> QED BY <1>1, <1>2, Zenon

(* The positions after the head are those after the stored elements. *)
LEMMA SlotHead ==
  ASSUME NEW h \in Index, NEW t \in Index, NEW j \in Nat
  PROVE  Slot(h + j) = Slot(t + Wrap(h - t) + j)
<1> DEFINE n == Wrap(h - t)
<1>1. n \in Index /\ n = IF t <= h THEN h - t ELSE h - t + IndexMod
  BY WrapDiff, Zenon
<1>2. Wrap(t + n) = IF t + n < IndexMod THEN t + n ELSE t + n - IndexMod
  BY <1>1, WrapSum, Zenon
<1> HIDE DEF n
<1>3. Wrap(t + n) = h
  BY <1>1, <1>2, Sizes DEF Index
<1>4. Slot(Wrap(t + n) + j) = Slot(t + n + j)
  BY <1>1, SlotWrap, Zenon
<1> QED BY <1>3, <1>4, Zenon DEF n

(* Positions less than a lap apart have different slots. *)
LEMMA SlotsDiffer ==
  ASSUME NEW a \in Nat, NEW b \in Nat, a < b, b < a + BufferSize
  PROVE  Slot(a) # Slot(b)
<1>1. Slot(a) = Slot(b) => a + BufferSize <= b
  BY Sizes, ModApart, Zenon DEF Slot
<1> QED BY <1>1, Sizes

(* Storing the tail takes the elements read off the stored ones. *)
LEMMA TailMoves ==
  ASSUME NEW h \in Index, NEW t \in Index, NEW n \in Nat, n <= Wrap(h - t)
  PROVE  /\ n \in Index /\ Wrap(t + n) \in Index
         /\ Wrap(h - Wrap(t + n)) = Wrap(h - t) - n
<1>0. /\ Wrap(h - t) \in Index
      /\ Wrap(h - t) = IF t <= h THEN h - t ELSE h - t + IndexMod
  BY WrapDiff, Zenon
<1>1. n \in Index
  BY <1>0, Sizes DEF Index
<1> DEFINE u == Wrap(t + n)
<1>2. u \in Index /\ u = IF t + n < IndexMod THEN t + n ELSE t + n - IndexMod
  BY <1>1, WrapSum, Zenon
<1> HIDE DEF u
<1>3. Wrap(h - u) = IF u <= h THEN h - u ELSE h - u + IndexMod
  BY <1>2, WrapDiff, Zenon
<1>4. Wrap(h - u) = Wrap(h - t) - n
  BY <1>0, <1>1, <1>2, <1>3, Sizes DEF Index
<1> QED BY <1>1, <1>2, <1>4, Zenon DEF u

(* Storing the head adds the elements written to the stored ones. *)
LEMMA HeadMoves ==
  ASSUME NEW h \in Index, NEW t \in Index, NEW n \in Nat, Wrap(h - t) + n < IndexMod
  PROVE  /\ n \in Index /\ Wrap(h + n) \in Index
         /\ Wrap(Wrap(h + n) - t) = Wrap(h - t) + n
<1>0. /\ Wrap(h - t) \in Index
      /\ Wrap(h - t) = IF t <= h THEN h - t ELSE h - t + IndexMod
  BY WrapDiff, Zenon
<1>1. n \in Index
  BY <1>0, Sizes DEF Index
<1> DEFINE u == Wrap(h + n)
<1>2. u \in Index /\ u = IF h + n < IndexMod THEN h + n ELSE h + n - IndexMod
  BY <1>1, WrapSum, Zenon
<1> HIDE DEF u
<1>3. Wrap(u - t) = IF t <= u THEN u - t ELSE u - t + IndexMod
  BY <1>2, WrapDiff, Zenon
<1>4. Wrap(u - t) = Wrap(h - t) + n
  BY <1>0, <1>1, <1>2, <1>3, Sizes DEF Index
<1> QED BY <1>1, <1>2, <1>4, Zenon DEF u

(* Storing the tail to the head leaves nothing. *)
LEMMA HeadCleared ==
  ASSUME NEW h \in Index, NEW t \in Index
  PROVE  Wrap(h + Wrap(t - h)) = t
<1> DEFINE n == Wrap(t - h)
<1>1. n \in Index /\ n = IF h <= t THEN t - h ELSE t - h + IndexMod
  BY WrapDiff, Zenon
<1>2. Wrap(h + n) = IF h + n < IndexMod THEN h + n ELSE h + n - IndexMod
  BY <1>1, WrapSum, Zenon
<1> HIDE DEF n
<1>3. Wrap(h + n) = t
  BY <1>1, <1>2, Sizes DEF Index
<1> QED BY <1>3, Zenon DEF n

-----------------------------------------------------------------------------
(* The invariant at one step of either thread. *)

(* What the invariant says of the numbers involved. *)
LEMMA Numbers ==
  ASSUME IInv
  PROVE  /\ head \in Index /\ tail \in Index /\ head \in Nat /\ tail \in Nat
         /\ Available \in Nat /\ Available \in Index /\ Available <= BufferSize
         /\ to_write \in Nat /\ to_read \in Nat /\ count \in Nat
<1>1. head \in Index /\ tail \in Index /\ to_write \in Index /\ to_read \in Index
  BY Zenon DEF IInv, TypeOK
<1>2. Available \in Index
  BY <1>1, WrapDiff, Zenon DEF Available
<1> QED BY <1>1, <1>2, Sizes DEF IInv, TypeOK, SizeWithinCapacity, Index

(* A batch is a nonempty sequence of values. *)
LEMMA BatchType ==
  ASSUME NEW s \in Batches
  PROVE  s \in Seq(Values) /\ Len(s) \in Nat /\ Len(s) >= 1 /\ Len(s) <= MaxBatch
         /\ \A k \in 1 .. Len(s) : s[k] \in Values
<1> PICK n \in 1 .. MaxBatch : s \in [1 .. n -> Values]
  BY Zenon DEF Batches
<1> QED BY Sizes

(* What is left of a batch is a batch. *)
LEMMA BatchRest ==
  ASSUME NEW s \in Batches, NEW n \in Nat, n < Len(s)
  PROVE  SubSeq(s, n + 1, Len(s)) \in Batches
<1>1. s \in Seq(Values) /\ Len(s) \in Nat /\ Len(s) <= MaxBatch
  BY BatchType, Zenon
<1> DEFINE r == SubSeq(s, n + 1, Len(s))
<1>2. r \in Seq(Values) /\ Len(r) = Len(s) - n
  BY <1>1
<1> HIDE DEF r
<1>3. r \in [1 .. Len(r) -> Values] /\ Len(r) \in 1 .. MaxBatch
  BY <1>1, <1>2, Sizes
<1> QED BY <1>3, Zenon DEF Batches, r

(* The free space seen by the producer is never more than there is. *)
LEMMA SpaceBound ==
  ASSUME IInv, ~Promoted
  PROVE  Space \in Nat /\ Available + Space <= BufferSize
<1>1. Minus(head, tail) = Available
  BY Zenon DEF Minus, Available
<1>2. BufferSize \in Index /\ Available \in Index /\ Available <= BufferSize
  BY Numbers, Sizes DEF Index
<1>3. Wrap(BufferSize - Available) = BufferSize - Available
  BY <1>2, WrapDiff, Sizes, Zenon DEF Index
<1> QED BY <1>1, <1>2, <1>3, Sizes DEF Space, Index

(* Copying in stores the items at the positions after the head and leaves  *)
(* the stored elements alone.                                              *)
LEMMA CopyInEffect ==
  ASSUME IInv, CopyIn
  PROVE  /\ data_buff' \in [Slots -> Values]
         /\ \A k \in 1 .. to_write : data_buff'[Slot(head + k - 1)] = items[k]
         /\ \A k \in 1 .. Available : data_buff'[Slot(tail + k - 1)] = data_buff[Slot(tail + k - 1)]
<1>0. /\ ppc = "write" /\ items \in Batches /\ to_write \in Nat /\ to_write <= Len(items)
      /\ Available + to_write <= BufferSize /\ data_buff \in [Slots -> Values]
  BY Numbers, Zenon DEF CopyIn, IInv, ProducerInv, TypeOK
<1>1. \A k \in 1 .. to_write : items[k] \in Values
  BY <1>0, BatchType
<1> DEFINE Last(s, k) == /\ Slot(head + k - 1) = s
                         /\ \A j \in k + 1 .. to_write : Slot(head + j - 1) # s
           At(s) == CHOOSE k \in 1 .. to_write : Last(s, k)
<1>2. \A s \in Slots : data_buff'[s] = IF s \in Written THEN items[At(s)] ELSE data_buff[s]
  BY Zenon DEF CopyIn
<1>3. \A j, k \in 1 .. to_write : j < k => Slot(head + j - 1) # Slot(head + k - 1)
  <2> TAKE j, k \in 1 .. to_write
  <2>1. head + j - 1 \in Nat /\ head + k - 1 \in Nat
    BY Numbers, <1>0, SMTT(30)
  <2>2. j < k => /\ head + j - 1 < head + k - 1
                 /\ head + k - 1 < head + j - 1 + BufferSize
    BY Numbers, <1>0, Sizes, SMTT(30)
  <2> QED BY <2>1, <2>2, SlotsDiffer, Zenon
<1>4. \A k \in 1 .. to_write : Slot(head + k - 1) \in Slots /\ Slot(head + k - 1) \in Written
  <2> TAKE k \in 1 .. to_write
  <2>1. head + k - 1 \in Nat
    BY Numbers, <1>0
  <2> QED BY <2>1, SlotType, Zenon DEF Written
<1>5. ASSUME NEW k \in 1 .. to_write PROVE At(Slot(head + k - 1)) = k
  <2> DEFINE s == Slot(head + k - 1)
  <2>1. Last(s, k)
    <3> SUFFICES ASSUME NEW j \in k + 1 .. to_write PROVE Slot(head + j - 1) # s
      BY Zenon
    <3>1. j \in 1 .. to_write /\ k < j
      BY <1>0
    <3> QED BY <1>3, <3>1, Zenon
  <2>2. \A j \in 1 .. to_write : Last(s, j) => j = k
    <3> TAKE j \in 1 .. to_write
    <3>1. j < k \/ j = k \/ k < j
      BY <1>0
    <3> QED BY <1>3, <3>1, Zenon
  <2> HIDE DEF Last, s
  <2>3. At(s) \in 1 .. to_write /\ Last(s, At(s))
    BY <2>1, Zenon
  <2>4. At(s) = k
    BY <2>2, <2>3, Zenon
  <2> QED BY <2>4, Zenon DEF s, Last
<1>6. \A s \in Written : \E k \in 1 .. to_write : s = Slot(head + k - 1)
  BY Zenon DEF Written
<1> HIDE DEF At
<1>7. \A k \in 1 .. to_write : data_buff'[Slot(head + k - 1)] = items[k]
  BY <1>2, <1>4, <1>5, Zenon
<1>8. data_buff' \in [Slots -> Values]
  <2>1. \A s \in Slots : data_buff'[s] \in Values
    BY <1>0, <1>1, <1>2, <1>5, <1>6, Zenon
  <2>2. data_buff' = [s \in Slots |-> data_buff'[s]]
    BY DEF CopyIn
  <2> QED BY <2>1, <2>2, Zenon
<1>9. ASSUME NEW k \in 1 .. Available
      PROVE  data_buff'[Slot(tail + k - 1)] = data_buff[Slot(tail + k - 1)]
  <2>1. tail + k - 1 \in Nat
    BY Numbers
  <2>2. \A j \in 1 .. to_write : Slot(head + j - 1) # Slot(tail + k - 1)
    <3> TAKE j \in 1 .. to_write
    <3>1. j - 1 \in Nat
      BY <1>0
    <3>2. Slot(head + (j - 1)) = Slot(tail + Available + (j - 1))
      BY <3>1, Numbers, SlotHead, ZenonT(30) DEF Available
    <3>n. /\ tail \in Nat /\ Available \in Nat /\ BufferSize \in Nat /\ to_write \in Nat
          /\ Available + to_write <= BufferSize
      BY <1>0, Numbers, Sizes, Zenon
    <3>3. /\ tail + Available + (j - 1) \in Nat
          /\ tail + k - 1 < tail + Available + (j - 1)
          /\ tail + Available + (j - 1) < tail + k - 1 + BufferSize
      BY <3>n, <3>1
    <3>4. Slot(tail + k - 1) # Slot(tail + Available + (j - 1))
      BY <2>1, <3>3, SlotsDiffer, Zenon
    <3>5. head + j - 1 = head + (j - 1)
      BY <3>1, Numbers, Zenon
    <3> QED BY <3>2, <3>4, <3>5, Zenon
  <2>3. Slot(tail + k - 1) \in Slots /\ Slot(tail + k - 1) \notin Written
    BY <2>1, <2>2, <1>6, SlotType, Zenon
  <2> QED BY <1>2, <2>3, Zenon
<1> QED BY <1>7, <1>8, <1>9, Zenon

(* A step of the producer keeps the invariant. *)
LEMMA ProducerStep ==
  ASSUME IInv, ~Promoted, ~ClearAnyTime, Producer
  PROVE  IInv'
<1> USE DEF producer, consumer
<1>0. /\ head \in Index /\ tail \in Index /\ head \in Nat /\ tail \in Nat
      /\ Available \in Nat /\ Available <= BufferSize
      /\ to_write \in Nat /\ to_read \in Nat /\ BufferSize \in Nat /\ IndexMod \in Nat
      /\ 2 * BufferSize < IndexMod
  BY Numbers, Sizes, Zenon
<1>1. ASSUME ppc' = "load", items' \in Batches, batch' \in BOOLEAN, ~batch' => Len(items') = 1,
             UNCHANGED <<to_write, head, tail, data_buff, consumer, got>>
      PROVE  IInv'
  <2>1. Available' = Available
    BY <1>1, Zenon DEF Available
  <2>2. TypeOK' /\ SizeWithinCapacity'
    BY <1>1, <2>1, Zenon DEF IInv, TypeOK, SizeWithinCapacity
  <2>3. ProducerInv'
    BY <1>1, Zenon DEF ProducerInv
  <2>4. ConsumerInv'
    BY <1>1, <2>1, Zenon DEF IInv, ConsumerInv, Popping
  <2> QED BY <2>2, <2>3, <2>4, Zenon DEF IInv
<1>2. ASSUME EndProduce, UNCHANGED <<tail, data_buff, consumer, got>>,
             head' \in Index, Available' <= BufferSize,
             cpc \in {"read", "store"} => to_read <= Available'
      PROVE  IInv'
  <2>0. 0 \in Index
    BY <1>0 DEF Index
  <2>1. TypeOK' /\ SizeWithinCapacity'
    BY <1>2, <2>0, Zenon DEF IInv, TypeOK, SizeWithinCapacity, EndProduce
  <2>2. ProducerInv'
    BY <1>2, Zenon DEF ProducerInv, EndProduce
  <2>3. ConsumerInv'
    BY <1>2, Zenon DEF IInv, ConsumerInv, Popping
  <2> QED BY <2>1, <2>2, <2>3, Zenon DEF IInv
<1>3. ASSUME NEW v \in Values, BeginPush(v) PROVE IInv'
  <2>1. <<v>> \in [1 .. 1 -> Values] /\ Len(<<v>>) = 1 /\ 1 \in 1 .. MaxBatch
    BY Sizes
  <2>2. <<v>> \in Batches
    BY <2>1, Zenon DEF Batches
  <2> QED BY <1>1, <1>3, <2>1, <2>2, Zenon DEF BeginPush
<1>4. ASSUME NEW s \in Batches, BeginPushBatch(s) PROVE IInv'
  BY <1>1, <1>4, Zenon DEF BeginPushBatch
<1>5. CASE LoadTail
  <2>1. Available' = Available
    BY <1>5, Zenon DEF Available, LoadTail
  <2>2. CASE Space = 0
    <3>1. cpc \in {"read", "store"} => to_read <= Available
      BY Zenon DEF IInv, ConsumerInv
    <3> QED BY <1>0, <1>2, <1>5, <2>1, <2>2, <3>1, Zenon DEF LoadTail
  <2>3. CASE Space # 0
    <3>1. /\ ppc = "load" /\ ppc' = "write" /\ to_write' = MinOf(Len(items), Space)
          /\ UNCHANGED <<items, batch, head, tail, data_buff, consumer, got>>
      BY <1>5, <2>3, Zenon DEF LoadTail
    <3>2. Space \in Nat /\ Available + Space <= BufferSize
      BY SpaceBound, Zenon
    <3>3. items \in Batches /\ Len(items) \in Nat /\ Len(items) >= 1 /\ (~batch => Len(items) = 1)
      BY <3>1, BatchType, Zenon DEF IInv, ProducerInv
    <3>4. /\ to_write' \in Nat /\ to_write' >= 1 /\ to_write' <= Len(items)
          /\ Available + to_write' <= BufferSize
      BY <1>0, <2>3, <3>1, <3>2, <3>3 DEF MinOf
    <3>5. TypeOK' /\ SizeWithinCapacity'
      BY <1>0, <2>1, <3>1, <3>4, SMTT(30) DEF IInv, TypeOK, SizeWithinCapacity, Index
    <3>6. ProducerInv'
      BY <2>1, <3>1, <3>3, <3>4, Zenon DEF ProducerInv
    <3>7. ConsumerInv'
      BY <2>1, <3>1, Zenon DEF IInv, ConsumerInv, Popping
    <3> QED BY <3>5, <3>6, <3>7, Zenon DEF IInv
  <2> QED BY <2>2, <2>3, Zenon
<1>6. CASE CopyIn
  <2>1. /\ ppc = "write" /\ ppc' = "store" /\ Available' = Available
        /\ UNCHANGED <<items, batch, to_write, head, tail, consumer, got>>
    BY <1>6, Zenon DEF CopyIn, Available
  <2>2. /\ data_buff' \in [Slots -> Values]
        /\ \A k \in 1 .. to_write : data_buff'[Slot(head + k - 1)] = items[k]
        /\ \A k \in 1 .. Available : data_buff'[Slot(tail + k - 1)] = data_buff[Slot(tail + k - 1)]
    BY <1>6, CopyInEffect, Zenon
  <2>3. TypeOK' /\ SizeWithinCapacity'
    BY <2>1, <2>2, Zenon DEF IInv, TypeOK, SizeWithinCapacity
  <2>4. ProducerInv'
    BY <2>1, <2>2, Zenon DEF IInv, ProducerInv
  <2>5. ConsumerInv'
    <3>1. cpc = "store" => \A k \in 1 .. to_read : k \in 1 .. Available
      BY <1>0 DEF IInv, ConsumerInv
    <3>2. cpc = "store" => [k \in 1 .. to_read |-> data_buff'[Slot(tail + k - 1)]] =
                           [k \in 1 .. to_read |-> data_buff[Slot(tail + k - 1)]]
      BY <2>2, <3>1, Zenon
    <3> QED BY <2>1, <3>2, Zenon DEF IInv, ConsumerInv, Popping
  <2> QED BY <2>3, <2>4, <2>5, Zenon DEF IInv
<1>7. CASE StoreHead
  <2>1. /\ ppc = "store" /\ head' = Wrap(head + to_write)
        /\ UNCHANGED <<tail, data_buff, consumer, got>>
    BY <1>7, Zenon DEF StoreHead
  <2>2. items \in Batches /\ Available + to_write <= BufferSize
    BY <2>1, Zenon DEF IInv, ProducerInv
  <2>3. head' \in Index /\ Available' = Available + to_write
    BY <1>0, <2>1, <2>2, HeadMoves DEF Available
  <2>4. cpc \in {"read", "store"} => to_read <= Available'
    BY <1>0, <2>3 DEF IInv, ConsumerInv
  <2>5. CASE batch /\ to_write < Len(items)
    <3>1. /\ ppc' = "load" /\ items' = SubSeq(items, to_write + 1, Len(items))
          /\ UNCHANGED <<batch, to_write>>
      BY <1>7, <2>5, Zenon DEF StoreHead
    <3>2. items' \in Batches
      BY <1>0, <2>2, <2>5, <3>1, BatchRest, Zenon
    <3>3. TypeOK' /\ SizeWithinCapacity'
      BY <2>1, <2>2, <2>3, <3>1, <3>2, Zenon DEF IInv, TypeOK, SizeWithinCapacity
    <3>4. ProducerInv'
      BY <2>5, <3>1, <3>2, Zenon DEF ProducerInv
    <3>5. ConsumerInv'
      BY <2>1, <2>4, Zenon DEF IInv, ConsumerInv, Popping
    <3> QED BY <3>3, <3>4, <3>5, Zenon DEF IInv
  <2>6. CASE ~(batch /\ to_write < Len(items))
    BY <1>2, <1>7, <2>1, <2>2, <2>3, <2>4, <2>6, Zenon DEF StoreHead
  <2> QED BY <2>5, <2>6, Zenon
<1>8. CASE BeginProducerClear
  <2>1. /\ ppc' = "clear" /\ cpc = "idle" /\ to_write' = Wrap(tail - head)
        /\ UNCHANGED <<items, batch, head, tail, data_buff, consumer, got>>
        /\ Available' = Available
    BY <1>8, Zenon DEF BeginProducerClear, Available
  <2>2. to_write' \in Index
    BY <1>0, <2>1, WrapDiff, Zenon
  <2>3. TypeOK' /\ SizeWithinCapacity'
    BY <2>1, <2>2, Zenon DEF IInv, TypeOK, SizeWithinCapacity
  <2>4. ProducerInv' /\ ConsumerInv'
    BY <2>1, Zenon DEF IInv, ProducerInv, ConsumerInv, Popping
  <2> QED BY <2>3, <2>4, Zenon DEF IInv
<1>9. CASE ProducerClear
  <2>1. /\ head' = Wrap(head + to_write) /\ EndProduce /\ cpc = "idle"
        /\ to_write = Wrap(tail - head) /\ UNCHANGED <<tail, data_buff, consumer, got>>
    BY <1>9, Zenon DEF ProducerClear, IInv, ProducerInv
  <2>2. head' = tail
    BY <1>0, <2>1, HeadCleared, Zenon
  <2>3. Available' = 0
    BY <1>0, <2>1, <2>2, WrapDiff DEF Available
  <2> QED BY <1>0, <1>2, <2>1, <2>2, <2>3
<1> QED BY <1>3, <1>4, <1>5, <1>6, <1>7, <1>8, <1>9, Zenon DEF Producer

(* Moving the tail past n elements: the elements that stay keep their      *)
(* values, and the producer's slots stay free.                             *)
LEMMA TailStored ==
  ASSUME IInv, NEW n \in Nat, n <= Available, tail' = Wrap(tail + n), head' = head
  PROVE  /\ tail' \in Index /\ Available' = Available - n
         /\ \A j \in Nat : Slot(tail' + j) = Slot(tail + n + j)
<1>1. n \in Index /\ tail' \in Index /\ Available' = Available - n
  BY Numbers, TailMoves DEF Available
<1> QED BY <1>1, Numbers, SlotWrap

(* A step of the consumer keeps the invariant. *)
LEMMA ConsumerStep ==
  ASSUME IInv, ~Promoted, ~ClearAnyTime, Consumer
  PROVE  IInv'
<1> USE DEF producer, consumer
<1>0. /\ head \in Index /\ tail \in Index /\ head \in Nat /\ tail \in Nat
      /\ Available \in Nat /\ Available \in Index /\ Available <= BufferSize
      /\ to_write \in Nat /\ to_read \in Nat /\ BufferSize \in Nat /\ IndexMod \in Nat
      /\ 2 * BufferSize < IndexMod /\ count \in Nat /\ MaxBatch \in Nat /\ MaxBatch > 0
      /\ 0 \in Index
  BY Numbers, Sizes DEF Index
<1>1. ASSUME UNCHANGED <<head, tail, data_buff, producer>>, ppc # "clear",
             TypeOK', ConsumerInv'
      PROVE  IInv'
  <2>1. Available' = Available
    BY <1>1, Zenon DEF Available
  <2>2. SizeWithinCapacity' /\ ProducerInv'
    BY <1>1, <2>1, Zenon DEF IInv, SizeWithinCapacity, ProducerInv
  <2> QED BY <1>1, <2>2, Zenon DEF IInv
<1>2. cpc # "idle" => ppc # "clear"
  BY Zenon DEF IInv, ProducerInv
<1>3. UNCHANGED <<head, tail>> => Available' = Available
  BY Zenon DEF Available
<1>4. <<>> \in Seq(Values) /\ Len(<<>>) = 0
  OBVIOUS
<1>5. ASSUME NEW o \in {"pop", "pop_batch", "discard", "clear", "at"}, NEW n \in 0 .. MaxBatch,
             o \in {"pop", "pop_batch", "discard"} => n >= 1, BeginConsume(o, n)
      PROVE  IInv'
  <2> USE <1>5 DEF BeginConsume
  <2>1. TypeOK'
    BY <1>0, <1>4 DEF IInv, TypeOK
  <2>2. ConsumerInv'
    BY <1>4, Zenon DEF IInv, ConsumerInv, Popping
  <2> QED BY <1>1, <2>1, <2>2, Zenon
<1>6. ASSUME EndConsume, got' \in Seq(Values), Len(got') <= MaxBatch, cpc # "idle",
             UNCHANGED <<head, tail, data_buff, producer>>
      PROVE  IInv'
  <2>1. TypeOK'
    BY <1>0, <1>4, <1>6 DEF IInv, TypeOK, EndConsume
  <2>2. ConsumerInv'
    BY <1>4, <1>6, Zenon DEF IInv, ConsumerInv, Popping, EndConsume
  <2> QED BY <1>1, <1>2, <1>6, <2>1, <2>2, Zenon
<1>7. got \in Seq(Values) /\ Len(got) <= MaxBatch /\ buf \in Seq(Values) /\ Len(buf) <= MaxBatch
  BY Zenon DEF IInv, TypeOK, ConsumerInv
<1>8. ASSUME NEW to \in {"read", "store"}, cpc = "load", cpc' = to,
             to_read' \in Nat, to_read' <= Available,
             UNCHANGED <<op, count, buf, got, head, tail, data_buff, producer>>,
             to = "read" => \/ Popping /\ to_read' >= 1 /\ to_read' <= count
                            \/ op = "at" /\ to_read' = count + 1,
             to = "store" => op \in {"discard", "clear"}
      PROVE  IInv'
  <2>1. to_read' \in Index
    BY <1>0, <1>8 DEF Index
  <2>2. TypeOK'
    BY <1>8, <2>1, Zenon DEF IInv, TypeOK
  <2>3. ConsumerInv'
    BY <1>0, <1>3, <1>8 DEF IInv, ConsumerInv, Popping
  <2> QED BY <1>1, <1>2, <1>8, <2>2, <2>3, Zenon
<1>9. CASE PopLoadsHead \/ DiscardLoadsHead
  <2>1. CASE Available = 0
    BY <1>6, <1>7, <1>9, <2>1, Zenon DEF PopLoadsHead, DiscardLoadsHead
  <2>2. CASE Available # 0
    <3>1. count >= 1
      BY <1>9, Zenon DEF PopLoadsHead, DiscardLoadsHead, IInv, ConsumerInv, Popping
    <3>2. to_read' = MinOf(count, Available)
      BY <1>9, <2>2, Zenon DEF PopLoadsHead, DiscardLoadsHead
    <3>3. to_read' \in Nat /\ to_read' >= 1 /\ to_read' <= count /\ to_read' <= Available
      BY <1>0, <2>2, <3>1, <3>2 DEF MinOf
    <3>4. CASE PopLoadsHead
      BY <1>8, <2>2, <3>3, <3>4, Zenon DEF PopLoadsHead, Popping
    <3>5. CASE DiscardLoadsHead
      BY <1>8, <2>2, <3>3, <3>5, Zenon DEF DiscardLoadsHead
    <3> QED BY <1>9, <3>4, <3>5, Zenon
  <2> QED BY <2>1, <2>2, Zenon
<1>10. CASE ClearLoadsHead
  BY <1>0, <1>8, <1>10 DEF ClearLoadsHead
<1>11. CASE AtLoadsHead
  <2>1. Minus(head, tail) = Available
    BY Zenon DEF Minus, Available
  <2>2. CASE Available <= count
    BY <1>6, <1>7, <1>11, <2>1, <2>2, Zenon DEF AtLoadsHead
  <2>3. CASE ~(Available <= count)
    <3>1. count + 1 \in Nat /\ count + 1 <= Available
      BY <1>0, <2>3
    <3> QED BY <1>8, <1>11, <2>1, <2>3, <3>1, Zenon DEF AtLoadsHead
  <2> QED BY <2>2, <2>3, Zenon
<1>12. CASE CopyOut
  <2>1. /\ cpc = "read" /\ cpc' = "store" /\ Popping
        /\ buf' = [k \in 1 .. to_read |-> data_buff[Slot(tail + k - 1)]]
        /\ UNCHANGED <<op, count, to_read, got, head, tail, data_buff, producer>>
    BY <1>12, Zenon DEF CopyOut, Popping
  <2>2. to_read >= 1 /\ to_read <= Available /\ to_read <= count /\ count <= MaxBatch
    BY <2>1 DEF IInv, ConsumerInv, TypeOK, Popping
  <2>3. \A k \in 1 .. to_read : data_buff[Slot(tail + k - 1)] \in Values
    <3> TAKE k \in 1 .. to_read
    <3>1. tail + k - 1 \in Nat
      BY <1>0
    <3> QED BY <3>1, SlotType, Zenon DEF IInv, TypeOK
  <2>4. buf' \in Seq(Values) /\ Len(buf') = to_read
    BY <1>0, <2>1, <2>3
  <2>5. TypeOK'
    BY <1>0, <2>1, <2>2, <2>4, SMTT(30) DEF IInv, TypeOK
  <2>6. ConsumerInv'
    BY <1>3, <2>1, <2>2, <2>4, Zenon DEF IInv, ConsumerInv, Popping
  <2> QED BY <1>1, <1>2, <2>1, <2>5, <2>6, Zenon
<1>13. CASE ReadAt
  <2>1. tail + count \in Nat
    BY <1>0
  <2>2. data_buff[Slot(tail + count)] \in Values
    BY <2>1, SlotType, Zenon DEF IInv, TypeOK
  <2>3. got' \in Seq(Values) /\ Len(got') = 1
    BY <1>13, <2>2 DEF ReadAt
  <2> QED BY <1>0, <1>6, <1>13, <2>3 DEF ReadAt
<1>14. CASE StoreTail
  <2>1. /\ cpc = "store" /\ tail' = Wrap(tail + to_read) /\ got' = buf
        /\ UNCHANGED <<head, data_buff, producer>> /\ ppc # "clear"
    BY <1>2, <1>14, Zenon DEF StoreTail
  <2>2. to_read <= Available
    BY <2>1, Zenon DEF IInv, ConsumerInv
  <2>3. tail' \in Index /\ Available' = Available - to_read
    BY <1>0, <2>1, <2>2, TailStored, Zenon
  <2>4. SizeWithinCapacity'
    BY <1>0, <2>3 DEF SizeWithinCapacity
  <2>5. ProducerInv'
    BY <1>0, <2>1, <2>3 DEF IInv, ProducerInv
  <2>6. CASE op = "pop_batch" /\ to_read < count
    <3>1. /\ cpc' = "load" /\ count' = count - to_read /\ buf' = <<>>
          /\ UNCHANGED <<op, to_read>>
      BY <1>14, <2>6, Zenon DEF StoreTail
    <3>2. count' \in 0 .. MaxBatch /\ count' >= 1
      BY <1>0, <2>6, <3>1, SMTT(30) DEF IInv, TypeOK
    <3>3. TypeOK'
      BY <1>4, <1>7, <2>1, <2>3, <3>1, <3>2, <1>0 DEF IInv, TypeOK
    <3>4. ConsumerInv'
      BY <1>4, <1>7, <2>1, <2>6, <3>1, <3>2, Zenon DEF ConsumerInv
    <3> QED BY <2>4, <2>5, <3>3, <3>4, Zenon DEF IInv
  <2>7. CASE ~(op = "pop_batch" /\ to_read < count)
    <3>1. EndConsume
      BY <1>14, <2>7, Zenon DEF StoreTail
    <3>2. TypeOK'
      BY <1>0, <1>4, <1>7, <2>1, <2>3, <3>1 DEF IInv, TypeOK, EndConsume
    <3>3. ConsumerInv'
      BY <1>4, <1>7, <2>1, <3>1, Zenon DEF ConsumerInv, Popping, EndConsume
    <3> QED BY <2>4, <2>5, <3>2, <3>3, Zenon DEF IInv
  <2> QED BY <2>6, <2>7, Zenon
<1>15. 1 \in 0 .. MaxBatch /\ 0 \in 0 .. MaxBatch
       /\ \A n \in 1 .. MaxBatch : n \in 0 .. MaxBatch /\ n >= 1
  BY <1>0
<1> QED BY <1>5, <1>9, <1>10, <1>11, <1>12, <1>13, <1>14, <1>15 DEF Consumer

(* The ring starts empty, with both threads between calls. *)
LEMMA InitInv == Init => IInv
<1> SUFFICES ASSUME Init PROVE IInv
  BY Zenon
<1>1. 0 \in Index /\ 0 \in 0 .. MaxBatch /\ 0 <= MaxBatch
  BY Sizes DEF Index
<1>2. Available = 0
  <2>1. Wrap(0 - 0) = 0
    BY <1>1, WrapDiff
  <2> QED BY <2>1, Zenon DEF Init, Available
<1>3. <<>> \in Seq(Values) /\ Len(<<>>) = 0
  OBVIOUS
<1>4. TypeOK
  <2>1. Len(buf) <= MaxBatch /\ Len(got) <= MaxBatch
    BY <1>1, <1>3, Zenon DEF Init
  <2> QED BY <1>1, <2>1, Zenon DEF Init, TypeOK
<1>5. SizeWithinCapacity
  BY <1>2, Sizes DEF SizeWithinCapacity
<1>6. ProducerInv
  BY Zenon DEF Init, ProducerInv
<1>7. ConsumerInv
  BY <1>3, Zenon DEF Init, ConsumerInv, Popping
<1> QED BY <1>4, <1>5, <1>6, <1>7, Zenon DEF IInv

(* Every step keeps the invariant. *)
LEMMA StepInv == ASSUME IInv, ~Promoted, ~ClearAnyTime, [Next]_vars PROVE IInv'
<1>1. CASE UNCHANGED vars
  BY <1>1 DEF vars, producer, consumer, IInv, TypeOK, SizeWithinCapacity, Available,
              ProducerInv, ConsumerInv, Popping
<1> QED BY <1>1, ProducerStep, ConsumerStep, Zenon DEF Next

(* The slots in use by the two threads are disjoint. *)
LEMMA InvExclusive == ASSUME IInv PROVE RingExclusive
<1> SUFFICES ASSUME ppc = "write", cpc = "read",
                    NEW j \in 1 .. to_write, NEW k \in 1 .. to_read
             PROVE  Slot(head + j - 1) # Slot(tail + k - 1)
  BY Zenon DEF RingExclusive, NoOverlap, Written, IInv
<1>1. /\ to_write \in Nat /\ to_read \in Nat /\ head \in Nat /\ tail \in Nat /\ Available \in Nat
      /\ Available + to_write <= BufferSize /\ to_read <= Available
  BY Numbers, Zenon DEF IInv, ProducerInv, ConsumerInv
<1>2. /\ j - 1 \in Nat /\ tail + k - 1 \in Nat /\ tail + Available + (j - 1) \in Nat
      /\ tail + k - 1 < tail + Available + (j - 1)
      /\ tail + Available + (j - 1) < tail + k - 1 + BufferSize
      /\ head + j - 1 = head + (j - 1)
  BY <1>1, Sizes
<1>3. Slot(head + (j - 1)) = Slot(tail + Available + (j - 1))
  BY <1>2, Numbers, SlotHead, ZenonT(30) DEF Available
<1>4. Slot(tail + k - 1) # Slot(tail + Available + (j - 1))
  BY <1>2, SlotsDiffer, Zenon
<1> QED BY <1>2, <1>3, <1>4, Zenon

(* The invariant holds throughout. *)
LEMMA InvHolds == ASSUME ~Promoted, ~ClearAnyTime PROVE Spec => []IInv
BY InitInv, StepInv, PTL DEF Spec

(* RingExclusive, for every index type at least as wide as int: whatever   *)
(* the two threads do, the slots Push() copies into are not the ones Pop(), *)
(* Peek() or At() read, and the indices, the counts and the locals of the  *)
(* two calls keep their types.                                             *)
THEOREM ExclusiveSlots == ASSUME ~Promoted, ~ClearAnyTime PROVE Spec => []RingExclusive
BY InvHolds, InvExclusive, PTL

(* Size() never shows more than the capacity. *)
THEOREM NeverOverfull == ASSUME ~Promoted, ~ClearAnyTime PROVE Spec => []SizeWithinCapacity
<1>1. IInv => SizeWithinCapacity
  BY Zenon DEF IInv
<1> QED BY <1>1, InvHolds, PTL

-----------------------------------------------------------------------------
(* The ring implements the bounded FIFO: the queue is Contents. *)

(* The queue as a sequence. *)
ContentsFacts ==
  /\ Contents \in Seq(Values) /\ Len(Contents) = Available
  /\ \A k \in 1 .. Available : Contents[k] = data_buff[Slot(tail + k - 1)]

LEMMA ContentsSeq == IInv => ContentsFacts
<1> SUFFICES ASSUME IInv PROVE ContentsFacts
  BY Zenon
<1>1. \A k \in 1 .. Available : data_buff[Slot(tail + k - 1)] \in Values
  <2> TAKE k \in 1 .. Available
  <2>1. tail + k - 1 \in Nat
    BY Numbers
  <2> QED BY <2>1, SlotType, Zenon DEF IInv, TypeOK
<1> QED BY <1>1, Numbers DEF Contents, ContentsFacts

(* Nothing of the queue changes while both indices and the stored elements *)
(* stay.                                                                   *)
LEMMA ContentsKept ==
  ASSUME IInv, UNCHANGED <<head, tail>>,
         \A k \in 1 .. Available : data_buff'[Slot(tail + k - 1)] = data_buff[Slot(tail + k - 1)]
  PROVE  Contents' = Contents
<1>1. Available' = Available
  BY Zenon DEF Available
<1> QED BY <1>1, Zenon DEF Contents

(* Storing the tail removes the first to_read elements. *)
LEMMA TakeStep ==
  ASSUME IInv, IInv', StoreTail
  PROVE  /\ to_read \in 0 .. Len(Contents)
         /\ Contents' = SubSeq(Contents, to_read + 1, Len(Contents))
<1>1. /\ tail' = Wrap(tail + to_read) /\ UNCHANGED <<head, data_buff>>
      /\ to_read \in Nat /\ to_read <= Available /\ Available \in Nat /\ tail \in Nat
  BY Numbers, Zenon DEF StoreTail, IInv, ConsumerInv
<1>2. /\ Available' = Available - to_read
      /\ \A j \in Nat : Slot(tail' + j) = Slot(tail + to_read + j)
  BY <1>1, TailStored, Zenon
<1>3. /\ Contents \in Seq(Values) /\ Len(Contents) = Available
      /\ \A k \in 1 .. Available : Contents[k] = data_buff[Slot(tail + k - 1)]
  BY ContentsSeq, Zenon DEF ContentsFacts
<1>c. ContentsFacts'
  BY ContentsSeq, PTL
<1>4. /\ Contents' \in Seq(Values) /\ Len(Contents') = Available - to_read
      /\ \A k \in 1 .. Available - to_read : Contents'[k] = data_buff[Slot(tail' + k - 1)]
  BY <1>c, <1>1, <1>2, Zenon DEF ContentsFacts
<1> DEFINE q == Contents
           r == Contents'
           t == SubSeq(q, to_read + 1, Len(q))
<1> HIDE DEF q, r
<1>5. t \in Seq(Values) /\ Len(t) = Available - to_read
      /\ \A k \in 1 .. Available - to_read : t[k] = q[to_read + k]
  BY <1>1, <1>3 DEF q
<1>6. ASSUME NEW k \in 1 .. Available - to_read PROVE r[k] = t[k]
  <2>1. k - 1 \in Nat /\ tail' + k - 1 = tail' + (k - 1) /\ to_read + k \in 1 .. Available
        /\ tail + to_read + (k - 1) = tail + (to_read + k) - 1
    <3>1. tail' \in Int
      BY Sizes DEF IInv, TypeOK, Index
    <3> QED BY <1>1, <3>1
  <2>2. r[k] = data_buff[Slot(tail + to_read + (k - 1))]
    BY <1>2, <1>4, <2>1, Zenon DEF r
  <2>3. q[to_read + k] = data_buff[Slot(tail + (to_read + k) - 1)]
    BY <1>3, <2>1, Zenon DEF q
  <2> QED BY <1>5, <2>1, <2>2, <2>3, Zenon
<1>7. r = t
  <2>1. r \in Seq(Values) /\ Len(r) = Len(t) /\ Len(t) = Available - to_read
    BY <1>4, <1>5, Zenon DEF r
  <2> QED BY <1>5, <1>6, <2>1, SameElements, Zenon
<1> QED BY <1>1, <1>3, <1>7 DEF q, r

(* Storing the head appends the items that were copied. *)
LEMMA PutStep ==
  ASSUME IInv, IInv', StoreHead
  PROVE  /\ to_write \in 1 .. BufferSize - Len(Contents)
         /\ \E s \in [1 .. to_write -> Values] : Contents' = Contents \o s
<1>1. /\ head' = Wrap(head + to_write) /\ UNCHANGED <<tail, data_buff>>
      /\ to_write \in Nat /\ to_write >= 1 /\ to_write <= Len(items) /\ items \in Batches
      /\ Available + to_write <= BufferSize /\ Available \in Nat /\ tail \in Nat
      /\ head \in Nat /\ head \in Index /\ tail \in Index
      /\ \A k \in 1 .. to_write : data_buff[Slot(head + k - 1)] = items[k]
  BY Numbers, Zenon DEF StoreHead, IInv, ProducerInv
<1>2. Available' = Available + to_write
  BY <1>1, Sizes, HeadMoves, SMTT(30) DEF Available
<1>3. /\ Contents \in Seq(Values) /\ Len(Contents) = Available
      /\ \A k \in 1 .. Available : Contents[k] = data_buff[Slot(tail + k - 1)]
  BY ContentsSeq, Zenon DEF ContentsFacts
<1>c. ContentsFacts'
  BY ContentsSeq, PTL
<1>4. /\ Contents' \in Seq(Values) /\ Len(Contents') = Available + to_write
      /\ \A k \in 1 .. Available + to_write : Contents'[k] = data_buff[Slot(tail + k - 1)]
  BY <1>c, <1>1, <1>2, Zenon DEF ContentsFacts
<1> DEFINE q == Contents
           r == Contents'
           s == [k \in 1 .. to_write |-> items[k]]
<1>5. s \in [1 .. to_write -> Values] /\ s \in Seq(Values) /\ Len(s) = to_write
  <2>1. /\ to_write \in Nat /\ to_write <= Len(items) /\ Len(items) \in Nat
        /\ \A k \in 1 .. Len(items) : items[k] \in Values
    BY <1>1, BatchType, Zenon
  <2>2. \A k \in 1 .. to_write : items[k] \in Values
    BY <2>1
  <2>3. s \in [1 .. to_write -> Values]
    BY <2>2, Zenon
  <2> HIDE DEF s
  <2> QED BY <2>1, <2>3
<1> HIDE DEF q, r, s
<1>6. q \o s \in Seq(Values) /\ Len(q \o s) = Available + to_write
      /\ \A k \in 1 .. Available + to_write :
           (q \o s)[k] = IF k <= Available THEN q[k] ELSE s[k - Available]
  <2>1. q \in Seq(Values) /\ Len(q) = Available
    BY <1>3, Zenon DEF q
  <2>2. /\ q \o s \in Seq(Values) /\ Len(q \o s) = Len(q) + Len(s)
        /\ \A k \in 1 .. Len(q) + Len(s) :
             (q \o s)[k] = IF k <= Len(q) THEN q[k] ELSE s[k - Len(q)]
    BY <1>5, <2>1, Concatenation, Zenon
  <2> QED BY <1>5, <2>1, <2>2, Zenon
<1>7. ASSUME NEW k \in 1 .. Available + to_write PROVE r[k] = (q \o s)[k]
  <2>1. CASE k <= Available
    <3>1. k \in 1 .. Available
      BY <1>1, <2>1
    <3>2. r[k] = q[k]
      BY <1>3, <1>4, <3>1, Zenon DEF q, r
    <3> QED BY <1>6, <2>1, <3>2, Zenon
  <2>2. CASE ~(k <= Available)
    <3> DEFINE j == k - Available
    <3>1. j \in 1 .. to_write /\ j - 1 \in Nat /\ head + j - 1 = head + (j - 1)
          /\ tail + Available + (j - 1) = tail + k - 1
      BY <1>1, <2>2
    <3> HIDE DEF j
    <3>2. Slot(head + (j - 1)) = Slot(tail + Available + (j - 1))
      BY <1>1, <3>1, SlotHead, Zenon DEF Available
    <3>3. r[k] = data_buff[Slot(tail + k - 1)]
      BY <1>4, Zenon DEF r
    <3>4. s[j] = items[j] /\ items[j] = data_buff[Slot(head + j - 1)]
      BY <1>1, <3>1, Zenon DEF s
    <3>5. (q \o s)[k] = s[j]
      BY <1>6, <2>2, Zenon DEF j
    <3> QED BY <3>1, <3>2, <3>3, <3>4, <3>5, Zenon
  <2> QED BY <2>1, <2>2, Zenon
<1>8. r = q \o s
  <2>1. r \in Seq(Values) /\ Len(r) = Len(q \o s) /\ Len(r) = Available + to_write
    BY <1>4, <1>6, Zenon DEF r
  <2> QED BY <1>6, <1>7, <2>1, SameElements, Zenon
<1>9. to_write \in 1 .. BufferSize - Len(Contents)
  BY <1>1, <1>3, Sizes
<1>10. Contents' = Contents \o s
  BY <1>8, Zenon DEF q, r
<1> QED BY <1>5, <1>9, <1>10, Zenon

(* Every step of the ring is a step of the FIFO or leaves it alone. *)
LEMMA FifoStep ==
  ASSUME IInv, IInv', ~Promoted, ~ClearAnyTime, [Next]_vars
  PROVE  [Fifo!Next]_(Fifo!vars)
<1> USE DEF Fifo!vars, producer, consumer
<1>0. /\ Contents \in Seq(Values) /\ Len(Contents) = Available /\ Available \in Nat
      /\ \A k \in 1 .. Available : Contents[k] = data_buff[Slot(tail + k - 1)]
  BY ContentsSeq, Numbers, Zenon DEF ContentsFacts
<1>1. UNCHANGED <<head, tail, data_buff>> => Contents' = Contents
  BY ContentsKept, Zenon
<1>2. CASE UNCHANGED vars
  BY <1>1, <1>2, Zenon DEF vars
<1>3. CASE Producer
  <2>1. CASE (\E v \in Values : BeginPush(v)) \/ (\E s \in Batches : BeginPushBatch(s))
    BY <1>1, <2>1, Zenon DEF BeginPush, BeginPushBatch
  <2>2. CASE LoadTail \/ BeginProducerClear
    BY <1>1, <2>2, Zenon DEF LoadTail, BeginProducerClear
  <2>3. CASE CopyIn
    <3>1. \A k \in 1 .. Available : data_buff'[Slot(tail + k - 1)] = data_buff[Slot(tail + k - 1)]
      BY <2>3, CopyInEffect, Zenon
    <3> QED BY <2>3, <3>1, ContentsKept, Zenon DEF CopyIn
  <2>4. CASE StoreHead
    <3>1. /\ to_write \in 1 .. BufferSize - Len(Contents)
          /\ \E s \in [1 .. to_write -> Values] : Contents' = Contents \o s
      BY <2>4, PutStep, Zenon
    <3>2. UNCHANGED got
      BY <2>4, Zenon DEF StoreHead
    <3>3. Fifo!Put
      BY <3>1, <3>2, Zenon DEF Fifo!Put
    <3> QED BY <3>3, Zenon DEF Fifo!Next
  <2>5. CASE ProducerClear
    <3>1. head' = tail /\ UNCHANGED <<tail, got>> /\ tail \in Index
      BY <2>5, Numbers, HeadCleared, ZenonT(30) DEF ProducerClear, IInv, ProducerInv
    <3>2. Available' = 0
      BY <3>1, WrapDiff, Sizes DEF Available, Index
    <3>3. Contents' = <<>>
      BY <3>2 DEF Contents
    <3> QED BY <3>1, <3>3, Zenon DEF Fifo!Next, Fifo!Clear
  <2> QED BY <1>3, <2>1, <2>2, <2>3, <2>4, <2>5, Zenon DEF Producer
<1>4. CASE Consumer
  <2>1. ASSUME NEW o, NEW n, BeginConsume(o, n) PROVE [Fifo!Next]_(Fifo!vars)
    BY <1>1, <2>1, Zenon DEF BeginConsume, Fifo!Next, Fifo!Look
  <2>2. CASE PopLoadsHead \/ DiscardLoadsHead \/ ClearLoadsHead \/ AtLoadsHead \/ CopyOut
    BY <1>1, <2>2, Zenon DEF PopLoadsHead, DiscardLoadsHead, ClearLoadsHead, AtLoadsHead, CopyOut
  <2>3. CASE ReadAt
    <3>1. got' = <<data_buff[Slot(tail + count)]>> /\ Contents' = Contents
      BY <1>1, <2>3, Zenon DEF ReadAt
    <3>2. count + 1 \in 1 .. Available /\ tail + count = tail + (count + 1) - 1
      BY <2>3, Numbers DEF ReadAt, IInv, ConsumerInv, Popping
    <3>3. got' = <<Contents[count + 1]>>
      BY <1>0, <3>1, <3>2, Zenon
    <3> QED BY <1>0, <3>1, <3>2, <3>3, Zenon DEF Fifo!Next, Fifo!Look
  <2>4. CASE StoreTail
    <3>1. /\ to_read \in 0 .. Len(Contents) /\ got' = buf
          /\ Contents' = SubSeq(Contents, to_read + 1, Len(Contents))
      BY <2>4, TakeStep, Zenon DEF StoreTail
    <3>2. CASE Popping
      <4>1. /\ to_read >= 1 /\ to_read \in Nat
            /\ buf = [k \in 1 .. to_read |-> data_buff[Slot(tail + k - 1)]]
        BY <2>4, <3>2, Numbers, Zenon DEF StoreTail, IInv, ConsumerInv, Popping
      <4>2. to_read \in 1 .. Len(Contents)
        BY <1>0, <3>1, <4>1
      <4>3. buf = SubSeq(Contents, 1, to_read)
        <5> DEFINE q == Contents
                   t == SubSeq(q, 1, to_read)
        <5>1. q \in Seq(Values) /\ Len(q) = Available
              /\ \A k \in 1 .. Available : q[k] = data_buff[Slot(tail + k - 1)]
          BY <1>0, Zenon
        <5> HIDE DEF q
        <5>2. to_read \in 1 .. Available
          BY <1>0, <4>2, Zenon
        <5>3. t \in Seq(Values) /\ Len(t) = to_read /\ \A k \in 1 .. to_read : t[k] = q[k]
          BY <1>0, <5>1, <5>2, SMTT(30)
        <5>4. buf \in Seq(Values) /\ Len(buf) = to_read
          BY <4>1 DEF IInv, ConsumerInv
        <5>5. \A k \in 1 .. to_read : buf[k] = t[k]
          BY <1>0, <4>1, <5>1, <5>2, <5>3
        <5> HIDE DEF t
        <5>6. buf = t
          BY <5>3, <5>4, <5>5, SameElements, Zenon
        <5> QED BY <5>6, Zenon DEF t, q
      <4>4. Fifo!Take
        BY <3>1, <4>2, <4>3, Zenon DEF Fifo!Take
      <4> QED BY <4>4, Zenon DEF Fifo!Next
    <3>3. CASE ~Popping
      <4>1. buf = <<>>
        BY <2>4, <3>3, Zenon DEF StoreTail, IInv, ConsumerInv
      <4>2. Fifo!Drop
        BY <3>1, <4>1, Zenon DEF Fifo!Drop
      <4> QED BY <4>2, Zenon DEF Fifo!Next
    <3> QED BY <3>2, <3>3, Zenon
  <2> QED BY <1>4, <2>1, <2>2, <2>3, <2>4, Zenon DEF Consumer
<1> QED BY <1>2, <1>3, <1>4, Zenon DEF Next

(* RingIsFifo, for every index type at least as wide as int: items leave in *)
(* the order they entered, none is lost, repeated or changed and there are *)
(* never more than BufferSize, whatever mix of single and batch operations *)
(* the two threads call and wherever the indices wrap; and At() answers    *)
(* null only for an index that is out of range.                            *)
THEOREM ImplementsBoundedFifo == ASSUME ~Promoted, ~ClearAnyTime PROVE Spec => RingIsFifo
<1>1. Init => Fifo!Init
  <2> SUFFICES ASSUME Init PROVE Contents = <<>> /\ got = <<>>
    BY Zenon DEF Fifo!Init
  <2>1. 0 \in Index
    BY Sizes DEF Index
  <2>2. Wrap(0 - 0) = 0
    BY <2>1, WrapDiff
  <2> QED BY <2>2 DEF Init, Contents, Available
<1>2. IInv /\ IInv' /\ [Next]_vars => [Fifo!Next]_(Fifo!vars)
  BY FifoStep, Zenon
<1>3. IInv /\ [Next]_vars => [(AtLoadsHead /\ cpc' = "idle") => Available <= count]_vars
  BY Zenon DEF AtLoadsHead, Minus, Available
<1> QED BY <1>1, <1>2, <1>3, InvHolds, PTL
        DEF Spec, RingIsFifo, ImplementsFifo, NullOnlyOutOfRange, Fifo!Spec
=============================================================================
