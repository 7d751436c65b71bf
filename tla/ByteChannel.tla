----------------------------- MODULE ByteChannel -----------------------------
(***************************************************************************)
(* The shared-memory byte channels of shm_transport.hpp: one writer, and   *)
(* either one reader over a ShmSpscByteRing (kind "spsc") or several over  *)
(* a ShmSpmcByteRing (kind "spmc"), with the futex wait and wake of        *)
(* ShmByteChannel and ShmSpmcByteChannel.                                  *)
(*                                                                         *)
(* A cell of data stands for four bytes: the length prefix takes one cell, *)
(* a message of length n takes n more.  Positions are free-running and     *)
(* kept modulo IndexMod.  Each step makes one access to a position or an   *)
(* active flag that another process writes.  unread[s] is the sequence of  *)
(* messages published since slot s started and not yet taken from it.      *)
(***************************************************************************)
EXTENDS Integers, Sequences, SequencesExt

CONSTANTS
  Readers,
  Waiting,      \* the readers that call WaitReadable; the others poll
  MaxConsumers,
  DataSize,     \* cells of the segment behind the header
  IndexMod,
  Lengths, Payloads,  \* of the messages; the cells of one hold its payload
  Buffers,      \* the max_len arguments of Read
  JoinRaces     \* whether the writer may be in Write between the claim of a
                \* slot and the store of its tail, and the process die there

VARIABLES
  kind,
  head, data, tails, active,
  wpc, msg, slot, slowest,     \* the writer's call
  rpc, id, seen, out,          \* the call of each reader
  unread

writer == <<wpc, msg, slot, slowest>>
reader == <<rpc, id, seen, out>>
ring == <<head, data, tails, active>>
vars == <<kind, ring, writer, reader, unread>>

(* The largest power of two that is at most v. *)
RoundDownPow2(v) == CHOOSE p \in {2 ^ k : k \in 0 .. v} : p <= v /\ v < 2 * p

Capacity == RoundDownPow2(DataSize)
Wrap(x) == x % IndexMod
Cell(x) == x % Capacity
Slots == 0 .. (IF kind = "spsc" THEN 1 ELSE MaxConsumers) - 1
Messages == [len : Lengths, payload : Payloads]
NoMessage == [len |-> 0, payload |-> 0]
Cells(m) == <<m.len>> \o [k \in 1 .. m.len |-> m.payload]

(* InitAt: the one reader of an SPSC ring needs no registration. *)
Init ==
  /\ kind \in {"spsc", "spmc"}
  /\ head = 0 /\ data = [c \in 0 .. Capacity - 1 |-> 0]
  /\ tails = [s \in Slots |-> 0] /\ active = [s \in Slots |-> kind = "spsc"]
  /\ wpc = "idle" /\ msg = NoMessage /\ slot = 0 /\ slowest = 0
  /\ rpc = [r \in Readers |-> "out"] /\ id = [r \in Readers |-> 0]
  /\ seen = [r \in Readers |-> 0] /\ out = [r \in Readers |-> <<>>]
  /\ unread = [s \in Slots |-> <<>>]

Registering == {r \in Readers : rpc[r] \in {"head", "tail"}}
Reading == {r \in Readers : rpc[r] # "out"} \ Registering

-----------------------------------------------------------------------------
(* The writer *)

(* WriteRaw: the copy goes round the end of the data area. *)
Overlay(d, pos, cells) ==
  [c \in DOMAIN d |->
     IF \E k \in 1 .. Len(cells) : Cell(pos + k - 1) = c
       THEN cells[CHOOSE k \in 1 .. Len(cells) : Cell(pos + k - 1) = c]
       ELSE d[c]]

(* Write begins: slowest starts at head, the scan of the slots follows. *)
BeginWrite(m) ==
  /\ wpc = "idle" /\ (JoinRaces \/ Registering = {})
  /\ wpc' = "scan" /\ msg' = m /\ slot' = 0 /\ slowest' = head
  /\ UNCHANGED <<kind, ring, reader, unread>>

(* The difference as int32_t. *)
Signed(x) == IF Wrap(x) >= IndexMod \div 2 THEN Wrap(x) - IndexMod ELSE Wrap(x)

(* Mutant: an inactive slot is scanned and an active one is not. *)
SlowestTail_Flipped ==
  IF ~active[slot] /\ Signed(slowest - tails[slot]) > 0 THEN tails[slot] ELSE slowest

(* SlowestTail, one slot. *)
SlowestTail ==
  IF active[slot] /\ Signed(slowest - tails[slot]) > 0 THEN tails[slot] ELSE slowest

ScanSlot ==
  /\ wpc = "scan" /\ slot \in Slots
  /\ slowest' = SlowestTail /\ slot' = slot + 1
  /\ UNCHANGED <<kind, ring, wpc, msg, reader, unread>>

WriteableBytes == Wrap(Capacity - Wrap(head - slowest))

EndWrite == wpc' = "idle" /\ msg' = NoMessage /\ slot' = 0 /\ slowest' = 0

CheckSpace ==
  /\ wpc = "scan" /\ slot \notin Slots
  /\ IF WriteableBytes < msg.len + 1
       THEN EndWrite
       ELSE wpc' = "copy" /\ UNCHANGED <<msg, slot, slowest>>
  /\ UNCHANGED <<kind, ring, reader, unread>>

(* Prefix and payload are copied in two calls of WriteRaw; no reader reads *)
(* past head, so that what it can see of them is the same.                 *)
CopyIn ==
  /\ wpc = "copy"
  /\ data' = Overlay(data, head, Cells(msg))
  /\ wpc' = "publish"
  /\ UNCHANGED <<kind, head, tails, active, msg, slot, slowest, reader, unread>>

Publish ==
  /\ wpc = "publish"
  /\ head' = Wrap(head + msg.len + 1)
  /\ unread' = [s \in Slots |-> IF active[s] THEN Append(unread[s], msg) ELSE unread[s]]
  /\ wpc' = "wake"
  /\ UNCHANGED <<kind, data, tails, active, msg, slot, slowest, reader>>

(* FutexWake wakes the one reader, FutexWakeAll every sleeper. *)
Wake ==
  /\ wpc = "wake" /\ EndWrite
  /\ rpc' = [r \in Readers |-> IF rpc[r] = "asleep" THEN "idle" ELSE rpc[r]]
  /\ UNCHANGED <<kind, ring, id, seen, out, unread>>

(* Notify, on its own. *)
Notify ==
  /\ wpc = "idle" /\ \E r \in Readers : rpc[r] = "asleep"
  /\ rpc' = [r \in Readers |-> IF rpc[r] = "asleep" THEN "idle" ELSE rpc[r]]
  /\ UNCHANGED <<kind, ring, writer, id, seen, out, unread>>

WriterStep == ScanSlot \/ CheckSpace \/ CopyIn \/ Publish \/ Wake

-----------------------------------------------------------------------------
(* A reader *)

Goto(r, label) == rpc' = [rpc EXCEPT ![r] = label]
Back(r) ==
  /\ Goto(r, "idle")
  /\ seen' = [seen EXCEPT ![r] = 0] /\ out' = [out EXCEPT ![r] = <<>>]

(* OpenReader on an SPSC ring attaches to the shared tail; at most one     *)
(* process is the reader.                                                  *)
Attach(r) ==
  /\ kind = "spsc" /\ rpc[r] = "out" /\ \A q \in Readers : rpc[q] = "out"
  /\ Goto(r, "idle")
  /\ UNCHANGED <<kind, ring, writer, id, seen, out, unread>>

(* RegisterConsumer claims the first free slot it meets. *)
BeginRegister(r) ==
  /\ kind = "spmc" /\ rpc[r] = "out" /\ (JoinRaces \/ wpc = "idle")
  /\ \E s \in Slots :
       /\ ~active[s] /\ \A t \in 0 .. s - 1 : active[t]
       /\ active' = [active EXCEPT ![s] = TRUE]
       /\ id' = [id EXCEPT ![r] = s]
       /\ unread' = [unread EXCEPT ![s] = <<>>]
  /\ Goto(r, "head")
  /\ UNCHANGED <<kind, head, data, tails, writer, seen, out>>

LoadHead(r) ==
  /\ rpc[r] = "head"
  /\ Goto(r, "tail") /\ seen' = [seen EXCEPT ![r] = head]
  /\ unread' = [unread EXCEPT ![id[r]] = <<>>]
  /\ UNCHANGED <<kind, ring, writer, id, out>>

StoreFirstTail(r) ==
  /\ rpc[r] = "tail"
  /\ tails' = [tails EXCEPT ![id[r]] = seen[r]] /\ Back(r)
  /\ UNCHANGED <<kind, head, data, active, writer, id, unread>>

(* The destructor of the channel; UnregisterConsumer when there is a slot. *)
Close(r) ==
  /\ rpc[r] = "idle"
  /\ active' = [active EXCEPT ![id[r]] = kind = "spsc"]
  /\ unread' = [unread EXCEPT ![id[r]] = IF kind = "spsc" THEN @ ELSE <<>>]
  /\ Goto(r, "out") /\ id' = [id EXCEPT ![r] = 0]
  /\ UNCHANGED <<kind, head, data, tails, writer, seen, out>>

(* The process dies: its slot stays active and its tail where it was, that *)
(* of an earlier consumer when the process was still registering.          *)
Crash(r) ==
  /\ r \in Reading \/ (JoinRaces /\ r \in Registering)
  /\ rpc' = [rpc EXCEPT ![r] = "out"] /\ id' = [id EXCEPT ![r] = 0]
  /\ seen' = [seen EXCEPT ![r] = 0] /\ out' = [out EXCEPT ![r] = <<>>]
  /\ UNCHANGED <<kind, ring, writer, unread>>

TailOf(r) == tails[id[r]]
Readable(r) == Wrap(head - TailOf(r))

(* WaitReadable: without data, head is loaded again as the expected value  *)
(* (with data it returns at once, and the reader calls Read) ...           *)
BeginWait(r) ==
  /\ r \in Waiting /\ rpc[r] = "idle" /\ Readable(r) < 1
  /\ Goto(r, "expect")
  /\ UNCHANGED <<kind, ring, writer, id, seen, out, unread>>

LoadExpected(r) ==
  /\ rpc[r] = "expect"
  /\ Goto(r, "futex") /\ seen' = [seen EXCEPT ![r] = head]
  /\ UNCHANGED <<kind, ring, writer, id, out, unread>>

(* ... and the kernel puts the reader to sleep if head still equals it.    *)
(* Success or kTimeout, the reader looks again.                            *)
FutexWait(r) ==
  /\ rpc[r] = "futex"
  /\ Goto(r, IF head = seen[r] THEN "asleep" ELSE "idle")
  /\ seen' = [seen EXCEPT ![r] = 0]
  /\ UNCHANGED <<kind, ring, writer, id, out, unread>>

WaitTimesOut(r) ==
  /\ rpc[r] = "asleep"
  /\ Goto(r, "idle")
  /\ UNCHANGED <<kind, ring, writer, id, seen, out, unread>>

MsgLen(r) == data[Cell(TailOf(r))]

(* Read: a complete message is copied, or skipped when it is too long.  An *)
(* empty message is neither.                                               *)
CanRead(r) == Readable(r) >= 1 /\ MsgLen(r) > 0 /\ Readable(r) >= MsgLen(r) + 1

Read(r, max_len) ==
  /\ rpc[r] = "idle" /\ CanRead(r)
  /\ Goto(r, "store")
  /\ seen' = [seen EXCEPT ![r] = MsgLen(r)]
  /\ out' = [out EXCEPT ![r] = IF MsgLen(r) > max_len THEN <<>>
                               ELSE [k \in 1 .. MsgLen(r) |-> data[Cell(TailOf(r) + k)]]]
  /\ UNCHANGED <<kind, ring, writer, id, unread>>

StoreTail(r) ==
  /\ rpc[r] = "store"
  /\ tails' = [tails EXCEPT ![id[r]] = Wrap(TailOf(r) + seen[r] + 1)]
  /\ unread' = [unread EXCEPT ![id[r]] = IF @ = <<>> THEN @ ELSE SubSeq(@, 2, Len(@))]
  /\ Back(r)
  /\ UNCHANGED <<kind, head, data, active, writer, id>>

ReaderStep(r) ==
  \/ LoadHead(r) \/ StoreFirstTail(r)
  \/ BeginWait(r) \/ LoadExpected(r) \/ FutexWait(r)
  \/ \E n \in Buffers : Read(r, n)
  \/ StoreTail(r)

Next ==
  \/ \E m \in Messages : BeginWrite(m)
  \/ WriterStep \/ Notify
  \/ \E r \in Readers :
       \/ Attach(r) \/ BeginRegister(r) \/ Close(r) \/ Crash(r)
       \/ ReaderStep(r) \/ WaitTimesOut(r)

(* A begun Write runs to its end, a reader in the loop of WaitReadable and *)
(* Read goes on, and FutexWait is given a timeout.                         *)
Fairness ==
  /\ WF_vars(WriterStep)
  /\ \A r \in Readers : WF_vars(ReaderStep(r)) /\ WF_vars(WaitTimesOut(r))

Spec == Init /\ [][Next]_vars /\ Fairness

-----------------------------------------------------------------------------
(* Properties *)

Stream(q) == FlattenSeq([i \in 1 .. Len(q) |-> Cells(q[i])])

(* What a reader has not taken lies between its tail and head, as it was   *)
(* written: Write never runs over a consumer that is still behind (Write,  *)
(* "Checks the slowest active consumer to prevent overwrite"), whoever     *)
(* else has joined, leaves, or has died between two messages, and Read     *)
(* copies or skips exactly the oldest of these messages.                   *)
StreamIntact ==
  /\ \A r \in Reading :
       LET left == Stream(unread[id[r]]) IN
         /\ Readable(r) = Len(left)
         /\ \A k \in 1 .. Len(left) : data[Cell(TailOf(r) + k - 1)] = left[k]
  /\ \A r \in Readers : rpc[r] = "store" =>
       /\ unread[id[r]] # <<>> /\ seen[r] = Head(unread[id[r]]).len
       /\ out[r] \in {<<>>, SubSeq(Cells(Head(unread[id[r]])), 2, 1 + seen[r])}

(* A reader that stays in the loop of WaitReadable and Read gets its next  *)
(* message, even when the message came between HasData and the load of the *)
(* value the futex waits on: the timeout and the second HasData see to it. *)
(* (A message of length 0 is never taken: Read returns without moving.)    *)
Delivered ==
  \A r \in Readers :
    []<>~(/\ rpc[r] \in {"idle", "expect", "futex", "asleep"}
          /\ unread[id[r]] # <<>> /\ Head(unread[id[r]]).len > 0)
=============================================================================
