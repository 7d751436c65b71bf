---------------------------- MODULE SerialFrames ----------------------------
(***************************************************************************)
(* serial_transport.hpp: Send() frames a payload, the receiver finds frame *)
(* boundaries byte by byte (FeedByte), checks tail and CRC, counts the gaps*)
(* in the sequence numbers and delivers.  The line may lose or damage a    *)
(* byte, a Send() may fail half-way (WriteAll gives up on EAGAIN), and an  *)
(* ACK of the receiving thread may come between two partial writes of a    *)
(* frame.  Every field is one cell: sync1 sync2 magic len seq type payload *)
(* crc tail; an ACK is sync1 sync2 ack_magic seq crc.                      *)
(***************************************************************************)
EXTENDS Integers, Sequences, FiniteSets, SequencesExt

CONSTANTS
  Payloads,             \* sequences of cells; a cell may look like a sync byte
  SeqNumbers,
  FrameMax,             \* frame_max_size, in cells
  MaxFrames, MaxFaults  \* bounds

VARIABLES
  line,            \* cells on the way to the receiver
  tx_seq,
  rx,              \* state and rx_buf_
  late,            \* the next cell comes after inter_byte_timeout_ms
  expected, received, seq_gaps,
  faults,
  sent, delivered  \* history

vars == <<line, tx_seq, rx, late, expected, received, seq_gaps, faults, sent, delivered>>

Noise == 0
Sync1 == 1
Sync2 == 2
Magic == 3
AckMagic == 4
TailByte == 5
HeaderSize == 6
CrcSize == 1
AckFrameSize == 5

(* Calculate() folds the cells into one value.  The mixing step is simpler   *)
(* than the table of the code: all that is told apart is equal or not.       *)
Crc(cells) == FoldLeft(LAMBDA acc, c : (acc * 31 + c) % 10007, 7, cells)

Frame(seq, payload) ==
  LET body == <<Sync1, Sync2, Magic, HeaderSize + Len(payload) + CrcSize, seq, 9>> \o payload
  IN body \o <<Crc(body), TailByte>>

AckFrame(seq) ==
  LET body == <<Sync1, Sync2, AckMagic, seq>> IN Append(body, Crc(body))

Reset == [state |-> "Idle", buf |-> <<>>]

(* The sender may have sent before the receiver opened its port. *)
Init ==
  /\ line = <<>> /\ rx = Reset /\ late = FALSE
  /\ tx_seq \in 0 .. SeqNumbers - 1
  /\ expected = 0 /\ received = 0 /\ seq_gaps = 0
  /\ faults = 0 /\ sent = <<>> /\ delivered = <<>>

-----------------------------------------------------------------------------
(* Send, and what becomes of the frame on the way. *)

Damages(f) ==
  UNION {{RemoveAt(f, j),                                \* a cell is lost
          [f EXCEPT ![j] = Noise],                        \* or damaged
          SubSeq(f, 1, j - 1)} : j \in 2 .. Len(f)}       \* Send() gave up
    \cup {SubSeq(f, 1, j) \o AckFrame(0) \o SubSeq(f, j + 1, Len(f)) : j \in 1 .. Len(f) - 1}

(* A payload that is too long is refused before a number is taken. *)
Transmit(payload, cells) ==
  /\ HeaderSize + Len(payload) + CrcSize + 1 <= FrameMax
  /\ line = <<>> /\ Len(sent) < MaxFrames
  /\ line' = cells /\ tx_seq' = (tx_seq + 1) % SeqNumbers
  /\ sent' = Append(sent, [seq |-> tx_seq, payload |-> payload,
               clean |-> cells = Frame(tx_seq, payload) /\ (rx = Reset \/ late)])

Send(payload) ==
  /\ Transmit(payload, Frame(tx_seq, payload))
  /\ UNCHANGED <<rx, late, expected, received, seq_gaps, faults, delivered>>

SendDamaged(payload) ==
  /\ faults < MaxFaults /\ faults' = faults + 1
  /\ \E cells \in Damages(Frame(tx_seq, payload)) : Transmit(payload, cells)
  /\ UNCHANGED <<rx, late, expected, received, seq_gaps, delivered>>

SendAck ==
  /\ line = <<>> /\ Len(sent) < MaxFrames /\ faults < MaxFaults
  /\ faults' = faults + 1 /\ line' = AckFrame(0)
  /\ UNCHANGED <<tx_seq, rx, late, expected, received, seq_gaps, sent, delivered>>

Pause ==
  /\ rx # Reset /\ ~late /\ late' = TRUE
  /\ line = <<>> \/ faults < MaxFaults
  /\ IF line = <<>>
       THEN UNCHANGED <<faults, sent>>
       ELSE /\ faults' = faults + 1
            /\ sent' = [k \in DOMAIN sent |->
                          [sent[k] EXCEPT !.clean = @ /\ k < Len(sent)]]
  /\ UNCHANGED <<line, tx_seq, rx, expected, received, seq_gaps, delivered>>

-----------------------------------------------------------------------------
(* FeedByte *)

MsgLen(buf) == buf[4]
Collect(r, cell) == [r EXCEPT !.buf = Append(@, cell)]

FeedHeader(r) ==
  LET n == Len(r.buf) IN
    IF n >= AckFrameSize /\ r.buf[3] = AckMagic THEN Reset
    ELSE IF n < HeaderSize THEN r
    ELSE IF \/ r.buf[3] # Magic \/ MsgLen(r.buf) + 1 > FrameMax
            \/ MsgLen(r.buf) < HeaderSize + CrcSize
      THEN Reset
      ELSE [r EXCEPT !.state =
              IF MsgLen(r.buf) = HeaderSize + CrcSize THEN "WaitCrc" ELSE "WaitPayload"]

FeedPayload(r) ==
  IF Len(r.buf) - HeaderSize >= MsgLen(r.buf) - HeaderSize - CrcSize
    THEN [r EXCEPT !.state = "WaitCrc"] ELSE r

FeedByte(r, cell) ==
  CASE r.state = "Idle" \/ (r.state = "WaitSync2" /\ cell # Sync2) ->
         IF cell = Sync1 THEN [state |-> "WaitSync2", buf |-> <<cell>>] ELSE Reset
    [] r.state = "WaitSync2" /\ cell = Sync2 ->
         [Collect(r, cell) EXCEPT !.state = "WaitHeader"]
    [] r.state = "WaitHeader" -> FeedHeader(Collect(r, cell))
    [] r.state = "WaitPayload" -> FeedPayload(Collect(r, cell))
    [] r.state = "WaitCrc" -> Collect(r, cell)

(* ValidateAndDeliver: the tail, then the CRC. *)
Complete(r) == r.state = "WaitCrc" /\ Len(r.buf) >= MsgLen(r.buf) + 1

Valid(buf) ==
  LET n == MsgLen(buf) IN
    /\ buf[n + 1] = TailByte
    /\ buf[n] = Crc(SubSeq(buf, 1, n - CrcSize))

(* Mutant: no wraparound. *)
Gap_NoWrap(seq) == IF seq > expected THEN seq - expected ELSE 0

Gap(seq) == IF seq >= expected THEN seq - expected ELSE (SeqNumbers - expected) + seq

(* A cell after a pause restarts the search for a frame. *)
Poll ==
  LET r == FeedByte(IF late THEN Reset ELSE rx, Head(line)) IN
    /\ line # <<>>
    /\ line' = Tail(line) /\ late' = FALSE
    /\ rx' = IF Complete(r) THEN Reset ELSE r
    /\ IF Complete(r) /\ Valid(r.buf)
         THEN LET seq == r.buf[5] IN
              /\ seq_gaps' = seq_gaps + (IF received > 0 THEN Gap(seq) ELSE 0)
              /\ expected' = (seq + 1) % SeqNumbers /\ received' = received + 1
              /\ delivered' = Append(delivered,
                   [seq |-> seq, payload |-> SubSeq(r.buf, HeaderSize + 1, MsgLen(r.buf) - CrcSize)])
         ELSE UNCHANGED <<seq_gaps, expected, received, delivered>>
    /\ UNCHANGED <<tx_seq, faults, sent>>

Next == (\E p \in Payloads : Send(p) \/ SendDamaged(p)) \/ SendAck \/ Pause \/ Poll

Spec == Init /\ [][Next]_vars

-----------------------------------------------------------------------------
(* Properties *)

Index(d) ==
  CHOOSE k \in 1 .. Len(sent) + 1 :
    k = Len(sent) + 1 \/ (sent[k].seq = d.seq /\ sent[k].payload = d.payload)

(* Whatever the line does, a delivered frame is one that was sent, frames  *)
(* arrive in order and once, and seq_gaps is the number of frames lost     *)
(* between the first and the last that arrived, also when the number wraps.*)
(* A fault never costs a later frame that is preceded by a pause: the      *)
(* timeout makes the receiver look for a new frame.                        *)
FramesExact ==
  /\ \A k \in DOMAIN delivered : Index(delivered[k]) <= Len(sent)
  /\ \A j, k \in DOMAIN delivered : j < k => Index(delivered[j]) < Index(delivered[k])
  /\ delivered # <<>> =>
       seq_gaps = Index(Last(delivered)) - Index(delivered[1]) + 1 - Len(delivered)
  /\ line = <<>> => \A k \in DOMAIN sent :
       sent[k].clean => \E d \in DOMAIN delivered : Index(delivered[d]) = k
=============================================================================
