------------------------ MODULE ConsumerSlotsProofs -------------------------
(***************************************************************************)
(* The reference of a live consumer is never taken: LiveRefsSafe and       *)
(* SlotsConsistent of ConsumerSlots, for any number of processes, reapers, *)
(* slots and blocks, when processes do not register while reapers run and  *)
(* do not die between Release and TrackBlockRelease.                       *)
(***************************************************************************)
EXTENDS ConsumerSlots, FiniteSetTheorems, WellFoundedInduction, TLAPS

Working == {"ready", "hold", "processing", "untrack"}
Seats == Working \cup {"reg_heartbeat", "reg_mask", "unreg_heartbeat", "unreg_active"}
Points == Seats \cup {"out", "reg_scan", "dead"}
Past == {"take_active", "take_inactive", "flip", "lost", "restore", "release"}
ReaperPoints == Past \cup {"idle", "load", "alive"}

Seated(c) == pc[c] \in Seats
Free(s) == \A c \in Processes : Seated(c) => slot[c] # s

ProcessTypes ==
  /\ pc \in [Processes -> Points]
  /\ slot \in [Processes -> 0 .. MaxConsumers] /\ blk \in [Processes -> 0 .. MaxBlocks]
SlotTypes ==
  /\ active \in [Slots -> {0, 1}] /\ heartbeat \in [Slots -> Never .. Timeout + 1]
  /\ holding_mask \in [Slots -> SUBSET Blocks]
BlockTypes == refcount \in [Blocks -> Nat] /\ notified \subseteq Processes \X Blocks
ReaperTypes ==
  /\ rpc \in [Reapers -> ReaperPoints]
  /\ rslot \in [Reapers -> 0 .. MaxConsumers] /\ rmask \in [Reapers -> SUBSET Blocks]
Types == ProcessTypes /\ SlotTypes /\ BlockTypes /\ ReaperTypes

(* No process registers or leaves while reapers run. *)
RegimeInv ==
  /\ regime \in Regimes
  /\ ~(joining /\ reaping)
  /\ joining => \A r \in Reapers : rpc[r] = "idle"
  /\ ~joining => \A c \in Processes : pc[c] \in Working \cup {"out", "dead"}

(* A seated process is alone in its slot, which is active and, once its    *)
(* heartbeat is written, not expired.                                      *)
SeatInv ==
  /\ \A c \in Processes : Seated(c) => slot[c] \in Slots /\ active[slot[c]] = 1
  /\ \A c \in Processes : pc[c] = "reg_scan" => slot[c] \in Slots
  /\ \A c \in Processes : \A d \in Processes : c # d /\ Seated(c) /\ Seated(d) => slot[c] # slot[d]
  /\ \A c \in Processes : Beating(c) => heartbeat[slot[c]] \in 0 .. Timeout

(* Its mask holds the block it works on and nothing else; a slot that can  *)
(* be taken is clean.                                                      *)
MaskInv ==
  /\ \A c \in Processes : Seated(c) =>
       holding_mask[slot[c]] = IF pc[c] \in {"processing", "untrack"} THEN {blk[c]} ELSE {}
  /\ \A c \in Processes : pc[c] \in {"hold", "processing", "untrack"} => blk[c] \in Blocks
  /\ joining => \A s \in Slots : Free(s) => holding_mask[s] = {}

(* A reaper past its tests is at a slot that no live process has. *)
ReaperInv ==
  \A r \in Reapers :
    /\ rpc[r] # "idle" => rslot[r] \in Slots
    /\ rpc[r] \in Past => Free(rslot[r])

(* The references to a block that reapers still have to give back: bits in *)
(* the mask of a slot without a live process, and bits a reaper has taken. *)
SlotDebts(b) == {s \in Slots : b \in holding_mask[s] /\ Free(s)}
ReaperDebts(b) == {r \in Reapers : b \in rmask[r]}
RefsInv ==
  \A b \in Blocks :
    refcount[b] >= Cardinality(LiveHolders(b)) + Cardinality(Awaited(b))
                     + Cardinality(SlotDebts(b)) + Cardinality(ReaperDebts(b))

Shape == Types /\ RegimeInv /\ SeatInv /\ MaskInv /\ ReaperInv
IInv == Shape /\ RefsInv

-----------------------------------------------------------------------------
(* Types. *)

SizeFacts ==
  /\ MaxConsumers \in Nat /\ MaxConsumers >= 1 /\ MaxBlocks \in Nat /\ Timeout \in Nat
  /\ Slots = 1 .. MaxConsumers /\ Blocks = 1 .. MaxBlocks

LEMMA Sizes == SizeFacts
BY SlotAssumption DEF Slots, Blocks, SizeFacts

(* Every step keeps the types of the variables. *)
LEMMA ProcessTypesKept ==
  ASSUME Types, NEW c \in Processes,
         Consume(c) \/ Membership(c) \/ ConsumerHeartbeat(c) \/ Crash(c)
  PROVE  ProcessTypes'
<1> USE Sizes DEF SizeFacts
<1>0. ProcessTypes
  BY Zenon DEF Types
<1>1. ASSUME NEW to \in Points, pc' = [pc EXCEPT ![c] = to] PROVE pc' \in [Processes -> Points]
  BY <1>0, <1>1, Zenon DEF ProcessTypes
<1>2. ASSUME NEW n \in 0 .. MaxConsumers, slot' = [slot EXCEPT ![c] = n]
      PROVE  slot' \in [Processes -> 0 .. MaxConsumers]
  BY <1>0, <1>2, Zenon DEF ProcessTypes
<1>3. ASSUME NEW n \in 0 .. MaxBlocks, blk' = [blk EXCEPT ![c] = n]
      PROVE  blk' \in [Processes -> 0 .. MaxBlocks]
  BY <1>0, <1>3, Zenon DEF ProcessTypes
<1>4. /\ UNCHANGED pc => pc' \in [Processes -> Points]
      /\ UNCHANGED slot => slot' \in [Processes -> 0 .. MaxConsumers]
      /\ UNCHANGED blk => blk' \in [Processes -> 0 .. MaxBlocks]
  BY <1>0, Zenon DEF ProcessTypes
<1>5. \A w \in {"out", "reg_scan", "reg_heartbeat", "reg_mask", "ready", "hold", "processing",
                "untrack", "unreg_heartbeat", "unreg_active", "dead"} : w \in Points
  BY Zenon DEF Points, Seats, Working
<1>6. pc' \in [Processes -> Points]
  BY <1>1, <1>4, <1>5, Zenon
     DEF Consume, Membership, Receive, TrackBlockHold, Release, TrackBlockRelease,
         RegisterBegin, RegisterClaim, RegisterHeartbeat, RegisterMask, UnregisterMask,
         UnregisterHeartbeat, UnregisterActive, ConsumerHeartbeat, Crash, Goto, process
<1>7. slot' \in [Processes -> 0 .. MaxConsumers]
  <2>1. slot[c] \in 0 .. MaxConsumers
    BY <1>0, Zenon DEF ProcessTypes
  <2>2. slot[c] # MaxConsumers => slot[c] + 1 \in 0 .. MaxConsumers
    BY <2>1
  <2>3. 0 \in 0 .. MaxConsumers /\ 1 \in 0 .. MaxConsumers
    OBVIOUS
  <2>4. CASE UNCHANGED slot
    BY <1>4, <2>4, Zenon
  <2>5. CASE RegisterBegin(c)
    BY <1>2, <2>3, <2>5, Zenon DEF RegisterBegin
  <2>6. CASE RegisterClaim(c)
    BY <1>2, <1>4, <2>2, <2>3, <2>6, Zenon DEF RegisterClaim
  <2>7. CASE UnregisterActive(c)
    BY <1>2, <2>3, <2>7, Zenon DEF UnregisterActive
  <2> QED
    BY <2>4, <2>5, <2>6, <2>7, Zenon
       DEF Consume, Membership, Receive, TrackBlockHold, Release, TrackBlockRelease,
           RegisterHeartbeat, RegisterMask, UnregisterMask,
           UnregisterHeartbeat, ConsumerHeartbeat, Crash, process
<1>8. blk' \in [Processes -> 0 .. MaxBlocks]
  <2>1. CASE UNCHANGED blk
    BY <1>4, <2>1, Zenon
  <2>2. ASSUME NEW b \in Blocks, Receive(c, b) PROVE blk' \in [Processes -> 0 .. MaxBlocks]
    <3>1. b \in 0 .. MaxBlocks
      OBVIOUS
    <3> QED BY <1>3, <2>2, <3>1, Zenon DEF Receive
  <2>3. CASE TrackBlockRelease(c)
    <3>1. 0 \in 0 .. MaxBlocks
      OBVIOUS
    <3> QED BY <1>3, <2>3, <3>1, Zenon DEF TrackBlockRelease
  <2> QED
    BY <2>1, <2>2, <2>3, Zenon
       DEF Consume, Membership, TrackBlockHold, Release,
           RegisterBegin, RegisterClaim, RegisterHeartbeat, RegisterMask, UnregisterMask,
           UnregisterHeartbeat, UnregisterActive, ConsumerHeartbeat, Crash, process
<1> QED BY <1>6, <1>7, <1>8, Zenon DEF ProcessTypes

LEMMA SlotTypesKept == ASSUME Types, SeatInv, MaskInv, ReaperInv, Next PROVE SlotTypes'
<1> USE Sizes DEF SizeFacts
<1>0. SlotTypes /\ ReaperTypes /\ ProcessTypes
  BY Zenon DEF Types
<1>1. ASSUME NEW s, NEW v \in {0, 1}, active' = [active EXCEPT ![s] = v]
      PROVE  active' \in [Slots -> {0, 1}]
  BY <1>0, <1>1, Zenon DEF SlotTypes
<1>2. ASSUME NEW s, NEW v \in {0, Never}, heartbeat' = [heartbeat EXCEPT ![s] = v]
      PROVE  heartbeat' \in [Slots -> Never .. Timeout + 1]
  <2>1. v \in Never .. Timeout + 1
    BY <1>2 DEF Never
  <2> QED BY <1>0, <1>2, <2>1, Zenon DEF SlotTypes
<1>3. ASSUME NEW s, NEW M \in SUBSET Blocks, holding_mask' = [holding_mask EXCEPT ![s] = M]
      PROVE  holding_mask' \in [Slots -> SUBSET Blocks]
  BY <1>0, <1>3, Zenon DEF SlotTypes
<1>4. /\ UNCHANGED active => active' \in [Slots -> {0, 1}]
      /\ UNCHANGED heartbeat => heartbeat' \in [Slots -> Never .. Timeout + 1]
      /\ UNCHANGED holding_mask => holding_mask' \in [Slots -> SUBSET Blocks]
  BY <1>0, Zenon DEF SlotTypes
<1>5. \A s \in Slots : holding_mask[s] \subseteq Blocks
  BY <1>0, Zenon DEF SlotTypes
<1>6. ASSUME NEW c \in Processes, Consume(c) \/ Membership(c) \/ ConsumerHeartbeat(c) \/ Crash(c)
      PROVE  SlotTypes'
  <2>1. Seated(c) => slot[c] \in Slots
    BY Zenon DEF SeatInv
  <2>2. active' \in [Slots -> {0, 1}]
    BY <1>1, <1>4, <1>6, Zenon
       DEF Consume, Membership, Receive, TrackBlockHold, Release, TrackBlockRelease,
           RegisterBegin, RegisterClaim, RegisterHeartbeat, RegisterMask, UnregisterMask,
           UnregisterHeartbeat, UnregisterActive, ConsumerHeartbeat, Crash, slots
  <2>3. heartbeat' \in [Slots -> Never .. Timeout + 1]
    BY <1>2, <1>4, <1>6, Zenon
       DEF Consume, Membership, Receive, TrackBlockHold, Release, TrackBlockRelease,
           RegisterBegin, RegisterClaim, RegisterHeartbeat, RegisterMask, UnregisterMask,
           UnregisterHeartbeat, UnregisterActive, ConsumerHeartbeat, Crash, slots
  <2>4. holding_mask' \in [Slots -> SUBSET Blocks]
    <3>1. CASE TrackBlockHold(c)
      <4>1. holding_mask' = [holding_mask EXCEPT ![slot[c]] = holding_mask[slot[c]] \cup {blk[c]}]
        BY <3>1, Zenon DEF TrackBlockHold
      <4>2. slot[c] \in Slots
        BY <2>1, <3>1, Zenon DEF TrackBlockHold, Goto, Seated, Seats, Working
      <4>3. blk[c] \in Blocks
        BY <3>1, Zenon DEF TrackBlockHold, Goto, MaskInv
      <4> QED BY <1>3, <1>5, <4>1, <4>2, <4>3, Zenon
    <3>2. CASE TrackBlockRelease(c)
      <4>1. holding_mask' = [holding_mask EXCEPT ![slot[c]] = holding_mask[slot[c]] \ {blk[c]}]
        BY <3>2, Zenon DEF TrackBlockRelease
      <4>2. slot[c] \in Slots
        BY <2>1, <3>2, Zenon DEF TrackBlockRelease, Goto, Seated, Seats, Working
      <4>3. holding_mask[slot[c]] \ {blk[c]} \in SUBSET Blocks
        BY <1>5, <4>2, Zenon
      <4> QED BY <1>3, <4>1, <4>3, ZenonT(40)
    <3>3. CASE RegisterMask(c) \/ UnregisterMask(c)
      BY <1>3, <3>3, Zenon DEF RegisterMask, UnregisterMask
    <3> QED
      BY <1>4, <1>6, <3>1, <3>2, <3>3, Zenon
         DEF Consume, Membership, Receive, Release,
             RegisterBegin, RegisterClaim, RegisterHeartbeat,
             UnregisterHeartbeat, UnregisterActive, ConsumerHeartbeat, Crash, slots
  <2> QED BY <2>2, <2>3, <2>4, Zenon DEF SlotTypes
<1>7. ASSUME NEW b, NEW targets, Submit(b, targets) PROVE SlotTypes'
  BY <1>4, <1>7, Zenon DEF Submit, SlotTypes, slots
<1>8. CASE Tick
  <2>1. heartbeat' \in [Slots -> Never .. Timeout + 1]
    BY <1>0, <1>8, SMTT(30) DEF Tick, SlotTypes, Never
  <2> QED BY <1>4, <1>8, <2>1, Zenon DEF Tick, SlotTypes
<1>9. ASSUME NEW r \in Reapers, Reap(r) PROVE SlotTypes'
  <2>1. active' \in [Slots -> {0, 1}] /\ heartbeat' \in [Slots -> Never .. Timeout + 1]
    BY <1>1, <1>4, <1>9, Zenon
       DEF Reap, ReapBegin, LoadActive, CheckAlive, TakeMask, FlipActive, LostClaim,
           RestoreMask, ReleaseHeld, slots
  <2>2. holding_mask' \in [Slots -> SUBSET Blocks]
    <3>1. CASE TakeMask(r)
      BY <1>3, <3>1, Zenon DEF TakeMask
    <3>2. CASE RestoreMask(r)
      <4>1. holding_mask' = [holding_mask EXCEPT ![rslot[r]] = holding_mask[rslot[r]] \cup rmask[r]]
        BY <3>2, Zenon DEF RestoreMask
      <4>2. rslot[r] \in Slots /\ rmask[r] \subseteq Blocks
        BY <1>0, <3>2, Zenon DEF RestoreMask, ReaperInv, ReaperTypes
      <4> QED BY <1>3, <1>5, <4>1, <4>2, Zenon
    <3> QED
      BY <1>4, <1>9, <3>1, <3>2, Zenon
         DEF Reap, ReapBegin, LoadActive, CheckAlive, FlipActive, LostClaim, ReleaseHeld, slots
  <2> QED BY <2>1, <2>2, Zenon DEF SlotTypes
<1> QED BY <1>6, <1>7, <1>8, <1>9, Zenon DEF Next

LEMMA ReaperTypesKept == ASSUME Types, ReaperInv, NEW r \in Reapers, Reap(r) PROVE ReaperTypes'
<1> USE Sizes DEF SizeFacts
<1>0. ReaperTypes /\ SlotTypes
  BY Zenon DEF Types
<1>1. ASSUME NEW to \in ReaperPoints, rpc' = [rpc EXCEPT ![r] = to]
      PROVE  rpc' \in [Reapers -> ReaperPoints]
  BY <1>0, <1>1, Zenon DEF ReaperTypes
<1>2. \A w \in {"take_active", "take_inactive", "flip", "lost", "restore", "release",
                "idle", "load", "alive"} : w \in ReaperPoints
  BY Zenon DEF ReaperPoints, Past
<1>3. NextSlot(r) => /\ rpc' \in [Reapers -> ReaperPoints]
                     /\ rslot' \in [Reapers -> 0 .. MaxConsumers]
  <2>1. rslot[r] \in 0 .. MaxConsumers
    BY <1>0, Zenon DEF ReaperTypes
  <2> QED BY <1>0, <1>1, <1>2, <2>1 DEF NextSlot, ReaperTypes
<1>4. /\ UNCHANGED rpc => rpc' \in [Reapers -> ReaperPoints]
      /\ UNCHANGED rslot => rslot' \in [Reapers -> 0 .. MaxConsumers]
      /\ UNCHANGED rmask => rmask' \in [Reapers -> SUBSET Blocks]
  BY <1>0, Zenon DEF ReaperTypes
<1>5. ASSUME NEW M \in SUBSET Blocks, rmask' = [rmask EXCEPT ![r] = M]
      PROVE  rmask' \in [Reapers -> SUBSET Blocks]
  BY <1>0, <1>5, Zenon DEF ReaperTypes
<1>6. CASE ReapBegin(r)
  BY <1>0, <1>1, <1>2, <1>4, <1>6 DEF ReapBegin, RGoto, ReaperTypes
<1>7. CASE LoadActive(r)
  BY <1>1, <1>2, <1>4, <1>7, Zenon DEF LoadActive, RGoto, ReaperTypes
<1>8. CASE CheckAlive(r)
  BY <1>1, <1>2, <1>3, <1>4, <1>8, Zenon DEF CheckAlive, RGoto, ReaperTypes
<1>9. CASE TakeMask(r)
  <2>1. rmask' \in [Reapers -> SUBSET Blocks]
    <3>1. rslot[r] \in Slots
      BY <1>9, Zenon DEF TakeMask, ReaperInv
    <3>2. holding_mask[rslot[r]] \in SUBSET Blocks
      BY <1>0, <3>1, Zenon DEF SlotTypes
    <3> QED BY <1>5, <1>9, <3>2, Zenon DEF TakeMask
  <2> QED BY <1>1, <1>2, <1>4, <1>9, <2>1, Zenon DEF TakeMask, ReaperTypes
<1>10. CASE FlipActive(r)
  BY <1>1, <1>2, <1>4, <1>10, Zenon DEF FlipActive, RGoto, ReaperTypes
<1>11. CASE LostClaim(r)
  BY <1>1, <1>2, <1>3, <1>4, <1>5, <1>11, Zenon DEF LostClaim, RGoto, ReaperTypes
<1>12. CASE RestoreMask(r)
  BY <1>3, <1>5, <1>12, Zenon DEF RestoreMask, ReaperTypes
<1>13. CASE ReleaseHeld(r)
  <2>1. rmask' \in [Reapers -> SUBSET Blocks]
    BY <1>0, <1>13, ZenonT(40) DEF ReleaseHeld, ReaperTypes
  <2> QED BY <1>3, <1>4, <1>13, <2>1, Zenon DEF ReleaseHeld, ReaperTypes
<1> QED BY <1>6, <1>7, <1>8, <1>9, <1>10, <1>11, <1>12, <1>13, Zenon DEF Reap

LEMMA BlockTypesKept == ASSUME Types, Next PROVE BlockTypes'
<1>0. BlockTypes
  BY Zenon DEF Types
<1>1. ASSUME NEW b, refcount' = Decremented(b) PROVE refcount' \in [Blocks -> Nat]
  <2>1. refcount' = [x \in Blocks |-> IF x = b THEN (IF refcount[x] > 0 THEN refcount[x] - 1 ELSE 0)
                                             ELSE refcount[x]]
    BY <1>0, <1>1, Zenon DEF Decremented, BlockTypes
  <2>2. \A x \in Blocks : refcount[x] \in Nat
    BY <1>0, Zenon DEF BlockTypes
  <2>3. \A x \in Blocks : (IF refcount[x] > 0 THEN refcount[x] - 1 ELSE 0) \in Nat
    BY <2>2
  <2> QED BY <2>1, <2>2, <2>3, Zenon
<1>2. /\ UNCHANGED refcount => refcount' \in [Blocks -> Nat]
      /\ UNCHANGED notified => notified' \subseteq Processes \X Blocks
  BY <1>0, Zenon DEF BlockTypes
<1>3. ASSUME NEW c \in Processes, Consume(c) \/ Membership(c) \/ ConsumerHeartbeat(c) \/ Crash(c)
      PROVE  BlockTypes'
  <2>1. refcount' \in [Blocks -> Nat]
    BY <1>1, <1>2, <1>3, Zenon
       DEF Consume, Membership, Receive, TrackBlockHold, Release, TrackBlockRelease,
           RegisterBegin, RegisterClaim, RegisterHeartbeat, RegisterMask, UnregisterMask,
           UnregisterHeartbeat, UnregisterActive, ConsumerHeartbeat, Crash, blocks
  <2>2. notified' \subseteq Processes \X Blocks
    <3>1. ASSUME NEW b \in Blocks, Receive(c, b) PROVE notified' \subseteq Processes \X Blocks
      BY <1>0, <3>1, Zenon DEF Receive, BlockTypes
    <3> QED
      BY <1>2, <1>3, <3>1, Zenon
         DEF Consume, Membership, TrackBlockHold, Release, TrackBlockRelease,
             RegisterBegin, RegisterClaim, RegisterHeartbeat, RegisterMask, UnregisterMask,
             UnregisterHeartbeat, UnregisterActive, ConsumerHeartbeat, Crash, blocks
  <2> QED BY <2>1, <2>2, Zenon DEF BlockTypes
<1>4. ASSUME NEW b \in Blocks, NEW targets \in SUBSET {c \in Processes : Registered(c)},
             Submit(b, targets)
      PROVE  BlockTypes'
  <2>1. Cardinality(targets) \in Nat
    <3>1. targets \subseteq Processes
      BY Zenon
    <3>2. IsFiniteSet(targets)
      BY <3>1, SlotAssumption, FS_Subset, Zenon
    <3> QED BY <3>2, FS_CardinalityType, Zenon
  <2>2. refcount' \in [Blocks -> Nat]
    BY <1>0, <1>4, <2>1, Zenon DEF Submit, BlockTypes
  <2>3. notified' \subseteq Processes \X Blocks
    BY <1>0, <1>4 DEF Submit, BlockTypes
  <2> QED BY <2>2, <2>3, Zenon DEF BlockTypes
<1>5. ASSUME NEW r \in Reapers, Reap(r) PROVE BlockTypes'
  BY <1>1, <1>2, <1>5, Zenon
     DEF Reap, ReapBegin, LoadActive, CheckAlive, TakeMask, FlipActive, LostClaim,
         RestoreMask, ReleaseHeld, blocks, BlockTypes
<1>6. CASE Tick
  BY <1>2, <1>6, Zenon DEF Tick, blocks, BlockTypes
<1> QED BY <1>3, <1>4, <1>5, <1>6, Zenon DEF Next

LEMMA TypesKept == ASSUME Shape, [Next]_vars PROVE Types'
<1>1. Types /\ SeatInv /\ MaskInv /\ ReaperInv
  BY Zenon DEF Shape
<1>2. ASSUME UNCHANGED process PROVE ProcessTypes'
  BY <1>1, <1>2, Zenon DEF Types, ProcessTypes, process
<1>3. ASSUME UNCHANGED reaper PROVE ReaperTypes'
  BY <1>1, <1>3, Zenon DEF Types, ReaperTypes, reaper
<1>4. CASE UNCHANGED vars
  <2>1. UNCHANGED process /\ UNCHANGED reaper /\ UNCHANGED slots /\ UNCHANGED blocks
    BY <1>4, Zenon DEF vars
  <2>2. SlotTypes' /\ BlockTypes'
    BY <1>1, <2>1, Zenon DEF Types, SlotTypes, BlockTypes, slots, blocks
  <2> QED BY <1>2, <1>3, <2>1, <2>2, Zenon DEF Types
<1>5. CASE Next
  <2>1. SlotTypes' /\ BlockTypes'
    BY <1>1, <1>5, SlotTypesKept, BlockTypesKept, Zenon
  <2>2. ASSUME NEW c \in Processes, Consume(c) \/ Membership(c) \/ ConsumerHeartbeat(c) \/ Crash(c)
        PROVE  ProcessTypes' /\ ReaperTypes'
    <3>1. UNCHANGED reaper
      BY <2>2, Zenon
         DEF Consume, Membership, Receive, TrackBlockHold, Release, TrackBlockRelease,
             RegisterBegin, RegisterClaim, RegisterHeartbeat, RegisterMask, UnregisterMask,
             UnregisterHeartbeat, UnregisterActive, ConsumerHeartbeat, Crash
    <3> QED BY <1>1, <1>3, <2>2, <3>1, ProcessTypesKept, Zenon
  <2>3. ASSUME NEW r \in Reapers, Reap(r) PROVE ProcessTypes' /\ ReaperTypes'
    <3>1. UNCHANGED process
      BY <2>3, Zenon
         DEF Reap, ReapBegin, LoadActive, CheckAlive, TakeMask, FlipActive, LostClaim,
             RestoreMask, ReleaseHeld
    <3> QED BY <1>1, <1>2, <2>3, <3>1, ReaperTypesKept, Zenon
  <2>4. ASSUME NEW b, NEW targets, Submit(b, targets) PROVE ProcessTypes' /\ ReaperTypes'
    BY <1>2, <1>3, <2>4, Zenon DEF Submit
  <2>5. CASE Tick
    BY <1>2, <1>3, <2>1, <2>5, Zenon DEF Tick, Types
  <2> QED BY <1>5, <2>1, <2>2, <2>3, <2>4, <2>5, Zenon DEF Next, Types
<1> QED BY <1>4, <1>5, Zenon

-----------------------------------------------------------------------------
(* The shape of the slots, kind of step by kind of step. *)

(* A process stays in its slot s. *)
StaysSeated(c, s) ==
  /\ Seated(c) /\ Seated(c)'
  /\ \A d \in Processes \ {c} : pc'[d] = pc[d] /\ blk'[d] = blk[d]
  /\ UNCHANGED <<joining, reaping, slot, active, rpc, rslot>>
  /\ \A t \in Slots \ {s} : heartbeat'[t] = heartbeat[t] /\ holding_mask'[t] = holding_mask[t]
  /\ ~joining => pc'[c] \in Working
  /\ holding_mask'[s] = IF pc'[c] \in {"processing", "untrack"} THEN {blk'[c]} ELSE {}
  /\ pc'[c] \in {"hold", "processing", "untrack"} => blk'[c] \in Blocks
  /\ Beating(c)' => heartbeat'[s] \in 0 .. Timeout

LEMMA SeatedStep ==
  ASSUME Shape, Types', NEW c \in Processes, NEW s \in Slots, s = slot[c], StaysSeated(c, s)
  PROVE  Shape' /\ \A b \in Blocks : SlotDebts(b)' = SlotDebts(b)
<1> USE DEF StaysSeated
<1>1. \A d \in Processes : Seated(d)' <=> Seated(d)
  BY Zenon DEF Seated
<1>2. \A t : Free(t)' <=> Free(t)
  BY <1>1, Zenon DEF Free
<1>3. \A d \in Processes \ {c} : Seated(d) => slot[d] \in Slots /\ slot[d] # s
  BY Zenon DEF Shape, SeatInv
<1>4. \A d \in Processes : Beating(d) => Seated(d)
  BY Zenon DEF Beating, Registered, Seated, Seats, Working
<1>5. RegimeInv'
  BY Zenon DEF Shape, RegimeInv, regime
<1>6. SeatInv'
  <2>1. \A d \in Processes : Seated(d)' => slot'[d] \in Slots /\ active'[slot'[d]] = 1
    BY <1>1, Zenon DEF Shape, SeatInv
  <2>2. \A d \in Processes : pc'[d] = "reg_scan" => slot'[d] \in Slots
    BY <1>1, Zenon DEF Shape, SeatInv, Seated, Seats, Working
  <2>3. \A d \in Processes : \A e \in Processes :
          d # e /\ Seated(d)' /\ Seated(e)' => slot'[d] # slot'[e]
    BY <1>1, Zenon DEF Shape, SeatInv
  <2>4. ASSUME NEW d \in Processes, Beating(d)' PROVE heartbeat'[slot'[d]] \in 0 .. Timeout
    <3>1. CASE d = c
      BY <2>4, <3>1, Zenon
    <3>2. CASE d # c
      <4>1. Beating(d)
        BY <2>4, <3>2, Zenon DEF Beating, Registered
      <4> QED BY <1>3, <1>4, <3>2, <4>1, Zenon DEF Shape, SeatInv
    <3> QED BY <3>1, <3>2, Zenon
  <2> QED BY <2>1, <2>2, <2>3, <2>4, Zenon DEF SeatInv
<1>7. MaskInv'
  <2>1. ASSUME NEW d \in Processes, Seated(d)'
        PROVE  holding_mask'[slot'[d]] = IF pc'[d] \in {"processing", "untrack"} THEN {blk'[d]} ELSE {}
    BY <1>1, <1>3, <2>1, ZenonT(30) DEF Shape, MaskInv
  <2>2. \A d \in Processes : pc'[d] \in {"hold", "processing", "untrack"} => blk'[d] \in Blocks
    BY Zenon DEF Shape, MaskInv
  <2>3. joining' => \A t \in Slots : Free(t)' => holding_mask'[t] = {}
    BY <1>2, Zenon DEF Shape, MaskInv, Free
  <2> QED BY <2>1, <2>2, <2>3, Zenon DEF MaskInv
<1>8. ReaperInv'
  BY <1>2, Zenon DEF Shape, ReaperInv
<1>9. ASSUME NEW b \in Blocks PROVE SlotDebts(b)' = SlotDebts(b)
  <2>1. ~Free(s)
    BY Zenon DEF Free
  <2> QED BY <1>2, <2>1, ZenonT(30) DEF SlotDebts
<1> QED BY <1>5, <1>6, <1>7, <1>8, <1>9, Zenon DEF Shape

(* A process that is not seated before or after. *)
LEMMA OutsideStep ==
  ASSUME Shape, Types', NEW c \in Processes, ~Seated(c), ~Seated(c)',
         \A d \in Processes \ {c} : pc'[d] = pc[d] /\ blk'[d] = blk[d] /\ slot'[d] = slot[d],
         UNCHANGED <<joining, reaping, active, heartbeat, holding_mask, rpc, rslot>>,
         pc'[c] = "reg_scan" => joining /\ slot'[c] \in Slots
  PROVE  Shape' /\ \A b \in Blocks : SlotDebts(b)' = SlotDebts(b)
<1>1. \A d \in Processes : /\ Seated(d)' <=> Seated(d)
                           /\ Seated(d) => d # c /\ slot'[d] = slot[d] /\ blk'[d] = blk[d]
  BY Zenon DEF Seated
<1>2. \A t : Free(t)' <=> Free(t)
  BY <1>1, Zenon DEF Free
<1>3. \A d \in Processes : /\ Beating(d) => Seated(d)
                           /\ Beating(d)' => Beating(d)
  BY Zenon DEF Beating, Registered, Seated, Seats, Working
<1>4. pc'[c] \in {"out", "reg_scan", "dead"}
  BY Zenon DEF Types, ProcessTypes, Seated, Points
<1>5. RegimeInv'
  BY <1>4, Zenon DEF Shape, RegimeInv, regime
<1>6. SeatInv'
  <2>1. \A d \in Processes : Seated(d)' => slot'[d] \in Slots /\ active'[slot'[d]] = 1
    BY <1>1, ZenonT(40) DEF Shape, SeatInv
  <2>2. \A d \in Processes : pc'[d] = "reg_scan" => slot'[d] \in Slots
    BY Zenon DEF Shape, SeatInv
  <2>3. \A d \in Processes : \A e \in Processes :
          d # e /\ Seated(d)' /\ Seated(e)' => slot'[d] # slot'[e]
    BY <1>1, ZenonT(30) DEF Shape, SeatInv
  <2>4. \A d \in Processes : Beating(d)' => heartbeat'[slot'[d]] \in 0 .. Timeout
    BY <1>1, <1>3, Zenon DEF Shape, SeatInv
  <2> QED BY <2>1, <2>2, <2>3, <2>4, Zenon DEF SeatInv
<1>7. MaskInv'
  <2>1. \A d \in Processes : Seated(d)' =>
          holding_mask'[slot'[d]] = IF pc'[d] \in {"processing", "untrack"} THEN {blk'[d]} ELSE {}
    BY <1>1, Zenon DEF Shape, MaskInv
  <2>2. \A d \in Processes : pc'[d] \in {"hold", "processing", "untrack"} => blk'[d] \in Blocks
    BY <1>4, Zenon DEF Shape, MaskInv
  <2>3. joining' => \A t \in Slots : Free(t)' => holding_mask'[t] = {}
    BY <1>2, Zenon DEF Shape, MaskInv
  <2> QED BY <2>1, <2>2, <2>3, Zenon DEF MaskInv
<1>8. ReaperInv'
  BY <1>2, Zenon DEF Shape, ReaperInv
<1>9. \A b \in Blocks : SlotDebts(b)' = SlotDebts(b)
  BY <1>2, Zenon DEF SlotDebts
<1> QED BY <1>5, <1>6, <1>7, <1>8, <1>9, Zenon DEF Shape

(* A process takes an inactive slot, while no reaper runs. *)
LEMMA EnterStep ==
  ASSUME Shape, Types', NEW c \in Processes, NEW s \in Slots, s = slot[c], joining,
         ~Seated(c), active[s] = 0, pc'[c] = "reg_heartbeat",
         \A d \in Processes \ {c} : pc'[d] = pc[d],
         UNCHANGED <<joining, reaping, slot, blk, heartbeat, holding_mask, rpc, rslot>>,
         active' = [active EXCEPT ![s] = 1]
  PROVE  Shape' /\ \A b \in Blocks : SlotDebts(b)' = SlotDebts(b)
<1>1. Free(s)
  BY DEF Free, Shape, SeatInv
<1>2. \A d \in Processes \ {c} : /\ Seated(d)' <=> Seated(d)
                                 /\ Seated(d) => slot[d] # s
  BY <1>1, Zenon DEF Seated, Free
<1>3. Seated(c)'
  BY Zenon DEF Seated, Seats
<1>4. \A t \in Slots \ {s} : Free(t)' <=> Free(t)
  BY <1>2, Zenon DEF Free
<1>5. ~Free(s)'
  BY <1>3, Zenon DEF Free
<1>6. \A d \in Processes : Beating(d)' => Beating(d)
  BY Zenon DEF Beating, Registered
<1>7. active'[s] = 1 /\ \A t \in Slots \ {s} : active'[t] = active[t]
  BY Zenon DEF Shape, Types, SlotTypes
<1>8. RegimeInv'
  BY Zenon DEF Shape, RegimeInv, regime
<1>9. SeatInv'
  <2>1. \A d \in Processes : Seated(d)' => slot'[d] \in Slots /\ active'[slot'[d]] = 1
    BY <1>2, <1>7, Zenon DEF Shape, SeatInv
  <2>2. \A d \in Processes : pc'[d] = "reg_scan" => slot'[d] \in Slots
    BY Zenon DEF Shape, SeatInv
  <2>3. \A d \in Processes : \A e \in Processes :
          d # e /\ Seated(d)' /\ Seated(e)' => slot'[d] # slot'[e]
    BY <1>2, Zenon DEF Shape, SeatInv
  <2>4. \A d \in Processes : Beating(d)' => heartbeat'[slot'[d]] \in 0 .. Timeout
    BY <1>6, Zenon DEF Shape, SeatInv
  <2> QED BY <2>1, <2>2, <2>3, <2>4, Zenon DEF SeatInv
<1>10. MaskInv'
  <2>1. \A d \in Processes : Seated(d)' =>
          holding_mask'[slot'[d]] = IF pc'[d] \in {"processing", "untrack"} THEN {blk'[d]} ELSE {}
    BY <1>1, <1>2, Zenon DEF Shape, MaskInv
  <2>2. \A d \in Processes : pc'[d] \in {"hold", "processing", "untrack"} => blk'[d] \in Blocks
    BY Zenon DEF Shape, MaskInv
  <2>3. \A t \in Slots : Free(t)' => holding_mask'[t] = {}
    BY <1>4, <1>5, Zenon DEF Shape, MaskInv
  <2> QED BY <2>1, <2>2, <2>3, Zenon DEF MaskInv
<1>11. ReaperInv'
  <2>1. \A r \in Reapers : rpc'[r] = "idle"
    BY Zenon DEF Shape, RegimeInv
  <2> QED BY <2>1, Zenon DEF ReaperInv, Past
<1>12. ASSUME NEW b \in Blocks PROVE SlotDebts(b)' = SlotDebts(b)
  <2>1. SlotDebts(b) = {}
    BY Zenon DEF SlotDebts, Shape, MaskInv
  <2>2. SlotDebts(b)' = {}
    BY <1>10, Zenon DEF SlotDebts, MaskInv
  <2> QED BY <2>1, <2>2, Zenon
<1> QED BY <1>8, <1>9, <1>10, <1>11, <1>12, Zenon DEF Shape

(* A process leaves its slot, or dies in it. *)
LEMMA LeaveStep ==
  ASSUME Shape, Types', NEW c \in Processes, NEW s \in Slots, s = slot[c],
         Seated(c), pc'[c] \in {"out", "dead"},
         \A d \in Processes \ {c} : pc'[d] = pc[d] /\ slot'[d] = slot[d],
         UNCHANGED <<joining, reaping, blk, heartbeat, holding_mask, rpc, rslot>>,
         \A t \in Slots \ {s} : active'[t] = active[t],
         joining => holding_mask[s] = {}
  PROVE  /\ Shape'
         /\ \A b \in Blocks : SlotDebts(b)' \subseteq IF b \in holding_mask[s] THEN SlotDebts(b) \cup {s}
                                                                             ELSE SlotDebts(b)
<1>1. ~Seated(c)'
  BY Zenon DEF Seated, Seats, Working
<1>2. \A d \in Processes \ {c} : /\ Seated(d)' <=> Seated(d)
                                 /\ Seated(d) => slot[d] # s
  BY Zenon DEF Seated, Shape, SeatInv
<1>3. \A t \in Slots \ {s} : Free(t)' <=> Free(t)
  BY <1>1, <1>2, Zenon DEF Free
<1>4. \A t \in Slots : Free(t) => Free(t)'
  BY <1>1, <1>2, Zenon DEF Free
<1>5. \A d \in Processes : Beating(d)' => d # c /\ Beating(d) /\ Seated(d)
  BY Zenon DEF Beating, Registered, Seated, Seats, Working
<1>6. RegimeInv'
  BY Zenon DEF Shape, RegimeInv, regime
<1>7. SeatInv'
  <2>1. \A d \in Processes : Seated(d)' => slot'[d] \in Slots /\ active'[slot'[d]] = 1
    BY <1>1, <1>2 DEF Shape, SeatInv
  <2>2. \A d \in Processes : pc'[d] = "reg_scan" => slot'[d] \in Slots
    BY Zenon DEF Shape, SeatInv
  <2>3. \A d \in Processes : \A e \in Processes :
          d # e /\ Seated(d)' /\ Seated(e)' => slot'[d] # slot'[e]
    BY <1>1, <1>2, ZenonT(30) DEF Shape, SeatInv
  <2>4. \A d \in Processes : Beating(d)' => heartbeat'[slot'[d]] \in 0 .. Timeout
    BY <1>5, Zenon DEF Shape, SeatInv
  <2> QED BY <2>1, <2>2, <2>3, <2>4, Zenon DEF SeatInv
<1>8. MaskInv'
  <2>1. \A d \in Processes : Seated(d)' =>
          holding_mask'[slot'[d]] = IF pc'[d] \in {"processing", "untrack"} THEN {blk'[d]} ELSE {}
    BY <1>1, <1>2, Zenon DEF Shape, MaskInv
  <2>2. \A d \in Processes : pc'[d] \in {"hold", "processing", "untrack"} => blk'[d] \in Blocks
    BY Zenon DEF Shape, MaskInv
  <2>3. joining' => \A t \in Slots : Free(t)' => holding_mask'[t] = {}
    BY <1>3, Zenon DEF Shape, MaskInv
  <2> QED BY <2>1, <2>2, <2>3, Zenon DEF MaskInv
<1>9. ReaperInv'
  BY <1>4, Zenon DEF Shape, ReaperInv, Past
<1>10. ASSUME NEW b \in Blocks
       PROVE  SlotDebts(b)' \subseteq IF b \in holding_mask[s] THEN SlotDebts(b) \cup {s} ELSE SlotDebts(b)
  BY <1>3, Zenon DEF SlotDebts
<1> QED BY <1>6, <1>7, <1>8, <1>9, <1>10, Zenon DEF Shape

(* A reaper, the producer, or nobody: no process moves, and what a live    *)
(* process has in its slot stays.                                          *)
LEMMA OthersStep ==
  ASSUME Shape, Types', UNCHANGED <<joining, reaping, pc, slot, blk, heartbeat>>,
         \A t \in Slots : ~Free(t) => active'[t] = active[t] /\ holding_mask'[t] = holding_mask[t],
         joining => UNCHANGED <<holding_mask, rpc>>,
         \A r \in Reapers : /\ rpc'[r] # "idle" => rslot'[r] \in Slots
                            /\ rpc'[r] \in Past => Free(rslot'[r])
  PROVE  Shape' /\ \A t \in Slots : Free(t)' <=> Free(t)
<1>1. \A c \in Processes : /\ Seated(c)' <=> Seated(c)
                           /\ Beating(c)' <=> Beating(c)
                           /\ Seated(c) => slot[c] \in Slots /\ ~Free(slot[c])
  BY Zenon DEF Seated, Beating, Registered, Shape, SeatInv, Free
<1>2. \A t : Free(t)' <=> Free(t)
  BY <1>1, Zenon DEF Free
<1>3. RegimeInv'
  BY Zenon DEF Shape, RegimeInv, regime
<1>4. SeatInv'
  BY <1>1, Zenon DEF Shape, SeatInv
<1>5. MaskInv'
  BY <1>1, <1>2, Zenon DEF Shape, MaskInv
<1>6. ReaperInv'
  BY <1>2, Zenon DEF ReaperInv
<1> QED BY <1>2, <1>3, <1>4, <1>5, <1>6, Zenon DEF Shape

(* Time passes. *)
LEMMA TickStep ==
  ASSUME Shape, Types', Tick
  PROVE  Shape' /\ \A b \in Blocks : SlotDebts(b)' = SlotDebts(b)
<1> USE Sizes DEF SizeFacts
<1>0. UNCHANGED <<joining, reaping, active, holding_mask, pc, slot, blk, rpc, rslot>>
  BY Zenon DEF Tick, regime, process, reaper
<1>1. \A c \in Processes : /\ Seated(c)' <=> Seated(c)
                           /\ Beating(c)' <=> Beating(c)
                           /\ Beating(c) => Seated(c)
  BY <1>0, Zenon DEF Seated, Beating, Registered, Seats, Working
<1>2. \A t : Free(t)' <=> Free(t)
  BY <1>0, <1>1, Zenon DEF Free
<1>3. RegimeInv'
  BY <1>0, Zenon DEF Shape, RegimeInv, regime
<1>4. SeatInv'
  <2>1. ASSUME NEW c \in Processes, Beating(c) PROVE heartbeat'[slot[c]] \in 0 .. Timeout
    <3>1. slot[c] \in Slots /\ heartbeat[slot[c]] \in 0 .. Timeout /\ heartbeat[slot[c]] < Timeout
      BY <1>1, <2>1, Zenon DEF Shape, SeatInv, Tick
    <3>2. heartbeat'[slot[c]] = heartbeat[slot[c]] + 1
      BY <3>1, Zenon DEF Tick
    <3> QED BY <3>1, <3>2
  <2> QED BY <1>0, <1>1, <2>1, Zenon DEF Shape, SeatInv
<1>5. MaskInv'
  BY <1>0, <1>1, <1>2, Zenon DEF Shape, MaskInv
<1>6. ReaperInv'
  BY <1>0, <1>2, Zenon DEF Shape, ReaperInv
<1>7. \A b \in Blocks : SlotDebts(b)' = SlotDebts(b)
  BY <1>0, <1>2, Zenon DEF SlotDebts
<1> QED BY <1>3, <1>4, <1>5, <1>6, <1>7, Zenon DEF Shape

-----------------------------------------------------------------------------
(* Counting references. *)

(* n references are enough for live holders H, notifications A, masks of   *)
(* slots S and bits taken by reapers R.                                    *)
Enough(n, H, A, S, R) == n >= Cardinality(H) + Cardinality(A) + Cardinality(S) + Cardinality(R)

(* The same set or less; one element more; one element less. *)
LEMMA Fewer ==
  ASSUME NEW X, NEW Y, IsFiniteSet(X), Y \subseteq X
  PROVE  Cardinality(Y) \in Nat /\ Cardinality(X) \in Nat /\ Cardinality(Y) <= Cardinality(X)
BY FS_Subset, FS_CardinalityType, Zenon

LEMMA OneMore ==
  ASSUME NEW X, NEW Y, NEW x, IsFiniteSet(X), Y \subseteq X \cup {x}
  PROVE  Cardinality(Y) \in Nat /\ Cardinality(X) \in Nat /\ Cardinality(Y) <= Cardinality(X) + 1
<1>1. IsFiniteSet(X \cup {x}) /\ Cardinality(X) \in Nat
      /\ (Cardinality(X \cup {x}) = Cardinality(X) \/ Cardinality(X \cup {x}) = Cardinality(X) + 1)
  BY FS_AddElement, FS_CardinalityType, Zenon
<1>2. /\ Cardinality(Y) \in Nat /\ Cardinality(X \cup {x}) \in Nat
      /\ Cardinality(Y) <= Cardinality(X \cup {x})
  BY <1>1, Fewer, Zenon
<1> QED BY <1>1, <1>2

LEMMA OneLess ==
  ASSUME NEW X, NEW Y, NEW x \in X, IsFiniteSet(X), Y \subseteq X \ {x}
  PROVE  Cardinality(Y) \in Nat /\ Cardinality(X) \in Nat /\ Cardinality(Y) + 1 <= Cardinality(X)
<1>1. IsFiniteSet(X \ {x}) /\ Cardinality(X) \in Nat /\ Cardinality(X \ {x}) = Cardinality(X) - 1
  BY FS_RemoveElement, FS_CardinalityType, Zenon
<1>2. /\ Cardinality(Y) \in Nat /\ Cardinality(X \ {x}) \in Nat
      /\ Cardinality(Y) <= Cardinality(X \ {x})
  BY <1>1, Fewer, Zenon
<1> QED BY <1>1, <1>2

(* Nothing is added. *)
LEMMA EnoughKept ==
  ASSUME NEW n \in Nat, NEW H, NEW A, NEW S, NEW R, NEW H1, NEW A1, NEW S1, NEW R1,
         IsFiniteSet(H), IsFiniteSet(A), IsFiniteSet(S), IsFiniteSet(R),
         H1 \subseteq H, A1 \subseteq A, S1 \subseteq S, R1 \subseteq R, Enough(n, H, A, S, R)
  PROVE  Enough(n, H1, A1, S1, R1)
<1>1. Cardinality(H1) \in Nat /\ Cardinality(H) \in Nat /\ Cardinality(H1) <= Cardinality(H)
  BY Fewer, Zenon
<1>2. Cardinality(A1) \in Nat /\ Cardinality(A) \in Nat /\ Cardinality(A1) <= Cardinality(A)
  BY Fewer, Zenon
<1>3. Cardinality(S1) \in Nat /\ Cardinality(S) \in Nat /\ Cardinality(S1) <= Cardinality(S)
  BY Fewer, Zenon
<1>4. Cardinality(R1) \in Nat /\ Cardinality(R) \in Nat /\ Cardinality(R1) <= Cardinality(R)
  BY Fewer, Zenon
<1> QED BY <1>1, <1>2, <1>3, <1>4, SMTT(30) DEF Enough

(* Receive: a notification becomes a holder. *)
LEMMA EnoughReceived ==
  ASSUME NEW n \in Nat, NEW H, NEW A, NEW S, NEW R, NEW H1, NEW A1, NEW c, NEW m \in A,
         IsFiniteSet(H), IsFiniteSet(A), IsFiniteSet(S), IsFiniteSet(R),
         H1 \subseteq H \cup {c}, A1 \subseteq A \ {m}, Enough(n, H, A, S, R)
  PROVE  Enough(n, H1, A1, S, R)
<1>1. Cardinality(H1) \in Nat /\ Cardinality(H) \in Nat /\ Cardinality(H1) <= Cardinality(H) + 1
  BY OneMore, Zenon
<1>2. Cardinality(A1) \in Nat /\ Cardinality(A) \in Nat /\ Cardinality(A1) + 1 <= Cardinality(A)
  BY OneLess, Zenon
<1>3. Cardinality(S) \in Nat /\ Cardinality(R) \in Nat
  BY FS_CardinalityType, Zenon
<1> QED BY <1>1, <1>2, <1>3 DEF Enough

(* Release: a holder gives back its reference. *)
LEMMA EnoughReleased ==
  ASSUME NEW n \in Nat, NEW H, NEW A, NEW S, NEW R, NEW H1, NEW c \in H,
         IsFiniteSet(H), IsFiniteSet(A), IsFiniteSet(S), IsFiniteSet(R),
         H1 \subseteq H \ {c}, Enough(n, H, A, S, R)
  PROVE  Enough(IF n > 0 THEN n - 1 ELSE 0, H1, A, S, R)
<1>1. Cardinality(H1) \in Nat /\ Cardinality(H) \in Nat /\ Cardinality(H1) + 1 <= Cardinality(H)
  BY OneLess, Zenon
<1>2. Cardinality(A) \in Nat /\ Cardinality(S) \in Nat /\ Cardinality(R) \in Nat
  BY FS_CardinalityType, Zenon
<1> QED BY <1>1, <1>2 DEF Enough

(* Crash: a holder becomes a debt of its slot. *)
LEMMA EnoughCrashed ==
  ASSUME NEW n \in Nat, NEW H, NEW A, NEW S, NEW R, NEW H1, NEW S1, NEW c \in H, NEW s,
         IsFiniteSet(H), IsFiniteSet(A), IsFiniteSet(S), IsFiniteSet(R),
         H1 \subseteq H \ {c}, S1 \subseteq S \cup {s}, Enough(n, H, A, S, R)
  PROVE  Enough(n, H1, A, S1, R)
<1>1. Cardinality(H1) \in Nat /\ Cardinality(H) \in Nat /\ Cardinality(H1) + 1 <= Cardinality(H)
  BY OneLess, Zenon
<1>2. Cardinality(S1) \in Nat /\ Cardinality(S) \in Nat /\ Cardinality(S1) <= Cardinality(S) + 1
  BY OneMore, Zenon
<1>3. Cardinality(A) \in Nat /\ Cardinality(R) \in Nat
  BY FS_CardinalityType, Zenon
<1> QED BY <1>1, <1>2, <1>3 DEF Enough

(* TakeMask: the debt of a slot becomes the reaper's. *)
LEMMA EnoughTaken ==
  ASSUME NEW n \in Nat, NEW H, NEW A, NEW S, NEW R, NEW S1, NEW R1, NEW s \in S, NEW r,
         IsFiniteSet(H), IsFiniteSet(A), IsFiniteSet(S), IsFiniteSet(R),
         S1 \subseteq S \ {s}, R1 \subseteq R \cup {r}, Enough(n, H, A, S, R)
  PROVE  Enough(n, H, A, S1, R1)
<1>1. Cardinality(S1) \in Nat /\ Cardinality(S) \in Nat /\ Cardinality(S1) + 1 <= Cardinality(S)
  BY OneLess, Zenon
<1>2. Cardinality(R1) \in Nat /\ Cardinality(R) \in Nat /\ Cardinality(R1) <= Cardinality(R) + 1
  BY OneMore, Zenon
<1>3. Cardinality(H) \in Nat /\ Cardinality(A) \in Nat
  BY FS_CardinalityType, Zenon
<1> QED BY <1>1, <1>2, <1>3 DEF Enough

(* RestoreMask: the reaper's debt goes back to the slot. *)
LEMMA EnoughRestored ==
  ASSUME NEW n \in Nat, NEW H, NEW A, NEW S, NEW R, NEW S1, NEW R1, NEW s, NEW r \in R,
         IsFiniteSet(H), IsFiniteSet(A), IsFiniteSet(S), IsFiniteSet(R),
         S1 \subseteq S \cup {s}, R1 \subseteq R \ {r}, Enough(n, H, A, S, R)
  PROVE  Enough(n, H, A, S1, R1)
<1>1. Cardinality(S1) \in Nat /\ Cardinality(S) \in Nat /\ Cardinality(S1) <= Cardinality(S) + 1
  BY OneMore, Zenon
<1>2. Cardinality(R1) \in Nat /\ Cardinality(R) \in Nat /\ Cardinality(R1) + 1 <= Cardinality(R)
  BY OneLess, Zenon
<1>3. Cardinality(H) \in Nat /\ Cardinality(A) \in Nat
  BY FS_CardinalityType, Zenon
<1> QED BY <1>1, <1>2, <1>3 DEF Enough

(* ReleaseHeld: the reaper pays. *)
LEMMA EnoughPaid ==
  ASSUME NEW n \in Nat, NEW H, NEW A, NEW S, NEW R, NEW R1, NEW r \in R,
         IsFiniteSet(H), IsFiniteSet(A), IsFiniteSet(S), IsFiniteSet(R),
         R1 \subseteq R \ {r}, Enough(n, H, A, S, R)
  PROVE  Enough(IF n > 0 THEN n - 1 ELSE 0, H, A, S, R1)
<1>1. Cardinality(R1) \in Nat /\ Cardinality(R) \in Nat /\ Cardinality(R1) + 1 <= Cardinality(R)
  BY OneLess, Zenon
<1>2. Cardinality(H) \in Nat /\ Cardinality(A) \in Nat /\ Cardinality(S) \in Nat
  BY FS_CardinalityType, Zenon
<1> QED BY <1>1, <1>2 DEF Enough

(* Submit: a block without references has no holder, notification or debt, *)
(* and gets one reference for each process it notifies.                    *)
LEMMA EnoughSubmitted ==
  ASSUME NEW H, NEW A, NEW S, NEW R, NEW T, NEW A1, NEW b,
         IsFiniteSet(H), IsFiniteSet(A), IsFiniteSet(S), IsFiniteSet(R), IsFiniteSet(T),
         Enough(0, H, A, S, R), A1 \subseteq A \cup {<<c, b>> : c \in T}
  PROVE  Enough(Cardinality(T), H, A1, S, R)
<1>1. Cardinality(H) \in Nat /\ Cardinality(A) \in Nat /\ Cardinality(S) \in Nat /\ Cardinality(R) \in Nat
  BY FS_CardinalityType, Zenon
<1>2. Cardinality(H) = 0 /\ Cardinality(A) = 0 /\ Cardinality(S) = 0 /\ Cardinality(R) = 0
  <2>1. \A h, a, k, r \in Nat : 0 >= h + a + k + r => h = 0 /\ a = 0 /\ k = 0 /\ r = 0
    OBVIOUS
  <2>2. 0 >= Cardinality(H) + Cardinality(A) + Cardinality(S) + Cardinality(R)
    BY Zenon DEF Enough
  <2> QED BY <1>1, <2>1, <2>2, Zenon
<1>3. A = {}
  BY <1>2, FS_EmptySet, Zenon
<1>4. IsFiniteSet({<<c, b>> : c \in T}) /\ Cardinality({<<c, b>> : c \in T}) <= Cardinality(T)
  <2> DEFINE f == [c \in T |-> <<c, b>>]
  <2>1. f \in Surjection(T, {<<c, b>> : c \in T})
    BY Zenon DEF Surjection
  <2> QED BY <2>1, FS_Surjection, Zenon
<1>5. /\ Cardinality(A1) \in Nat /\ Cardinality({<<c, b>> : c \in T}) \in Nat
      /\ Cardinality(A1) <= Cardinality({<<c, b>> : c \in T})
  BY <1>3, <1>4, Fewer, Zenon
<1>6. Cardinality(T) \in Nat
  BY FS_CardinalityType, Zenon
<1> QED BY <1>2, <1>4, <1>5, <1>6, SMTT(30) DEF Enough

(* What is counted is finite. *)
FiniteFacts ==
  \A b \in Blocks :
    /\ IsFiniteSet(LiveHolders(b)) /\ IsFiniteSet(Awaited(b))
    /\ IsFiniteSet(SlotDebts(b)) /\ IsFiniteSet(ReaperDebts(b))

LEMMA Finite == ASSUME Types PROVE FiniteFacts
<1>1. IsFiniteSet(Processes) /\ IsFiniteSet(Reapers)
  BY SlotAssumption, Zenon
<1>2. IsFiniteSet(Slots) /\ IsFiniteSet(Blocks)
  BY Sizes, FS_Interval DEF SizeFacts
<1>3. IsFiniteSet(Processes \X Blocks)
  BY <1>1, <1>2, FS_Product, Zenon
<1>4. ASSUME NEW b \in Blocks PROVE IsFiniteSet(LiveHolders(b)) /\ IsFiniteSet(ReaperDebts(b))
  BY <1>1, FS_Subset, Zenon DEF LiveHolders, ReaperDebts
<1>5. ASSUME NEW b \in Blocks PROVE IsFiniteSet(SlotDebts(b))
  BY <1>2, FS_Subset, Zenon DEF SlotDebts
<1>6. ASSUME NEW b \in Blocks PROVE IsFiniteSet(Awaited(b))
  BY <1>3, FS_Subset, Zenon DEF Awaited, Types, BlockTypes
<1> QED BY <1>4, <1>5, <1>6, Zenon DEF FiniteFacts

Counted(b) == Enough(refcount[b], LiveHolders(b), Awaited(b), SlotDebts(b), ReaperDebts(b))

(* RefsInv is about each block. *)
LEMMA CountedEach == RefsInv <=> \A b \in Blocks : Counted(b)
BY Zenon DEF RefsInv, Counted, Enough

LEMMA CountedBefore ==
  ASSUME IInv, NEW b \in Blocks
  PROVE  /\ refcount[b] \in Nat
         /\ IsFiniteSet(LiveHolders(b)) /\ IsFiniteSet(Awaited(b))
         /\ IsFiniteSet(SlotDebts(b)) /\ IsFiniteSet(ReaperDebts(b))
         /\ Enough(refcount[b], LiveHolders(b), Awaited(b), SlotDebts(b), ReaperDebts(b))
BY Finite, CountedEach, Zenon DEF IInv, Shape, Types, BlockTypes, FiniteFacts, Counted

(* A block that no step of this kind concerns. *)
NoMore(b) ==
  /\ refcount'[b] = refcount[b]
  /\ LiveHolders(b)' \subseteq LiveHolders(b) /\ Awaited(b)' \subseteq Awaited(b)
  /\ SlotDebts(b)' \subseteq SlotDebts(b) /\ ReaperDebts(b)' \subseteq ReaperDebts(b)

LEMMA NoMoreCounted == ASSUME IInv, NEW b \in Blocks, NoMore(b) PROVE Counted(b)'
<1>1. Enough(refcount[b], LiveHolders(b)', Awaited(b)', SlotDebts(b)', ReaperDebts(b)')
  BY CountedBefore, EnoughKept, Zenon DEF NoMore
<1> QED BY <1>1, Zenon DEF Counted, NoMore

LEMMA NoMoreKept == ASSUME IInv, \A b \in Blocks : NoMore(b) PROVE RefsInv'
<1>1. \A b \in Blocks : Counted(b)'
  BY NoMoreCounted, Zenon
<1> QED BY <1>1, Zenon DEF RefsInv, Counted, Enough

-----------------------------------------------------------------------------
(* The inductive invariant, action by action. *)

(* A process that registers or leaves, in its slot. *)
LEMMA InSlotKept ==
  ASSUME IInv, Types', NEW c \in Processes,
         RegisterHeartbeat(c) \/ RegisterMask(c) \/ UnregisterMask(c) \/ UnregisterHeartbeat(c)
           \/ ConsumerHeartbeat(c)
  PROVE  IInv'
<1> USE Sizes DEF SizeFacts
<1>0. Seated(c) /\ Shape /\ Types
  BY ZenonT(30) DEF Seated, Seats, Working, IInv, Shape, RegisterHeartbeat, RegisterMask, UnregisterMask,
         UnregisterHeartbeat, ConsumerHeartbeat, Registered, Goto
<1>1. slot[c] \in Slots
  BY <1>0, Zenon DEF Shape, SeatInv
<1>2. PICK s \in Slots : s = slot[c]
  BY <1>1, Zenon
<1>3. /\ ~joining => pc[c] \in Working
      /\ holding_mask[s] = IF pc[c] \in {"processing", "untrack"} THEN {blk[c]} ELSE {}
      /\ pc[c] \in {"hold", "processing", "untrack"} => blk[c] \in Blocks
      /\ Beating(c) => heartbeat[s] \in 0 .. Timeout
  BY <1>0, <1>2, ZenonT(30) DEF Shape, RegimeInv, SeatInv, MaskInv, Seated, Seats, Working
<1>4. /\ pc \in [Processes -> Points] /\ heartbeat \in [Slots -> Never .. Timeout + 1]
      /\ holding_mask \in [Slots -> SUBSET Blocks]
  BY <1>0, Zenon DEF Types, ProcessTypes, SlotTypes
<1>5. UNCHANGED <<joining, reaping, slot, blk, active, rpc, rslot, rmask, refcount, notified>>
  BY ZenonT(30) DEF RegisterHeartbeat, RegisterMask, UnregisterMask, UnregisterHeartbeat, ConsumerHeartbeat,
         regime, blocks, reaper, process
<1>6. StaysSeated(c, s) /\ (pc'[c] = pc[c] \/ pc'[c] \notin {"hold", "processing"})
  <2>1. CASE RegisterHeartbeat(c)
    <3>1. /\ pc[c] = "reg_heartbeat" /\ pc'[c] = "reg_mask" /\ holding_mask' = holding_mask
          /\ heartbeat' = [heartbeat EXCEPT ![s] = 0] /\ \A d \in Processes \ {c} : pc'[d] = pc[d]
      BY <1>2, <1>4, <2>1, Zenon DEF RegisterHeartbeat, Goto
    <3>2. heartbeat'[s] \in 0 .. Timeout /\ \A t \in Slots \ {s} : heartbeat'[t] = heartbeat[t]
      BY <1>4, <3>1, SMTT(30)
    <3>3. Seated(c)' /\ joining
      BY <1>3, <3>1, ZenonT(30) DEF Seated, Seats, Working
    <3> QED BY <1>0, <1>3, <1>5, <3>1, <3>2, <3>3, Zenon DEF StaysSeated
  <2>2. CASE RegisterMask(c)
    <3>1. /\ pc[c] = "reg_mask" /\ pc'[c] = "ready" /\ heartbeat' = heartbeat
          /\ holding_mask' = [holding_mask EXCEPT ![s] = {}] /\ \A d \in Processes \ {c} : pc'[d] = pc[d]
      BY <1>2, <1>4, <2>2, Zenon DEF RegisterMask, Goto
    <3>2. holding_mask'[s] = {} /\ \A t \in Slots \ {s} : holding_mask'[t] = holding_mask[t]
      BY <1>4, <3>1, Zenon
    <3>3. Seated(c)' /\ joining /\ Beating(c)
      BY <1>3, <3>1, ZenonT(30) DEF Seated, Seats, Working, Beating
    <3> QED BY <1>0, <1>3, <1>5, <3>1, <3>2, <3>3, Zenon DEF StaysSeated
  <2>3. CASE UnregisterMask(c)
    <3>1. /\ pc[c] = "ready" /\ pc'[c] = "unreg_heartbeat" /\ heartbeat' = heartbeat /\ joining
          /\ holding_mask' = [holding_mask EXCEPT ![s] = {}] /\ \A d \in Processes \ {c} : pc'[d] = pc[d]
      BY <1>2, <1>4, <2>3, Zenon DEF UnregisterMask, Goto
    <3>2. holding_mask'[s] = {} /\ \A t \in Slots \ {s} : holding_mask'[t] = holding_mask[t]
      BY <1>4, <3>1, Zenon
    <3>3. Seated(c)' /\ Beating(c)
      BY <3>1, Zenon DEF Seated, Seats, Beating, Registered
    <3> QED BY <1>0, <1>3, <1>5, <3>1, <3>2, <3>3, ZenonT(30) DEF StaysSeated
  <2>4. CASE UnregisterHeartbeat(c)
    <3>1. /\ pc[c] = "unreg_heartbeat" /\ pc'[c] = "unreg_active" /\ holding_mask' = holding_mask
          /\ heartbeat' = [heartbeat EXCEPT ![s] = Never] /\ \A d \in Processes \ {c} : pc'[d] = pc[d]
      BY <1>2, <1>4, <2>4, Zenon DEF UnregisterHeartbeat, Goto
    <3>2. \A t \in Slots \ {s} : heartbeat'[t] = heartbeat[t]
      BY <1>4, <3>1, Zenon
    <3>3. Seated(c)' /\ joining /\ ~Beating(c)'
      BY <1>3, <3>1, Zenon DEF Seated, Seats, Working, Beating, Registered
    <3> QED BY <1>0, <1>3, <1>5, <3>1, <3>2, <3>3, Zenon DEF StaysSeated
  <2>5. CASE ConsumerHeartbeat(c)
    <3>1. pc' = pc /\ holding_mask' = holding_mask /\ heartbeat' = [heartbeat EXCEPT ![s] = 0]
      BY <1>2, <2>5, Zenon DEF ConsumerHeartbeat, process
    <3>2. heartbeat'[s] \in 0 .. Timeout /\ \A t \in Slots \ {s} : heartbeat'[t] = heartbeat[t]
      BY <1>4, <3>1, SMTT(30)
    <3>3. Seated(c)'
      BY <1>0, <3>1, Zenon DEF Seated
    <3> QED BY <1>0, <1>3, <1>5, <3>1, <3>2, <3>3, ZenonT(30) DEF StaysSeated
  <2> QED BY <2>1, <2>2, <2>3, <2>4, <2>5, ZenonT(30)
<1>7. Shape' /\ \A b \in Blocks : SlotDebts(b)' = SlotDebts(b)
  BY <1>0, <1>2, <1>6, SeatedStep, Zenon
<1>8. ASSUME NEW b \in Blocks PROVE NoMore(b)
  <2>1. LiveHolders(b)' \subseteq LiveHolders(b)
    BY <1>5, <1>6, ZenonT(30) DEF LiveHolders, StaysSeated
  <2>2. Awaited(b)' = Awaited(b) /\ ReaperDebts(b)' = ReaperDebts(b)
    BY <1>5, Zenon DEF Awaited, ReaperDebts
  <2> QED BY <1>5, <1>7, <2>1, <2>2, Zenon DEF NoMore
<1> QED BY <1>7, <1>8, NoMoreKept, Zenon DEF IInv

(* Scanning for a slot, and giving up. *)
LEMMA ScanKept ==
  ASSUME IInv, Types', NEW c \in Processes, RegisterBegin(c) \/ RegisterClaim(c)
  PROVE  IInv'
<1> USE Sizes DEF SizeFacts
<1>0. ~Seated(c) /\ Shape /\ Types
  BY Zenon DEF Seated, Seats, Working, IInv, Shape, RegisterBegin, RegisterClaim, Goto
<1>1. joining
  BY <1>0, Zenon DEF RegisterBegin, RegisterClaim, Shape, RegimeInv, Working
<1>2. pc \in [Processes -> Points] /\ slot \in [Processes -> 0 .. MaxConsumers]
  BY <1>0, Zenon DEF Types, ProcessTypes
<1>3. UNCHANGED <<joining, reaping, blk, heartbeat, holding_mask, rpc, rslot, rmask, refcount, notified>>
  BY Zenon DEF RegisterBegin, RegisterClaim, regime, slots, blocks, reaper
<1>4. pc'[c] \in {"out", "reg_scan", "reg_heartbeat"} /\ \A d \in Processes \ {c} : pc'[d] = pc[d]
  BY <1>2, Zenon DEF RegisterBegin, RegisterClaim, Goto
<1>5. Shape' /\ \A b \in Blocks : SlotDebts(b)' = SlotDebts(b)
  <2>1. CASE RegisterBegin(c)
    <3>1. /\ ~Seated(c)' /\ pc'[c] = "reg_scan" /\ slot'[c] \in Slots
          /\ UNCHANGED active /\ \A d \in Processes \ {c} : slot'[d] = slot[d]
      BY <1>2, <2>1 DEF RegisterBegin, Goto, Seated, Seats, Working, slots
    <3> QED BY <1>0, <1>1, <1>3, <1>4, <3>1, OutsideStep, Zenon
  <2>2. CASE RegisterClaim(c)
    <3>1. slot[c] \in Slots
      BY <1>0, <2>2, Zenon DEF RegisterClaim, Shape, SeatInv
    <3>2. CASE active[slot[c]] = 0
      <4>1. PICK s \in Slots : s = slot[c]
        BY <3>1, Zenon
      <4>2. /\ pc'[c] = "reg_heartbeat" /\ active[s] = 0 /\ active' = [active EXCEPT ![s] = 1]
            /\ UNCHANGED slot
        BY <1>2, <2>2, <3>2, <4>1, Zenon DEF RegisterClaim, Goto
      <4> QED BY <1>0, <1>1, <1>3, <1>4, <4>1, <4>2, EnterStep, ZenonT(30)
    <3>3. CASE active[slot[c]] # 0
      <4>1. /\ ~Seated(c)' /\ UNCHANGED active /\ \A d \in Processes \ {c} : slot'[d] = slot[d]
        BY <1>2, <2>2, <3>3, Zenon DEF RegisterClaim, Goto, Seated, Seats, Working
      <4>2. pc'[c] = "reg_scan" => slot'[c] = slot[c] + 1 /\ slot[c] # MaxConsumers
        BY <1>2, <2>2, <3>3, Zenon DEF RegisterClaim, Goto
      <4>3. pc'[c] = "reg_scan" => slot'[c] \in Slots
        BY <3>1, <4>2
      <4> QED BY <1>0, <1>1, <1>3, <1>4, <4>1, <4>3, OutsideStep, Zenon
    <3> QED BY <3>2, <3>3, Zenon
  <2> QED BY <2>1, <2>2, Zenon
<1>6. ASSUME NEW b \in Blocks PROVE NoMore(b)
  <2>1. LiveHolders(b)' \subseteq LiveHolders(b)
    BY <1>3, <1>4, Zenon DEF LiveHolders
  <2>2. Awaited(b)' = Awaited(b) /\ ReaperDebts(b)' = ReaperDebts(b)
    BY <1>3, Zenon DEF Awaited, ReaperDebts
  <2> QED BY <1>3, <1>5, <2>1, <2>2, Zenon DEF NoMore
<1> QED BY <1>5, <1>6, NoMoreKept, Zenon DEF IInv

(* Leaving. *)
LEMMA UnregisterActiveKept ==
  ASSUME IInv, Types', NEW c \in Processes, UnregisterActive(c)
  PROVE  IInv'
<1>0. Seated(c) /\ Shape /\ Types /\ pc[c] = "unreg_active"
  BY Zenon DEF Seated, Seats, IInv, Shape, UnregisterActive, Goto
<1>1. slot[c] \in Slots
  BY <1>0, Zenon DEF Shape, SeatInv
<1>2. PICK s \in Slots : s = slot[c]
  BY <1>1, Zenon
<1>3. /\ pc \in [Processes -> Points] /\ slot \in [Processes -> 0 .. MaxConsumers]
      /\ active \in [Slots -> {0, 1}] /\ holding_mask[s] = {}
  BY <1>0, <1>2, ZenonT(30) DEF Types, ProcessTypes, SlotTypes, Shape, MaskInv
<1>4. /\ pc'[c] = "out" /\ \A d \in Processes \ {c} : pc'[d] = pc[d] /\ slot'[d] = slot[d]
      /\ UNCHANGED <<joining, reaping, blk, heartbeat, holding_mask, rpc, rslot, rmask, refcount, notified>>
      /\ \A t \in Slots \ {s} : active'[t] = active[t]
  BY <1>2, <1>3, Zenon DEF UnregisterActive, Goto, regime, blocks, reaper
<1>5. Shape' /\ \A b \in Blocks : SlotDebts(b)' \subseteq SlotDebts(b)
  BY <1>0, <1>2, <1>3, <1>4, LeaveStep, Zenon
<1>6. ASSUME NEW b \in Blocks PROVE NoMore(b)
  <2>1. LiveHolders(b)' \subseteq LiveHolders(b)
    BY <1>4, Zenon DEF LiveHolders
  <2>2. Awaited(b)' = Awaited(b) /\ ReaperDebts(b)' = ReaperDebts(b)
    BY <1>4, Zenon DEF Awaited, ReaperDebts
  <2> QED BY <1>4, <1>5, <2>1, <2>2, ZenonT(30) DEF NoMore
<1> QED BY <1>5, <1>6, NoMoreKept, Zenon DEF IInv

(* The consumer's loop. *)
LEMMA ConsumeShape ==
  ASSUME Shape, Types', NEW c \in Processes, Consume(c)
  PROVE  Shape' /\ \A b \in Blocks : SlotDebts(b)' = SlotDebts(b)
<1> USE Sizes DEF SizeFacts
<1>0. Seated(c) /\ Types
  BY Zenon DEF Seated, Seats, Working, Shape, Consume, Receive, TrackBlockHold, Release,
         TrackBlockRelease, Goto
<1>1. slot[c] \in Slots
  BY <1>0, Zenon DEF Shape, SeatInv
<1>2. PICK s \in Slots : s = slot[c]
  BY <1>1, Zenon
<1>3. /\ holding_mask[s] = IF pc[c] \in {"processing", "untrack"} THEN {blk[c]} ELSE {}
      /\ pc[c] \in {"hold", "processing", "untrack"} => blk[c] \in Blocks
      /\ Beating(c) => heartbeat[s] \in 0 .. Timeout
  BY <1>0, <1>2, Zenon DEF Shape, SeatInv, MaskInv
<1>4. /\ pc \in [Processes -> Points] /\ blk \in [Processes -> 0 .. MaxBlocks]
      /\ holding_mask \in [Slots -> SUBSET Blocks]
  BY <1>0, Zenon DEF Types, ProcessTypes, SlotTypes
<1>5. UNCHANGED <<joining, reaping, slot, active, heartbeat, rpc, rslot>>
  BY ZenonT(30) DEF Consume, Receive, TrackBlockHold, Release, TrackBlockRelease, regime, slots, reaper
<1>6. StaysSeated(c, s)
  <2>1. ASSUME NEW b \in Blocks, Receive(c, b) PROVE StaysSeated(c, s)
    BY <1>0, <1>2, <1>3, <1>4, <1>5, <2>1, Zenon
       DEF Receive, Goto, slots, StaysSeated, Seated, Seats, Working, Beating, Registered
  <2>2. CASE TrackBlockHold(c)
    BY <1>0, <1>2, <1>3, <1>4, <1>5, <2>2, Zenon
       DEF TrackBlockHold, Goto, StaysSeated, Seated, Seats, Working, Beating, Registered
  <2>3. CASE Release(c)
    BY <1>0, <1>2, <1>3, <1>4, <1>5, <2>3, Zenon
       DEF Release, Goto, slots, StaysSeated, Seated, Seats, Working, Beating, Registered
  <2>4. CASE TrackBlockRelease(c)
    BY <1>0, <1>2, <1>3, <1>4, <1>5, <2>4, Zenon
       DEF TrackBlockRelease, Goto, StaysSeated, Seated, Seats, Working, Beating, Registered
  <2> QED BY <2>1, <2>2, <2>3, <2>4, Zenon DEF Consume
<1> QED BY <1>2, <1>6, SeatedStep, Zenon

LEMMA ConsumeKept ==
  ASSUME IInv, Types', NEW c \in Processes, Consume(c)
  PROVE  IInv'
<1>0. Shape /\ Types /\ FiniteFacts /\ \A b \in Blocks : Counted(b)
  BY Finite, CountedEach, Zenon DEF IInv, Shape
<1>1. Shape' /\ \A b \in Blocks : SlotDebts(b)' = SlotDebts(b)
  BY <1>0, ConsumeShape, Zenon
<1>2. /\ pc \in [Processes -> Points] /\ blk \in [Processes -> 0 .. MaxBlocks]
      /\ \A b \in Blocks : refcount[b] \in Nat
      /\ refcount \in [Blocks -> Nat]
  BY <1>0, Zenon DEF Types, ProcessTypes, BlockTypes
<1>3. \A b \in Blocks : ReaperDebts(b)' = ReaperDebts(b)
  BY Zenon DEF Consume, Receive, TrackBlockHold, Release, TrackBlockRelease, reaper, ReaperDebts
<1>4. ASSUME NEW b \in Blocks PROVE Counted(b)'
  <2>1. ASSUME NEW a \in Blocks, Receive(c, a) PROVE Counted(b)'
    <3>1. UNCHANGED refcount
      BY <2>1, Zenon DEF Receive
    <3>2. CASE a = b
      <4>1. <<c, b>> \in Awaited(b) /\ Awaited(b)' \subseteq Awaited(b) \ {<<c, b>>}
        BY <2>1, <3>2, Zenon DEF Receive, Awaited
      <4>2. LiveHolders(b)' \subseteq LiveHolders(b) \cup {c}
        BY <1>2, <2>1, Zenon DEF Receive, Goto, LiveHolders
      <4> QED
        <5>1. Enough(refcount[b], LiveHolders(b)', Awaited(b)', SlotDebts(b), ReaperDebts(b))
          <6>1. PICK m \in Awaited(b) : m = <<c, b>>
            BY <4>1, Zenon
          <6>2. m \in Awaited(b) /\ Awaited(b)' \subseteq Awaited(b) \ {m}
            BY <4>1, <6>1, Zenon
          <6>3. /\ refcount[b] \in Nat
                /\ IsFiniteSet(LiveHolders(b)) /\ IsFiniteSet(Awaited(b))
                /\ IsFiniteSet(SlotDebts(b)) /\ IsFiniteSet(ReaperDebts(b))
                /\ Enough(refcount[b], LiveHolders(b), Awaited(b), SlotDebts(b), ReaperDebts(b))
            BY CountedBefore, Zenon
          <6> QED BY <4>2, <6>2, <6>3, EnoughReceived, Zenon
        <5> QED BY <1>1, <1>3, <3>1, <5>1, Zenon DEF Counted
    <3>3. CASE a # b
      <4>1. Awaited(b)' \subseteq Awaited(b)
        BY <2>1, Zenon DEF Receive, Awaited
      <4>2. LiveHolders(b)' \subseteq LiveHolders(b)
        BY <1>2, <2>1, <3>3, Zenon DEF Receive, Goto, LiveHolders
      <4>3. NoMore(b)
        BY <1>1, <1>3, <3>1, <4>1, <4>2, Zenon DEF NoMore
      <4> QED BY <4>3, NoMoreCounted, Zenon
    <3> QED BY <3>2, <3>3, Zenon
  <2>2. CASE TrackBlockHold(c) \/ TrackBlockRelease(c)
    <3>1. LiveHolders(b)' \subseteq LiveHolders(b)
      BY <1>2, <2>2, Zenon DEF TrackBlockHold, TrackBlockRelease, Goto, LiveHolders
    <3>2. UNCHANGED refcount /\ Awaited(b)' = Awaited(b)
      BY <2>2, Zenon DEF TrackBlockHold, TrackBlockRelease, blocks, Awaited
    <3>3. NoMore(b)
      BY <1>1, <1>3, <3>1, <3>2, Zenon DEF NoMore
    <3> QED BY <3>3, NoMoreCounted, Zenon
  <2>3. CASE Release(c)
    <3>1. UNCHANGED <<notified, blk>> /\ pc[c] = "processing" /\ pc'[c] = "untrack"
          /\ \A d \in Processes \ {c} : pc'[d] = pc[d]
      BY <1>2, <2>3, Zenon DEF Release, Goto
    <3>2. CASE blk[c] = b
      <4>1. c \in LiveHolders(b) /\ LiveHolders(b)' \subseteq LiveHolders(b) \ {c}
        BY <3>1, <3>2, Zenon DEF LiveHolders
      <4>2. refcount'[b] = IF refcount[b] > 0 THEN refcount[b] - 1 ELSE 0
        BY <1>2, <2>3, <3>2, Zenon DEF Release, Decremented
      <4>3. Awaited(b)' = Awaited(b)
        BY <3>1, Zenon DEF Awaited
      <4> QED
        <5>1. Enough(IF refcount[b] > 0 THEN refcount[b] - 1 ELSE 0,
                     LiveHolders(b)', Awaited(b), SlotDebts(b), ReaperDebts(b))
          BY <4>1, CountedBefore, EnoughReleased, Zenon
        <5> QED BY <1>1, <1>3, <4>2, <4>3, <5>1, Zenon DEF Counted
    <3>3. CASE blk[c] # b
      <4>1. refcount'[b] = refcount[b]
        BY <1>2, <2>3, <3>3, Zenon DEF Release, Decremented
      <4>2. LiveHolders(b)' \subseteq LiveHolders(b)
        BY <3>1, Zenon DEF LiveHolders
      <4>3. Awaited(b)' = Awaited(b)
        BY <3>1, Zenon DEF Awaited
      <4>4. NoMore(b)
        BY <1>1, <1>3, <4>1, <4>2, <4>3, Zenon DEF NoMore
      <4> QED BY <4>4, NoMoreCounted, Zenon
    <3> QED BY <3>2, <3>3, Zenon
  <2> QED BY <2>1, <2>2, <2>3, Zenon DEF Consume
<1>5. RefsInv'
  BY <1>4, Zenon DEF RefsInv, Counted, Enough
<1> QED BY <1>1, <1>5, Zenon DEF IInv

(* A death outside the untracked window: the block at work on becomes a    *)
(* debt of the slot.                                                       *)
LEMMA CrashKept ==
  ASSUME IInv, Types', NEW c \in Processes, Crash(c), "untrack" \notin CrashPoints
  PROVE  IInv'
<1>0. Shape /\ Types /\ FiniteFacts /\ \A b \in Blocks : Counted(b)
  BY Finite, CountedEach, Zenon DEF IInv, Shape
<1>1. /\ pc \in [Processes -> Points] /\ \A b \in Blocks : refcount[b] \in Nat
  BY <1>0, Zenon DEF Types, ProcessTypes, BlockTypes
<1>2. /\ UNCHANGED <<joining, reaping, active, heartbeat, holding_mask, refcount, notified, slot, blk,
                     rpc, rslot, rmask>>
      /\ reaping /\ pc[c] # "untrack" /\ pc'[c] = "dead" /\ \A d \in Processes \ {c} : pc'[d] = pc[d]
  BY <1>1, Zenon DEF Crash, regime, slots, blocks, reaper
<1>3. ~joining
  BY <1>0, <1>2, Zenon DEF Shape, RegimeInv
<1>4. \A b \in Blocks : /\ LiveHolders(b)' \subseteq LiveHolders(b) /\ c \notin LiveHolders(b)'
                        /\ Awaited(b)' = Awaited(b) /\ ReaperDebts(b)' = ReaperDebts(b)
  BY <1>2, Zenon DEF LiveHolders, Awaited, ReaperDebts
<1>5. CASE Seated(c)
  <2>1. slot[c] \in Slots
    BY <1>0, <1>5, Zenon DEF Shape, SeatInv
  <2>2. PICK s \in Slots : s = slot[c]
    BY <2>1, Zenon
  <2>3. /\ Shape'
        /\ \A b \in Blocks : SlotDebts(b)' \subseteq IF b \in holding_mask[s] THEN SlotDebts(b) \cup {s}
                                                                            ELSE SlotDebts(b)
    BY <1>0, <1>2, <1>3, <1>5, <2>2, LeaveStep, Zenon
  <2>4. ASSUME NEW b \in Blocks PROVE Counted(b)'
    <3>1. CASE b \in holding_mask[s]
      <4>1. pc[c] = "processing" /\ blk[c] = b
        <5>1. holding_mask[s] = IF pc[c] \in {"processing", "untrack"} THEN {blk[c]} ELSE {}
          BY <1>0, <1>5, <2>2, Zenon DEF Shape, MaskInv
        <5> QED BY <1>2, <3>1, <5>1, Zenon
      <4>2. c \in LiveHolders(b) /\ LiveHolders(b)' \subseteq LiveHolders(b) \ {c}
        BY <1>4, <4>1, Zenon DEF LiveHolders
      <4>3. SlotDebts(b)' \subseteq SlotDebts(b) \cup {s}
        BY <2>3, Zenon
      <4> QED
        <5>1. Enough(refcount[b], LiveHolders(b)', Awaited(b), SlotDebts(b)', ReaperDebts(b))
          BY <4>2, <4>3, CountedBefore, EnoughCrashed, ZenonT(30)
        <5> QED BY <1>2, <1>4, <5>1, ZenonT(30) DEF Counted
    <3>2. CASE b \notin holding_mask[s]
      <4>1. NoMore(b)
        BY <1>2, <1>4, <2>3, <3>2, Zenon DEF NoMore
      <4> QED BY <4>1, NoMoreCounted, Zenon
    <3> QED BY <3>1, <3>2, Zenon
  <2>5. RefsInv'
    BY <2>4, Zenon DEF RefsInv, Counted, Enough
  <2> QED BY <2>3, <2>5, Zenon DEF IInv
<1>6. CASE ~Seated(c)
  <2>1. ~Seated(c)'
    BY <1>2, ZenonT(30) DEF Seated, Seats, Working
  <2>2. Shape' /\ \A b \in Blocks : SlotDebts(b)' = SlotDebts(b)
    BY <1>0, <1>2, <1>6, <2>1, OutsideStep, ZenonT(30)
  <2>3. \A b \in Blocks : NoMore(b)
    BY <1>2, <1>4, <2>2, Zenon DEF NoMore
  <2> QED BY <2>2, <2>3, NoMoreKept, Zenon DEF IInv
<1> QED BY <1>5, <1>6, Zenon

(* Submit and Tick. *)
LEMMA SubmitKept ==
  ASSUME IInv, Types', NEW a \in Blocks, NEW targets \in SUBSET Processes, Submit(a, targets)
  PROVE  IInv'
<1>0. Shape /\ Types /\ refcount \in [Blocks -> Nat]
  BY Zenon DEF IInv, Shape, Types, BlockTypes
<1>1. UNCHANGED <<joining, reaping, active, heartbeat, holding_mask, pc, slot, blk, rpc, rslot, rmask>>
  BY ZenonT(30) DEF Submit, regime, slots, process, reaper
<1>2. Shape' /\ \A t \in Slots : Free(t)' <=> Free(t)
  BY <1>0, <1>1, OthersStep, ZenonT(30) DEF Shape, ReaperInv
<1>3. \A b \in Blocks : /\ LiveHolders(b)' = LiveHolders(b) /\ SlotDebts(b)' = SlotDebts(b)
                        /\ ReaperDebts(b)' = ReaperDebts(b)
  BY <1>1, <1>2, Zenon DEF LiveHolders, SlotDebts, ReaperDebts
<1>4. ASSUME NEW b \in Blocks PROVE Counted(b)'
  <2>1. CASE b = a
    <3>1. refcount[b] = 0 /\ refcount'[b] = Cardinality(targets)
      BY <1>0, <2>1, ZenonT(30) DEF Submit
    <3>2. Awaited(b)' \subseteq Awaited(b) \cup {<<c, b>> : c \in targets}
      BY <2>1, Zenon DEF Submit, Awaited
    <3>3. IsFiniteSet(targets)
      BY SlotAssumption, FS_Subset, Zenon
    <3>4. Enough(0, LiveHolders(b), Awaited(b), SlotDebts(b), ReaperDebts(b))
      BY <3>1, CountedBefore, ZenonT(30)
    <3>5. Enough(Cardinality(targets), LiveHolders(b), Awaited(b)', SlotDebts(b), ReaperDebts(b))
      BY <3>2, <3>3, <3>4, CountedBefore, EnoughSubmitted, Zenon
    <3> QED BY <1>3, <3>1, <3>5, ZenonT(30) DEF Counted
  <2>2. CASE b # a
    <3>1. refcount'[b] = refcount[b]
      BY <1>0, <2>2, Zenon DEF Submit
    <3>2. Awaited(b)' \subseteq Awaited(b)
      BY <2>2 DEF Submit, Awaited
    <3>3. NoMore(b)
      BY <1>3, <3>1, <3>2, Zenon DEF NoMore
    <3> QED BY <3>3, NoMoreCounted, Zenon
  <2> QED BY <2>1, <2>2, Zenon
<1>5. RefsInv'
  BY <1>4, Zenon DEF RefsInv, Counted, Enough
<1> QED BY <1>2, <1>5, Zenon DEF IInv

LEMMA TickKept == ASSUME IInv, Types', Tick PROVE IInv'
<1>0. Shape /\ Types
  BY Zenon DEF IInv, Shape
<1>1. Shape' /\ \A b \in Blocks : SlotDebts(b)' = SlotDebts(b)
  BY <1>0, TickStep, Zenon
<1>2. UNCHANGED <<refcount, notified, pc, blk, rmask>>
  BY Zenon DEF Tick, blocks, process, reaper
<1>3. ASSUME NEW b \in Blocks PROVE NoMore(b)
  <2>1. LiveHolders(b)' = LiveHolders(b) /\ Awaited(b)' = Awaited(b) /\ ReaperDebts(b)' = ReaperDebts(b)
    BY <1>2, Zenon DEF LiveHolders, Awaited, ReaperDebts
  <2> QED BY <1>1, <1>2, <2>1, Zenon DEF NoMore
<1> QED BY <1>1, <1>3, NoMoreKept, Zenon DEF IInv

(* A reaper changes the words of a slot only where no live process is. *)
ReaperMoves(r) ==
  /\ \A q \in Reapers \ {r} : rpc'[q] = rpc[q] /\ rslot'[q] = rslot[q]
  /\ rpc'[r] # "idle" => rslot'[r] \in Slots
  /\ rpc'[r] \in Past => Free(rslot'[r])
  /\ \A t \in Slots : ~Free(t) => active'[t] = active[t] /\ holding_mask'[t] = holding_mask[t]

LEMMA ReapShape ==
  ASSUME Shape, Types', NEW r \in Reapers, Reap(r)
  PROVE  /\ Shape' /\ \A t \in Slots : Free(t)' <=> Free(t)
         /\ UNCHANGED <<notified, pc, blk>>
<1> USE Sizes DEF SizeFacts
<1>0. Types /\ ReaperInv /\ rpc \in [Reapers -> ReaperPoints] /\ rslot \in [Reapers -> 0 .. MaxConsumers]
  BY Zenon DEF Shape, Types, ReaperTypes
<1>1. UNCHANGED <<joining, reaping, pc, slot, blk, heartbeat, notified>>
  BY Zenon DEF Reap, ReapBegin, LoadActive, CheckAlive, TakeMask, FlipActive, LostClaim, RestoreMask,
         ReleaseHeld, regime, slots, blocks, process
<1>2. ~joining
  <2>1. rpc[r] # "idle" \/ reaping
    BY Zenon DEF Reap, ReapBegin, LoadActive, CheckAlive, TakeMask, FlipActive, LostClaim, RestoreMask,
           ReleaseHeld, RGoto
  <2> QED BY <2>1, Zenon DEF Shape, RegimeInv
<1>3. active \in [Slots -> {0, 1}] /\ holding_mask \in [Slots -> SUBSET Blocks]
  BY <1>0, Zenon DEF Types, SlotTypes
<1>4. ASSUME NextSlot(r), rslot[r] \in Slots
      PROVE  /\ \A q \in Reapers \ {r} : rpc'[q] = rpc[q] /\ rslot'[q] = rslot[q]
             /\ rpc'[r] # "idle" => rslot'[r] \in Slots
             /\ rpc'[r] \notin Past
  <2>1. CASE rslot[r] = MaxConsumers
    BY <1>0, <1>4, <2>1, Zenon DEF NextSlot, Past
  <2>2. CASE rslot[r] # MaxConsumers
    <3>1. rslot[r] + 1 \in Slots
      BY <1>4, <2>2
    <3>2. rpc' = [rpc EXCEPT ![r] = "load"] /\ rslot' = [rslot EXCEPT ![r] = @ + 1]
      BY <1>4, <2>2, Zenon DEF NextSlot
    <3> QED BY <1>0, <3>1, <3>2, Zenon DEF Past
  <2> QED BY <2>1, <2>2, Zenon
<1>5. rpc[r] # "idle" => rslot[r] \in Slots
  BY <1>0, Zenon DEF ReaperInv
<1>6. rpc[r] \in Past => Free(rslot[r])
  BY <1>0, Zenon DEF ReaperInv
<1>7. ReaperMoves(r)
  <2>1. CASE ReapBegin(r)
    BY <1>0, <2>1, SMTT(30) DEF ReapBegin, RGoto, slots, ReaperMoves, Past
  <2>2. CASE LoadActive(r)
    <3>1. active[rslot[r]] # 1 => Free(rslot[r])
      BY Zenon DEF Free, Shape, SeatInv
    <3> QED BY <1>0, <1>5, <2>2, <3>1, Zenon DEF LoadActive, RGoto, slots, ReaperMoves, Past
  <2>3. CASE CheckAlive(r)
    <3>1. IsConsumerDead(rslot[r]) => Free(rslot[r])
      <4>1. SUFFICES ASSUME IsConsumerDead(rslot[r]), NEW c \in Processes, Seated(c), slot[c] = rslot[r]
                     PROVE  FALSE
        BY Zenon DEF Free
      <4>2. Beating(c)
        BY <1>2, <4>1, Zenon DEF Shape, RegimeInv, Seated, Seats, Working, Beating, Registered
      <4>3. heartbeat[rslot[r]] \in 0 .. Timeout
        BY <4>1, <4>2, Zenon DEF Shape, SeatInv
      <4> QED BY <4>1, <4>3 DEF IsConsumerDead
    <3> QED BY <1>0, <1>4, <1>5, <2>3, <3>1, Zenon DEF CheckAlive, RGoto, slots, ReaperMoves, Past
  <2>4. CASE TakeMask(r)
    <3>1. rslot[r] \in Slots /\ Free(rslot[r])
      BY <1>5, <1>6, <2>4, Zenon DEF TakeMask, Past
    <3> QED BY <1>0, <1>3, <2>4, <3>1, Zenon DEF TakeMask, ReaperMoves, Past
  <2>5. CASE FlipActive(r)
    <3>1. rslot[r] \in Slots /\ Free(rslot[r])
      BY <1>5, <1>6, <2>5, ZenonT(30) DEF FlipActive, Past
    <3> QED BY <1>0, <1>3, <2>5, <3>1, Zenon DEF FlipActive, RGoto, ReaperMoves, Past
  <2>6. CASE LostClaim(r)
    <3>1. rslot[r] \in Slots /\ Free(rslot[r])
      BY <1>5, <1>6, <2>6, ZenonT(30) DEF LostClaim, Past
    <3> QED BY <1>0, <1>4, <2>6, <3>1, ZenonT(30) DEF LostClaim, RGoto, slots, ReaperMoves, Past
  <2>7. CASE RestoreMask(r)
    <3>1. rslot[r] \in Slots /\ Free(rslot[r])
      BY <1>5, <1>6, <2>7, ZenonT(30) DEF RestoreMask, Past
    <3> QED BY <1>0, <1>3, <1>4, <2>7, <3>1, ZenonT(30) DEF RestoreMask, ReaperMoves
  <2>8. CASE ReleaseHeld(r)
    <3>1. rslot[r] \in Slots /\ Free(rslot[r])
      BY <1>5, <1>6, <2>8, ZenonT(30) DEF ReleaseHeld, Past
    <3> QED BY <1>0, <1>4, <2>8, <3>1, Zenon DEF ReleaseHeld, slots, ReaperMoves
  <2> QED BY <2>1, <2>2, <2>3, <2>4, <2>5, <2>6, <2>7, <2>8, ZenonT(40) DEF Reap
<1>8. \A q \in Reapers : /\ rpc'[q] # "idle" => rslot'[q] \in Slots
                         /\ rpc'[q] \in Past => Free(rslot'[q])
  BY <1>0, <1>7, Zenon DEF ReaperMoves, ReaperInv
<1> QED BY <1>1, <1>2, <1>7, <1>8, OthersStep, Zenon DEF ReaperMoves

(* The block ReleaseHeld takes is one of its mask. *)
LEMMA LeastBlock ==
  ASSUME NEW mask \in SUBSET Blocks, mask # {}
  PROVE  (CHOOSE x \in mask : \A y \in mask : x <= y) \in mask
<1> DEFINE Less == {p \in Nat \X Nat : p[1] < p[2]}
<1>0. mask \subseteq Nat
  BY Sizes DEF SizeFacts
<1>1. IsWellFoundedOn(Less, Nat)
  BY NatLessThanWellFounded, Zenon DEF OpToRel
<1> HIDE DEF Less
<1>2. PICK x \in mask : \A y \in mask : ~(<<y, x>> \in Less)
  BY <1>0, <1>1, WFMin, Zenon
<1>3. \A y \in mask : ~(y < x)
  BY <1>0, <1>2, Zenon DEF Less
<1>4. \A y \in mask : x <= y
  BY <1>0, <1>3, SMTT(30)
<1> QED BY <1>2, <1>4, Zenon

(* What a reaper does to the references. *)
LEMMA ReapKept ==
  ASSUME IInv, Types', NEW r \in Reapers, Reap(r)
  PROVE  IInv'
<1>0. Shape /\ Types
  BY Zenon DEF IInv, Shape
<1>1. Shape' /\ (\A t \in Slots : Free(t)' <=> Free(t)) /\ UNCHANGED <<notified, pc, blk>>
  BY <1>0, ReapShape, Zenon
<1>2. /\ refcount \in [Blocks -> Nat] /\ rmask \in [Reapers -> SUBSET Blocks]
      /\ holding_mask \in [Slots -> SUBSET Blocks]
  BY <1>0, Zenon DEF Types, BlockTypes, ReaperTypes, SlotTypes
<1>3. \A b \in Blocks : LiveHolders(b)' = LiveHolders(b) /\ Awaited(b)' = Awaited(b)
  BY <1>1, Zenon DEF LiveHolders, Awaited
<1>4. rpc[r] \in Past => rslot[r] \in Slots /\ Free(rslot[r])
  BY <1>0, Zenon DEF Shape, ReaperInv, Past
<1>5. ASSUME NEW b \in Blocks PROVE Counted(b)'
  <2>1. CASE UNCHANGED <<refcount, holding_mask>> /\ \A q \in Reapers : rmask'[q] \subseteq rmask[q]
    <3>1. SlotDebts(b)' \subseteq SlotDebts(b) /\ ReaperDebts(b)' \subseteq ReaperDebts(b)
      BY <1>1, <2>1, Zenon DEF SlotDebts, ReaperDebts
    <3>2. NoMore(b)
      BY <1>3, <2>1, <3>1, Zenon DEF NoMore
    <3> QED BY <3>2, NoMoreCounted, Zenon
  <2>2. CASE TakeMask(r)
    <3>1. rslot[r] \in Slots /\ Free(rslot[r]) /\ UNCHANGED refcount
      BY <1>4, <2>2, Zenon DEF TakeMask, Past, blocks
    <3>2. PICK s \in Slots : s = rslot[r]
      BY <3>1, Zenon
    <3>3. /\ SlotDebts(b)' \subseteq SlotDebts(b) \ {s}
          /\ \A q \in Reapers \ {r} : rmask'[q] = rmask[q]
          /\ rmask'[r] = holding_mask[s]
      BY <1>1, <1>2, <2>2, <3>2, Zenon DEF TakeMask, SlotDebts
    <3>4. CASE b \in holding_mask[s]
      <4>1. s \in SlotDebts(b) /\ ReaperDebts(b)' \subseteq ReaperDebts(b) \cup {r}
        BY <3>1, <3>2, <3>3, <3>4, ZenonT(30) DEF SlotDebts, ReaperDebts
      <4>2. Enough(refcount[b], LiveHolders(b), Awaited(b), SlotDebts(b)', ReaperDebts(b)')
        BY <3>3, <4>1, CountedBefore, EnoughTaken, Zenon
      <4> QED BY <1>3, <3>1, <4>2, Zenon DEF Counted
    <3>5. CASE b \notin holding_mask[s]
      <4>1. ReaperDebts(b)' \subseteq ReaperDebts(b)
        BY <3>3, <3>5, Zenon DEF ReaperDebts
      <4>2. NoMore(b)
        BY <1>3, <3>1, <3>3, <4>1, Zenon DEF NoMore
      <4> QED BY <4>2, NoMoreCounted, Zenon
    <3> QED BY <3>4, <3>5, Zenon
  <2>3. CASE RestoreMask(r)
    <3>1. rslot[r] \in Slots /\ UNCHANGED refcount
      BY <1>4, <2>3, Zenon DEF RestoreMask, Past, blocks
    <3>2. PICK s \in Slots : s = rslot[r]
      BY <3>1, Zenon
    <3>3. /\ \A t \in Slots \ {s} : holding_mask'[t] = holding_mask[t]
          /\ holding_mask'[s] = holding_mask[s] \cup rmask[r]
          /\ ReaperDebts(b)' \subseteq ReaperDebts(b) \ {r}
      BY <1>2, <2>3, <3>2, Zenon DEF RestoreMask, ReaperDebts
    <3>4. CASE b \in rmask[r]
      <4>1. r \in ReaperDebts(b) /\ SlotDebts(b)' \subseteq SlotDebts(b) \cup {s}
        BY <1>1, <3>3, <3>4, Zenon DEF SlotDebts, ReaperDebts
      <4>2. Enough(refcount[b], LiveHolders(b), Awaited(b), SlotDebts(b)', ReaperDebts(b)')
        BY <3>3, <4>1, CountedBefore, EnoughRestored, ZenonT(30)
      <4> QED BY <1>3, <3>1, <4>2, Zenon DEF Counted
    <3>5. CASE b \notin rmask[r]
      <4>1. SlotDebts(b)' \subseteq SlotDebts(b)
        BY <1>1, <3>3, <3>5, ZenonT(30) DEF SlotDebts
      <4>2. NoMore(b)
        BY <1>3, <3>1, <3>3, <4>1, ZenonT(30) DEF NoMore
      <4> QED BY <4>2, NoMoreCounted, Zenon
    <3> QED BY <3>4, <3>5, Zenon
  <2>4. ASSUME NEW a \in rmask[r], refcount' = Decremented(a), rmask' = [rmask EXCEPT ![r] = @ \ {a}],
               UNCHANGED slots
        PROVE  Counted(b)'
    <3>1. SlotDebts(b)' = SlotDebts(b)
      BY <1>1, <2>4, Zenon DEF SlotDebts, slots
    <3>2. CASE a = b
      <4>1. r \in ReaperDebts(b) /\ ReaperDebts(b)' \subseteq ReaperDebts(b) \ {r}
        BY <1>2, <2>4, <3>2, Zenon DEF ReaperDebts
      <4>2. refcount'[b] = IF refcount[b] > 0 THEN refcount[b] - 1 ELSE 0
        BY <1>2, <2>4, <3>2, Zenon DEF Decremented
      <4>3. Enough(IF refcount[b] > 0 THEN refcount[b] - 1 ELSE 0,
                   LiveHolders(b), Awaited(b), SlotDebts(b), ReaperDebts(b)')
        BY <4>1, CountedBefore, EnoughPaid, ZenonT(30)
      <4> QED BY <1>3, <3>1, <4>2, <4>3, Zenon DEF Counted
    <3>3. CASE a # b
      <4>1. refcount'[b] = refcount[b]
        BY <1>2, <2>4, <3>3, Zenon DEF Decremented
      <4>2. ReaperDebts(b)' \subseteq ReaperDebts(b)
        BY <1>2, <2>4, Zenon DEF ReaperDebts
      <4>3. NoMore(b)
        BY <1>3, <3>1, <4>1, <4>2, Zenon DEF NoMore
      <4> QED BY <4>3, NoMoreCounted, Zenon
    <3> QED BY <3>2, <3>3, Zenon
  <2>5. CASE ReleaseHeld(r)
    <3>1. CASE rmask[r] = {}
      BY <2>1, <2>5, <3>1, Zenon DEF ReleaseHeld, slots
    <3>2. CASE rmask[r] # {}
      <4>1. PICK a \in rmask[r] : a = CHOOSE x \in rmask[r] : \A y \in rmask[r] : x <= y
        BY <1>2, <3>2, LeastBlock, Zenon
      <4> QED BY <2>4, <2>5, <3>2, <4>1, Zenon DEF ReleaseHeld
    <3> QED BY <3>1, <3>2, Zenon
  <2>6. CASE ReapBegin(r) \/ LoadActive(r) \/ CheckAlive(r) \/ FlipActive(r) \/ LostClaim(r)
    BY <1>2, <2>1, <2>6, Zenon DEF ReapBegin, LoadActive, CheckAlive, FlipActive, LostClaim, slots, blocks
  <2> QED BY <2>2, <2>3, <2>5, <2>6, ZenonT(40) DEF Reap
<1>6. RefsInv'
  BY <1>5, Zenon DEF RefsInv, Counted, Enough
<1> QED BY <1>1, <1>6, Zenon DEF IInv

-----------------------------------------------------------------------------
(* Processes do not register while reapers run, and do not die after       *)
(* Release and before TrackBlockRelease.                                   *)
Disciplined ==
  /\ \A r \in Regimes : ~(r[1] /\ r[2])
  /\ "untrack" \notin CrashPoints

LEMMA InitInv == ASSUME Init, Disciplined PROVE IInv
<1> USE Sizes DEF SizeFacts
<1>1. PICK at \in [Processes -> 0 .. MaxConsumers] :
        /\ \A c, d \in Processes : (c # d /\ at[c] # 0) => at[c] # at[d]
        /\ joining <=> at = [c \in Processes |-> 0]
        /\ slot = at
        /\ active = [s \in Slots |-> IF \E c \in Processes : at[c] = s THEN 1 ELSE 0]
        /\ pc = [c \in Processes |-> IF at[c] = 0 THEN "out" ELSE "ready"]
  BY Zenon DEF Init
<1>2. \A c \in Processes : /\ pc[c] \in {"out", "ready"} /\ (pc[c] = "ready" <=> Seated(c))
                           /\ Seated(c) => slot[c] \in Slots
  BY <1>1 DEF Seated, Seats, Working
<1>3. heartbeat = [s \in Slots |-> IF active[s] = 1 THEN 0 ELSE Never]
  BY Zenon DEF Init
<1>4. Types
  <2>1. ProcessTypes
    BY <1>1, SMTT(30) DEF ProcessTypes, Points, Seats, Working, Init
  <2>2. SlotTypes
    BY <1>1, <1>3, SMTT(30) DEF SlotTypes, Init, Never
  <2>3. BlockTypes /\ ReaperTypes
    BY DEF BlockTypes, ReaperTypes, ReaperPoints, Init
  <2> QED BY <2>1, <2>2, <2>3, Zenon DEF Types
<1>5. RegimeInv
  <2>1. PICK q \in Regimes : joining = q[1] /\ reaping = q[2]
    BY Zenon DEF Init
  <2>2. q = <<joining, reaping>>
    BY <2>1, SlotAssumption, SMTT(30)
  <2>3. \A p \in Reapers : rpc[p] = "idle"
    BY Zenon DEF Init
  <2>4. \A c \in Processes : pc[c] \in Working \cup {"out", "dead"}
    BY <1>2, Zenon DEF Working
  <2>5. ~(joining /\ reaping)
    BY <2>1, Zenon DEF Disciplined
  <2> QED BY <2>1, <2>2, <2>3, <2>4, <2>5, Zenon DEF RegimeInv, regime
<1>6. SeatInv
  <2>1. \A c \in Processes : Seated(c) => slot[c] \in Slots /\ active[slot[c]] = 1 /\ slot[c] # 0
    BY <1>1, <1>2, Zenon
  <2>2. \A c \in Processes : Beating(c) => Seated(c)
    BY <1>2, Zenon DEF Beating, Registered
  <2>3. \A c \in Processes : Seated(c) => heartbeat[slot[c]] \in 0 .. Timeout
    BY <1>3, <2>1, SMTT(30)
  <2>4. \A c \in Processes : \A d \in Processes : c # d /\ Seated(c) /\ Seated(d) => slot[c] # slot[d]
    BY <1>1, <2>1, SMTT(30)
  <2> QED BY <1>2, <2>1, <2>2, <2>3, <2>4, ZenonT(30) DEF SeatInv
<1>7. MaskInv
  BY <1>2, Zenon DEF MaskInv, Init
<1>8. ReaperInv
  BY Zenon DEF ReaperInv, Init, Past
<1>9. RefsInv
  <2>1. ASSUME NEW b \in Blocks
        PROVE  LiveHolders(b) = {} /\ Awaited(b) = {} /\ SlotDebts(b) = {} /\ ReaperDebts(b) = {}
    BY <1>2, Zenon DEF Init, LiveHolders, Awaited, SlotDebts, ReaperDebts
  <2>2. Cardinality({}) = 0
    BY FS_EmptySet, Zenon
  <2>3. \A b \in Blocks : refcount[b] = 0
    BY Zenon DEF Init
  <2>4. Enough(0, {}, {}, {}, {})
    BY <2>2 DEF Enough
  <2>5. \A b \in Blocks : Counted(b)
    BY <2>1, <2>3, <2>4, ZenonT(30) DEF Counted
  <2> QED BY <2>5, CountedEach, Zenon
<1> QED BY <1>4, <1>5, <1>6, <1>7, <1>8, <1>9, Zenon DEF IInv, Shape

LEMMA StepInv == ASSUME IInv, [Next]_vars, Disciplined PROVE IInv'
<1>0. Types' /\ Shape
  BY TypesKept, Zenon DEF IInv
<1>1. ASSUME NEW c \in Processes, Consume(c) \/ Membership(c) \/ ConsumerHeartbeat(c) \/ Crash(c)
      PROVE  IInv'
  BY <1>0, <1>1, ConsumeKept, ScanKept, InSlotKept, UnregisterActiveKept, CrashKept, Zenon
     DEF Membership, Disciplined
<1>2. ASSUME NEW b \in Blocks, NEW targets \in SUBSET {c \in Processes : Registered(c)},
             Submit(b, targets)
      PROVE  IInv'
  <2>1. targets \in SUBSET Processes
    BY Zenon
  <2> QED BY <1>0, <1>2, <2>1, SubmitKept, Zenon
<1>3. CASE Tick
  BY <1>0, <1>3, TickKept, Zenon
<1>4. ASSUME NEW r \in Reapers, Reap(r) PROVE IInv'
  BY <1>0, <1>4, ReapKept, Zenon
<1>5. CASE UNCHANGED vars
  <2>1. UNCHANGED <<joining, reaping, active, heartbeat, holding_mask, pc, slot, blk, rpc, rslot, rmask,
                    refcount, notified>>
    BY <1>5, Zenon DEF vars, regime, slots, blocks, process, reaper
  <2>2. Shape' /\ \A t \in Slots : Free(t)' <=> Free(t)
    BY <1>0, <2>1, OthersStep, ZenonT(30) DEF Shape, ReaperInv
  <2>3. ASSUME NEW b \in Blocks PROVE NoMore(b)
    <3>1. /\ LiveHolders(b)' = LiveHolders(b) /\ Awaited(b)' = Awaited(b)
          /\ ReaperDebts(b)' = ReaperDebts(b)
      BY <2>1, ZenonT(30) DEF LiveHolders, Awaited, ReaperDebts
    <3>2. SlotDebts(b)' = SlotDebts(b)
      BY <2>1, <2>2, Zenon DEF SlotDebts
    <3> QED BY <2>1, <3>1, <3>2, Zenon DEF NoMore
  <2> QED BY <2>2, <2>3, NoMoreKept, Zenon DEF IInv
<1> QED BY <1>1, <1>2, <1>3, <1>4, <1>5, Zenon DEF Next

LEMMA SlotsInvariant == ASSUME Disciplined PROVE Spec => []IInv
<1>1. Init => IInv
  BY InitInv, Zenon
<1>2. IInv /\ [Next]_vars => IInv'
  BY StepInv, Zenon
<1> QED BY <1>1, <1>2, PTL DEF Spec

(* CleanupDeadConsumers never takes the reference of a live consumer: each *)
(* notified or working process keeps one, for any number of processes,     *)
(* reapers, slots and blocks, as long as the callers are Disciplined.      *)
THEOREM LiveReferencesSafe == ASSUME Disciplined PROVE Spec => []LiveRefsSafe
<1>1. IInv => LiveRefsSafe
  <2>1. SUFFICES ASSUME IInv, NEW b \in Blocks
                 PROVE  refcount[b] >= Cardinality(LiveHolders(b)) + Cardinality(Awaited(b))
    BY Zenon DEF LiveRefsSafe
  <2>2. /\ Cardinality(LiveHolders(b)) \in Nat /\ Cardinality(Awaited(b)) \in Nat
        /\ Cardinality(SlotDebts(b)) \in Nat /\ Cardinality(ReaperDebts(b)) \in Nat
    BY <2>1, CountedBefore, FS_CardinalityType, Zenon
  <2> QED BY <2>1, <2>2, CountedBefore, SMTT(30) DEF Enough
<1> QED BY <1>1, SlotsInvariant, PTL

(* Two live processes never share a slot, and a process at work on a block *)
(* has it in its slot's mask: between processes that come and go the CAS   *)
(* of RegisterConsumer and the order of the stores in UnregisterConsumer   *)
(* suffice for it, and among processes that stay a reaper gives up only    *)
(* the slots of the dead.  Without Disciplined it is false: a slot that    *)
(* was reaped keeps its expired heartbeat.                                 *)
THEOREM SlotsAreConsistent == ASSUME Disciplined PROVE Spec => []SlotsConsistent
<1>1. IInv => SlotsConsistent
  <2>1. SUFFICES ASSUME IInv PROVE SlotsConsistent
    BY Zenon
  <2>2. Shape /\ Types /\ regime \in Regimes
    BY <2>1, Zenon DEF IInv, Shape, RegimeInv
  <2>3. TypeOK
    BY <2>2, Zenon DEF TypeOK, Types, ProcessTypes, SlotTypes, BlockTypes, ReaperTypes
  <2>4. \A c \in Processes : pc[c] \notin {"out", "reg_scan", "dead"} => Seated(c)
    BY <2>2, Zenon DEF Types, ProcessTypes, Points, Seated
  <2>5. \A c, d \in Processes :
          c # d /\ pc[c] \notin {"out", "reg_scan", "dead"} /\ pc[d] \notin {"out", "reg_scan", "dead"}
            => slot[c] # slot[d]
    BY <2>2, <2>4, Zenon DEF Shape, SeatInv
  <2>6. SlotExclusive
    BY <2>3, <2>5, Zenon DEF SlotExclusive
  <2>7. HoldTracked
    BY <2>2, <2>4, Zenon DEF Shape, MaskInv, HoldTracked
  <2> QED BY <2>6, <2>7, Zenon DEF SlotsConsistent
<1> QED BY <1>1, SlotsInvariant, PTL
=============================================================================
