--------------------------- MODULE ConsumerSlots ----------------------------
(***************************************************************************)
(* Consumer tracking of the shared-memory DataDispatcher: processes take a *)
(* ConsumerSlot, beat, and record in its holding_mask the blocks they hold *)
(* a reference to; CleanupDeadConsumers (run by Reapers) returns the       *)
(* references of processes that died.  The life of a block outside its     *)
(* reference count is in BlockPool: here recycling is one step with the    *)
(* last reference, and a block with no reference can be submitted again.   *)
(*                                                                         *)
(* One action is one access to a shared word.  Time is the age of each     *)
(* heartbeat; it stops growing once the heartbeat has expired.             *)
(***************************************************************************)
EXTENDS Integers, FiniteSets

CONSTANTS
  Processes, Reapers,
  MaxConsumers, MaxBlocks,
  Timeout,        \* OSP_JOB_CONSUMER_TIMEOUT_US, in ticks
  Regimes,        \* the values of <<joining, reaping>> to look at
  CrashPoints     \* points of a consumer's loop at which it may die

ASSUME SlotAssumption ==
  /\ MaxConsumers \in Nat \ {0} /\ MaxBlocks \in Nat \ {0} /\ Timeout \in Nat
  /\ IsFiniteSet(Processes) /\ IsFiniteSet(Reapers)
  /\ Regimes \subseteq BOOLEAN \X BOOLEAN

Slots == 1 .. MaxConsumers
Blocks == 1 .. MaxBlocks
Never == -1                       \* heartbeat_us = 0

VARIABLES
  joining,                               \* processes register and unregister
  reaping,                               \* processes die and reapers run
  active, heartbeat, holding_mask,       \* the ConsumerSlots; heartbeat is an age
  refcount,                              \* of each block
  notified,                              \* <<process, block>>: not yet received
  pc, slot, blk,                         \* locals of each process
  rpc, rslot, rmask                      \* locals of each reaper

regime == <<joining, reaping>>
slots == <<active, heartbeat, holding_mask>>
blocks == <<refcount, notified>>
process == <<pc, slot, blk>>
reaper == <<rpc, rslot, rmask>>
vars == <<regime, slots, blocks, process, reaper>>

(* Unless they are joining, the processes (as many as have room) start out *)
(* registered, each in its own slot.                                       *)
Init ==
  /\ \E r \in Regimes : joining = r[1] /\ reaping = r[2]
  /\ \E at \in [Processes -> 0 .. MaxConsumers] :
       /\ \A c, d \in Processes : (c # d /\ at[c] # 0) => at[c] # at[d]
       /\ joining <=> at = [c \in Processes |-> 0]
       /\ slot = at
       /\ active = [s \in Slots |-> IF \E c \in Processes : at[c] = s THEN 1 ELSE 0]
       /\ pc = [c \in Processes |-> IF at[c] = 0 THEN "out" ELSE "ready"]
  /\ heartbeat = [s \in Slots |-> IF active[s] = 1 THEN 0 ELSE Never]
  /\ holding_mask = [s \in Slots |-> {}]
  /\ refcount = [b \in Blocks |-> 0] /\ notified = {}
  /\ blk = [c \in Processes |-> 0]
  /\ rpc = [r \in Reapers |-> "idle"]
  /\ rslot = [r \in Reapers |-> 0] /\ rmask = [r \in Reapers |-> {}]

Goto(c, from, to) == pc[c] = from /\ pc' = [pc EXCEPT ![c] = to]
RGoto(r, from, to) == rpc[r] = from /\ rpc' = [rpc EXCEPT ![r] = to]

-----------------------------------------------------------------------------
(* RegisterConsumer and UnregisterConsumer *)

RegisterBegin(c) ==
  /\ joining /\ Goto(c, "out", "reg_scan") /\ slot' = [slot EXCEPT ![c] = 1]
  /\ UNCHANGED <<regime, slots, blocks, blk, reaper>>

RegisterClaim(c) ==
  /\ pc[c] = "reg_scan"
  /\ IF active[slot[c]] = 0
       THEN /\ active' = [active EXCEPT ![slot[c]] = 1]
            /\ Goto(c, "reg_scan", "reg_heartbeat") /\ UNCHANGED slot
       ELSE /\ IF slot[c] = MaxConsumers
                 THEN Goto(c, "reg_scan", "out") /\ slot' = [slot EXCEPT ![c] = 0]
                 ELSE UNCHANGED pc /\ slot' = [slot EXCEPT ![c] = @ + 1]
            /\ UNCHANGED active
  /\ UNCHANGED <<regime, heartbeat, holding_mask, blocks, blk, reaper>>

RegisterHeartbeat(c) ==
  /\ Goto(c, "reg_heartbeat", "reg_mask")
  /\ heartbeat' = [heartbeat EXCEPT ![slot[c]] = 0]
  /\ UNCHANGED <<regime, active, holding_mask, blocks, slot, blk, reaper>>

RegisterMask(c) ==
  /\ Goto(c, "reg_mask", "ready")
  /\ holding_mask' = [holding_mask EXCEPT ![slot[c]] = {}]
  /\ UNCHANGED <<regime, active, heartbeat, blocks, slot, blk, reaper>>

(* Mutant: the slot is given up before it is cleaned. *)
UnregisterMask_ActiveFirst(c) ==
  /\ joining /\ ~\E m \in notified : m[1] = c
  /\ Goto(c, "ready", "unreg_heartbeat")
  /\ active' = [active EXCEPT ![slot[c]] = 0]
  /\ UNCHANGED <<regime, heartbeat, holding_mask, blocks, slot, blk, reaper>>

UnregisterMask(c) ==
  /\ joining /\ ~\E m \in notified : m[1] = c
  /\ Goto(c, "ready", "unreg_heartbeat")
  /\ holding_mask' = [holding_mask EXCEPT ![slot[c]] = {}]
  /\ UNCHANGED <<regime, active, heartbeat, blocks, slot, blk, reaper>>

UnregisterHeartbeat(c) ==
  /\ Goto(c, "unreg_heartbeat", "unreg_active")
  /\ heartbeat' = [heartbeat EXCEPT ![slot[c]] = Never]
  /\ UNCHANGED <<regime, active, holding_mask, blocks, slot, blk, reaper>>

UnregisterActive(c) ==
  /\ Goto(c, "unreg_active", "out")
  /\ active' = [active EXCEPT ![slot[c]] = 0] /\ slot' = [slot EXCEPT ![c] = 0]
  /\ UNCHANGED <<regime, heartbeat, holding_mask, blocks, blk, reaper>>

-----------------------------------------------------------------------------
(* The consumer's loop, and the producer that submits to it *)

Registered(c) == pc[c] \in {"ready", "hold", "processing", "untrack"}

Submit(b, targets) ==
  /\ refcount[b] = 0 /\ targets # {}
  /\ refcount' = [refcount EXCEPT ![b] = Cardinality(targets)]
  /\ notified' = notified \cup {<<c, b>> : c \in targets}
  /\ UNCHANGED <<regime, slots, process, reaper>>

Receive(c, b) ==
  /\ <<c, b>> \in notified /\ notified' = notified \ {<<c, b>>}
  /\ Goto(c, "ready", "hold") /\ blk' = [blk EXCEPT ![c] = b]
  /\ UNCHANGED <<regime, slots, refcount, slot, reaper>>

TrackBlockHold(c) ==
  /\ Goto(c, "hold", "processing")
  /\ holding_mask' = [holding_mask EXCEPT ![slot[c]] = @ \cup {blk[c]}]
  /\ UNCHANGED <<regime, active, heartbeat, blocks, slot, blk, reaper>>

ConsumerHeartbeat(c) ==
  /\ Registered(c)
  /\ heartbeat' = [heartbeat EXCEPT ![slot[c]] = 0]
  /\ UNCHANGED <<regime, active, holding_mask, blocks, process, reaper>>

Decremented(b) == [refcount EXCEPT ![b] = IF @ > 0 THEN @ - 1 ELSE 0]

Release(c) ==
  /\ Goto(c, "processing", "untrack")
  /\ refcount' = Decremented(blk[c])
  /\ UNCHANGED <<regime, slots, notified, slot, blk, reaper>>

TrackBlockRelease(c) ==
  /\ Goto(c, "untrack", "ready")
  /\ holding_mask' = [holding_mask EXCEPT ![slot[c]] = @ \ {blk[c]}]
  /\ blk' = [blk EXCEPT ![c] = 0]
  /\ UNCHANGED <<regime, active, heartbeat, blocks, slot, reaper>>

(* The process dies and is not restarted under the same name. *)
Crash(c) ==
  /\ reaping /\ pc[c] \in CrashPoints /\ ~\E m \in notified : m[1] = c
  /\ pc' = [pc EXCEPT ![c] = "dead"]
  /\ UNCHANGED <<regime, slots, blocks, slot, blk, reaper>>

(* Time passes, but a live consumer beats before its heartbeat expires. *)
Beating(c) == Registered(c) \/ pc[c] \in {"reg_mask", "unreg_heartbeat"}

Tick ==
  /\ \A c \in Processes : Beating(c) => heartbeat[slot[c]] < Timeout
  /\ heartbeat' = [s \in Slots |->
       IF heartbeat[s] \in 0 .. Timeout THEN heartbeat[s] + 1 ELSE heartbeat[s]]
  /\ heartbeat' # heartbeat
  /\ UNCHANGED <<regime, active, holding_mask, blocks, process, reaper>>

-----------------------------------------------------------------------------
(* CleanupDeadConsumers *)

IsConsumerDead(s) == heartbeat[s] # Never /\ heartbeat[s] > Timeout

NextSlot(r) ==
  IF rslot[r] = MaxConsumers
    THEN rpc' = [rpc EXCEPT ![r] = "idle"] /\ rslot' = [rslot EXCEPT ![r] = 0]
    ELSE rpc' = [rpc EXCEPT ![r] = "load"] /\ rslot' = [rslot EXCEPT ![r] = @ + 1]

ReapBegin(r) ==
  /\ reaping /\ RGoto(r, "idle", "load") /\ rslot' = [rslot EXCEPT ![r] = 1]
  /\ UNCHANGED <<regime, slots, blocks, process, rmask>>

LoadActive(r) ==
  /\ RGoto(r, "load", IF active[rslot[r]] = 1 THEN "alive" ELSE "take_inactive")
  /\ UNCHANGED <<regime, slots, blocks, process, rslot, rmask>>

CheckAlive(r) ==
  /\ rpc[r] = "alive"
  /\ IF IsConsumerDead(rslot[r])
       THEN RGoto(r, "alive", "take_active") /\ UNCHANGED rslot
       ELSE NextSlot(r)
  /\ UNCHANGED <<regime, slots, blocks, process, rmask>>

(* Mutant: the mask is read and left in place. *)
TakeMask_Load(r) ==
  /\ rpc[r] \in {"take_active", "take_inactive"}
  /\ rmask' = [rmask EXCEPT ![r] = holding_mask[rslot[r]]]
  /\ rpc' = [rpc EXCEPT ![r] = IF rpc[r] = "take_active" THEN "flip" ELSE "release"]
  /\ UNCHANGED <<regime, slots, blocks, process, rslot>>

TakeMask(r) ==
  /\ rpc[r] \in {"take_active", "take_inactive"}
  /\ rmask' = [rmask EXCEPT ![r] = holding_mask[rslot[r]]]
  /\ holding_mask' = [holding_mask EXCEPT ![rslot[r]] = {}]
  /\ rpc' = [rpc EXCEPT ![r] = IF rpc[r] = "take_active" THEN "flip" ELSE "release"]
  /\ UNCHANGED <<regime, active, heartbeat, blocks, process, rslot>>

FlipActive(r) ==
  /\ rpc[r] = "flip"
  /\ IF active[rslot[r]] = 1
       THEN /\ active' = [active EXCEPT ![rslot[r]] = 0]
            /\ RGoto(r, "flip", "release")
       ELSE RGoto(r, "flip", "lost") /\ UNCHANGED active
  /\ UNCHANGED <<regime, heartbeat, holding_mask, blocks, process, rslot, rmask>>

(* Mutant: the mask of a lost claim is forgotten. *)
LostClaim_Forgets(r) ==
  /\ rpc[r] = "lost"
  /\ NextSlot(r) /\ rmask' = [rmask EXCEPT ![r] = {}]
  /\ UNCHANGED <<regime, slots, blocks, process>>

(* Lost the claim to another reaper: the mask goes back to an inactive slot. *)
LostClaim(r) ==
  /\ rpc[r] = "lost"
  /\ IF active[rslot[r]] = 0
       THEN RGoto(r, "lost", "restore") /\ UNCHANGED <<rslot, rmask>>
       ELSE NextSlot(r) /\ rmask' = [rmask EXCEPT ![r] = {}]
  /\ UNCHANGED <<regime, slots, blocks, process>>

RestoreMask(r) ==
  /\ rpc[r] = "restore"
  /\ holding_mask' = [holding_mask EXCEPT ![rslot[r]] = @ \cup rmask[r]]
  /\ rmask' = [rmask EXCEPT ![r] = {}]
  /\ NextSlot(r)
  /\ UNCHANGED <<regime, active, heartbeat, blocks, process>>

ReleaseHeld(r) ==
  /\ rpc[r] = "release"
  /\ IF rmask[r] = {}
       THEN NextSlot(r) /\ UNCHANGED <<refcount, rmask>>
       ELSE LET b == CHOOSE x \in rmask[r] : \A y \in rmask[r] : x <= y IN
              /\ refcount' = Decremented(b)
              /\ rmask' = [rmask EXCEPT ![r] = @ \ {b}]
              /\ UNCHANGED <<rpc, rslot>>
  /\ UNCHANGED <<regime, slots, notified, process>>

-----------------------------------------------------------------------------
Consume(c) ==
  \/ (\E b \in Blocks : Receive(c, b))
  \/ TrackBlockHold(c) \/ Release(c) \/ TrackBlockRelease(c)

Membership(c) ==
  \/ RegisterBegin(c) \/ RegisterClaim(c) \/ RegisterHeartbeat(c) \/ RegisterMask(c)
  \/ UnregisterMask(c) \/ UnregisterHeartbeat(c) \/ UnregisterActive(c)

Reap(r) ==
  \/ ReapBegin(r) \/ LoadActive(r) \/ CheckAlive(r) \/ TakeMask(r) \/ FlipActive(r)
  \/ LostClaim(r) \/ RestoreMask(r) \/ ReleaseHeld(r)

Next ==
  \/ \E c \in Processes : Consume(c) \/ Membership(c) \/ ConsumerHeartbeat(c) \/ Crash(c)
  \/ \E b \in Blocks : \E targets \in SUBSET {c \in Processes : Registered(c)} : Submit(b, targets)
  \/ Tick
  \/ \E r \in Reapers : Reap(r)

Spec == Init /\ [][Next]_vars

(* Threads run, live consumers beat, time passes and a reaper keeps reaping. *)
FairSpec ==
  /\ Spec /\ WF_vars(Tick)
  /\ \A c \in Processes : WF_vars(Consume(c)) /\ WF_vars(ConsumerHeartbeat(c))
  /\ \A r \in Reapers : WF_vars(Reap(r))

-----------------------------------------------------------------------------
TypeOK ==
  /\ regime \in Regimes
  /\ active \in [Slots -> {0, 1}]
  /\ heartbeat \in [Slots -> Never .. Timeout + 1]
  /\ holding_mask \in [Slots -> SUBSET Blocks]
  /\ refcount \in [Blocks -> Nat] /\ notified \subseteq Processes \X Blocks
  /\ slot \in [Processes -> 0 .. MaxConsumers] /\ blk \in [Processes -> 0 .. MaxBlocks]
  /\ rslot \in [Reapers -> 0 .. MaxConsumers] /\ rmask \in [Reapers -> SUBSET Blocks]

LiveHolders(b) == {c \in Processes : pc[c] \in {"hold", "processing"} /\ blk[c] = b}
Awaited(b) == {m \in notified : m[2] = b}

(* Nobody takes the reference of a live consumer: as long as a live        *)
(* process was notified of a block and has not released it, the block      *)
(* keeps a reference for it and cannot be recycled under it.               *)
(* CleanupDeadConsumers: "so a consumer that later registers into this     *)
(* slot never has its bits stolen by this reaper."                         *)
LiveRefsSafe == \A b \in Blocks : refcount[b] >= Cardinality(LiveHolders(b)) + Cardinality(Awaited(b))

(* A live consumer at work on a block has it recorded in its slot's mask,  *)
(* or a crash from here on could not be repaired: neither another process  *)
(* leaving or entering a slot nor a reaper clears the bit.                 *)
HoldTracked ==
  \A c \in Processes : pc[c] = "processing" => blk[c] \in holding_mask[slot[c]]

(* Two live processes never share a slot: RegisterConsumer's claim of a    *)
(* slot and the three stores of UnregisterConsumer hand it from one        *)
(* process to the next, and a reaper gives up only the slots of the dead.  *)
(* With Regimes that both join and reap it does not hold: a reaped slot    *)
(* keeps its expired heartbeat, and its next owner can be taken for dead   *)
(* between the claim and the first heartbeat.                              *)
SlotExclusive ==
  LET Seated(c) == pc[c] \notin {"out", "reg_scan", "dead"}
  IN /\ TypeOK
     /\ \A c, d \in Processes : c # d /\ Seated(c) /\ Seated(d) => slot[c] # slot[d]

(* What a dead process held is given back: the block's count comes down to *)
(* its live references, and stays reusable.                                *)
DeadRefsReturned ==
  \A c \in Processes, b \in Blocks :
    []<>(pc[c] = "dead" /\ blk[c] = b =>
           refcount[b] = Cardinality(LiveHolders(b)) + Cardinality(Awaited(b)))

(* Both: the slots of the live processes are their own and say what they   *)
(* hold, whoever registers, leaves, dies or reaps, as far as Regimes let   *)
(* them do so together.                                                    *)
SlotsConsistent == SlotExclusive /\ HoldTracked
=============================================================================
