----------------------------- MODULE BlockPool ------------------------------
(***************************************************************************)
(* The block pool of osp::DataDispatcher (data_dispatcher.hpp): producers  *)
(* Alloc a block from a lock-free tagged free list, fill it and Submit it; *)
(* consumers that are notified of it Release it; a monitor runs            *)
(* ScanTimeout and ForceCleanup.  The last reference recycles the block.   *)
(* A producer may run the block through a synchronous stage pipeline       *)
(* instead of notifying directly.                                          *)
(*                                                                         *)
(* A compare-exchange loop on one reference count (load, retry until the   *)
(* exchange succeeds or the count is 0) is one step; the free list's loops *)
(* are not, because they read next_free between the load and the exchange. *)
(***************************************************************************)
EXTENDS Integers, Sequences, FiniteSets

CONSTANTS
  Producers, Consumers, Monitors,
  MaxBlocks,
  ConsumerCount,    \* references given to notified consumers
  Stages, EntryStage, Successors, NotifyStages,   \* the pipeline
  Regimes,          \* the values of <<pipelined, reclaimed>> to look at
  MaxAllocs,        \* bound on the Alloc calls
  MaxReclaimedAllocs,   \* the same, when blocks are reclaimed
  MaxClock          \* bound on the clock

ASSUME PoolAssumption ==
  /\ MaxBlocks \in Nat \ {0} /\ ConsumerCount \in Nat \ {0}
  /\ MaxAllocs \in Nat /\ MaxReclaimedAllocs \in Nat /\ MaxClock \in Nat
  /\ EntryStage \in Stages /\ Regimes \subseteq BOOLEAN \X BOOLEAN
  /\ Successors \in [Stages -> Seq(Stages)] /\ NotifyStages \subseteq Stages

Blocks == 1 .. MaxBlocks
Nil == 0                          \* kJobInvalidIndex
Threads == Producers \cup Consumers \cup Monitors

VARIABLES
  pipelined,        \* the dispatcher has an entry stage
  reclaimed,        \* blocks have deadlines, and monitors reclaim them
  free_head, free_count, alloc_count,
  next_free, state, refcount, generation, deadline,   \* block headers
  payload,                                            \* generation that filled it
  clock, notified,                                    \* time; undelivered notifications
  pc, blk, gen, head, next, todo, now, mode,          \* locals of each thread
  allocs                                              \* Alloc calls made so far

list == <<free_head, next_free>>
counts == <<free_count, alloc_count>>
header == <<state, refcount, generation, deadline>>
env == <<payload, clock, notified, allocs>>
locals == <<blk, gen, head, next, todo, now, mode>>
regime == <<pipelined, reclaimed>>
vars == <<regime, list, counts, header, env, pc, locals>>

kNone == 0
Head0 == [idx |-> Nil, tag |-> 0]

Init ==
  /\ \E r \in Regimes : pipelined = r[1] /\ reclaimed = r[2]
  /\ free_head = [idx |-> 1, tag |-> 0]
  /\ next_free = [b \in Blocks |-> IF b < MaxBlocks THEN b + 1 ELSE Nil]
  /\ free_count = MaxBlocks /\ alloc_count = 0
  /\ state = [b \in Blocks |-> "free"]
  /\ refcount = [b \in Blocks |-> 0]
  /\ generation = [b \in Blocks |-> 0]
  /\ deadline = [b \in Blocks |-> kNone]
  /\ payload = [b \in Blocks |-> 0]
  /\ clock = 1 /\ notified = {} /\ allocs = 0
  /\ pc = [t \in Threads |-> "idle"]
  /\ blk = [t \in Threads |-> Nil] /\ gen = [t \in Threads |-> 0]
  /\ head = [t \in Threads |-> Head0] /\ next = [t \in Threads |-> Nil]
  /\ todo = [t \in Threads |-> <<>>]
  /\ now = [t \in Threads |-> 0] /\ mode = [t \in Threads |-> "none"]

Goto(t, from, to) == pc[t] = from /\ pc' = [pc EXCEPT ![t] = to]

(* The call returns and its locals go out of scope. *)
Return(t) ==
  /\ pc' = [pc EXCEPT ![t] = "idle"]
  /\ blk' = [blk EXCEPT ![t] = Nil] /\ gen' = [gen EXCEPT ![t] = 0]
  /\ head' = [head EXCEPT ![t] = Head0] /\ next' = [next EXCEPT ![t] = Nil]
  /\ todo' = [todo EXCEPT ![t] = <<>>]
  /\ now' = [now EXCEPT ![t] = 0] /\ mode' = [mode EXCEPT ![t] = "none"]

-----------------------------------------------------------------------------
(* Alloc (an exhausted pool leaves the state unchanged) *)

AllocBound == IF reclaimed THEN MaxReclaimedAllocs ELSE MaxAllocs

AllocLoadHead(p) ==
  /\ allocs < AllocBound /\ free_head.idx # Nil
  /\ Goto(p, "idle", "pop_next")
  /\ head' = [head EXCEPT ![p] = free_head]
  /\ allocs' = allocs + 1
  /\ UNCHANGED <<regime, list, counts, header, payload, clock, notified,
                 blk, gen, next, todo, now, mode>>

AllocReadNext(p) ==
  /\ Goto(p, "pop_next", "pop_cas")
  /\ next' = [next EXCEPT ![p] = next_free[head[p].idx]]
  /\ UNCHANGED <<regime, list, counts, header, env, blk, gen, head, todo, now, mode>>

(* Mutant: the head is exchanged without a new tag. *)
NextTag_Same(h) == h.tag

(* The tag of the exchanged head; Alloc also gives it to the block. *)
NextTag(h) == h.tag + 1

AllocPop(p) ==
  /\ Goto(p, "pop_cas", "init")
  /\ free_head = head[p]
  /\ free_head' = [idx |-> next[p], tag |-> NextTag(free_head)]
  /\ blk' = [blk EXCEPT ![p] = head[p].idx]
  /\ gen' = [gen EXCEPT ![p] = NextTag(head[p])]
  /\ UNCHANGED <<regime, next_free, counts, header, env, head, next, todo, now, mode>>

(* The failed exchange reloads the head. *)
AllocRetry(p) ==
  /\ pc[p] = "pop_cas" /\ free_head # head[p]
  /\ IF free_head.idx = Nil
       THEN Return(p)
       ELSE /\ Goto(p, "pop_cas", "pop_next")
            /\ head' = [head EXCEPT ![p] = free_head]
            /\ UNCHANGED <<blk, gen, next, todo, now, mode>>
  /\ UNCHANGED <<regime, list, counts, header, env>>

AllocSetState(p) ==
  /\ Goto(p, "init", "init_gen")
  /\ free_count' = free_count - 1 /\ alloc_count' = alloc_count + 1
  /\ state' = [state EXCEPT ![blk[p]] = "allocated"]
  /\ UNCHANGED <<regime, list, refcount, generation, deadline, env, locals>>

AllocInitHeader(p) ==
  /\ Goto(p, "init_gen", "fill")
  /\ generation' = [generation EXCEPT ![blk[p]] = gen[p]]
  /\ deadline' = [deadline EXCEPT ![blk[p]] = kNone]
  /\ refcount' = [refcount EXCEPT ![blk[p]] = 0]
  /\ UNCHANGED <<regime, list, counts, state, env, locals>>

(* The caller fills the payload through GetWritable. *)
FillPayload(p) ==
  /\ Goto(p, "fill", "submit")
  /\ payload' = [payload EXCEPT ![blk[p]] = gen[p]]
  /\ UNCHANGED <<regime, list, counts, header, clock, notified, allocs, locals>>

-----------------------------------------------------------------------------
(* Submit *)

(* A deadline of now + timeout passes at the next tick of the clock. *)
SubmitSetRefcount(p) ==
  /\ Goto(p, "submit", "ready")
  /\ deadline' = [deadline EXCEPT ![blk[p]] = IF reclaimed THEN clock ELSE kNone]
  /\ refcount' = [refcount EXCEPT ![blk[p]] = IF pipelined THEN 1 ELSE ConsumerCount]
  /\ UNCHANGED <<regime, list, counts, state, generation, env, locals>>

SubmitSetReady(p) ==
  /\ Goto(p, "ready", IF pipelined THEN "stage" ELSE "notify")
  /\ state' = [state EXCEPT ![blk[p]] = "ready"]
  /\ todo' = [todo EXCEPT ![p] = IF pipelined THEN <<EntryStage>> ELSE <<>>]
  /\ UNCHANGED <<regime, list, counts, refcount, generation, deadline, env,
                 blk, gen, head, next, now, mode>>

Notifications(b, g) == {[blk |-> b, gen |-> g, n |-> n] : n \in 1 .. ConsumerCount}

SubmitNotify(p) ==
  /\ pc[p] = "notify"
  /\ notified' = notified \cup Notifications(blk[p], gen[p])
  /\ Return(p)
  /\ UNCHANGED <<regime, list, counts, header, payload, clock, allocs>>

(* ExecuteStage: a stage handler; a notify stage adds a reference for each *)
(* consumer before it notifies them.                                       *)
RunHandler(p) ==
  /\ Goto(p, "stage", "add_ref")
  /\ IF Head(todo[p]) \in NotifyStages
       THEN /\ refcount' = [refcount EXCEPT ![blk[p]] = @ + ConsumerCount]
            /\ notified' = notified \cup Notifications(blk[p], gen[p])
       ELSE UNCHANGED <<refcount, notified>>
  /\ UNCHANGED <<regime, list, counts, state, generation, deadline, payload, clock, allocs, locals>>

(* Mutant: one reference for all the successors. *)
StageAddRef_One(p) ==
  /\ Goto(p, "add_ref", "stage_release")
  /\ refcount' = [refcount EXCEPT ![blk[p]] =
                    IF Successors[Head(todo[p])] = <<>> THEN @ ELSE @ + 1]
  /\ UNCHANGED <<regime, list, counts, state, generation, deadline, env, locals>>

(* OnStageComplete: references for the successors, then our own is released. *)
StageAddRef(p) ==
  /\ Goto(p, "add_ref", "stage_release")
  /\ refcount' = [refcount EXCEPT ![blk[p]] = @ + Len(Successors[Head(todo[p])])]
  /\ UNCHANGED <<regime, list, counts, state, generation, deadline, env, locals>>

(* Mutant: the old value is compared with 0. *)
IsLast_OffByOne(b) == refcount[b] = 0

(* Taking one reference; the caller of the last one recycles. *)
Decrement(b) == refcount' = [refcount EXCEPT ![b] = IF @ > 0 THEN @ - 1 ELSE 0]
IsLast(b) == refcount[b] = 1

StageRelease(p) ==
  /\ pc[p] = "stage_release"
  /\ Decrement(blk[p])
  /\ LET rest == IF IsLast(blk[p]) THEN Tail(todo[p])
                 ELSE Successors[Head(todo[p])] \o Tail(todo[p])
     IN IF ~IsLast(blk[p]) /\ rest = <<>>
          THEN Return(p)
          ELSE /\ Goto(p, "stage_release", IF IsLast(blk[p]) THEN "recycle" ELSE "stage")
               /\ todo' = [todo EXCEPT ![p] = rest]
               /\ UNCHANGED <<blk, gen, head, next, now, mode>>
  /\ UNCHANGED <<regime, list, counts, state, generation, deadline, env>>

-----------------------------------------------------------------------------
(* Consumers *)

Receive(c) ==
  /\ Goto(c, "idle", "use")
  /\ \E m \in notified :
       /\ notified' = notified \ {m}
       /\ blk' = [blk EXCEPT ![c] = m.blk] /\ gen' = [gen EXCEPT ![c] = m.gen]
  /\ UNCHANGED <<regime, list, counts, header, payload, clock, allocs, head, next, todo, now, mode>>

(* Release(block_id, generation): the check, then the release; the other   *)
(* overload makes no check.                                                *)
CheckGeneration(c) ==
  /\ pc[c] = "use"
  /\ \/ generation[blk[c]] # gen[c] /\ Return(c)
     \/ Goto(c, "use", "release") /\ UNCHANGED locals
  /\ UNCHANGED <<regime, list, counts, header, env>>

Release(c) ==
  /\ pc[c] = "release"
  /\ Decrement(blk[c])
  /\ IF IsLast(blk[c])
       THEN Goto(c, "release", "recycle") /\ UNCHANGED locals
       ELSE Return(c)
  /\ UNCHANGED <<regime, list, counts, state, generation, deadline, env>>

-----------------------------------------------------------------------------
(* ScanTimeout and ForceCleanup *)

Tick ==
  /\ clock < MaxClock /\ clock' = clock + 1
  /\ UNCHANGED <<regime, list, counts, header, payload, notified, allocs, pc, locals>>

ScanBegin(m, md) ==
  /\ Goto(m, "idle", "scan")
  /\ now' = [now EXCEPT ![m] = clock] /\ mode' = [mode EXCEPT ![m] = md]
  /\ blk' = [blk EXCEPT ![m] = 1]
  /\ UNCHANGED <<regime, list, counts, header, env, gen, head, next, todo>>

Expired(m, b) == deadline[b] # kNone /\ now[m] > deadline[b]

ScanSelect(m) ==
  /\ Goto(m, "scan", "claim")
  /\ state[blk[m]] = "ready"
  /\ mode[m] = "timeout" => Expired(m, blk[m])   \* the predicate of ForceCleanup is free
  /\ UNCHANGED <<regime, list, counts, header, env, locals>>

NextBlock(m) ==
  IF blk[m] = MaxBlocks
    THEN Return(m)
    ELSE /\ pc' = [pc EXCEPT ![m] = "scan"] /\ blk' = [blk EXCEPT ![m] = @ + 1]
         /\ UNCHANGED <<gen, head, next, todo, now, mode>>

ScanSkip(m) ==
  /\ pc[m] = "scan"
  /\ mode[m] = "timeout" => ~(state[blk[m]] = "ready" /\ Expired(m, blk[m]))
  /\ NextBlock(m)
  /\ UNCHANGED <<regime, list, counts, header, env>>

(* Only the thread whose exchange sets a positive count to 0 goes on. *)
ScanClaim(m) ==
  /\ pc[m] = "claim"
  /\ IF refcount[blk[m]] > 0
       THEN /\ Goto(m, "claim", "mark")
            /\ refcount' = [refcount EXCEPT ![blk[m]] = 0]
            /\ UNCHANGED locals
       ELSE NextBlock(m) /\ UNCHANGED refcount
  /\ UNCHANGED <<regime, list, counts, state, generation, deadline, env>>

ScanMark(m) ==
  /\ Goto(m, "mark", "recycle")
  /\ state' = [state EXCEPT ![blk[m]] = IF mode[m] = "timeout" THEN "timeout" ELSE "error"]
  /\ UNCHANGED <<regime, list, counts, refcount, generation, deadline, env, locals>>

-----------------------------------------------------------------------------
(* Recycle *)

RecycleSetFree(t) ==
  /\ Goto(t, "recycle", "push_link")
  /\ state' = [state EXCEPT ![blk[t]] = "free"]
  /\ alloc_count' = alloc_count - 1
  /\ UNCHANGED <<regime, list, free_count, refcount, generation, deadline, env, locals>>

RecycleLink(t) ==
  /\ Goto(t, "push_link", "push_cas")
  /\ head' = [head EXCEPT ![t] = free_head]
  /\ next_free' = [next_free EXCEPT ![blk[t]] = free_head.idx]
  /\ UNCHANGED <<regime, free_head, counts, header, env, blk, gen, next, todo, now, mode>>

RecyclePush(t) ==
  /\ Goto(t, "push_cas", "count")
  /\ free_head = head[t]
  /\ free_head' = [idx |-> blk[t], tag |-> NextTag(free_head)]
  /\ UNCHANGED <<regime, next_free, counts, header, env, locals>>

RecycleRetry(t) ==
  /\ Goto(t, "push_cas", "push_link")
  /\ free_head # head[t]
  /\ UNCHANGED <<regime, list, counts, header, env, locals>>

(* free_count is raised last; then the caller of Recycle goes on. *)
RecycleCount(t) ==
  /\ pc[t] = "count"
  /\ free_count' = free_count + 1
  /\ IF t \in Monitors
       THEN NextBlock(t)
       ELSE IF todo[t] # <<>>
              THEN Goto(t, "count", "stage") /\ UNCHANGED locals
              ELSE Return(t)
  /\ UNCHANGED <<regime, list, alloc_count, header, env>>

-----------------------------------------------------------------------------
Recycling(t) ==
  RecycleSetFree(t) \/ RecycleLink(t) \/ RecyclePush(t) \/ RecycleRetry(t) \/ RecycleCount(t)

ProducerStep(p) ==
  \/ AllocReadNext(p) \/ AllocPop(p) \/ AllocRetry(p)
  \/ AllocSetState(p) \/ AllocInitHeader(p) \/ FillPayload(p)
  \/ SubmitSetRefcount(p) \/ SubmitSetReady(p) \/ SubmitNotify(p)
  \/ RunHandler(p) \/ StageAddRef(p) \/ StageRelease(p) \/ Recycling(p)

ConsumerStep(c) == Receive(c) \/ CheckGeneration(c) \/ Release(c) \/ Recycling(c)

MonitorStep(m) ==
  ScanSelect(m) \/ ScanSkip(m) \/ ScanClaim(m) \/ ScanMark(m) \/ Recycling(m)

Next ==
  \/ \E p \in Producers : AllocLoadHead(p) \/ ProducerStep(p)
  \/ \E c \in Consumers : ConsumerStep(c)
  \/ reclaimed /\ \E m \in Monitors :
       ScanBegin(m, "timeout") \/ ScanBegin(m, "cleanup") \/ MonitorStep(m)
  \/ reclaimed /\ Tick

Spec == Init /\ [][Next]_vars

-----------------------------------------------------------------------------
TypeOK ==
  /\ regime \in Regimes
  /\ free_head \in [idx : Blocks \cup {Nil}, tag : Nat]
  /\ free_count \in Int /\ alloc_count \in Int
  /\ next_free \in [Blocks -> Blocks \cup {Nil}]
  /\ state \in [Blocks -> {"free", "allocated", "ready", "timeout", "error"}]
  /\ refcount \in [Blocks -> Nat] /\ generation \in [Blocks -> Nat]
  /\ deadline \in [Blocks -> Nat] /\ payload \in [Blocks -> Nat]
  /\ clock \in Nat /\ allocs \in Nat
  /\ \A m \in notified : m.blk \in Blocks /\ m.gen \in Nat
  /\ blk \in [Threads -> Blocks \cup {Nil}] /\ gen \in [Threads -> Nat]
  /\ \A t \in Threads : head[t] \in [idx : Blocks \cup {Nil}, tag : Nat]
  /\ next \in [Threads -> Blocks \cup {Nil}]
  /\ \A t \in Threads : todo[t] \in Seq(Stages)

(* The blocks reached from the head of the free list, in order. *)
Chain ==
  LET at[n \in 0 .. MaxBlocks] ==
        IF n = 0 THEN free_head.idx
        ELSE IF at[n - 1] = Nil THEN Nil ELSE next_free[at[n - 1]]
  IN at
FreeList == {Chain[n] : n \in 0 .. MaxBlocks} \ {Nil}

Pushing(t) == pc[t] \in {"recycle", "push_link", "push_cas"}
Owning(t) == pc[t] \in {"init", "init_gen", "fill", "submit", "mark"} \/ Pushing(t)

(* Every block is in exactly one place: on the free list, referenced, or   *)
(* in the hands of the one thread that popped it or took its last          *)
(* reference.  The tag of the list head is what keeps a stalled Alloc from *)
(* breaking this.                                                          *)
OnePlace ==
  /\ TypeOK
  /\ ~reclaimed =>
       /\ Chain[MaxBlocks] = Nil
       /\ \A b \in Blocks :
            LET owners == {t \in Threads : Owning(t) /\ blk[t] = b}
            IN Cardinality(owners) + (IF b \in FreeList THEN 1 ELSE 0)
                 + (IF refcount[b] > 0 THEN 1 ELSE 0) = 1

(* A block is never put on the free list twice, whatever ScanTimeout,      *)
(* ForceCleanup and late Releases do ("Only the thread that wins the CAS   *)
(* sets kTimeout and recycles").                                           *)
NoDoubleFree ==
  /\ Chain[MaxBlocks] = Nil
  /\ \A t \in Threads : Pushing(t) => blk[t] \notin FreeList
  /\ \A t, u \in Threads : (t # u /\ Pushing(t) /\ Pushing(u)) => blk[t] # blk[u]

(* The references of a live block are accounted for: one per undelivered   *)
(* notification, one per consumer that has not released, and those of the  *)
(* producer's pipeline.  (No reclaiming monitor runs.)                     *)
HeldRefs(b) ==
  Cardinality({m \in notified : m.blk = b})
  + Cardinality({c \in Consumers : pc[c] \in {"use", "release"} /\ blk[c] = b})
PipelineRefs(p) ==
  CASE pc[p] \in {"stage", "add_ref"} -> Len(todo[p])
    [] pc[p] = "stage_release" -> Len(todo[p]) + Len(Successors[Head(todo[p])])
    [] pc[p] = "ready" -> IF pipelined THEN 1 ELSE ConsumerCount
    [] pc[p] = "notify" -> ConsumerCount
    [] OTHER -> 0
RefcountExact ==
  ~reclaimed => \A b \in Blocks :
    LET ps == {p \in Producers : blk[p] = b /\ PipelineRefs(p) > 0}
    IN /\ Cardinality(ps) <= 1
       /\ refcount[b] = HeldRefs(b) + (IF ps = {} THEN 0 ELSE PipelineRefs(CHOOSE p \in ps : TRUE))

(* A consumer that has been notified and has not released reads the        *)
(* payload its notification is about.  (No reclaiming monitor runs.)       *)
PayloadStable ==
  ~reclaimed => \A c \in Consumers : pc[c] \in {"use", "release"} => payload[blk[c]] = gen[c]

(* DataBlock::SetState asserts IsValidBlockTransition: here, at each call. *)
SetStateAsserts ==
  \A t \in Threads :
    /\ pc[t] = "init" => state[blk[t]] = "free"
    /\ pc[t] = "ready" => state[blk[t]] = "allocated"
    /\ pc[t] = "mark" => state[blk[t]] = "ready"
    /\ pc[t] = "recycle" => state[blk[t]] \in {"allocated", "ready", "timeout", "error"}

(* The assertions hold as long as nothing is reclaimed under its users.    *)
AssertsHold == ~reclaimed => SetStateAsserts

(* When nothing is in progress free_count is the length of the free list.  *)
CountsSettle ==
  (\A t \in Threads : pc[t] \in {"idle", "scan"}) =>
    free_count = Cardinality(FreeList) /\ alloc_count = MaxBlocks - free_count

(* The producers finish their calls and the consumers theirs. *)
FairSpec ==
  /\ Spec
  /\ \A p \in Producers : WF_vars(ProducerStep(p))
  /\ \A c \in Consumers : WF_vars(ConsumerStep(c))

(* Every block comes back to the free list: since the producers make       *)
(* finitely many calls, the list is full again and again.                  *)
AllBlocksReturn == ~reclaimed => []<>(FreeList = Blocks)
=============================================================================
