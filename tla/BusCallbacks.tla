---------------------------- MODULE BusCallbacks ----------------------------
(***************************************************************************)
(* Subscription and dispatch in osp::AsyncBus: the callback table of one   *)
(* message type per bus, guarded by detail::SharedSpinLock, with           *)
(* Subscribe and Unsubscribe called from any thread and from inside the    *)
(* callbacks that DispatchMessage runs.                                    *)
(*                                                                         *)
(* The reader depth and the upgrade record are thread_local statics: a     *)
(* thread has one of each, whatever the number of buses.                   *)
(***************************************************************************)
EXTENDS Integers, Sequences, FiniteSets

CONSTANTS
  Buses, Threads,
  Consumer,       \* Consumer[b]: the thread that runs ProcessBatch on bus b
  MaxCallbacks,   \* OSP_BUS_MAX_CALLBACKS_PER_TYPE
  MaxIds,         \* bound: no Subscribe starts once this many ids are handed out
  CrossBus        \* whether a callback of one bus may (un)subscribe on another

Entries == 1 .. MaxCallbacks
Ids == 1 .. MaxIds + Cardinality(Threads)
Inactive == 0

VARIABLES
  state,                                  \* SharedSpinLock::state_ of each bus
  entry, count, next_callback_id,         \* the CallbackSlot of each bus
  tl_reader_depth, tl_upgrade_writer, tl_upgrade_depth,
  stack                                   \* calls in progress, innermost first

locks == <<state, tl_reader_depth, tl_upgrade_writer, tl_upgrade_depth>>
table == <<entry, count, next_callback_id>>
vars == <<locks, table, stack>>

(* A call in progress.  at is the loop index of a dispatch or the handle   *)
(* of an Unsubscribe.  due and called are history: the callbacks that were *)
(* subscribed when the dispatch began and that it has not called, and      *)
(* those that it has called.                                               *)
Frame(op, b, pc, at) ==
  [op |-> op, bus |-> b, pc |-> pc, at |-> at, found |-> 0, due |-> {},
   called |-> {}]

Init ==
  /\ state = [b \in Buses |-> 0]
  /\ entry = [b \in Buses |-> [e \in Entries |-> Inactive]]
  /\ count = [b \in Buses |-> 0]
  /\ next_callback_id = [b \in Buses |-> 1]
  /\ tl_reader_depth = [t \in Threads |-> 0]
  /\ tl_upgrade_writer = [t \in Threads |-> FALSE]
  /\ tl_upgrade_depth = [t \in Threads |-> 0]
  /\ stack = [t \in Threads |-> <<>>]

Top(t) == Head(stack[t])
At(t, pc) == stack[t] # <<>> /\ Top(t).pc = pc
Replace(t, f) == stack' = [stack EXCEPT ![t] = <<f>> \o Tail(@)]
Goto(t, pc) == Replace(t, [Top(t) EXCEPT !.pc = pc])
Finish(t) == stack' = [stack EXCEPT ![t] = Tail(@)]
Call(t, f) == stack' = [stack EXCEPT ![t] = <<f>> \o @]

(* User code runs between calls and inside a callback. *)
MayCall(t, b) ==
  \/ stack[t] = <<>>
  \/ At(t, "callback") /\ (CrossBus \/ Top(t).bus = b)

-----------------------------------------------------------------------------
(* DispatchMessage *)

BeginDispatch(t, b) ==
  /\ stack[t] = <<>> /\ Consumer[b] = t
  /\ Call(t, Frame("dispatch", b, "lock_shared", 1))
  /\ UNCHANGED <<locks, table>>

LockShared(t) ==
  /\ At(t, "lock_shared")
  /\ LET b == Top(t).bus IN
       IF tl_reader_depth[t] > 0
         THEN /\ tl_reader_depth' = [tl_reader_depth EXCEPT ![t] = @ + 1]
              /\ UNCHANGED state
         ELSE /\ state[b] >= 0
              /\ state' = [state EXCEPT ![b] = @ + 1]
              /\ tl_reader_depth' = [tl_reader_depth EXCEPT ![t] = 1]
  /\ Goto(t, "check")
  /\ UNCHANGED <<tl_upgrade_writer, tl_upgrade_depth, table>>

Active(b) == {entry[b][e] : e \in {x \in Entries : entry[b][x] # Inactive}}

CheckCount(t) ==
  /\ At(t, "check")
  /\ LET b == Top(t).bus IN
       IF count[b] = 0
         THEN Goto(t, "unlock_shared")
         ELSE Replace(t, [Top(t) EXCEPT !.pc = "loop", !.due = Active(b)])
  /\ UNCHANGED <<locks, table>>

LoopContinues(f) == f.at <= MaxCallbacks /\ f.found < count[f.bus]

(* Mutant: entries that are not in use count as found. *)
NextEntry_CountsInactive(t) ==
  /\ At(t, "loop") /\ LoopContinues(Top(t))
  /\ LET f == Top(t)
         id == entry[f.bus][f.at]
     IN IF id # Inactive
          THEN Replace(t, [f EXCEPT !.pc = "callback", !.due = @ \ {id},
                                    !.called = @ \cup {id}])
          ELSE Replace(t, [f EXCEPT !.at = @ + 1, !.found = @ + 1])
  /\ UNCHANGED <<locks, table>>

(* The loop condition reads the live count. *)
NextEntry(t) ==
  /\ At(t, "loop") /\ LoopContinues(Top(t))
  /\ LET f == Top(t)
         id == entry[f.bus][f.at]
     IN IF id # Inactive
          THEN Replace(t, [f EXCEPT !.pc = "callback", !.due = @ \ {id},
                                    !.called = @ \cup {id}])
          ELSE Replace(t, [f EXCEPT !.at = @ + 1])
  /\ UNCHANGED <<locks, table>>

CallbackReturns(t) ==
  /\ At(t, "callback")
  /\ Replace(t, [Top(t) EXCEPT !.pc = "loop", !.at = @ + 1, !.found = @ + 1])
  /\ UNCHANGED <<locks, table>>

LoopEnds(t) ==
  /\ At(t, "loop") /\ ~LoopContinues(Top(t))
  /\ Goto(t, "unlock_shared")
  /\ UNCHANGED <<locks, table>>

UnlockShared(t) ==
  /\ At(t, "unlock_shared")
  /\ IF tl_reader_depth[t] > 1
       THEN /\ tl_reader_depth' = [tl_reader_depth EXCEPT ![t] = @ - 1]
            /\ UNCHANGED state
       ELSE /\ tl_reader_depth' = [tl_reader_depth EXCEPT ![t] = 0]
            /\ state' = [state EXCEPT ![Top(t).bus] = @ - 1]
  /\ Finish(t)
  /\ UNCHANGED <<tl_upgrade_writer, tl_upgrade_depth, table>>

-----------------------------------------------------------------------------
(* Subscribe and Unsubscribe *)

BeginSubscribe(t, b) ==
  /\ MayCall(t, b) /\ next_callback_id[b] <= MaxIds
  /\ Call(t, Frame("subscribe", b, "lock", 0))
  /\ UNCHANGED <<locks, table>>

BeginUnsubscribe(t, b, id) ==
  /\ MayCall(t, b) /\ id < next_callback_id[b]
  /\ Call(t, Frame("unsubscribe", b, "lock", id))
  /\ UNCHANGED <<locks, table>>

(* lock() by a thread that holds the reader lock drops its reader holds. *)
DropReaderHolds(t) ==
  /\ At(t, "lock") /\ tl_reader_depth[t] > 0
  /\ tl_upgrade_depth' = [tl_upgrade_depth EXCEPT ![t] = tl_reader_depth[t]]
  /\ state' = [state EXCEPT ![Top(t).bus] = @ - tl_reader_depth[t]]
  /\ tl_reader_depth' = [tl_reader_depth EXCEPT ![t] = 0]
  /\ tl_upgrade_writer' = [tl_upgrade_writer EXCEPT ![t] = TRUE]
  /\ UNCHANGED <<table, stack>>

LockExclusive(t) ==
  /\ At(t, "lock") /\ tl_reader_depth[t] = 0
  /\ state[Top(t).bus] = 0
  /\ state' = [state EXCEPT ![Top(t).bus] = -1]
  /\ Goto(t, "body")
  /\ UNCHANGED <<tl_reader_depth, tl_upgrade_writer, tl_upgrade_depth, table>>

FirstInactive(b) ==
  LET free == {e \in Entries : entry[b][e] = Inactive}
  IN {e \in free : \A f \in free : e <= f}

(* The id is consumed even when the table is full. *)
SubscribeBody(t) ==
  /\ At(t, "body") /\ Top(t).op = "subscribe"
  /\ LET b == Top(t).bus IN
       /\ entry' = [entry EXCEPT ![b] =
            [e \in Entries |-> IF e \in FirstInactive(b) THEN next_callback_id[b] ELSE @[e]]]
       /\ count' = [count EXCEPT ![b] = @ + Cardinality(FirstInactive(b))]
       /\ next_callback_id' = [next_callback_id EXCEPT ![b] = @ + 1]
  /\ Goto(t, "unlock")
  /\ UNCHANGED locks

UnsubscribeBody(t) ==
  /\ At(t, "body") /\ Top(t).op = "unsubscribe"
  /\ LET b == Top(t).bus
         id == Top(t).at
     IN /\ entry' = [entry EXCEPT ![b] = [e \in Entries |-> IF @[e] = id THEN Inactive ELSE @[e]]]
        /\ count' = [count EXCEPT ![b] = IF id \in Active(b) THEN @ - 1 ELSE @]
  /\ Goto(t, "unlock")
  /\ UNCHANGED <<locks, next_callback_id>>

Unlock(t) ==
  /\ At(t, "unlock")
  /\ LET b == Top(t).bus IN
       IF tl_upgrade_writer[t]
         THEN /\ tl_upgrade_writer' = [tl_upgrade_writer EXCEPT ![t] = FALSE]
              /\ tl_reader_depth' = [tl_reader_depth EXCEPT ![t] = tl_upgrade_depth[t]]
              /\ state' = [state EXCEPT ![b] = tl_upgrade_depth[t]]
         ELSE /\ state' = [state EXCEPT ![b] = 0]
              /\ UNCHANGED <<tl_upgrade_writer, tl_reader_depth>>
  /\ Finish(t)
  /\ UNCHANGED <<tl_upgrade_depth, table>>

-----------------------------------------------------------------------------
DispatchStep(t) ==
  \/ LockShared(t) \/ CheckCount(t) \/ NextEntry(t) \/ CallbackReturns(t)
  \/ LoopEnds(t) \/ UnlockShared(t)

WriterStep(t) ==
  \/ DropReaderHolds(t) \/ LockExclusive(t)
  \/ SubscribeBody(t) \/ UnsubscribeBody(t) \/ Unlock(t)

Next ==
  \E t \in Threads :
    \/ \E b \in Buses : BeginDispatch(t, b) \/ BeginSubscribe(t, b)
    \/ \E b \in Buses, id \in Ids : BeginUnsubscribe(t, b, id)
    \/ DispatchStep(t) \/ WriterStep(t)

Spec == Init /\ [][Next]_vars

-----------------------------------------------------------------------------
Frames == [op : {"dispatch", "subscribe", "unsubscribe"}, bus : Buses,
           pc : {"lock_shared", "check", "loop", "callback", "unlock_shared",
                 "lock", "body", "unlock"},
           at : Nat, found : 0 .. MaxCallbacks,
           due : SUBSET Ids, called : SUBSET Ids]

TypeOK ==
  /\ state \in [Buses -> Int]
  /\ entry \in [Buses -> [Entries -> Ids \cup {Inactive}]]
  /\ count \in [Buses -> 0 .. MaxCallbacks]
  /\ next_callback_id \in [Buses -> Nat \ {0}]
  /\ tl_reader_depth \in [Threads -> Nat]
  /\ tl_upgrade_writer \in [Threads -> BOOLEAN]
  /\ tl_upgrade_depth \in [Threads -> Nat]
  /\ \A t \in Threads : \A n \in DOMAIN stack[t] : stack[t][n] \in Frames

(* t is inside a dispatch on b and has not dropped its reader hold. *)
HoldsReader(t, b) ==
  /\ ~tl_upgrade_writer[t]
  /\ \E n \in DOMAIN stack[t] :
       stack[t][n].op = "dispatch" /\ stack[t][n].bus = b /\ stack[t][n].pc # "lock_shared"

HoldsWriter(t, b) == (At(t, "body") \/ At(t, "unlock")) /\ Top(t).bus = b

(* The encoding bus.hpp documents for state_: "state_ >= 0 : number of     *)
(* active readers", "state_ == -1 : writer holds exclusive lock".  With    *)
(* re-entrant Subscribe/Unsubscribe it is what keeps a table change from   *)
(* running beside a dispatch loop or another change.                       *)
StateEncoding ==
  \A b \in Buses :
    LET readers == {t \in Threads : HoldsReader(t, b)}
        writers == {t \in Threads : HoldsWriter(t, b)}
    IN /\ Cardinality(writers) <= 1
       /\ writers # {} => readers = {}
       /\ state[b] = IF writers # {} THEN -1 ELSE Cardinality(readers)

(* slot.count is the number of active entries whenever nobody is changing  *)
(* them.                                                                   *)
CountMatchesEntries ==
  /\ TypeOK
  /\ \A b \in Buses : count[b] = Cardinality({e \in Entries : entry[b][e] # Inactive})

(* The dispatch loop compares the callbacks it has called with the live    *)
(* count, so that one it has called and that is unsubscribed before the    *)
(* loop is over (by itself, or by another thread while a callback has      *)
(* dropped the reader lock) hides one that is not called yet.  No more are *)
(* missed: of the callbacks subscribed when the dispatch began and still   *)
(* subscribed at its end, at most as many are left out as were called and  *)
(* are gone; whatever is subscribed meanwhile, and none if nobody left.    *)
MissedOnlyForTheGone ==
  \A t \in Threads :
    At(t, "unlock_shared") =>
      LET f == Top(t) IN
        Cardinality(f.due \cap Active(f.bus)) <= Cardinality(f.called \ Active(f.bus))
=============================================================================
