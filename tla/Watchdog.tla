------------------------------ MODULE Watchdog ------------------------------
(***************************************************************************)
(* osp::ThreadWatchdog: slots that monitored threads feed, Check() that    *)
(* compares the last beat with the timeout and reports changes, and the    *)
(* internal thread that calls Check().  Time is kept as ages: the ticks    *)
(* since the last beat of a slot and since a checker read the clock.  Each *)
(* registration has one thread that feeds with the id it was given, and    *)
(* goes on doing so after its owner unregistered it.                       *)
(***************************************************************************)
EXTENDS Integers, Sequences, FiniteSets

CONSTANTS
  Workers,
  MaxThreads,
  Timeout,          \* in ticks, for every slot
  MaxLag,           \* bound: the ticks between reading the clock and locking
  MaxGeneration,    \* bound: registrations of one slot
  IdGenerations,    \* the generations that fit above the slot bits of an id
  FeedRaces         \* TRUE: an owner may unregister a thread that is in Feed()

VARIABLES
  slots,            \* active, generation, timed_out, and the age of the beat
  id,               \* the id each worker was given last
  wpc,              \* "run", or "beat": Feed() found the id valid
  auto,             \* auto_check_running_
  opc,              \* the thread that starts and stops the internal one
  cpc, lag, pending,\* the checkers: the internal thread and the timer
  ticking,          \* TRUE: TimerScheduler runs CheckTick as well
  own, beaten, told \* history, per slot: see the properties

vars == <<slots, id, wpc, auto, opc, cpc, lag, pending, ticking, own, beaten, told>>
checks == <<auto, opc, cpc, lag, pending, ticking>>

Checkers == {"auto", "timer"}
Slots == 0 .. MaxThreads - 1
Oldest == Timeout + 1 + MaxLag
Older(age) == IF age < Oldest THEN age + 1 ELSE Oldest
NoId == [gen |-> 0, idx |-> 0]

(* The generation bits above the slot bits are lost. *)
EncodedId(i, generation) == [gen |-> generation % IdGenerations, idx |-> i]
IsCurrent(s, d) == s[d.idx].active /\ s[d.idx].generation = d.gen

Init ==
  /\ slots = [i \in Slots |->
                [active |-> FALSE, generation |-> 0, timed_out |-> FALSE, age |-> 0]]
  /\ id = [w \in Workers |-> NoId] /\ wpc = [w \in Workers |-> "run"]
  /\ auto = FALSE /\ opc = "idle"
  /\ cpc = [c \in Checkers |-> "idle"] /\ lag = [c \in Checkers |-> 0]
  /\ pending = [c \in Checkers |-> <<>>]
  /\ ticking \in BOOLEAN
  /\ own = [i \in Slots |-> 0] /\ beaten = [i \in Slots |-> FALSE]
  /\ told = [i \in Slots |-> FALSE]

-----------------------------------------------------------------------------
(* Registration and feeding *)

Free == {i \in Slots : ~slots[i].active}
Holds(w) == IsCurrent(slots, id[w])

(* The first free slot; kSlotsFull changes nothing. *)
Register(w) ==
  /\ ~Holds(w) /\ wpc[w] = "run" /\ Free # {}
  /\ LET i == CHOOSE i \in Free : \A j \in Free : i <= j
         generation == slots[i].generation + 1
     IN /\ generation <= MaxGeneration
        /\ slots' = [slots EXCEPT ![i] =
             [active |-> TRUE, generation |-> generation, timed_out |-> FALSE, age |-> 0]]
        /\ id' = [id EXCEPT ![w] = EncodedId(i, generation)]
        /\ own' = [own EXCEPT ![i] = 0] /\ told' = [told EXCEPT ![i] = FALSE]
        /\ beaten' = [beaten EXCEPT ![i] = FALSE]
  /\ UNCHANGED <<wpc, checks>>

Unregister(w) ==
  /\ Holds(w) /\ (FeedRaces \/ wpc[w] = "run")
  /\ slots' = [slots EXCEPT ![id[w].idx].active = FALSE]
  /\ UNCHANGED <<id, wpc, checks, own, beaten, told>>

(* Mutant: any id of an active slot feeds it. *)
FeedCheck_NoGeneration(w) ==
  /\ wpc[w] = "run" /\ id[w] # NoId /\ slots[id[w].idx].active
  /\ wpc' = [wpc EXCEPT ![w] = "beat"]
  /\ UNCHANGED <<slots, id, checks, own, beaten, told>>

(* Feed(): the test, then Beat(). *)
FeedCheck(w) ==
  /\ wpc[w] = "run" /\ id[w] # NoId /\ Holds(w)
  /\ wpc' = [wpc EXCEPT ![w] = "beat"]
  /\ UNCHANGED <<slots, id, checks, own, beaten, told>>

FeedBeat(w) ==
  LET i == id[w].idx IN
    /\ wpc[w] = "beat" /\ wpc' = [wpc EXCEPT ![w] = "run"]
    /\ slots' = [slots EXCEPT ![i].age = 0]
    /\ own' = [own EXCEPT ![i] = IF Holds(w) THEN 0 ELSE @]
    /\ beaten' = [beaten EXCEPT ![i] = @ \/ Holds(w)]
    /\ UNCHANGED <<id, checks, told>>

-----------------------------------------------------------------------------
(* Check(), by the internal thread or by a timer task *)

Begin(c) ==
  /\ cpc' = [cpc EXCEPT ![c] = "lock"] /\ lag' = [lag EXCEPT ![c] = 0]

(* now - last_beat > timeout, for the now that c read. *)
IsTimedOut(c, i) == slots[i].age - lag[c] > Timeout

(* The slots whose state changes are marked and collected under the lock. *)
Changed(c) == {i \in Slots : slots[i].active /\ IsTimedOut(c, i) # slots[i].timed_out}

Mark(c) ==
  slots' = [i \in Slots |->
              IF i \in Changed(c) THEN [slots[i] EXCEPT !.timed_out = ~@] ELSE slots[i]]

Callbacks(c, timeout) ==
  LET due == {i \in Changed(c) : slots[i].timed_out # timeout}
      seq == [i \in Slots |-> IF i \in due
                THEN <<[slot |-> i, gen |-> slots[i].generation, timeout |-> timeout]>>
                ELSE <<>>]
      cat[i \in -1 .. MaxThreads - 1] == IF i = -1 THEN <<>> ELSE cat[i - 1] \o seq[i]
  IN cat[MaxThreads - 1]

Collect(c) ==
  /\ cpc[c] = "lock" /\ Mark(c)
  /\ pending' = [pending EXCEPT ![c] = Callbacks(c, TRUE) \o Callbacks(c, FALSE)]
  /\ cpc' = [cpc EXCEPT ![c] = "call"] /\ lag' = [lag EXCEPT ![c] = 0]
  /\ beaten' = [i \in Slots |-> beaten[i] /\ ~slots'[i].timed_out]
  /\ UNCHANGED <<id, wpc, auto, opc, ticking, own, told>>

(* The callbacks run outside the lock: the timeouts, then the recoveries. *)
Call(c) ==
  /\ cpc[c] = "call" /\ pending[c] # <<>>
  /\ LET p == Head(pending[c]) IN
       told' = [told EXCEPT ![p.slot] =
                  IF slots[p.slot].generation = p.gen THEN p.timeout ELSE @]
  /\ pending' = [pending EXCEPT ![c] = Tail(@)]
  /\ UNCHANGED <<slots, id, wpc, auto, opc, cpc, lag, ticking, own, beaten>>

EndCheck(c) ==
  /\ cpc[c] = "call" /\ pending[c] = <<>>
  /\ cpc' = [cpc EXCEPT ![c] = IF c = "auto" THEN "top" ELSE "idle"]
  /\ UNCHANGED <<slots, id, wpc, auto, opc, lag, pending, ticking, own, beaten, told>>

CheckTick ==
  /\ ticking /\ cpc["timer"] = "idle" /\ Begin("timer")
  /\ UNCHANGED <<slots, id, wpc, auto, opc, pending, ticking, own, beaten, told>>

(* The loop of the internal thread, after its sleep. *)
AutoTop ==
  /\ cpc["auto"] = "top"
  /\ IF auto THEN Begin("auto")
             ELSE cpc' = [cpc EXCEPT !["auto"] = "idle"] /\ UNCHANGED lag
  /\ UNCHANGED <<slots, id, wpc, auto, opc, pending, ticking, own, beaten, told>>

StartAutoCheck ==
  /\ opc = "idle" /\ ~auto
  /\ auto' = TRUE /\ cpc' = [cpc EXCEPT !["auto"] = "top"]
  /\ UNCHANGED <<slots, id, wpc, opc, lag, pending, ticking, own, beaten, told>>

StopAutoCheck ==
  /\ opc = "idle" /\ auto /\ auto' = FALSE /\ opc' = "join"
  /\ UNCHANGED <<slots, id, wpc, cpc, lag, pending, ticking, own, beaten, told>>

StopJoin ==
  /\ opc = "join" /\ cpc["auto"] = "idle"
  /\ opc' = "idle"
  /\ UNCHANGED <<slots, id, wpc, auto, cpc, lag, pending, ticking, own, beaten, told>>

Tick ==
  /\ \A c \in Checkers : cpc[c] = "lock" => lag[c] < MaxLag
  /\ slots' = [i \in Slots |-> [slots[i] EXCEPT !.age = IF slots[i].active THEN Older(@) ELSE @]]
  /\ own' = [i \in Slots |-> IF slots[i].active THEN Older(own[i]) ELSE own[i]]
  /\ lag' = [c \in Checkers |-> IF cpc[c] = "lock" THEN lag[c] + 1 ELSE 0]
  /\ UNCHANGED <<id, wpc, auto, opc, cpc, pending, ticking, beaten, told>>

CheckStep(c) == Collect(c) \/ Call(c) \/ EndCheck(c)
AutoThread == AutoTop \/ CheckStep("auto")

Next ==
  \/ \E w \in Workers : Register(w) \/ Unregister(w) \/ FeedCheck(w) \/ FeedBeat(w)
  \/ AutoThread \/ CheckTick \/ CheckStep("timer")
  \/ StartAutoCheck \/ StopAutoCheck \/ StopJoin
  \/ Tick

(* The internal thread is scheduled and its callbacks return; the thread   *)
(* of the timer may be stuck, which is what the internal one is for.       *)
Fairness == WF_vars(AutoThread) /\ WF_vars(StopJoin)

Spec == Init /\ [][Next]_vars /\ Fairness

-----------------------------------------------------------------------------
(* Properties *)

NoCallbackDue(i) ==
  \A c \in Checkers : \A k \in DOMAIN pending[c] : pending[c][k].slot # i

(* With one checker the reports are exact: a slot is marked only when its  *)
(* own thread was silent for longer than the timeout (the id of an earlier *)
(* registration feeds nobody), a thread silent for that long when the clock*)
(* was read is marked, a recovery means that the thread fed its slot, and  *)
(* the last callback agrees with the mark once none is due.                *)
ReportsExact ==
  [][~ticking =>
       \A i \in Slots : slots[i].active /\ slots[i]'.active =>
         /\ Collect("auto") =>
              /\ slots[i]'.timed_out => own[i] > Timeout
              /\ own[i] > Timeout + lag["auto"] => slots[i]'.timed_out
              /\ slots[i].timed_out /\ ~slots[i]'.timed_out => beaten[i]
         /\ NoCallbackDue(i) => told[i] = slots[i].timed_out]_vars

(* While the internal thread runs a silent thread is found, though the     *)
(* timer thread may be stuck anywhere, and its callback is made when the   *)
(* internal thread is the only checker; and StopAutoCheck returns.         *)
SilentFound ==
  /\ \A i \in Slots :
       []<>~(/\ slots[i].active /\ own[i] > Timeout /\ auto
             /\ ~(slots[i].timed_out /\ (ticking \/ told[i])))
  /\ []<>(opc = "idle")
=============================================================================
