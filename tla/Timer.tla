-------------------------------- MODULE Timer --------------------------------
(***************************************************************************)
(* osp::TimerScheduler: slots of periodic and one-shot tasks, and a thread *)
(* that collects the expired ones under the lock and runs them outside it. *)
(* Add, AddOneShot and Remove may come between the two, from any thread or *)
(* from a callback.  The sleep of the loop always ends and is left out.    *)
(***************************************************************************)
EXTENDS Integers, Sequences, FiniteSets, FiniteSetsExt, SequencesExt

CONSTANTS
  MaxTasks,
  Periods,
  MaxTime, MaxAdds   \* bounds: the clock, and the tasks ever added

VARIABLES
  slots, next_id,
  now,
  running, tpc, pending,   \* the scheduler thread
  opc,                     \* "join": Stop() holds start_stop_mutex_
  fires, added, removed, extra  \* history, by task id: see TimerExact

vars == <<slots, next_id, now, running, tpc, pending, opc, fires, added, removed, extra>>
history == <<fires, added, removed, extra>>

Slots == 0 .. MaxTasks - 1
Ids == 1 .. MaxAdds
Empty == [active |-> FALSE, id |-> 0, one_shot |-> FALSE, period |-> 0, next_fire |-> 0]

Init ==
  /\ slots = [i \in Slots |-> Empty] /\ next_id = 1 /\ now = 0
  /\ running = FALSE /\ tpc = "none" /\ pending = <<>> /\ opc = "idle"
  /\ fires = [d \in Ids |-> 0] /\ added = [d \in Ids |-> [at |-> 0, period |-> 0, one_shot |-> FALSE]]
  /\ removed = {} /\ extra = [d \in Ids |-> 0]

-----------------------------------------------------------------------------
(* Add and AddOneShot take the first free slot; kSlotsFull changes nothing. *)
Add(period, one_shot) ==
  LET free == {i \in Slots : ~slots[i].active} IN
    /\ next_id \in Ids /\ free # {}
    /\ slots' = [slots EXCEPT ![Min(free)] =
         [active |-> TRUE, id |-> next_id, one_shot |-> one_shot,
          period |-> period, next_fire |-> now + period]]
    /\ next_id' = next_id + 1
    /\ added' = [added EXCEPT ![next_id] =
                   [at |-> now, period |-> period, one_shot |-> one_shot]]
    /\ UNCHANGED <<now, running, tpc, pending, opc, fires, removed, extra>>

RemoveTask(task_id) ==
  \E i \in Slots :
    /\ slots[i].active /\ slots[i].id = task_id
    /\ slots' = [slots EXCEPT ![i].active = FALSE]
    /\ removed' = removed \cup {task_id}
    /\ UNCHANGED <<next_id, now, running, tpc, pending, opc, fires, added, extra>>

-----------------------------------------------------------------------------
(* The scheduler thread *)

LoopTop ==
  /\ tpc = "top" /\ tpc' = (IF running THEN "collect" ELSE "exit")
  /\ UNCHANGED <<slots, next_id, now, running, pending, opc, history>>

Expired == {i \in Slots : slots[i].active /\ now >= slots[i].next_fire}

(* The first firing time ahead of now. *)
Advance(s) == [s EXCEPT !.next_fire = @ + ((now - @) \div s.period + 1) * s.period]

(* Mutant: a one-shot task is left active until its callback has run. *)
Reschedule_KeepOneShot(s) == Advance(s)

Reschedule(s) == IF s.one_shot THEN [s EXCEPT !.active = FALSE] ELSE Advance(s)

Collect ==
  /\ tpc = "collect" /\ tpc' = "run"
  /\ pending' = [k \in 1 .. Cardinality(Expired) |->
                   slots[SetToSortSeq(Expired, LAMBDA i, j : i < j)[k]].id]
  /\ slots' = [i \in Slots |-> IF i \in Expired THEN Reschedule(slots[i]) ELSE slots[i]]
  /\ UNCHANGED <<next_id, now, running, opc, history>>

Run ==
  /\ tpc = "run" /\ pending # <<>>
  /\ fires' = [fires EXCEPT ![Head(pending)] = @ + 1]
  /\ extra' = [extra EXCEPT ![Head(pending)] = IF Head(pending) \in removed THEN @ + 1 ELSE @]
  /\ pending' = Tail(pending)
  /\ UNCHANGED <<slots, next_id, now, running, tpc, opc, added, removed>>

EndRound ==
  /\ tpc = "run" /\ pending = <<>> /\ tpc' = "top"
  /\ UNCHANGED <<slots, next_id, now, running, pending, opc, history>>

Scheduler == LoopTop \/ Collect \/ Run \/ EndRound

-----------------------------------------------------------------------------
(* Start and Stop take start_stop_mutex_; Stop holds it while it joins. *)

Start ==
  /\ opc = "idle" /\ ~running
  /\ running' = TRUE /\ tpc' = "top"
  /\ UNCHANGED <<slots, next_id, now, pending, opc, history>>

Stop ==
  /\ opc = "idle" /\ running
  /\ running' = FALSE /\ opc' = "join"
  /\ UNCHANGED <<slots, next_id, now, tpc, pending, history>>

StopJoin ==
  /\ opc = "join" /\ tpc = "exit" /\ opc' = "idle" /\ tpc' = "none"
  /\ UNCHANGED <<slots, next_id, now, running, pending, history>>

Tick ==
  /\ now < MaxTime /\ now' = now + 1
  /\ UNCHANGED <<slots, next_id, running, tpc, pending, opc, history>>

Next ==
  \/ \E p \in Periods, one_shot \in BOOLEAN : Add(p, one_shot)
  \/ \E d \in Ids : RemoveTask(d)
  \/ Scheduler \/ Start \/ Stop \/ StopJoin \/ Tick

(* The thread is scheduled and callbacks return. *)
Fairness == WF_vars(Scheduler) /\ WF_vars(StopJoin)

Spec == Init /\ [][Next]_vars /\ Fairness

-----------------------------------------------------------------------------
(* Properties *)

(* No task fires early or makes up for periods it missed, a one-shot task  *)
(* fires at most once, and after Remove() at most the one call that the    *)
(* thread had already collected still comes (a second Add may by then have *)
(* taken the slot).                                                        *)
TimerExact ==
  \A d \in Ids :
    /\ fires[d] * added[d].period <= now - added[d].at
    /\ added[d].one_shot => fires[d] <= 1
    /\ extra[d] <= 1

(* A collected callback is run even when Stop() or Remove() comes in       *)
(* between, a task that is due fires while the scheduler runs, and Stop()  *)
(* returns.                                                                *)
DueTasksRun ==
  /\ []<>(pending = <<>>)
  /\ \A i \in Slots : []<>~(i \in Expired /\ running)
  /\ []<>(opc = "idle")
=============================================================================
