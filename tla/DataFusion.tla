----------------------------- MODULE DataFusion -----------------------------
(***************************************************************************)
(* osp::FusedSubscription and osp::TimeSynchronizer: the latest message of *)
(* each type is kept until all types have one, the callback gets them      *)
(* together, and a new cycle begins.  TimeSynchronizer also drops messages *)
(* that are further apart than its window.  A message is its number and    *)
(* its time stamp; time stamps may come in any order.                      *)
(***************************************************************************)
EXTENDS Integers, Sequences, FiniteSets, FiniteSetsExt

CONSTANTS
  NumTypes,
  Stamps,
  Windows,          \* values of window_us_
  MaxMessages       \* bound: messages published

VARIABLES
  sync,             \* TRUE: TimeSynchronizer
  window,           \* window_us_
  active, subscribed,
  data, received,   \* data_ with timestamps_, received_
  timeout_count, fire_count,
  count,            \* messages published so far
  fired,            \* history: what the last message made the callback be
                    \* given, and with which window
  newest, replaced  \* history: the last message of each type, and how many
                    \* gave way to a newer one of their type

cycle == <<data, received, timeout_count, fire_count, count, fired, newest, replaced>>
vars == <<sync, window, active, subscribed, cycle>>

Types == 1 .. NumTypes
None == [n |-> 0, ts |-> 0]
NotYet == [window |-> 0, d |-> <<>>]

Init ==
  /\ sync \in BOOLEAN /\ window = Max(Windows)
  /\ active = FALSE /\ subscribed = {}
  /\ data = [i \in Types |-> None] /\ received = {}
  /\ timeout_count = 0 /\ fire_count = 0 /\ count = 0
  /\ fired = NotYet /\ newest = [i \in Types |-> 0] /\ replaced = 0

(* Subscribe() may be refused by the bus; Activate() succeeds all the same. *)
Activate ==
  /\ ~active /\ active' = TRUE
  /\ subscribed' \in {Types, Types \ {1}}
  /\ UNCHANGED <<sync, window, cycle>>

(* What was received so far is kept for the next activation. *)
Deactivate ==
  /\ active /\ active' = FALSE /\ subscribed' = {}
  /\ UNCHANGED <<sync, window, cycle>>

SetTimeWindow(w) ==
  /\ sync /\ window' = w
  /\ UNCHANGED <<sync, active, subscribed, cycle>>

-----------------------------------------------------------------------------
Distance(a, b) == IF a >= b THEN a - b ELSE b - a
StampsOf(d) == {d[i].ts : i \in Types}

(* DropStaleData() after the message is stored. *)
Stale(d, got, now) == {i \in got : sync /\ Distance(now, d[i].ts) > window}

(* Mutant: only the distance to the new message counts. *)
TooFar_Never(d) == {}

(* The first of the oldest messages, when the oldest and the newest are too  *)
(* far apart.                                                                *)
TooFar(d) ==
  IF sync /\ Max(StampsOf(d)) - Min(StampsOf(d)) > window
  THEN {Min({i \in Types : d[i].ts = Min(StampsOf(d))})} ELSE {}

Fire(d) ==
  /\ fired' = [window |-> window, d |-> d] /\ fire_count' = fire_count + 1
  /\ received' = {} /\ UNCHANGED timeout_count

Keep(kept, dropped) ==
  /\ received' = kept /\ timeout_count' = timeout_count + dropped
  /\ fired' = NotYet /\ UNCHANGED fire_count

(* OnMessage(), under the lock: store, drop stale data, try to fire.  What   *)
(* is not marked received is overwritten before it is read again.            *)
OnMessage(i, ts) ==
  /\ i \in subscribed /\ count < MaxMessages
  /\ count' = count + 1 /\ newest' = [newest EXCEPT ![i] = count + 1]
  /\ replaced' = IF i \in received THEN replaced + 1 ELSE replaced
  /\ LET d == [data EXCEPT ![i] = [n |-> count + 1, ts |-> ts]]
         got == received \cup {i}
         kept == got \ Stale(d, got, ts)
     IN /\ \/ kept # Types /\ Keep(kept, Cardinality(got \ kept))
           \/ kept = Types /\ TooFar(d) # {} /\ Keep(kept \ TooFar(d), 1)
           \/ kept = Types /\ TooFar(d) = {} /\ Fire(d)
        /\ data' = [j \in Types |-> IF j \in received' THEN d[j] ELSE None]
  /\ UNCHANGED <<sync, window, active, subscribed>>

Next ==
  \/ Activate \/ Deactivate \/ \E w \in Windows : SetTimeWindow(w)
  \/ \E i \in Types, ts \in Stamps : OnMessage(i, ts)

Spec == Init /\ [][Next]_vars

-----------------------------------------------------------------------------
(* Every set of messages the callback is given has the newest message of    *)
(* each type, and a TimeSynchronizer gives only messages whose time stamps   *)
(* are pairwise within the window, whatever order they come in and also when *)
(* the window was made smaller meanwhile.  No message is lost silently or    *)
(* used twice: each one was given once, is waiting, gave way to a newer one  *)
(* of its type, or was dropped and counted once in TimeoutCount().           *)
FusionSound ==
  /\ \A i, j \in DOMAIN fired.d :
       /\ fired.d[i].n = newest[i] /\ newest[i] > 0
       /\ sync => Distance(fired.d[i].ts, fired.d[j].ts) <= fired.window
  /\ NumTypes * fire_count + Cardinality(received) + timeout_count + replaced = count
=============================================================================
