---------------------------- MODULE StateMachine ----------------------------
(***************************************************************************)
(* osp::StateMachine (hsm.hpp): Start, Dispatch, RequestTransition and     *)
(* ForceTransition on any tree of states.  A step is one handler, one exit *)
(* action or one entry action.  What a guard and a handler answer is open, *)
(* so that the rows of osp::TableHsm (hsm_table.hpp) are covered: a state  *)
(* without a row bubbles, an internal row handles, the others transition.  *)
(***************************************************************************)
EXTENDS HsmPaths, SequencesExt

CONSTANT States

VARIABLES
  parent, started, current,
  pc, at, target, exits, enters,   \* the call in progress
  entered                          \* states entered and not left, in order of entry

vars == <<parent, started, current, pc, at, target, exits, enters, entered>>

Rooted(p) == \A s \in States : Up(p, s, Cardinality(States)) = kNoState

Init ==
  /\ parent \in {p \in [States -> States \cup {kNoState}] : Rooted(p)}
  /\ started = FALSE /\ current = kNoState
  /\ pc = "rest" /\ at = kNoState /\ target = kNoState
  /\ exits = <<>> /\ enters = <<>> /\ entered = <<>>

Start(s) ==
  /\ ~started
  /\ started' = TRUE /\ current' = s /\ target' = s
  /\ enters' = BuildEntryPath(parent, kNoState, s) /\ pc' = "move"
  /\ UNCHANGED <<parent, at, exits, entered>>

TransitionTo(t) ==
  LET lca == IF current = t THEN parent[t] ELSE FindLCA(parent, current, t)
  IN /\ target' = t /\ pc' = "move" /\ at' = kNoState
     /\ exits' = BuildExitPath(parent, current, lca)
     /\ enters' = BuildEntryPath(parent, lca, t)

Dispatch ==
  /\ started /\ pc = "rest"
  /\ pc' = "offer" /\ at' = current
  /\ UNCHANGED <<parent, started, current, target, exits, enters, entered>>

(* The guard is false, there is no handler, or it does not handle the event. *)
Bubble ==
  /\ pc = "offer"
  /\ at' = parent[at]
  /\ pc' = IF parent[at] = kNoState THEN "rest" ELSE "offer"
  /\ UNCHANGED <<parent, started, current, target, exits, enters, entered>>

Handled ==
  /\ pc = "offer" /\ pc' = "rest" /\ at' = kNoState
  /\ UNCHANGED <<parent, started, current, target, exits, enters, entered>>

RequestTransition(t) ==
  /\ pc = "offer" /\ TransitionTo(t)
  /\ UNCHANGED <<parent, started, current, entered>>

ForceTransition(t) ==
  /\ started /\ pc = "rest" /\ TransitionTo(t)
  /\ UNCHANGED <<parent, started, current, entered>>

ExitState ==
  /\ pc = "move" /\ exits # <<>>
  /\ entered' = SelectSeq(entered, LAMBDA s : s # Head(exits))
  /\ exits' = Tail(exits)
  /\ UNCHANGED <<parent, started, current, pc, at, target, enters>>

(* The path was built bottom-up and is run from its end. *)
EnterState ==
  /\ pc = "move" /\ exits = <<>> /\ enters # <<>>
  /\ entered' = Append(entered, Last(enters))
  /\ enters' = Front(enters)
  /\ UNCHANGED <<parent, started, current, pc, at, target, exits>>

Arrive ==
  /\ pc = "move" /\ exits = <<>> /\ enters = <<>>
  /\ current' = target /\ target' = kNoState /\ pc' = "rest"
  /\ UNCHANGED <<parent, started, at, exits, enters, entered>>

Next ==
  \/ \E s \in States : Start(s) \/ RequestTransition(s) \/ ForceTransition(s)
  \/ Dispatch \/ Bubble \/ Handled
  \/ ExitState \/ EnterState \/ Arrive

Spec == Init /\ [][Next]_vars

-----------------------------------------------------------------------------
TypeOK ==
  /\ parent \in [States -> States \cup {kNoState}] /\ started \in BOOLEAN
  /\ {current, at, target} \subseteq States \cup {kNoState}
  /\ pc \in {"rest", "offer", "move"}
  /\ \A path \in {exits, enters, entered} : path \in Seq(States)

(* The states entered and not left are a path down from a root at every      *)
(* moment, so that parents are entered first and left last; between moves it *)
(* is the path to the current state, and IsInState answers accordingly.      *)
EnteredIsPath ==
  /\ TypeOK
  /\ \A i \in DOMAIN entered :
       parent[entered[i]] = IF i = 1 THEN kNoState ELSE entered[i - 1]
  /\ started /\ pc # "move" =>
       /\ entered # <<>> /\ Last(entered) = current
       /\ \A s \in States : IsInState(parent, current, s) <=> s \in ToSet(entered)

(* The state and its ancestors: the least set closed under parents. *)
Lineage(s) ==
  {a \in States : \A S \in SUBSET States :
     (s \in S /\ \A x \in S : parent[x] \in S \cup {kNoState}) => a \in S}

(* A transition leaves no state that contains both its source and its target *)
(* (a self-transition leaves and enters just that state).                    *)
CommonAncestorsStay ==
  started /\ pc = "move" /\ entered # <<>> /\ target # current =>
    Lineage(current) \cap Lineage(target) \subseteq ToSet(entered)
=============================================================================
