------------------------------ MODULE HsmPaths ------------------------------
(***************************************************************************)
(* The walks of osp::StateMachine over its tree of states (hsm.hpp; the    *)
(* table-driven machine of hsm_table.hpp has the same ones).  A tree is    *)
(* given by its parent function p; a root has the parent kNoState.         *)
(***************************************************************************)
EXTENDS Integers, Sequences, FiniteSets, FiniteSetsExt

kNoState == "none"

(* n steps up from s *)
Up(p, s, n) ==
  LET up[k \in 0 .. n] ==
        IF k = 0 THEN s ELSE IF up[k - 1] = kNoState THEN kNoState ELSE p[up[k - 1]]
  IN up[n]

Steps(p) == 0 .. Cardinality(DOMAIN p)

Depth(p, s) == Cardinality({n \in Steps(p) : Up(p, s, n) # kNoState})

(* Mutant: the two walks start without being brought to the same depth. *)
FindLCA_NotLevelled(p, s1, s2) ==
  Up(p, s1, Min({n \in Steps(p) : Up(p, s1, n) = Up(p, s2, n)}))

(* The deeper state is brought to the depth of the other one, then both go *)
(* up until they meet, at kNoState if nowhere else.                        *)
FindLCA(p, s1, s2) ==
  LET d1 == Depth(p, s1)
      d2 == Depth(p, s2)
      p1 == Up(p, s1, IF d1 > d2 THEN d1 - d2 ELSE 0)
      p2 == Up(p, s2, IF d2 > d1 THEN d2 - d1 ELSE 0)
  IN Up(p, p1, Min({n \in Steps(p) : Up(p, p1, n) = Up(p, p2, n)}))

(* From a state up to a limit that is left out, bottom first. *)
BuildExitPath(p, from, lca) ==
  [i \in 1 .. Min({n \in Steps(p) : Up(p, from, n) \in {lca, kNoState}}) |->
     Up(p, from, i - 1)]

BuildEntryPath(p, from_lca, to) == BuildExitPath(p, to, from_lca)

IsInState(p, current, s) == \E n \in Steps(p) : Up(p, current, n) = s
=============================================================================
