---------------------------- MODULE BoundedFifo -----------------------------
(***************************************************************************)
(* What a bounded single-producer single-consumer queue promises: items    *)
(* leave in the order they entered, none is lost, repeated or changed, and *)
(* there are never more than Capacity of them.                             *)
(***************************************************************************)
EXTENDS Naturals, Sequences

CONSTANTS Values, Capacity

VARIABLES
  queue,   \* the items inside, oldest first
  got      \* what the last take or look returned

vars == <<queue, got>>

Init == queue = <<>> /\ got = <<>>

Put ==
  \E n \in 1 .. Capacity - Len(queue) : \E s \in [1 .. n -> Values] :
    queue' = queue \o s /\ UNCHANGED got

Take ==
  \E n \in 1 .. Len(queue) :
    /\ got' = SubSeq(queue, 1, n)
    /\ queue' = SubSeq(queue, n + 1, Len(queue))

Drop ==
  \E n \in 0 .. Len(queue) :
    got' = <<>> /\ queue' = SubSeq(queue, n + 1, Len(queue))

(* The producer throws everything away. *)
Clear == queue' = <<>> /\ UNCHANGED got

(* Reading an item in place, or finding that there is none at an index. *)
Look ==
  /\ \/ \E i \in 1 .. Len(queue) : got' = <<queue[i]>>
     \/ got' = <<>>
  /\ UNCHANGED queue

Next == Put \/ Take \/ Drop \/ Clear \/ Look

Spec == Init /\ [][Next]_vars
=============================================================================
