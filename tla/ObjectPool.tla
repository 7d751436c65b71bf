----------------------------- MODULE ObjectPool -----------------------------
(***************************************************************************)
(* osp::FixedPool and osp::ObjectPool of mem_pool.hpp: a lock-free list of *)
(* free blocks whose head carries a tag, and typed objects on top of it.   *)
(* The first word of a free block is the index of the next one; the first  *)
(* word of a block in use belongs to the object.  Each step makes one      *)
(* access to a word that another process writes.                           *)
(***************************************************************************)
EXTENDS Integers, FiniteSets

CONSTANTS
  Procs,
  MaxBlocks,
  TagMod     \* number of values of the tag, 2^16 in the code

VARIABLES
  head,      \* free_head_: the packed index and tag
  word,      \* the first word of each block
  used_count, alive,
  pc, seen, next, block,   \* the call of each process
  objects    \* blocks whose object a caller holds

call == <<pc, seen, next, block>>
vars == <<head, word, used_count, alive, call, objects>>

Blocks == 0 .. MaxBlocks - 1
Empty == MaxBlocks   \* kFreeIndexEmpty, and kInvalidIndex once packed
Junk == MaxBlocks + 1 \* what an object keeps in its first word
None == [index |-> Empty, tag |-> 0]

(* Mutant: the head carries no tag. *)
Pack_NoTag(index, tag) == [index |-> index, tag |-> 0]

Pack(index, tag) == [index |-> index, tag |-> tag % TagMod]

Init ==
  /\ head = Pack(0, 0)
  /\ word = [b \in Blocks |-> b + 1]
  /\ used_count = 0 /\ alive = [b \in Blocks |-> FALSE]
  /\ pc = [p \in Procs |-> "idle"] /\ seen = [p \in Procs |-> None]
  /\ next = [p \in Procs |-> Empty] /\ block = [p \in Procs |-> Empty]
  /\ objects = {}

Goto(p, label) == pc' = [pc EXCEPT ![p] = label]
Back(p) ==
  /\ Goto(p, "idle") /\ seen' = [seen EXCEPT ![p] = None]
  /\ next' = [next EXCEPT ![p] = Empty] /\ block' = [block EXCEPT ![p] = Empty]

(* No process is held between its load of the head and its exchange while  *)
(* the tag goes all the way round ("the 16-bit tag window far exceeds      *)
(* practical block reuse").                                                *)
TagWindow(p) ==
  \A q \in Procs \ {p} : pc[q] \in {"load", "take", "link", "give"} =>
    seen[q].tag # (head.tag + 1) % TagMod

-----------------------------------------------------------------------------
(* Create: Allocate, construct, mark alive *)

(* The load of the head; without a free block, nullptr. *)
BeginCreate(p) ==
  /\ pc[p] = "idle" /\ head.index # Empty
  /\ Goto(p, "load") /\ seen' = [seen EXCEPT ![p] = head]
  /\ UNCHANGED <<head, word, used_count, alive, next, block, objects>>

LoadIndex(p) ==
  /\ pc[p] = "load"
  /\ Goto(p, "take") /\ next' = [next EXCEPT ![p] = word[seen[p].index]]
  /\ UNCHANGED <<head, word, used_count, alive, seen, block, objects>>

Take(p) ==
  /\ pc[p] = "take" /\ head = seen[p] /\ TagWindow(p)
  /\ head' = Pack(next[p], head.tag + 1)
  /\ block' = [block EXCEPT ![p] = head.index]
  /\ Goto(p, "count")
  /\ UNCHANGED <<word, used_count, alive, seen, next, objects>>

(* compare_exchange_weak fails, also spuriously, and reloads the head. *)
TakeFails(p) ==
  /\ pc[p] = "take"
  /\ IF head.index = Empty
       THEN Back(p)
       ELSE /\ Goto(p, "load") /\ seen' = [seen EXCEPT ![p] = head]
            /\ next' = [next EXCEPT ![p] = Empty] /\ UNCHANGED block
  /\ UNCHANGED <<head, word, used_count, alive, objects>>

CountUp(p) ==
  /\ pc[p] = "count"
  /\ used_count' = used_count + 1 /\ Goto(p, "construct")
  /\ UNCHANGED <<head, word, alive, seen, next, block, objects>>

(* The constructor overwrites the word. *)
Construct(p) ==
  /\ pc[p] = "construct"
  /\ word' = [word EXCEPT ![block[p]] = Junk]
  /\ Goto(p, "alive")
  /\ UNCHANGED <<head, used_count, alive, seen, next, block, objects>>

MarkAlive(p) ==
  /\ pc[p] = "alive"
  /\ alive' = [alive EXCEPT ![block[p]] = TRUE]
  /\ objects' = objects \cup {block[p]} /\ Back(p)
  /\ UNCHANGED <<head, word, used_count>>

-----------------------------------------------------------------------------
(* Destroy: mark dead, Free *)

Destroy(p, b) ==
  /\ pc[p] = "idle" /\ b \in objects
  /\ objects' = objects \ {b} /\ alive' = [alive EXCEPT ![b] = FALSE]
  /\ block' = [block EXCEPT ![p] = b] /\ Goto(p, "free")
  /\ UNCHANGED <<head, word, used_count, seen, next>>

LoadHead(p) ==
  /\ pc[p] = "free"
  /\ seen' = [seen EXCEPT ![p] = head] /\ Goto(p, "link")
  /\ UNCHANGED <<head, word, used_count, alive, next, block, objects>>

StoreIndex(p) ==
  /\ pc[p] = "link"
  /\ word' = [word EXCEPT ![block[p]] = seen[p].index] /\ Goto(p, "give")
  /\ UNCHANGED <<head, used_count, alive, seen, next, block, objects>>

Give(p) ==
  /\ pc[p] = "give" /\ head = seen[p] /\ TagWindow(p)
  /\ head' = Pack(block[p], head.tag + 1) /\ Goto(p, "uncount")
  /\ UNCHANGED <<word, used_count, alive, seen, next, block, objects>>

GiveFails(p) ==
  /\ pc[p] = "give"
  /\ seen' = [seen EXCEPT ![p] = head] /\ Goto(p, "link")
  /\ UNCHANGED <<head, word, used_count, alive, next, block, objects>>

CountDown(p) ==
  /\ pc[p] = "uncount"
  /\ used_count' = used_count - 1 /\ Back(p)
  /\ UNCHANGED <<head, word, alive, objects>>

Next == \E p \in Procs :
  \/ BeginCreate(p) \/ LoadIndex(p) \/ Take(p) \/ TakeFails(p)
  \/ CountUp(p) \/ Construct(p) \/ MarkAlive(p)
  \/ \E b \in Blocks : Destroy(p, b)
  \/ LoadHead(p) \/ StoreIndex(p) \/ Give(p) \/ GiveFails(p) \/ CountDown(p)

Spec == Init /\ [][Next]_vars

-----------------------------------------------------------------------------
(* Properties *)

(* The blocks on the free list, in the order of the links. *)
Walk[n \in 0 .. MaxBlocks] ==
  IF n = 0 THEN head.index
  ELSE IF Walk[n - 1] \in Blocks THEN word[Walk[n - 1]] ELSE Empty

Free == {Walk[n] : n \in 0 .. MaxBlocks} \ {Empty}
Taken(p) == pc[p] \in {"count", "construct", "alive", "free", "link", "give"}
Held == objects \cup {block[p] : p \in {q \in Procs : Taken(q)}}

(* Every block is in one place: on the free list, which ends and meets no  *)
(* block twice, or with exactly one holder, however the exchanges of       *)
(* Allocate and Free overlap; so no two calls of Create return the same    *)
(* block and none is lost.  The assertion of Destroy holds for every       *)
(* object a caller was given, and used_count_ counts these objects once no *)
(* call is under way.                                                      *)
BlocksConserved ==
  /\ Walk[MaxBlocks] = Empty /\ Free \subseteq Blocks
  /\ Cardinality(Free) = Cardinality({n \in 0 .. MaxBlocks : Walk[n] # Empty})
  /\ Free \cup Held = Blocks /\ Free \cap Held = {}
  /\ \A p, q \in Procs : Taken(p) =>
       block[p] \notin objects /\ (Taken(q) /\ p # q => block[p] # block[q])
  /\ \A b \in Blocks : alive[b] <=> b \in objects
  /\ (\A p \in Procs : pc[p] = "idle") => used_count = Cardinality(objects)
=============================================================================
