---------------------------- MODULE MCBlockPool -----------------------------
(* Small instances of BlockPool: no pipeline, or entry -> {work, notify}. *)
EXTENDS BlockPool

CONSTANTS sEntry, sWork, sNotify
FanOut == [s \in Stages |-> IF s = sEntry THEN <<sWork, sNotify>> ELSE <<>>]

Sound == {<<FALSE, FALSE>>, <<TRUE, FALSE>>, <<FALSE, TRUE>>}

(* A block is in one place and is freed once, and keeps its payload while a  *)
(* consumer may read it; the assertions of the code hold.                    *)
BlocksSound == OnePlace /\ NoDoubleFree /\ PayloadStable /\ AssertsHold

(* The reference count is the number of consumers that have still to release *)
(* the block, and free_count_ settles to the number of free blocks.          *)
CountsExact == RefcountExact /\ CountsSettle
=============================================================================
