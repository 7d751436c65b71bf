-------------------------- MODULE MCConsumerSlots ---------------------------
(* Small instances of ConsumerSlots. *)
EXTENDS ConsumerSlots

Separate == {<<TRUE, FALSE>>, <<FALSE, TRUE>>}
Together == {<<TRUE, TRUE>>}
=============================================================================
