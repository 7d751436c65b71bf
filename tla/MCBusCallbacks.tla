--------------------------- MODULE MCBusCallbacks ---------------------------
(* Small instances of BusCallbacks: thread c1 consumes every bus. *)
EXTENDS BusCallbacks

CONSTANTS c1
OneConsumer == [b \in Buses |-> c1]
=============================================================================
