------------------------------ MODULE Service -------------------------------
(***************************************************************************)
(* osp::Service, osp::Client and osp::AsyncClient: the accept thread with  *)
(* its limits and its table of workers, one worker per connection, Stop(), *)
(* and clients whose calls run on a thread of their own and may time out   *)
(* before the response comes.  A frame is one message; a response carries  *)
(* the number of the request it answers.                                   *)
(***************************************************************************)
EXTENDS Integers, Sequences, FiniteSets

CONSTANTS
  Clients,          \* one connection each
  MaxConcurrent,    \* config_.max_concurrent
  MaxWorkers,       \* OSP_SERVICE_MAX_WORKERS
  Calls,            \* bound: calls of a client
  MaxStarts         \* bound: calls of Start()

VARIABLES
  running, opc, starts,
  apc, accepted,    \* the accept thread, and the connection it has accepted
  entries,          \* worker_entries_: the connections whose worker has a slot
  active,           \* active_workers_
  wpc,              \* the worker of each connection
  conn,             \* the connection: "none", "pending", "open", "closed"
                    \* (by the service) or "left" (by the client)
  requests, replies,\* in flight, in both directions
  connected,        \* Client::connected_
  cpc, call, busy,  \* the call thread, the calls so far, call_in_progress_
  ready, result     \* result_ready_, result_

vars == <<running, opc, starts, apc, accepted, entries, active, wpc, conn, requests, replies,
          connected, cpc, call, busy, ready, result>>
server == <<running, opc, starts, apc, accepted, entries, active, wpc>>
client == <<connected, cpc, call, busy, ready, result>>
control == <<running, opc, starts>>

Failed == 0

Init ==
  /\ running = FALSE /\ opc = "idle" /\ starts = 0
  /\ apc = "off" /\ accepted = {} /\ entries = {} /\ active = 0
  /\ wpc = [c \in Clients |-> "none"] /\ conn = [c \in Clients |-> "none"]
  /\ requests = [c \in Clients |-> <<>>] /\ replies = [c \in Clients |-> <<>>]
  /\ connected = [c \in Clients |-> FALSE] /\ cpc = [c \in Clients |-> "idle"]
  /\ call = [c \in Clients |-> 0] /\ busy = [c \in Clients |-> FALSE]
  /\ ready = [c \in Clients |-> FALSE] /\ result = [c \in Clients |-> Failed]

Listening == opc \notin {"accept", "workers"} /\ (running \/ opc = "close")
Worker(c, to) == wpc' = [wpc EXCEPT ![c] = to]
ServiceCloses(c) == conn' = [conn EXCEPT ![c] = IF @ = "left" THEN @ ELSE "closed"]

-----------------------------------------------------------------------------
(* Start() and Stop() *)

Start ==
  /\ opc = "idle" /\ ~running /\ starts < MaxStarts
  /\ running' = TRUE /\ apc' = "top" /\ starts' = starts + 1
  /\ UNCHANGED <<opc, accepted, entries, active, wpc, conn, requests, replies, client>>

Stop ==
  /\ opc = "idle" /\ running
  /\ running' = FALSE /\ opc' = "close"
  /\ UNCHANGED <<starts, apc, accepted, entries, active, wpc, conn, requests, replies, client>>

(* What was not accepted yet is refused. *)
CloseListener ==
  /\ opc = "close" /\ opc' = "accept"
  /\ conn' = [c \in Clients |-> IF conn[c] = "pending" THEN "closed" ELSE conn[c]]
  /\ UNCHANGED <<running, starts, apc, accepted, entries, active, wpc, requests, replies, client>>

JoinAccept ==
  /\ opc = "accept" /\ apc = "off" /\ opc' = "workers"
  /\ UNCHANGED <<running, starts, apc, accepted, entries, active, wpc, conn, requests, replies, client>>

JoinWorkers ==
  /\ opc = "workers" /\ \A c \in entries : wpc[c] = "exited"
  /\ entries' = {} /\ opc' = "idle"
  /\ UNCHANGED <<running, starts, apc, accepted, active, wpc, conn, requests, replies, client>>

-----------------------------------------------------------------------------
(* AcceptLoop() *)

(* ReapFinishedWorkers() gives slots back and joins their threads. *)
AcceptTop ==
  /\ apc = "top" /\ (running => \A c \in entries : wpc[c] # "finished")
  /\ entries' = IF running THEN {c \in entries : wpc[c] # "exited"} ELSE entries
  /\ apc' = IF running THEN "accept" ELSE "off"
  /\ UNCHANGED <<control, accepted, active, wpc, conn, requests, replies, client>>

Accept(c) ==
  /\ apc = "accept" /\ Listening /\ conn[c] = "pending"
  /\ conn' = [conn EXCEPT ![c] = "open"] /\ accepted' = {c} /\ apc' = "limit"
  /\ UNCHANGED <<control, entries, active, wpc, requests, replies, client>>

(* Mutant: without Shutdown() a thread that waits in Accept() stays there. *)
AcceptFails_Blocked ==
  /\ apc = "accept" /\ ~Listening /\ opc = "idle" /\ apc' = "off"
  /\ UNCHANGED <<control, accepted, entries, active, wpc, conn, requests, replies, client>>

AcceptFails ==
  /\ apc = "accept" /\ ~Listening /\ apc' = "off"
  /\ UNCHANGED <<control, accepted, entries, active, wpc, conn, requests, replies, client>>

(* The limits.  A worker counts itself in active_workers_ when it runs. *)
CheckLimit ==
  /\ apc = "limit"
  /\ \E c \in accepted :
       IF active >= MaxConcurrent \/ Cardinality(entries) >= MaxWorkers
       THEN ServiceCloses(c) /\ accepted' = {} /\ apc' = "top" /\ UNCHANGED entries
       ELSE entries' = entries \cup {c} /\ apc' = "spawn" /\ UNCHANGED <<conn, accepted>>
  /\ UNCHANGED <<control, active, wpc, requests, replies, client>>

(* The thread is created, or cannot be and the slot is given back. *)
Spawn ==
  /\ apc = "spawn" /\ apc' = "top" /\ accepted' = {}
  /\ \E c \in accepted :
       \/ Worker(c, "start") /\ UNCHANGED <<entries, conn>>
       \/ entries' = entries \ {c} /\ ServiceCloses(c) /\ UNCHANGED wpc
  /\ UNCHANGED <<control, active, requests, replies, client>>

-----------------------------------------------------------------------------
(* A worker *)

WorkerStart(c) ==
  /\ wpc[c] = "start" /\ active' = active + 1 /\ Worker(c, "top")
  /\ UNCHANGED <<control, apc, accepted, entries, conn, requests, replies, client>>

HandleTop(c) ==
  /\ wpc[c] = "top" /\ Worker(c, IF running THEN "recv" ELSE "close")
  /\ UNCHANGED <<control, apc, accepted, entries, active, conn, requests, replies, client>>

(* A request is handled and answered; or the client has left. *)
HandleRequest(c) ==
  /\ wpc[c] = "recv"
  /\ \/ /\ requests[c] # <<>>
        /\ requests' = [requests EXCEPT ![c] = Tail(@)]
        /\ replies' = [replies EXCEPT ![c] = Append(@, Head(requests[c]))]
        /\ Worker(c, IF conn[c] = "left" THEN "close" ELSE "top")
     \/ /\ requests[c] = <<>> /\ conn[c] = "left"
        /\ Worker(c, "close") /\ UNCHANGED <<requests, replies>>
  /\ UNCHANGED <<control, apc, accepted, entries, active, conn, client>>

HandleEnd(c) ==
  /\ wpc[c] = "close" /\ ServiceCloses(c) /\ Worker(c, "finished")
  /\ UNCHANGED <<control, apc, accepted, entries, active, requests, replies, client>>

(* The WorkerScope ends after finished is set. *)
WorkerExit(c) ==
  /\ wpc[c] = "finished" /\ active' = active - 1 /\ Worker(c, "exited")
  /\ UNCHANGED <<control, apc, accepted, entries, conn, requests, replies, client>>

-----------------------------------------------------------------------------
(* A client *)

Connect(c) ==
  /\ conn[c] = "none" /\ Listening
  /\ conn' = [conn EXCEPT ![c] = "pending"] /\ connected' = [connected EXCEPT ![c] = TRUE]
  /\ UNCHANGED <<server, requests, replies, cpc, call, busy, ready, result>>

CallAsync(c) ==
  /\ conn[c] \notin {"none", "left"} /\ ~busy[c] /\ call[c] < Calls
  /\ busy' = [busy EXCEPT ![c] = TRUE] /\ ready' = [ready EXCEPT ![c] = FALSE]
  /\ call' = [call EXCEPT ![c] = @ + 1] /\ cpc' = [cpc EXCEPT ![c] = "send"]
  /\ UNCHANGED <<server, conn, requests, replies, connected, result>>

Return(c, value) ==
  /\ result' = [result EXCEPT ![c] = value] /\ ready' = [ready EXCEPT ![c] = TRUE]
  /\ cpc' = [cpc EXCEPT ![c] = "free"]

Send(c) ==
  /\ cpc[c] = "send"
  /\ IF ~connected[c] THEN Return(c, Failed) /\ UNCHANGED <<requests, connected>>
     ELSE IF conn[c] = "closed"
     THEN Return(c, Failed) /\ connected' = [connected EXCEPT ![c] = FALSE] /\ UNCHANGED requests
     ELSE /\ requests' = [requests EXCEPT ![c] = Append(@, call[c])]
          /\ cpc' = [cpc EXCEPT ![c] = "recv"] /\ UNCHANGED <<connected, ready, result>>
  /\ UNCHANGED <<server, conn, replies, call, busy>>

Receive(c) ==
  /\ cpc[c] = "recv" /\ replies[c] # <<>>
  /\ Return(c, Head(replies[c])) /\ replies' = [replies EXCEPT ![c] = Tail(@)]
  /\ UNCHANGED <<server, conn, requests, connected, call, busy>>

(* Mutant: a call that timed out leaves the client connected. *)
ReceiveFails_Connected(c) ==
  /\ cpc[c] = "recv" /\ Return(c, Failed)
  /\ UNCHANGED <<server, conn, requests, replies, connected, call, busy>>

(* A timeout, at any moment, or the service closed the connection. *)
ReceiveFails(c) ==
  /\ cpc[c] = "recv"
  /\ Return(c, Failed) /\ connected' = [connected EXCEPT ![c] = FALSE]
  /\ UNCHANGED <<server, conn, requests, replies, call, busy>>

CallEnds(c) ==
  /\ cpc[c] = "free"
  /\ busy' = [busy EXCEPT ![c] = FALSE] /\ cpc' = [cpc EXCEPT ![c] = "idle"]
  /\ UNCHANGED <<server, conn, requests, replies, connected, call, ready, result>>

Close(c) ==
  /\ conn[c] \in {"pending", "open", "closed"} /\ cpc[c] = "idle"
  /\ conn' = [conn EXCEPT ![c] = "left"] /\ connected' = [connected EXCEPT ![c] = FALSE]
  /\ UNCHANGED <<server, requests, replies, cpc, call, busy, ready, result>>

-----------------------------------------------------------------------------
Stopping == CloseListener \/ JoinAccept \/ JoinWorkers
AcceptLoop == AcceptTop \/ AcceptFails \/ CheckLimit \/ Spawn \/ \E c \in Clients : Accept(c)
HandleConnection(c) ==
  WorkerStart(c) \/ HandleTop(c) \/ HandleRequest(c) \/ HandleEnd(c) \/ WorkerExit(c)
CallThread(c) == Send(c) \/ Receive(c) \/ ReceiveFails(c) \/ CallEnds(c)

Next ==
  \/ Start \/ Stop \/ Stopping \/ AcceptLoop
  \/ \E c \in Clients : HandleConnection(c) \/ CallThread(c)
                          \/ Connect(c) \/ CallAsync(c) \/ Close(c)

(* The threads go on; no client has to close its connection. *)
Spec ==
  /\ Init /\ [][Next]_vars
  /\ WF_vars(Stopping) /\ WF_vars(AcceptLoop)
  /\ \A c \in Clients : WF_vars(HandleConnection(c)) /\ WF_vars(CallThread(c))

-----------------------------------------------------------------------------
Counted == {c \in Clients : wpc[c] \in {"top", "recv", "close", "finished"}}

(* The result a client can read is the outcome of the call it made last: a   *)
(* response that comes after its call timed out is not taken for the answer  *)
(* to a later one.  And the workers that run are the ones that are counted   *)
(* and that Stop() or the accept thread will join, no more than the table    *)
(* holds.                                                                    *)
CallsMatched ==
  /\ \A c \in Clients : ready[c] => result[c] \in {Failed, call[c]}
  /\ active = Cardinality(Counted) /\ Cardinality(entries) <= MaxWorkers
  /\ \A c \in Clients : wpc[c] \notin {"none", "exited"} => c \in entries

Blocking(c) == wpc[c] = "recv" /\ conn[c] = "open" /\ requests[c] = <<>>

(* Stop() returns, unless a client that sends nothing keeps its connection:  *)
(* a worker waits for it without a timeout and Stop() waits for the worker.  *)
StopOrClient == []<>(opc = "idle" \/ \E c \in Clients : Blocking(c))
=============================================================================
