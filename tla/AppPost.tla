------------------------------ MODULE AppPost -------------------------------
(***************************************************************************)
(* osp::Application, its instances and their state machines (app.hpp), and *)
(* OspPost() and OspSendAndWait() (post.hpp).  Callers post to the queue   *)
(* of the application under its mutex; one thread takes the messages out   *)
(* and calls the instances.  A request carries a heap-allocated response   *)
(* channel that its caller and the queue share by a reference count.       *)
(***************************************************************************)
EXTENDS Integers, Sequences, FiniteSets

CONSTANTS
  Callers,          \* threads that call OspSendAndWait() and OspPost()
  MaxInstances,
  QueueDepth,       \* OSP_APP_QUEUE_DEPTH
  Calls,            \* bound: calls of a caller
  AcquireFirst      \* no message is released before its caller took its reference

VARIABLES
  queue,            \* messages from queue_head_ to queue_tail_
  cpc, targets,     \* the processing thread, the instances it still has to call
  inst,             \* the state of each instance, or "none"
  pc, call,         \* the callers, and the number of their calls
  refs, replied,    \* of each channel: ref_count (0: freed), replied
  result            \* what the last call of a caller returned

vars == <<queue, cpc, targets, inst, pc, call, refs, replied, result>>

Instances == 1..MaxInstances
kInsEach == MaxInstances + 1
NoChannel == <<>>
Channels == Callers \X (1..Calls)
Channel(c) == <<c, call[c]>>

Init ==
  /\ queue = <<>> /\ cpc = "idle" /\ targets = {}
  /\ inst = [i \in Instances |-> "none"]
  /\ pc = [c \in Callers |-> "idle"] /\ call = [c \in Callers |-> 0]
  /\ refs = [h \in Channels |-> 0] /\ replied = [h \in Channels |-> FALSE]
  /\ result = [c \in Callers |-> "none"]

-----------------------------------------------------------------------------
(* The state machine of an instance: Step(s, e, f) is the state after event  *)
(* e in state s, f being the argument of MarkError() in error_is_fatal; what *)
(* no state handles is ignored.                                              *)

Ready == {"idle", "processing", "suspended"}
Step(s, e, f) ==
  CASE s = "created" /\ e = "initialize"      -> "initializing"
    [] s = "initializing" /\ e = "initDone"   -> "idle"
    [] s = "idle" /\ e = "message"            -> "processing"
    [] s = "processing" /\ e = "msgDone"      -> "idle"
    [] s = "suspended" /\ e = "resume"        -> "idle"
    [] s = "recoverable" /\ e = "recover"     -> "idle"
    [] s \in Ready /\ e = "suspend"           -> "suspended"
    [] s # "destroying" /\ e = "destroy"      -> "destroying"
    [] s # "destroying" /\ e = "markError"    -> IF f THEN "fatal" ELSE "recoverable"
    [] OTHER                                  -> s

(* What a handler of the application may call on its instance. *)
Handler(s) == {s} \cup {Step(s, "markError", f) : f \in BOOLEAN}
  \cup {Step(s, e, FALSE) : e \in {"suspend", "resume", "recover", "destroy"}}
Initialize(s) == Step(Step(s, "initialize", FALSE), "initDone", FALSE)

-----------------------------------------------------------------------------
(* The processing thread, between messages *)

CreateInstance ==
  /\ cpc = "idle"
  /\ \E i \in Instances :
       /\ inst[i] = "none" /\ \A j \in 1..(i - 1) : inst[j] # "none"
       /\ inst' = [inst EXCEPT ![i] = "created"]
  /\ UNCHANGED <<queue, cpc, targets, pc, call, refs, replied, result>>

DestroyInstance ==
  /\ cpc = "idle"
  /\ \E i \in Instances : inst[i] # "none" /\ inst' = [inst EXCEPT ![i] = "none"]
  /\ UNCHANGED <<queue, cpc, targets, pc, call, refs, replied, result>>

(* Initialize(), and the calls a handler may make as well. *)
Lifecycle ==
  /\ cpc = "idle"
  /\ \E i \in Instances : inst[i] # "none" /\
       \E s \in Handler(inst[i]) \cup {Initialize(inst[i])} : inst' = [inst EXCEPT ![i] = s]
  /\ UNCHANGED <<queue, cpc, targets, pc, call, refs, replied, result>>

-----------------------------------------------------------------------------
(* ProcessOne() *)

Targets == {i \in Instances : inst[i] # "none" /\ Head(queue).to \in {i, kInsEach}}

Take ==
  /\ cpc = "idle" /\ queue # <<>> /\ targets' = Targets /\ cpc' = "deliver"
  /\ UNCHANGED <<queue, inst, pc, call, refs, replied, result>>

(* BeginMessage(), OnMessage(), which may Reply(), and EndMessage(). *)
Deliver ==
  /\ cpc = "deliver" /\ targets # {}
  /\ LET i == CHOOSE j \in targets : \A k \in targets : j <= k IN
       /\ targets' = targets \ {i}
       /\ \E s \in Handler(Step(inst[i], "message", FALSE)) :
            inst' = [inst EXCEPT ![i] = Step(s, "msgDone", FALSE)]
  /\ \/ UNCHANGED replied
     \/ Head(queue).ch # NoChannel /\ replied' = [replied EXCEPT ![Head(queue).ch] = TRUE]
  /\ UNCHANGED <<queue, cpc, pc, call, refs, result>>

Holding(ch) == \E c \in Callers : ch = Channel(c) /\ pc[c] = "acquire"

ReleaseMessage ==
  /\ cpc = "deliver" /\ targets = {} /\ cpc' = "advance"
  /\ AcquireFirst => ~Holding(Head(queue).ch)
  /\ refs' = IF Head(queue).ch = NoChannel THEN refs ELSE [refs EXCEPT ![Head(queue).ch] = @ - 1]
  /\ UNCHANGED <<queue, targets, inst, pc, call, replied, result>>

Advance ==
  /\ cpc = "advance" /\ cpc' = "idle" /\ queue' = Tail(queue)
  /\ UNCHANGED <<targets, inst, pc, call, refs, replied, result>>

-----------------------------------------------------------------------------
(* OspSendAndWait() and OspPost() *)

Go(c, to) == pc' = [pc EXCEPT ![c] = to]

SendAndWait(c) ==
  /\ pc[c] = "idle" /\ call[c] < Calls
  /\ call' = [call EXCEPT ![c] = @ + 1] /\ refs' = [refs EXCEPT ![<<c, call[c] + 1>>] = 1]
  /\ Go(c, "post") /\ result' = [result EXCEPT ![c] = "none"]
  /\ UNCHANGED <<queue, cpc, targets, inst, replied>>

(* PostLocal(), and Post() under post_mutex_.  One place of the queue stays  *)
(* empty; an application that is not registered, or a payload that is too    *)
(* long, is refused like a full queue.                                       *)
Post(to, ch) == Len(queue) + 1 < QueueDepth /\ queue' = Append(queue, [to |-> to, ch |-> ch])

Posted(c) ==
  /\ pc[c] = "post"
  /\ \/ (\E to \in 0..kInsEach : Post(to, Channel(c))) /\ Go(c, "acquire") /\ UNCHANGED <<refs, result>>
     \/ /\ refs' = [refs EXCEPT ![Channel(c)] = @ - 1] /\ Go(c, "idle")
        /\ result' = [result EXCEPT ![c] = "refused"] /\ UNCHANGED queue
  /\ UNCHANGED <<cpc, targets, inst, call, replied>>

Acquire(c) ==
  /\ pc[c] = "acquire" /\ Go(c, "wait") /\ refs' = [refs EXCEPT ![Channel(c)] = @ + 1]
  /\ UNCHANGED <<queue, cpc, targets, inst, call, replied, result>>

(* The wait ends with a reply or, at any moment, with the timeout. *)
WaitEnds(c) ==
  /\ pc[c] = "wait" /\ Go(c, "release")
  /\ result' = [result EXCEPT ![c] = IF replied[Channel(c)] THEN "reply" ELSE "timeout"]
  /\ UNCHANGED <<queue, cpc, targets, inst, call, refs, replied>>

(* Mutant: a caller that timed out before the reply frees the channel. *)
Release_OnTimeout(c) ==
  /\ pc[c] = "release" /\ Go(c, "idle")
  /\ refs' = [refs EXCEPT ![Channel(c)] = IF result[c] = "timeout" THEN 0 ELSE @ - 1]
  /\ UNCHANGED <<queue, cpc, targets, inst, call, replied, result>>

Release(c) ==
  /\ pc[c] = "release" /\ Go(c, "idle") /\ refs' = [refs EXCEPT ![Channel(c)] = @ - 1]
  /\ UNCHANGED <<queue, cpc, targets, inst, call, replied, result>>

OspPost(c) ==
  /\ pc[c] = "idle" /\ \E to \in Instances : Post(to, NoChannel)
  /\ UNCHANGED <<cpc, targets, inst, pc, call, refs, replied, result>>

-----------------------------------------------------------------------------
Processing == Take \/ Deliver \/ ReleaseMessage \/ Advance
Calling(c) == Posted(c) \/ Acquire(c) \/ WaitEnds(c) \/ Release(c)

Next ==
  \/ CreateInstance \/ DestroyInstance \/ Lifecycle \/ Processing
  \/ \E c \in Callers : SendAndWait(c) \/ Calling(c) \/ OspPost(c)

(* The processing thread goes on calling ProcessOne(). *)
Spec ==
  /\ Init /\ [][Next]_vars
  /\ WF_vars(Processing) /\ \A c \in Callers : WF_vars(Calling(c))

-----------------------------------------------------------------------------
Waiting(c) == pc[c] \in {"post", "acquire", "wait", "release"}
InQueue(ch) == \E k \in 1..Len(queue) : queue[k].ch = ch /\ ~(k = 1 /\ cpc = "advance")
Holders(ch) == (IF InQueue(ch) THEN 1 ELSE 0)
             + (IF \E c \in Callers : ch = Channel(c) /\ Waiting(c) THEN 1 ELSE 0)

(* "the channel can never be touched after it is freed": a channel that its  *)
(* caller or a message in the queue still uses is not freed.                 *)
ChannelAlive == \A ch \in Channels : Holders(ch) > 0 => refs[ch] > 0

(* Once its caller has its reference a channel is freed by the last of its   *)
(* users and not before, also when the caller gives up while its message is  *)
(* queued or being handled; a refused post frees it at once.  And no         *)
(* instance is left in Processing, whatever its handler does to its state.   *)
ChannelsExact ==
  /\ \A ch \in Channels : refs[ch] = Holders(ch) - IF Holding(ch) THEN 1 ELSE 0
  /\ \A i \in Instances : inst[i] # "processing"

(* Every call returns and its channel is freed, whatever the instance does   *)
(* with the message, and when there is no instance for it.                   *)
ChannelsFreed == \A ch \in Channels : []<>(refs[ch] = 0)
=============================================================================
