# newosp in TLA+

newosp is a header-only C++17 library for embedded systems: a message bus, lock-free
rings and pools, state machines, transports, services and supervision. This directory
holds TLA+ models of its core, the TLC runs that check them on small instances, and
TLAPS proofs of the properties that matter most for every instance. Paths below are
relative to `src/include/osp/`.

## 1. The system and its parts

Messages travel through the bus (`bus.hpp`): any thread publishes, one thread calls
ProcessBatch and runs the callbacks. Executors own that thread; the worker pool puts a
dispatcher and SPSC queues behind a bus; network nodes forward bus messages over TCP.
Bulk data goes through the blocks of the data dispatcher or through byte rings in shared
memory. Timers, watchdog, fault collector, circuit breaker and the asynchronous log
supervise; discovery, node managers, services and applications form the distributed
layer and use sockets, the event loop, state machines and timers.

| Part | State | Operations | Interacts with | What is hard, and what makes it correct |
|---|---|---|---|---|
| `bus.hpp` AsyncBus ring | ring of {sequence, slot_priority, envelope}; positions, message ids, statistics | Publish*, TryEvictAndPublish, ProcessBatch* | nodes, executors, callbacks that publish | any number of publishers, in-place eviction, stale positions. One user per envelope; FIFO by claim; drops counted; the consumer never gets stuck |
| `bus.hpp` callbacks, SharedSpinLock | callback table, state word, thread_local reader depth | Subscribe, Unsubscribe, DispatchMessage | any thread, callbacks | re-entrant upgrade from reader to writer, live loop bounds. Exclusion, exact count, who is left out of a dispatch and why |
| `spsc_ringbuffer.hpp` | head, tail, array | Push*, Pop*, Discard, Peek, At, clears | transport, serial, log, worker pool | index wrap, integer promotion, split batches. Bounded FIFO without overlapping copies |
| `hsm.hpp` EventQueue, `fault_collector.hpp` FaultRingBuffer, `shm_transport.hpp` ShmRingBuffer | ring of {sequence, item} | TryPush, TryPop | HSM owners, fault reporters, processes | claims, stale positions. Queue by claim order, refused only when full, delivered eventually |
| `data_dispatcher.hpp` pool, pipeline | tagged free list, block headers | Alloc, Submit, stages, Release, ScanTimeout, ForceCleanup | consumers, monitors | ABA, timeouts against releases. Every block in one place, exact references, all blocks return |
| `data_dispatcher.hpp` consumers | slots in shared memory | Register, Unregister, Heartbeat, TrackBlock*, CleanupDeadConsumers | processes, reapers | deaths, several reapers, reused slots. References of the dead are returned, those of the living never taken |
| `mem_pool.hpp` | tagged free list inside the blocks | Allocate, Free, Create, Destroy | nodes, users | ABA; the link is overwritten by the object. No block lost or handed out twice |
| `hsm.hpp`, `hsm_table.hpp` | state tree, current state | Start, Dispatch, transitions | lifecycle, managers, applications | exit and entry order, transitions from handlers |
| `lifecycle_node.hpp` | machine of the node | Configure .. Shutdown, errors | HSM | a call that reports success has moved; callbacks paired |
| `worker_pool.hpp` | bus, worker queues, flags | Submit, FlushAndPause, Start, Shutdown | bus, SPSC ring | order of stopping, flush with work in flight |
| `executor.hpp` | flag, thread | Start, Stop, Spin | bus | a Start that races a Stop. Nothing dispatched after Stop |
| `breaker.hpp`, `fault_collector.hpp` | packed state; rings per priority | events, probes; ReportFault, Start, Stop | everything that reports | hysteresis; admission, escalation, drain at stop. Recovery is earned; no report lost |
| `timer.hpp`, `watchdog.hpp` | slots with deadlines or beats | Add, Remove; Register, Feed, Check; Start, Stop | node manager, discovery | callbacks outside the lock, slots given again, a clock that moves on |
| `async_log.hpp` | ring per thread, writer | log call, StartAsync, StopAsync, thread exit | SPSC ring | late writes, rings that change hands. Every entry in one place, in order, written |
| `shm_transport.hpp` byte channels | head, tails, active flags, futex word | Write, Read, WaitReadable, RegisterConsumer | processes | joins, deaths, wake-ups. Nothing overwritten, next message arrives |
| `serial_transport.hpp` | parser state, sequence numbers | Send, FeedByte, acknowledgements | the line | lost and damaged bytes, wrap. Only what was sent, in order, losses counted |
| `transport.hpp` | publisher and subscriber slots, frame rings | AdvertiseTo, SubscribeFrom, ProcessRemote | bus, TCP | broken connections, slots given again. Frames in order, drops counted |
| `event_loop.hpp`, `io_poller.hpp` | timers, wake pipe, tags | Run, Wake, Schedule, Stop; AddFd, RemoveFd | node managers | wake-ups between drain and poll |
| `node_manager.hpp`, `node_manager_hsm.hpp` | node tables | Connect, Disconnect, heartbeats, Start, Stop | event loop, timer, HSM | recycled descriptors, heartbeat against timeout |
| `discovery.hpp` | node table | announce, receive, CheckTimeouts, Start, Stop | timer, sockets | stale clock, callbacks after unlock |
| `service.hpp` | worker table, connections | Start, accept, handle, Stop; Connect, Call | sockets | late answers, silent clients |
| `app.hpp`, `post.hpp` | instances, queue, response channels | Post, ProcessOne, OspPost, OspSendAndWait | applications | time-out against reply, last reference |
| `data_fusion.hpp` | pending messages, window | callbacks, firing | bus | stamps in any order, a window that shrinks |
| the rest | - | - | - | not modelled, section 7 |

The hazards, each at its line and with the properties that watch it, are in
`PROJECT.json`.

## 2. Conventions

* An action is one access to a shared atomic variable, together with the local work up
  to the next one. Every interleaving of the atomic accesses is a behaviour. Statistics
  counters and accesses that only the owner of a slot can make are merged with the
  neighbouring step. A compare-exchange loop on a single counter (load, retry until it
  succeeds or the count is 0) is one step; a loop that reads other memory between the
  load and the exchange is several.
* Executions are sequentially consistent. The memory orders in the code (acquire and
  release pairs around every hand-over, relaxed elsewhere) are not modelled, so nothing
  here shows that they suffice on a weakly ordered machine.
* Weak compare-exchanges may fail spuriously: `ClaimFails` of AsyncBus and MpscRing is
  always possible. In the free list of BlockPool a spurious failure only re-reads what
  was read, and is left out.
* Positions are naturals. Where the code subtracts two positions and the result decides
  something (`Sub` in AsyncBus, `Minus` and `Wrap` in SpscRing) the difference is taken
  in the modulus of the type.
* Names are the source's. Local variables of a call are functions from threads; `pc`
  says where in the call a thread is. Locals are reset when the call returns, which
  keeps the state space small and forgets nothing.
* A definition `X_Something` just before `X` is a mutated form of it, a plausible
  mistake that the property named in `PROJECT.json` must detect; it takes no part in the
  specification.
* Components that do not interact in the code but are small are explored in one run: a
  variable `which`, chosen at the start, says whose steps are taken while the others
  keep an initial state. Their properties are the component's own, guarded by `which`
  where they are state predicates; the fairness is the component's own as well.
* Time is kept as ages (ticks since a stamp, or until a timer is due) where only
  differences matter, with the greatest age that is told apart as a bound. The clock may
  advance between any two steps, also between reading it and taking the lock.
* "Always eventually" properties have the form `[]<>P`: P is the absence of the obligation,
  so each says that the obligation does not stay for ever.

## 3. Modules

| Module | Models | State and actions |
|---|---|---|
| `AsyncBus` | the ring of the bus | `Publish` .. `CacheConsumerPos`: id check and admission; `LoadClaimPos` .. `PublishSlot`: the claim loop and publication; `EvictLoadProd` .. `RepublishSlot`: TryEvictAndPublish; `BatchBegin` .. `BatchEnd`: ProcessBatch (ProcessBatchWith makes the same accesses) |
| `BusQueue` | abstract: a bounded queue with claimed and filled places, delivered in claim order, where High may replace lower | `Claim`, `Fill`, `Replace`, `Deliver` |
| `BusCallbacks` | callback table and SharedSpinLock, calls nested in callbacks as a stack per thread | one action per access to `state_`; table changes under the writer lock are one step |
| `SpscRing` | SpscRingbuffer | load, copy and store of each side; `op` selects the consumer's operation |
| `BoundedFifo` | abstract: a bounded FIFO | `Put`, `Take`, `Drop`, `Clear`, `Look` |
| `MpscRing` | the three per-slot-sequence rings | `retry` selects the copy: EventQueue and FaultRingBuffer reload on a slot ahead, ShmRingBuffer returns false |
| `BlockPool` | DataDispatcher's pool and pipeline | Alloc, Submit, stages, Release, scans and Recycle, access by access; `pipelined` and `reclaimed` select the use |
| `ConsumerSlots` | consumer tracking in shared memory | registration, tracking and reaping access by access; of a block only its reference count |
| `ObjectPool` | FixedPool and ObjectPool | Allocate and Free access by access, Create and Destroy around them; `word` is the link of a free block and belongs to the object otherwise |
| `WorkerPool` | submitters, dispatcher, workers, the controlling thread | the bus as BusQueue and the workers' queues as BoundedFifo promise them |
| `Executor` | SingleThreadExecutor, StaticExecutor, PinnedExecutor | Start up to the flag and after it, Spin, Stop and its join, the dispatch loop |
| `HsmPaths`, `StateMachine` | the walks over the tree; hsm.hpp, and hsm_table.hpp with its rows as handlers | one step per handler, exit action and entry action; `Init` takes every forest over the given states |
| `LifecycleNode` | lifecycle_node.hpp | one action per call; `Handlers` are the rows of the handler functions |
| `Breaker` | breaker.hpp | one action per event on the packed word; `since` is a history of healthy windows |
| `FaultCollector` | ReportFault, the consumer loop, hooks, drain, Start, Stop; uses the state and events of Breaker | the rings as MpscRing shows them, with entries claimed and not yet ready |
| `Timer` | TimerScheduler | collecting under the lock and calling outside it are separate steps |
| `Watchdog` | ThreadWatchdog, its thread and CheckTick | Feed is a test and a beat; Check reads the clock, locks, calls back |
| `AsyncLog` | the per-thread rings and the writer | log calls, `Writer`, `Stopping`, threads that end and give back their ring |
| `ByteChannel` | SPSC and SPMC byte rings with their channels (`kind`) | each access to a position or flag; readers register, wait, read, crash, leave |
| `SerialFrames` | serial_transport.hpp framing | Send, the parser cell by cell, validation, gaps; the line loses, damages, and interleaves an ACK |
| `DataFusion` | FusedSubscription and TimeSynchronizer (`sync`) | one action per message, firing and reset included |
| `NetworkNode` | NetworkNode over TcpTransport | AdvertiseTo, forwarding, AcceptOne, SubscribeFrom, ReceiveToBuffer, DispatchFromBuffer, connections that break; `build` selects slots and threads |
| `EventLoop` | EventLoop::Run, Wake, Schedule, ScheduleOnce, Cancel, Stop, ClearStop | the loop step by step; the pipe is a flag |
| `NodeManager` | node_manager.hpp over the loop's descriptors and tags | Connect, CreateListener, Disconnect, event hook, heartbeat, Start and its failures, Stop; `scheduled` selects the TimerScheduler |
| `HsmNodeManager` | node_manager_hsm.hpp on event_loop.hpp | callers (`Call`, `TryPush`, `Wake`), the loop (`RunHead` .. `CheckTimeouts`), Start and Stop |
| `Discovery` | MulticastDiscovery | announce and receive threads or TimerScheduler (`scheduled`), which may refuse its tasks; CheckTimeouts, callbacks, Start, a failing Start, Stop |
| `Service` | Service, Client, AsyncClient | accept loop, workers, their table, Stop; calls that time out, connections that fail |
| `AppPost` | Application, OspPost, OspSendAndWait | queue, ProcessOne with broadcast, instances, response channels with their counts |
| `MCBusCallbacks`, `MCBlockPool`, `MCConsumerSlots` | small instances | constants that are functions or sets of tuples |
| `MCData`, `MCThreads`, `MCShared`, `MCTiming`, `MCNodes`, `MCServices` | several components in one run | `which`, section 2 |
| `RingArith`, `AsyncBusTypes`, `AsyncBusInvariant`, `AsyncBusProofs`, `SpscRingProofs`, `QueueProofs`, `ConsumerSlotsProofs`, `WorkerPoolProofs` | proofs | section 6 |

The layers meet in the abstract specifications: AsyncBus and MpscRing are shown to
implement BusQueue, SpscRing to implement BoundedFifo, and WorkerPool, FaultCollector,
AsyncLog and NetworkNode use queues that behave as these specifications say.

What the models leave out, besides payloads, names, formatting and logging:

* AsyncBus: `Reset` (its contract excludes concurrent use), the error callback, the
  `admission_rechecks` statistic. The envelope, the next message id and slot_priority
  are written in one step, since no other thread looks at them between the claim and
  the publication; an evictor that peeks slot_priority early sees the old or the new
  value either way.
* BusCallbacks: message types other than one (each has its own table entry, under the
  same lock); `CallbackReturns` ends a callback that did nothing more.
* BlockPool: the backpressure callback and fault reporting. `NotifyStages` are handlers
  that call AddRef for the consumers and notify them, as the comment in Submit asks. The
  generation check before Release is optional, as both overloads exist.
* ConsumerSlots: `pid`, which nothing reads. A consumer is assumed to beat before its
  heartbeat expires (guard of `Tick`), to register and to leave with no block in hand,
  and to die where `CrashPoints` says: a process that dies after Release and before
  TrackBlockRelease, or before TrackBlockHold, is not repairable by the masks, and the
  code leaves that to ScanTimeout.
* ObjectPool: CreateChecked (Create with another way to report an empty pool). The tag
  has 4 values in the run and 2^16 in the code; a thread that sleeps through a whole
  round of them is outside the property.
* WorkerPool: priorities (all jobs have one, so the bus evicts nothing), SubmitSync and
  the queries. A worker's semaphore wait may end at any time, as its timeout allows.
  FlushAndPause and Resume are called on a started pool.
* Executor: the list of nodes, and the pthread that RealtimeExecutor creates for a stack
  size of its own.
* StateMachine: the build phase, its assertions, invalid indices (refused without
  effect) and the depth limit. ForceTransition is not called from a handler, as its
  comment demands.
* LifecycleNode: on_shutdown cannot fail, and a call after Finalized only runs it again.
  A callback that is not set counts as one that succeeds.
* FaultCollector: the wake-up semaphore (the timed wait always ends), the statistics by
  priority and the list of recent faults. Timer: the sleep of the loop, for the same reason.
* Watchdog: an owner does not unregister a thread that is inside Feed (`FeedRaces`).
* AsyncLog: which sink is called, and the reports of dropped entries; log calls do not
  overlap StopAsync (`StopRaces`).
* ByteChannel: creating and mapping the segment. A cell stands for four bytes, so the
  split of a length prefix at the end of the buffer is not seen. Readers register, and do
  not die while they register, while no message is being written (`JoinRaces`).
* SerialFrames: the rate limit, the health window, the ring between reading and parsing
  (an SpscRing) and the port. The CRC is a fold over the cells with a simpler mixing step
  than the table of the code; one that fits by accident is excluded: a damaged cell is a
  value no frame has.
* NetworkNode: the encoding of frame headers and topics; destroying the node while its threads run. RecvFrame is one blocking step that
  returns a frame or fails.
* EventLoop: descriptors (they are in NodeManager), and timers scheduled by another
  thread while the loop waits (`Foreign`).
* NodeManager: the order in which threads wait for its mutex; the number of missed
  heartbeats is one Timeout. HsmNodeManager: its mode on a TimerScheduler, the disconnect
  callback and fault reports. Popping an event and applying it is one step. A node is
  added once and each is reported by one caller at a time.
* Discovery: StaticDiscovery and TopicAwareDiscovery, and GetNodes and the like.
* Service: ServiceRegistry; a request or a response is one message.
* AppPost: the payload of a message; the state of an instance is its own and changes in
  any handler.

## 4. Runs

| Run | Instance | Shows |
|---|---|---|
| `bus` | 2 publishers (Low and High), depth 2, batch 2, 4 calls, ids exhausted at 4 | no two users of an envelope, statistics that add up, the abstract queue is implemented, the consumer always catches up |
| `pool` | 2 producers, 2 consumers, 1 monitor, 2 blocks, 3 allocations (2 with the monitor); no pipeline, pipeline, reclaiming | one place per block, no double free, stable payloads, exact references, counters that settle, all blocks return |
| `data` | SpscRing: 2 slots, indices modulo 8, batches up to 3. StateMachine: all forests over 4 states. LifecycleNode: every sequence of calls. SerialFrames: 3 frames, 2 faults, 4 sequence numbers. DataFusion: 3 types, 6 messages, 3 stamps, 2 windows. Breaker: cool-down of 2 cycles. BusCallbacks: consumer and another thread, 3 entries. ObjectPool: 2 threads, 2 blocks | the FIFO across the wrap without overlapping copies; what was entered is a path from a root; success means moved, callbacks paired; only what was sent is delivered and losses are counted across the wrap; a fused set has the newest message of every type, within the window, and every message is fused, kept, replaced or counted as dropped; the breaker recovers only after the windows it asks for; the lock word and the table agree, and a dispatch leaves out no more staying subscribers than it has called that are gone; every block is free or with one holder |
| `threads` | WorkerPool: 1 submitter, 2 workers with queues of 1, bus of 2, 3 jobs, 2 starts. Executor: 2 starters, 1 stopper, 2 calls each, both kinds | every job accounted for, a flush means idle, jobs finish and Shutdown returns; nothing dispatched after Stop, Stop returns |
| `shared` | ConsumerSlots: 3 processes, 2 slots, 1 block, 2 reapers. ByteChannel: 2 readers, 2 slots, 11 cells (8 used), indices modulo 24. AsyncLog: 3 threads, 2 rings of 2, 3 calls. EventLoop: 1 poster, 2 timers | live references are never taken and slots not shared, while processes come and go or while they die and are reaped; the references of the dead are returned; the stream of each reader is intact and its next message arrives; every log entry in one place, in order, written; timers fire, no wake-up is missed, Stop ends the loop |
| `timing` | Timer: 2 slots, 2 tasks, 4 ticks. Watchdog: 2 workers, 1 slot, 2 registrations. Discovery: 2 names, 2 slots, both modes, 2 starts, tasks refused or not | tasks run when due, not early, one-shots once, at most once after Remove; only silent threads are reported, and they are; joins and leaves told agree with the table, only silent nodes leave, and they do |
| `nodes` | HsmNodeManager: 1 node, 1 caller, max_missed 3, queue of 1, 1 timer. NodeManager: 1 entry, 2 descriptors, 3 connections, 3 ids, 2 timers. NetworkNode: 1 slot on one thread or two with 3 frames, 2 slots with 1; 2 connections, rings of 2 | a node is disconnected only after silence at max_missed - 1 checks and does get disconnected; no event is left behind; a connection is dropped only for what its own peer did; frames in order and none missing uncounted, rings drained, slots freed. Deadlock is checked |
| `services` | Service: 2 clients, 1 worker slot, 2 calls each. FaultCollector: 2 reporters, 2 priorities, queues of 2. MpscRing: 2 producers, depth 2, 5 pushes, both variants. AppPost: 2 callers, 1 instance, queue of 3 | a late answer is not taken for another call, workers are counted and joined, Stop returns but for a silent client; no report is lost; the ring implements the queue and refuses only when full; response channels are freed by their last user, and are freed |
| `callbacks_two_buses` | two buses, one consumer thread | *violation*, finding 1 |
| `spsc_narrow` | indices narrower than int | *violation*, finding 2 |
| `consumers_stolen` | one process, one reaper | *violation*, finding 3 |
| `send_and_wait` | 2 callers, 1 instance, queue of 3 | *violation*, finding 4 |

Bounds. Two slots are the smallest ring in which a position can be full, one lap behind
and one lap ahead, and two publishers the fewest that can race; the bus run lets each
slot be reused at least once with evictions, and its four calls reach every action,
the last of them perhaps after the ids are used up. With
two publishers the admission check alone keeps the ring from being full at the claim
loop, so the run says little of that branch; `EnvelopesExclusive` and `NeverOverruns`
are proved for every number of publishers. Three allocations on two blocks recycle a
block under a stalled Alloc (the ABA case: the mutants that keep the tag are caught, here
and in ObjectPool). Two slots for three processes make registration fail and slots change
hands. `DrainRounds` stands for the 10 batches of the dispatcher's final drain. Queues of
one job make a worker's queue overflow and the dispatcher try the other. Ages end one
beyond what the code tells apart. max_missed 3 is the default and the least for which a
suspect can miss a heartbeat and stay one. One timer means that a Start that failed has to
be followed by Stop (the code has two slots, see section 5). Over four states source and
target differ in depth by up to three, or are siblings under an ancestor that is not a
root. Eleven cells are rounded down to eight, as the code does; two messages of three
cells fit and leave a remainder, so messages wrap at different offsets. Four sequence numbers let the gap counter cross the wrap. One slot
and two registrations give a watchdog slot to a second thread while the first still
feeds; two descriptors are the fewest that can be reused by another connection while the
loop holds one; two watches left behind fill the loop's table, so that the third
connection is seen by the heartbeat only, and a third id keeps ids unique among them
(the code has 65535); one worker slot makes the accept thread refuse; two connections on
one subscriber slot, and a ring of two for three frames, leave frames of the old
connection in front of those of the new and overflow the ring. Six messages let the
fusion fire twice, or once after drops and replacements. Two starts let discovery run
beside the task that a failed start left with the scheduler.

`MaxCalls`, `MaxAllocs`, `MaxReclaimedAllocs`, `MaxClock`, `MaxIds`, `MaxBatch`,
`MaxJobs`, `MaxStarts`, `MaxFrames`, `MaxFaults`, `MaxMessages`, `MaxTime`, `MaxAdds`,
`MaxGeneration`, `MaxLag`, `MaxBacklog`, `MaxConnections`, `MaxConns`, `Calls`, `Reports`
and `Schedules` bound the inputs. Except in `bus` and `nodes`, a system may stop when they
are used up, so deadlock is not checked there. No symmetry is used, since most
runs check liveness.

Fairness is weak and per thread: a thread that is inside a call goes on, and a loop that
the library runs (the consumer of the bus, dispatcher and workers, writer, scheduler,
event loop, accept loop, receiver, reapers) is scheduled. Threads that wait with a
time-out wake up. Time passes where a property is about silence. No fairness is assumed
for the calls of an application (publishing, posting, Start, Stop, Feed, Connect), for
messages or answers to arrive, for a client to close, nor for the success of a
compare-exchange. What that cannot give is in the property: `StopOrClient` lets Stop wait
for a client that sends nothing, and the slots of ended connections in `RemoteFramesKept`
may wait for a silent subscriber, because the code blocks there without a time-out. In the
watchdog the timer's thread need not run; in the discovery both do.

## 5. Findings

1. `bus.hpp:400`: the lock's thread_local state is shared by all buses of a thread; a
   callback of one bus that subscribes on another corrupts both lock words.
2. `spsc_ringbuffer.hpp:289`: with an index type narrower than int the full test misses
   a full ring after the wrap. (`At`, line 249, answers null for elements in range, for
   the same reason.)
3. `data_dispatcher.hpp:1153`: a reaper that read a slot as inactive takes the mask of
   the consumer that registered meanwhile.
4. `post.hpp:214`: OspSendAndWait posts the message (line 209) before it takes the
   queue's reference to the response channel; an application that processes the message
   in between releases the last reference. The `services` run therefore explores requests
   with `AcquireFirst`, which holds the application back until the reference is taken.

Noted while modelling, without a run of their own. Constants that are FALSE in the runs
(`JoinRaces`, `StopRaces`, `Foreign`, `FeedRaces`) reproduce some of them.

Bus, rings and pools:

* `bus.hpp:886`: the full test of the claim loop compares a position read earlier with
  a consumer position read later; when the latter has passed the former the unsigned
  difference is huge and the message is dropped as `kQueueFull` on a queue with room
  (the same subtraction in the admission check, lines 848-857, errs the same way).
* `bus.hpp:611`: a callback that unsubscribes itself destroys its own callable while it
  runs (line 620 calls this "safe re-entrancy").
* `bus.hpp:925-927` says a failed eviction scan means that the "queue genuinely holds
  only HIGH, or is fully contested"; the scan starts one position after the consumer's,
  so the oldest pending message is never a victim.
* `data_dispatcher.hpp:157`: reclaiming a block under its running pipeline recycles it
  twice and fails the transition assertion; `pool` therefore takes the pipeline and the
  reclaiming monitor one at a time.
* `data_dispatcher.hpp:899`: the generation check and the release are two steps; a block
  reclaimed and reallocated between them loses a reference of its new holder.
* `shm_transport.hpp:341` says "false if full or size too large"; `TryPush` also refuses
  on a race.
* `shm_transport.hpp:1128`: a consumer is active before its tail is set (line 1131). Until
  then the slot has the tail of its former owner, or 0, which may lie more than a lap
  behind: the room computed at line 1175 then passes below zero, and Write overwrites what
  other consumers have not read, though it "Checks the slowest active consumer to prevent
  overwrite." `StreamIntact` is violated with `JoinRaces = TRUE`. A process that dies
  between the two lines leaves the slot like that.
* `data_dispatcher.hpp:1194-1195` says a zero heartbeat closes "the window between
  RegisterConsumer()'s active CAS and its heartbeat timestamp write". Unregistering sets
  it to zero, the reaper does not: the next consumer in a reaped slot can be taken for
  dead in that window and then shares its slot with another. `SlotExclusive` is violated
  when processes join and are reaped in one behaviour (`Regimes <- Together`, three
  processes, one slot, one reaper).
* `bus.hpp:1002`: the loop of a dispatch ends when it has called as many callbacks as the
  table has now. A callback that unsubscribes itself, or another one already called, makes
  it end early, and the last subscriber misses the message.
* `spsc_ringbuffer.hpp:158` asks only for the producer thread; `ProducerClear` is safe
  only while the consumer is between calls (`ClearAnyTime = FALSE`).

Threads and supervision:

* `worker_pool.hpp:243` says Shutdown drains the queues. A worker that has seen the flag
  drains its queue and ends while the dispatcher may still push to it; StopAll clears
  such jobs (`lost`). After that dispatched and processed differ for good and later
  flushes time out. A Submit that passed the paused check before the pause can still be
  handled after FlushAndPause has succeeded.
* `executor.hpp:270`: Spin stores `running_` on entry, so a Stop just before it has no
  effect. RealtimeExecutor with a stack size: a Stop between pthread_create (line 746)
  and the store of `use_pthread_` (line 753) returns without joining the thread.
* `async_log.hpp:488`: a log call that restarts the backend while StopAsync waits
  (`StopRaces = TRUE`) can clear the flag that StopAsync set; StopAsync then never returns.
* `event_loop.hpp:265`: Schedule from another thread does not wake the loop, so a timer
  scheduled while it waits fires only after the wait ends (`Foreign = TRUE`).
* `watchdog.hpp`: Feed tests the id and beats in two steps, so a thread unregistered in
  between may feed the next owner of its slot (`FeedRaces = TRUE`); WatchdogGuard::Feed
  beats without testing the id. With two checkers, a stale one can mark a thread that has
  just fed its slot as timed out, or undo a mark, until the next check.
* `fault_collector.hpp:421`: the active bit is set after the fault was queued, so it may
  stay set for a fault that was processed and cleared. DrainAll passes each queue once; an
  escalation to a queue already passed remains after Stop.

State machines and the distributed layer:

* `hsm_table.hpp:205`: a kSelf row of an ancestor taken from a descendant leaves the
  descendant only; its comment has the ancestor left and entered again.
* `lifecycle_node.hpp`: after TriggerError on an active node and Recover, on_configure
  and on_activate run again with no on_deactivate or on_cleanup in between.
* `node_manager_hsm.hpp`: a Start whose thread cannot be created leaves its timer
  scheduled, and with the next Start every check is made twice (`BeatingStaysConnected`
  excludes that). Events queued when Stop is called stay queued and reach a node of the
  same id added later. Reconnecting keeps the old timestamp, so the next check counts a
  miss at once. With max_missed 1 it still takes two misses. Heartbeats of one node
  stamped by two threads can be applied in the other order, and the older stamp stays.
* `node_manager.hpp:592` and `:388`: a node that times out, or is closed by Stop, keeps
  its place in the loop's table of descriptors; when the places are used up, connections
  are only watched by the heartbeat. A Start whose thread cannot be created (line 357)
  leaves its timer; after two in a row Start is refused until Stop, which cancels only
  the last timer, so the other stays and the heartbeat runs twice as often.
* `service.hpp:333`: max_concurrent is compared with a count that a worker raises only
  when it runs (line 276), so more connections may be admitted than it says.
* `transport.hpp:1034`: frames in the ring of a subscriber whose connection ended stay
  there until the slot is given again, though DispatchFromBuffer is to "Dispatch all
  buffered frames". RemoteSubscriberCount may for a moment be 2^32 - 1, when the I/O
  thread counts a subscriber down (line 1001) before the accepting thread has counted it
  (line 1120). RecvFrame (line 1006) waits, so a silent subscriber holds up the others. A
  publisher whose connection broke stays active.
* `discovery.hpp`: with a TimerScheduler, joins and leaves are told by two threads and may
  come in the wrong order (`NodesReported` has them alternate with one thread only, and
  add up with both). A failed Start keeps what it had opened and its tasks, and those of
  an earlier start that are registered again stay for good. Start succeeds also when the
  scheduler refuses a task (line 343): without the time-out check silent nodes never leave,
  which `SilentLeaves` excludes.
* `app.hpp:42` has fatal errors end in "must destroy", but Recover is refused only by the
  fatal state itself: MarkError(false) makes it recoverable again. A message queued for a
  destroyed instance reaches the next one with the same id. Destroying an application
  does not drain its queue, so response channels in it are not released.
* `service_hsm.hpp:223-226` and `discovery_hsm.hpp:231-235` call the event methods
  asynchronous ("they enqueue an event and return immediately"); they dispatch on the
  caller's thread under a mutex. After Recover of HsmService, Start (line 266) has no
  effect until Stop. OnError stores the code of an error that the machine ignores.

## 6. Proofs

Each theorem holds for every value of the constants that satisfies the assumptions of its
module; TLC evaluates those assumptions in the run that extends the module.

| Theorem | States | Module |
|---|---|---|
| `TypeCorrect` | `Spec => []TypeOK` of AsyncBus | AsyncBusTypes |
| `EnvelopesExclusive` | `Spec => []ExclusiveEnvelope` | AsyncBusProofs |
| `NeverOverruns` | never more than kQueueDepth claimed positions | AsyncBusProofs |
| `ExclusiveSlots`, `NeverOverfull` | `Spec => []RingExclusive`, `[]SizeWithinCapacity` | SpscRingProofs |
| `ImplementsBoundedFifo` | `Spec => RingIsFifo`: SpscRing implements BoundedFifo | SpscRingProofs |
| `RingImplementsQueue` | `Spec => RingIsQueue`: MpscRing implements BusQueue | QueueProofs |
| `ChannelsAreExact` | `P!Spec => []P!ChannelsExact` of AppPost, with `AcquireFirst` also `[]P!ChannelAlive` | QueueProofs |
| `LiveReferencesSafe`, `SlotsAreConsistent` | `Spec => []LiveRefsSafe`, `[]SlotsConsistent`, if `Disciplined` | ConsumerSlotsProofs |
| `JobsAreAccounted`, `FlushedIsIdle` | `Spec => []JobsAccounted`, `[]FlushMeansIdle` | WorkerPoolProofs |

**The bus.** `ExclusiveEnvelope` is not inductive: it speaks of the threads on a slot and
not of what keeps the next one out. The invariant `IInv` (AsyncBusInvariant) adds that

* positions: `consumer_pos <= cons_pos <= producer_pos <= cons_pos + kQueueDepth`, and
  no thread's copy is ahead of what it was read from (`PositionsInv`);
* window: for each position of the current lap the sequence of its slot is one of the
  four marks of a pending position, or the free mark (`RingInv`);
* a thread that fills or evicts holds a pending position, marked by its sequence, and
  one about to claim the next position has seen room for it (`PublisherInv`);
* different threads hold different positions (`DistinctInv`), and the consumer's head
  carries its mark while it is read (`ConsumerInv`).

The step that is easy to get wrong is a stale eviction scan: lemma `PublishedIsPending`
shows that a slot carrying the published mark of position c is pending whenever c is
less than a lap ahead of the consumer, however old the positions that led there.
`NeverOverruns` reads the bound on the claimed positions off the same invariant.
Assumptions: `BusAssumption` and `InputAssumption` in AsyncBus, which TLC evaluates in
the bus run. `RingArith` has the facts about remainders (two positions on one slot are
a lap apart, a lap covers every slot).

**The single-producer ring.** The hypotheses `~Promoted` and `~ClearAnyTime` are the two
conditions under which the ring is correct: an index type at least as wide as int
(finding 2 shows the other case) and ProducerClear only between calls of the consumer
(section 5). `IInv` relates what either side has computed from a stale index to the
present one: `to_write` items still fit and `to_read` items are still there, and what was
copied is what the slots hold until the index is stored. All arithmetic is modulo
`IndexMod`; the wrap of the difference of two indices is lemma `WrapDiff`.

**The ring of several producers.** `IInv` is that of the bus without eviction, with the
events that have been published and not yet delivered (`ItemsInv`); it gives one user per
slot, the refinement, and that a copy of TryPush that retries returns false only when
`Depth` places are taken. `RingAssumption` asks for a depth above one: with one slot the
mark "published" of a position and the mark "free" of the next are the same number.

**Requests.** The count of a channel is one per user, but a user has no name in it.
`PostInv` says where a channel can be: `PostQueueInv` has each message with a channel at
one place of the queue, put there by the call whose number it bears, and `ChannelInv`
gives the count for each pair of caller and call from the stage of the call and the place
of the message, the front one counting no more once it is released. `ChannelsExact` holds
with and without `AcquireFirst`: the count is one short from Post() to Acquire(). That
`ChannelAlive` needs the hypothesis is finding 4. For the instances, lemma
`NeverProcessing` goes through what a handler can call. The theorem asks for
`PostBounds`: the number of requests and of instances are naturals. The `services` run
checks `ChannelsExact` as part of `RequestsCorrect`, whose other part is liveness.

**Consumer slots.** A reference may be owed by a process that lives, by one that still is to be
notified, by the mask of a slot whose process is dead, or by a reaper that has taken a
mask and not yet released it. `RefsInv` says that the count of a block covers all four
together; only the first two are in `LiveRefsSafe`, which is why it is not inductive.
`ReaperInv` keeps a reaper that is past its tests at a slot without a live process, and
`MaskInv` has a slot clean before it can be taken. The hypothesis `Disciplined` excludes
what the code does not survive: registering while reapers run (finding 3, and the
reaped slot that keeps its heartbeat, section 5) and dying between Release and
TrackBlockRelease. Processes and reapers are finite sets.

**The worker pool.** `PlaceInv` puts every job that the dispatcher took in exactly one of
five places and every other in none; `OnceQueued` and `OnceInHands` exclude copies;
`CountersAgree` adds them up against dispatched and processed. FlushAndPause reads five
things one after the other, and `FlushInv` says that what a round has seen still holds at
the later reads: while paused and with no late Submit the bus stays empty once seen
empty, so no queue is pushed to, so a queue seen empty stays empty, so dispatched stands
still, and processed can only come up to it. Lemma `NothingToCount` concludes that queues and
hands are empty when the two agree.

Only model-checked, and why:

* liveness: the prover has no rule for fairness and ENABLED;
* what walks a linked structure or a sequence of arbitrary length (the free lists of
  BlockPool and ObjectPool, the trees of StateMachine, the parser of SerialFrames):
  induction over data is out of its reach;
* that AsyncBus implements BusQueue, its statistics, and the safety properties of the
  other components.

## 7. Not modelled, and what comes next

Not modelled:

* `connection.hpp`, `socket.hpp`, `net.hpp`, `transport_factory.hpp`, `thread.hpp`,
  `process.hpp`, `system_monitor.hpp`, `shell*.hpp`, `shutdown.hpp`, `semaphore.hpp`:
  wrappers of system calls, or tables used by one thread. Their behaviour, where another
  part relies on it, is in that part's module (sockets in NodeManager, Service and
  NetworkNode; timed waits in WorkerPool and AsyncLog).
* SequenceTracker and the v1 frames of `transport.hpp`, which no other part uses.
* `service_hsm.hpp`, `discovery_hsm.hpp`: every call is one step under one mutex; no
  thread, no timer, nothing to interleave.
* `bt.hpp`: one thread ticks a tree that the application builds.
* `config.hpp`, `inicpp.hpp`, `toml.hpp`: parsers; the last is vendored and alone has
  17,700 lines. Together with tests, examples, documentation and the
  value types (`vocabulary.hpp`, `platform.hpp`, `opt.hpp`, `qos.hpp`, `node.hpp`,
  `static_node.hpp`) they hold most of the lines: the map names about
  5,700 lines, a third of the headers it touches (26 files, comments and declarations
  included) but less than a tenth of everything under `src/`.

Next, in this order:

1. Proofs: that AsyncBus implements BusQueue, `RecoveryEarned` of Breaker, `CallsMatched`
   of Service, `CallbacksCorrect` of BusCallbacks, `DropDeserved` of NodeManager.
2. HsmNodeManager on a TimerScheduler, and the pthread of RealtimeExecutor.
3. Node manager, discovery and watchdog over Timer itself in place of a task that runs at
   any time.
