# TLA+ specifications of the SpectraLang runtime

SpectraLang is a compiled language with a Rust runtime. Most of the repository
is sequential: compiler, code generator, collections, numerics. What is hard to
get right, and hard to test, is the part of the runtime that threads, generated
code and the operating system use at once: the async task registry, coroutine
frames, channels, the reactor, background workers, the executor of
`std.concurrent`, and the generational handles all of them are named by. Two
protocols are as hard: distributed training, where processes lose connections and
retry, and the connection pool of the database drivers. These specifications model
these parts, check them with TLC on small instances, and prove the most important
invariants with TLAPS for every size.

## 1. The system

| part | source (under `src/`) | state | operations |
|---|---|---|---|
| async channel | `runtime/src/stdlib/async_network_reactor.rs`, `async_registry.rs` | buffer, waiting sends, waiting receives, closed flag, tasks | new, send, recv, close, drive, cancel |
| coroutine frames | `runtime/src/async_frame.rs`, `stdlib/async_task_stream.rs` | per task: frame, state, flags, awaited child, parents; queued wakes | create, poll (begin, run, finish), subscribe, cancel, drop, wake, reset |
| tasks, timeouts, scopes | `stdlib/async_registry.rs`, `async_task_stream.rs` | task flags, wrapped task, deadline, scope tree, join order, clock | ready, complete, fail, cancel, with_timeout, spawn in scope, join, reset |
| background workers | `stdlib/async_registry_support.rs`, `async_task_stream.rs` | bounded queue, worker threads, cancel hooks | spawn, run, cancel, reset |
| reactor | `runtime/src/reactor/mod.rs` | event queue, timer heap, sources, generation, multiplexer and its waker | push, poll, register source or timer, driver thread, reset |
| handle tables | `runtime/src/handles/mod.rs` | slots with generations, free list | insert, get, take, put, remove, drain |
| concurrent executor | `stdlib/concurrent_core.rs`, `concurrent_api.rs` | job queue, atomics of tasks and batches, completion signal, registry | spawn, worker loop, join, reset |
| distributed training | `stdlib/ml_distributed_tcp.rs` | coordinator: step, pending gradients, rank bindings, connections; worker: step, parameters, attempts | connect, HELLO, ASSIGN, GRADIENTS, ACK, DONE, HEARTBEAT, retire, replay, timeouts |
| connection pool | `packages/spectra-db/src/pool.rs` | idle queue, waiters, two counters, closed flag; per future a result and a cancelled flag | acquire (blocking or async), connect, release, time out, drop, reap, shutdown |
| streams, sockets | `stdlib/async_registry.rs`, `async_task_stream.rs`, `async_network_reactor.rs` | pending readers and writers | read, write, drive, cancel |
| other concurrent parts | manual heap, `std.serve`, `spectra-api` server, package cache | see `PROJECT.json` | |

How they interact:

- Every async object lives in one registry behind one lock, reached through
  handles. Operations on it are atomic, except where the code releases the lock
  on purpose: around generated code, jobs, the hooks a reset calls, and the reactor.
- A coroutine is polled by any thread that joins or drives it. Its wakes are
  queued under the registry lock and handed to the reactor after it is released.
- Timeouts register timers with the reactor; the driver thread turns due timers
  into events; polling the reactor brings them back to the registry.
- Background jobs publish their outcome in the registry, and are told through a hook
  that they are not wanted any more: `cancel_task` calls it under the registry lock,
  a reset once it has released it.
- `reset_async_state` empties all of it while the other threads go on.
- Distributed training and the connection pool use none of this: the first has an
  event loop of its own, the second a mutex, a condition variable and threads.

## 2. Modules

| module | models | granularity |
|---|---|---|
| `AsyncChannel` | one channel with the tasks of its operations | an operation, or one round of a loop of `drive_async_channel` (`phase` keeps the lock held) |
| `CoroutineFrames` | frame registry, task flags, threads inside it | a critical section, or a callback into generated code |
| `AsyncTasks` | tasks, timeouts, scopes, join order, clock | an operation under the registry lock |
| `TaskTable` | the flags of `AsyncTaskRegistry.tasks`, shared by `AsyncTasks` and `BackgroundTasks` | variables only |
| `BackgroundTasks` | one bounded queue, its workers, hooks, reset | a critical section or a queue operation |
| `Reactor` | queue, heap, sources, pollers, driver, waker | a critical section or a call of the multiplexer |
| `HandleTable` | one table, and the handles callers kept | an operation; `drain` one slot at a time |
| `HandleMap` | what a table promises: a handle names one value | abstract |
| `ConcurrentExecutor` | tasks and batches, workers, joins, reset | one atomic operation or critical section |
| `DistributedTraining` | coordinator, workers and the connections between them | a frame read, handled or written, a break, a timeout |
| `ConnectionPool` | the pool, blocking clients, futures and their threads, shutdown | a critical section, or one access to the shared half of a future |
| `Retain` | `retain` of a Rust list, used for the lists of scopes and the queue of waiters | an operator |

`MC*.tla` are the instances for TLC and `*Proofs.tla` hold the theorems. Names
of variables, states and actions are those of the code; the lines each
definition stands for are in `PROJECT.json` under `map`. Operators marked
*Mutant* are not part of a specification: each is the definition after it with a
plausible bug, and the property named for it in `PROJECT.json` fails with it.

Conventions: a flag of a record is the set of the records that have it. Values
carry no content beyond what a property tells apart: a send carries its own
number, a task produces its own number, the sum of a batch is how often each
offset was added. Handles are not reused except in `HandleTable`, which is about
their reuse.

### AsyncChannel
`Send`, `Recv` and `Close` follow the branches of `std_async_channel_send`,
`_recv` and `_close`, `DriveServe` and `DriveBuffer` the two loops of
`drive_async_channel`, `CancelSend` and `CancelRecv` the cancellation of the
task of an operation, which leaves its entry in the queue.

### CoroutineFrames
A member of `Threads` is one activation of `poll_coroutine_task`,
`cancel_coroutine_task` or another entry point, and `pc` says between which
critical sections it is. `place` says who owns a frame: the registry, the
`AsyncFrameDrop` of a thread, or the quarantine. Generated code may await any
child and return any status. `TaskFail` is `std.async.task.fail`, which marks the task in the
table and leaves its frame alone; `Failable` bounds the tasks it is called on. `asleep`
is a history variable: the coroutines that subscribed to a child and were neither
polled nor handed to the reactor since. `Reset` is `AsyncFrameRegistry::clear`, which leaves
the records of running polls alone.

### AsyncTasks
One action per host function. The recursion of `cancel_task` through wrapped
tasks, and of `cancel_scope` through child scopes, is the least set closed under
it. `join_scope` recurses with one counter: child scopes first, in the order of the
list, then the scope's own tasks. `ScopeBefore` and `TaskBefore` say which of two
scopes or tasks this recursion comes to first, and a task that is joined for the
first time (`Fresh`) gets the counter plus the number of such tasks before it
(`Earlier`). TLC compared this with the recursion written out, on every reachable state
with four scopes and three tasks: the numbers are the same.

### BackgroundTasks
`spawn` is how far the spawning thread got: allocation, `try_send`, and the
take-back of a refused job are separate steps. A worker receives, looks for
cancellation, works and publishes; work may fail or panic, and a panic ends the
worker. Reset drains tasks and hooks under the lock, and calls the hooks after.
`Jobs` are the tasks it spawns, and `CancelJob`, `FailJob` and `ResetAsyncState` what
`cancel_task`, `std.async.task.fail` and `reset_async_state` do to them.

### Reactor
State, timer heap and multiplexer have locks of their own. A source is
registered by inserting the token and then calling the multiplexer; a timer
reads the generation and then goes on the heap. Deadlines are abstract: any
entry of the heap may come due. The waker holds at most one pending write.
`parked_in` is a history variable: the generation in which a poller last entered the
multiplexer.

### HandleTable and HandleMap
The n-th value is the number n, which also names its handle. Callers use any
handle they ever had. `generation` wraps as `wrapping_add(1).max(1)`. History
variables count how often a slot was emptied. The abstract map gives the promise
a term: only after `MaxGeneration` releases may an old handle name a new value. Its
`asked` is the handle a caller presents and `draining` whether the table is being
emptied; with them a step of the map says which handle it answers for, so that an
answer for the wrong handle is not a step of it.

### ConcurrentExecutor
Tasks and batches are shared by atomics. `complete` stores the value and then
publishes the state by compare-and-exchange; a lane adds its sum and then counts
`remaining` down; a join looks, takes the lock of the signal, looks again and
parks. A reset holds the registry while it cancels batches and tasks one by one.

### DistributedTraining
A connection is a pair of frame sequences, `up` and `down`, and a state: when it is
cut, a prefix of what was under way still arrives. The coordinator's half
(`HandleFrame`: a bad frame, `HandleHello`, `Replay`, `Contribute`, `CompleteRound`) is
`dist_coord_handle_frame`, `Retire` is `dist_retire_conn`, and the timeouts and ends
are those of `dist_coord_loop`; a worker is `dist_tcp_attach` and `dist_tcp_worker`.
Tensors become what tells them apart: an average is the number of its round, a
replica is the sequence of averages applied to it, a gradient carries the replica
it was computed from and whether its loss is finite. Nothing in the training step keeps
a loss from diverging, so a worker may send either, and the coordinator refuses one
that is not finite (`Refused`). `SilenceTimeout` may fire whenever the coordinator has
handled all it can decode. A heartbeat cannot be decoded, and blocks the buffer it
is in: this is what the code does, and the models keep it.

### ConnectionPool
A client is a thread in `acquire_blocking`; a future has its owner, the thread that
connects for it and the thread that sleeps until its timeout. Taking a connection
and parking are two critical sections in the code and two actions here, and so are
the three steps of `Drop`. Time is abstract: a deadline may have passed whenever
the code looks at it. `Miss` is a history variable: the clients that were between
their two looks when something became available.

## 3. Runs

`tlc -workers 2 -config <cfg> <module>`; state counts are distinct states.

| run | cfg | states | bounds and why they are enough |
|---|---|---|---|
| `async_channel` | `MCAsyncChannel` | 36,130 | capacity 1, three sends, four receives: a full buffer with a waiting send behind it, and cancelled entries before live ones on both queues |
| `coroutine_frames` | `MCCoroutineFrames` | 122,199 | two tasks, parent and child, one of which may be failed from outside, and two threads inside the runtime; no symmetry, which liveness does not allow. The invariants are proved for any number of both |
| `async_tasks` | `MCAsyncTasks` | 114,015 | two tasks (one may wrap the other), two scopes (nested or beside each other), clock 0..1 with delays 0 and 1, one failure |
| `background_tasks` | `MCBackgroundTasks` | 129,464 | three tasks, two workers, queue of one: a job running on each worker or one queued and one refused |
| `reactor` | `MCReactor` | 916,743 | one poller without timeout, one source, two timers, two other events, one reset |
| `reactor_live` | `ReactorLive` | 31,054 | two pollers with timeouts competing for the multiplexer, no reset |
| `handle_table` | `MCHandleTable` | 285,379 | five insertions with two generations: a slot wraps twice |
| `concurrent_executor` | `MCConcurrentExecutor` | 318,601 | a task and a batch of three values in two lanes (one lane can be cancelled half way), two workers, two joiners, one reset |
| `distributed_training` | `MCDistributedTraining` | 128,306 | two workers, three steps (a first, a middle and a last round), one break at any point, three attempts; three connections, so that a takeover meets the connection it replaces and that of the other rank |
| `connection_pool` | `MCConnectionPool` | 362,250 | one connection wanted by a client and two futures, two names so that a discarded connection differs from its successor; with `MinSize` 1 and `MaxSize` 2 (2,121,201 states) the same holds |

What they show:

- **async_channel.** Every accepted value is buffered or was delivered once, and no
  other value flows (`AcceptedIsDelivered`); no live waiter is dropped from its
  queue, senders wait only when the buffer is full, receivers only when it is empty
  unless a receive was cancelled, and close releases every receiver
  (`NobodyWaitsInVain`); as long as no receive is cancelled, "closed" is reported
  only when nothing is left (`ClosedMeansDrained`), and order is kept.
- **coroutine_frames.** While generated code runs, its record owns the frame and
  one thread is in it (`PolledFrameIsOwned`); drop runs at most once; no coroutine sleeps
  over a child that has returned or failed, whether it subscribed before or after
  (`SubscribersAreWoken`). With fairness, cancelled frames are retired and queued wakes
  leave the queue, for the reactor or with a reset.
- **async_tasks.** A task is in the list of the scope it points to and no other;
  cancelling a scope reaches everything below it; a cancelled wrapper has
  cancelled what it wraps; join orders are handed out once and without gaps.
- **background_tasks.** Running work hears of a cancellation or a reset; a refused
  spawn leaves nothing. With fairness, every pending task is settled unless a panic
  took its job along.
- **reactor.** No timer of an earlier generation is queued; a lone poller is never
  left parked over an event, nor any poller through a reset. Without resets and with fairness (`reactor_live`),
  registrations proceed, bounded polls return and accepted timers are delivered.
- **handle_table.** A stale handle finds another value only after a full turn of
  the generation, and the table implements `HandleMap` under the mapping at the end
  of `HandleTable`. That encoding and decoding a handle is lossless is the assumption
  `RawRoundTrip` of the instance, which TLC evaluates.
- **concurrent_executor.** A task join returns the closure's value, a batch join
  the complete sum; a result is taken once; a parked join on something done is
  about to be woken, so that every join returns without its timeout.

- **distributed_training.** Every replica has had the average of every round once and
  in order (`ReplicasAgree`); a gradient in a round was computed from that round's
  parameters (`RoundIsUniform`); nobody is ahead, and nobody more than a step behind,
  which is why one cached answer is enough (`LockStep`); neither side ever takes a
  delayed or repeated frame for a violation: the coordinator ends with a protocol
  failure only over a diverged loss (`OnlyDivergenceIsRefused`). With fairness,
  training completes unless a timeout, a failed worker, a heartbeat or a diverged loss
  gets in the way (`TrainingCompletes`), and once the coordinator has returned every worker ends. A
  break can cost two attempts: the one it interrupts, and the next one, when the
  coordinator reads the HELLO of the broken connection after that of its successor
  and takes the rank away from it. Three attempts survive one break and two do not
  (TLC finds this with `Attempts` 2), so the eight of the code survive three in a row.
- **connection_pool.** An open connection is in one place (`OnePlace`); `total` counts
  the open connections and those being opened, within `max_size`; `checked_out` never
  counts more than is outstanding, so shutdown is not held up by leases that do not
  exist; a queued future has no lease that would be dropped under the lock
  (`QueuedHoldsNoLease`); a blocked client sleeps beside a connection or room for one
  only when it came up between its two looks (`SleepsOnlyPastAMiss`); every pending
  future has an answer or a thread that owes it one (`AnswerIsOwed`).

Two runs show that the code does not do what a document or comment says (the
quotes are under `findings`):

- `connection_pool_shutdown`: a connection handed to a waiting future is no longer
  counted as checked out; `shutdown` returns `Ok` while that lease is in use.
- `distributed_heartbeat`: `dist_decode_frame` does not know HEARTBEAT, so a worker
  that sends heartbeats is declared lost as if it were silent.

Deadlock is checked where something can always happen; it is not in the runs of
the reactor, the executor and distributed training, where every bounded operation
may be used up and the threads then wait for good, or have ended.

## 4. Fairness

Liveness is claimed under these assumptions only:

- `CoroutineFrames`: a thread inside the runtime goes on (weak fairness), and a
  poll that can return again and again does so in the end (strong fairness on
  `Finish`: between two awaits its enabling comes and goes). Nobody has to start an
  operation.
- `BackgroundTasks`: workers take and finish jobs, spawning threads and resets run
  to their end. Work is taken to return, as for every blocking call.
- `Reactor`: threads run on, callers poll again, deadlines pass. A thread that
  waits for the lock of `os.poll` gets it if it is free again and again: strong
  fairness, which a mutex that wakes its waiters gives in practice and the standard
  library does not promise in writing.
- `ConcurrentExecutor`: closures return, a joining thread inside `join` goes on, and
  as long as a worker, a spawn or a reset can take a step, one of them does. The
  timeout and spurious wakes are not fair, so that no join may depend on them.
- `DistributedTraining`: workers go on, and the coordinator handles the frames it can
  decode. Nothing says that a timeout fires, that a broken connection is noticed (the
  poll reports an edge once), that a connection breaks or that a worker fails.

## 5. Theorems

Proved by TLAPS for all values of the constants, from the named assumptions of
the modules only (bounds are naturals, the null value is not a handle, and the
like). Each proof is `Init => I`, `I /\ [Next]_vars => I'` with a step per action, and
`I => Property`. Some of these properties (the types of four modules, the free list,
the finality of settled, cancelled and terminal tasks, the agreement of task table
and frame, the known parents, that only a panic orphans a task, that no timer fires
twice, that a rank has one connection) are not repeated in a run.

| module | theorems | the argument |
|---|---|---|
| `CoroutineFramesProofs` | `TypeCorrect`, `PollerOwnsItsFrame`, `DropAtMostOnce`, `FinishedFramesAreDropped`, `TerminalStaysFinal`, `TableAgreement`, `ParentsStayKnown`, `NobodySleepsOverAResult` | `IInv`: a thread in a poll is alone there and its record is `Polling`; a taken frame is in exactly one `AsyncFrameDrop`; drops are counted with where the frame is; a record that is not terminal owns its frame. `PolledFrameIsOwned` alone is not inductive: it needs that nobody holds a frame whose record is polled. A finishing child wakes every sleeper because it knows its parents |
| `AsyncTasksProofs`, tasks and scopes | `WrapperTakesInner`, `CancelledStaysFinal`, `ListsMatchTheirTasks`, `CancelGoesDown`, `OrdersStayDense` | what `cancel_task` reaches is closed under wrapping, and a new wrapper of a cancelled task is only ever above it; for the rest see below |
| `AsyncTasksProofs`, background workers | `BackgroundTypeCorrect`, `CancelIsHeard`, `RefusedSpawnLeavesNothing`, `TokenOnlyWhenCancelled`, `NobodyElseOrphans` | `BackgroundInv`: a queued or running job was returned by its spawner and is in one place; hooks cover the tasks neither cancelled nor completed |
| `ReactorProofs` | `NoStaleTimer`, `NoTimerFiresTwice`, `ResetReachesParked`, `LonePollerIsWoken` | a timer is in one of heap, driver, queue, poller; a reset empties the queue in the step that ends the generation; an unconsumed push leaves a waker write pending; the parked poller holds the multiplexer, so nobody else consumes the write of a reset |
| `HandleTableProofs` | `TypeCorrect`, `FreeListStaysExact`, `LiveHandlesResolve`, `StaleNeedsWrap`, `TableImplementsMap` | `IInv`: a stay in a slot has one handle; the generation of a slot is that of a handle advanced, cyclically, by the removals since. Refinement: each step maps to a step of `HandleMap` or a stutter |
| `ConcurrentExecutorProofs` | `TaskSettledOnce`, `JoinYieldsTheResult`, `ResultTakenOnce`, `NoMissedWakeup`, `BatchJoinYieldsTheSum` | READY implies the value is stored; a handle is in the registry until it is taken; what becomes done under a parked joiner was done by a thread that is about to notify; for the sum see below |
| `ConnectionPoolProofs` | `Inductive`, `EveryConnectionHasOnePlace`, `TotalStaysExact`, `NothingHoldsUpShutdown`, `QueueHoldsNoLease`, `OnlyAMissIsSleptThrough`, `EveryFutureIsOwedAnAnswer` | see below |
| `DistributedTrainingProofs` | `Inductive`, `ReplicasStayEqual`, `RoundsStayUniform`, `WorkersStayInStep`, `ProtocolIsKept`, `RankHasOneConnection` | see below |
| `AsyncChannelProofs` | `TypeCorrect`, `Inductive`, `NothingIsLost`, `EveryWaitHasAReason`, `ValuesKeepTheirOrder`, `ClosedComesLast` | `IInv`: the three queues are in call order and all that is buffered was sent before all that waits (`Order`); an operation is in its queue just as long as it has no outcome (`SendsWait`, `RecvsWait`); an accepted value is in the buffer or with one receive (`Once`); a send waits only beside a full buffer (`Room`); unless a receive was cancelled, none waits beside a value and all that took a value are earlier (`InTurn`) |

The argument for distributed training is about what can be under way. None of its
properties is inductive: each depends on frames that are still in a connection. The
invariant `IInv` says what is left of a connection when either end is closed (`Ends`),
that ranks and connections are bound one to one (`Bound`), and that HELLO comes first
on a connection and gradients only after it (`Greeting`). Its core is `Stands`: while a
gradient of a rank is under way (`InFlight`) or waits for its round (`Contributed`), the
worker of that rank cannot move on before the coordinator answers on that very
connection, even if the worker has lost it and is about to connect anew. So the
gradient is the one of the worker's present step and replica, there is only one, and
a worker has before it at most the one frame it waits for (`Answers`). `Progress` ties
steps and replicas together. Most actions touch one connection: locality lemmas
(`GreetingLocal`, `FlightLocal`) carry the invariant over to the others, and the steps of
an action treat its own.

The properties of the channel are not inductive because each depends on the order
inside the queues. The proofs speak of a queue as an increasing sequence and of what
is in it as a set (`AppendQueue`, `TailQueue`); a step either leaves the values alone,
hands one to a receive or puts one into the buffer (`SameValues`, `HandsOver`, `Buffers`),
and changes at most one send and one receive (`SendSide`, `RecvSide`). `EmptyBuffer`
shows on the way that a receive never finds a waiting send beside an empty buffer, so
that the branch of `std_async_channel_recv` for it (`RecvFromSender`) is never taken:
`drive_async_channel` has filled the buffer before.

The lists of scopes (`ListsMatchTheirTasks`) are changed by `push`, by `retain` and by
taking back a refused wrapper. `ScopeInv` says that whatever a table or a list names
exists and has the right type; with it, membership and absence of duplicates are
inductive. `retain` is not defined by recursion: what stays is numbered by its rank
among the positions that stay, and `WithoutFacts` says that the result has the same
elements but one, each once.

`OrdersStayDense` rests on the order in which `join_scope` goes through the tree of
scopes being a strict total order on what it reaches. `TreeInv` says that a scope is on
one list, once, and is younger than its parent, so that there are no cycles. The
subtree of a scope is the least set closed under children; the lemmas `Subtree...`
derive from this that the subtrees of two children are disjoint and that of two
overlapping subtrees one contains the other. From these follow irreflexivity,
transitivity and totality of `ScopeBefore`, and then of `TaskBefore`, since a task is on
one list, once. Counting what comes before each element of a finite set in such an
order numbers the set without gaps (`Orders`), and `JoinInv` is then inductive.

`BatchJoinYieldsTheSum` is a counting argument. `JobsInv`: a job is in the queue or with
one worker, and its lane was submitted. `LanesInv`: no value of a lane that is queued
or being summed was added yet. `SumInv`: `remaining` is the number of values that were
not both added and counted down (`Counted`), so it is zero only when all of them were
added, and a join that saw zero reads a complete sum. The worker between its two
atomics is the case that makes the sum and `remaining` disagree, and the reason why
the order of the two matters.

The invariant of the connection pool is the conjunction of its properties with three
facts about who is where. `PlaceInv`: the idle queue has no duplicates, and every other
open connection has one holder among the clients, the futures, their results and their
threads. `ShapeInv`: where a client or a thread is says whether it holds a connection,
a thread that connects for a future has nobody else answering it with one, and a
pending future is answered or its timeout thread still has a step to take. `QueueInv`:
a waiter is queued once and has no lease. `CountInv` needs these: a step moves one
connection between two places, and the counters follow. `SleepInv` strengthens
`SleepsOnlyPastAMiss` to the client that has looked in vain and not parked yet. The
actions are taken apart into what they do to the books (who holds what), to the queue
and to the two counters.

Facts about finite sets come from `FiniteSetTheorems`. The modules that use it bring it
in only near their end, because its many theorems slow the provers down. Until then
the proofs have the few facts they use as a hypothesis (`Counting` of the pool, `Sizes`
of the executor, `Ranks` and `Orders` of the scopes), which is proved from the library
(`CountingHolds`, `SizesHold`, `RanksHold`, `OrdersHold`) before the theorems that rest on
it; none of them has it as an assumption.

Model-checked only: all liveness, and `RawRoundTrip`, which is nonlinear arithmetic.
Every safety property of the passing runs has a theorem.

## 6. Disagreements met without a run

Reading the code for these models also showed:

- A send that meets a cancelled receive buffers its value and does not look at the
  live receive behind it (`async_network_reactor.rs:432`), which stays pending beside
  the value until another operation drives the channel; `tests.rs:6392` expects a
  waiting receive to be served by the send.
- Cancelling a completed task sets its cancelled flag, and a join then reports it as
  cancelled (`async_registry.rs:401`); ADR 0010, line 190, says "cancelling a completed
  task is a no-op".
- A reset between the insertion of a token and the registration with the multiplexer
  (`reactor/mod.rs:590`) leaves a registered source whose events are dropped, although
  the comment at line 460 says "Inserting first means the token is always known before
  any event can arrive".
- `acquire_blocking` releases the lock between looking at the pool and parking
  (`pool.rs:131`, `138`): a connection returned in between wakes nobody, and the client
  may time out beside it.
- A failed connection, a discarded one and one that is parked because its future was
  cancelled leave room that queued futures are not told of (`pool.rs:260`, `455`,
  `490`); they wait until another release, or their timeout. Parking does not look at
  `closed` either, so a closed pool may be left with an idle connection.
- A lease that is delivered just before the timeout of its future is replaced by the
  timeout error and goes back to the pool (`pool.rs:387`).
- After DONE the coordinator leaves when no rank is bound, which the comment at
  `ml_distributed_tcp.rs:1236` takes for confirmed delivery; a rank whose connection
  broke before it read DONE then finds nobody to reconnect to, and ends with an error.
- A worker whose loss diverges sends it like any other (`dist_local_gradient_step` does not
  look at it), and the coordinator answers with `DistFailure::Protocol`
  (`ml_distributed_tcp.rs:1131`): the run ends as if the worker had broken the protocol.
- `request_cancel` of a child that nobody polls queues no wake for the coroutines that
  await it (`async_frame.rs:701`); `SubscribersAreWoken` is about children that returned or
  failed.
- `std.async.task.fail` on a coroutine task leaves its frame as it is
  (`async_task_stream.rs:945`): join, which polls it, returns the value, and joining its
  scope counts a failure; a result that comes later clears the mark again.
- The run without TCP (`dist_run_multithread`) waits for ever if a worker cannot
  create its parameters and there are two steps or more.
- `with_timeout` copies the value of the task it wraps when it wraps it
  (`async_task_stream.rs:900`), so a join of the wrapper of a task that completes
  later does not see its value.
- `join_scope` counts a pending child as joined; ADR 0010, line 168, says "parent
  scopes wait for children unless the child is cancelled or detached".
- A panic in background work ends its worker and leaves the task pending for ever;
  the model has it as `WorkPanics`, and `OnlyPanicsOrphan`, proved as
  `NobodyElseOrphans`, says nothing else does so.
- Each drop of an already emptied record pushes a dummy frame into the quarantine of
  64 entries (`async_frame.rs:1019`) and evicts a real one.
- `AsyncFrameRegistry::clear` quarantines frames of suspended coroutines whose drop
  glue has not run; the comment at `async_frame.rs:1012` says it has.
- A timer registered between the two critical sections of `Reactor::reset` is
  cleared although its registration succeeded.
- A poller without timeout holds the lock of `os.poll` while parked, so a bounded
  poll or a registration waits behind it; `reactor_live` has bounded pollers only.
- `handles/mod.rs:4` says reuse of a slot "cannot" make an old value refer to a new
  object; after 65535 reuses it can, and `StaleHandleNeedsWrap` is the exact bound.
- A join of a failed or cancelled concurrent task returns an error and leaves its
  handle registered until the next reset.

## 7. Not modelled

Out of reach or without protocol state: compiler, code generation, collections,
numerics and GPU, tracing, command-line tools, and wire formats (see the notes in
`PROJECT.json`). They are the larger part of the repository by lines: sequential
transformations of large data, for which tests and fuzzing fit better.

Abstracted inside the modelled parts: the reactor without a platform multiplexer;
closures that call back into the executor, and the channels and counters of
`std.concurrent`; quarantine addresses; counters of a scope that are only reported;
the contents of tensors, and the token and version of HELLO; metrics and spans of
the pool.

Concurrent parts that are not modelled yet, in the order in which they seem worth it:

1. Composition of the task registry with the reactor: wakes and timers across
   `reset_async_state`, which resets the two one after the other.
2. Streams and sockets: pending readers and writers, drive and cancellation,
   against an abstract sequence of values.
3. `std.serve` and the `spectra-api` server: shutdown racing with accept.
4. The package cache: staged install with a crash between any two steps.
5. Nested joins in the executor, and whether they can starve the pool.
