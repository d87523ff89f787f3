# skw-lib-shared in TLA+

`skw-lib-shared` is the library the services of one backend share: it reads
their configuration, connects them to PostgreSQL, Redis, RabbitMQ and Iggy, and
runs the loops every service and worker is built around. This directory models
those loops in TLA+, checks them with TLC on small instances and proves the
safety of the request consumer, the task queue, the two-part replies with the
calls between services, the topic consumers, the startup and the migrations with
TLAPS for all sizes. Lines are quoted as
`file.rs:line` of `src/src/`.

## The system

    client -> gate --append--> Iggy topic --> request consumer (service replicas)
                 ^                               | handler    | publish
                 |                               v            v
                 +------- back topic <------- reply      RabbitMQ queue
                 ^                                            |
                 +------- final reply <---- worker <----------+

A gate appends a request to a topic of the service and waits
`BACK_MESSAGE_TIMEOUT` for the answer on the back topic. One replica of the
service takes the request, runs the handler and publishes the reply. A handler
that only queues work answers with a provisional reply (`Created`, `Accepted`);
the worker that takes the task from RabbitMQ publishes the final reply under the
same signature. A handler may call other services over HTTP, whose handlers may
call further ones; an error comes back through all of them as a status code.
Before any of this, a process migrates the service's schema in the database it
shares with other releases and other services.

### Inventory

| component | state | operations | what makes it hard | what makes it correct |
|---|---|---|---|---|
| request consumer, `iggy.rs:287-457` | position in the stream, polled batch, offsets on their way to the server, futures of handlers | poll, take, skip if stale, handle, reply, store offsets | several handlers in one task; offsets stored before handlers run; crashes; partitions that move between replicas; two clocks | bounded loss, bounded repetition, no request skipped that somebody waits for, no head-of-line blocking |
| topic consumers, `iggy.rs:459-527, 602-624` | the `JoinSet` of consumer tasks | read and check the config, spawn, join | tasks that fail, panic or end in any order; a caller that drops the future | one consumer per topic type, none left behind, the call ends when all stopped |
| task queue, `rabbitmq.rs` | publisher confirms; deliveries in the stream and in handlers; the broker's queue | publish, deliver, handle, ack, nack | connections recovered under running handlers; crashed workers; a broker that restarts; retries | what was confirmed is not lost, tasks leave only as decided, slots are not starved |
| two-part replies, `iggy.rs:262-285, 533-600` | replies published under one signature | call other services, provisional reply, final reply, error reply | two processes, each of which may fail between two steps; callees that hang | a provisional reply is followed up; a task is done only after its reply; an error reply blames the client only with reason |
| app startup and config, `lib.rs:35, 184-223`, `config.rs` | the `LazyLock` `APP`, the JSON config | load, override from the environment, build clients | first use from any thread, panics during it, overrides that contain each other | no thread waits for ever, no override is lost, values keep their JSON type |
| migrations, `migrations.rs` | applied versions in each schema, the advisory lock | up, down | replicas, releases and services at once; refused scripts, death between two of them | a prefix is applied, runs do not interfere, unknown history is left alone, every run ends |
| postgres pools, `postgres.rs` | master and slave pool, the search path of a session | load, connect, `after_connect`, hand out a connection | a connection that is replaced or given to a schema it first creates | the search path is set on every connection, so each service works in its own schema |
| iggy connection, `iggy.rs:88-158` | client | connect over QUIC or TCP | - | an outcome: connected or an error |
| topic config of gates, `iggy.rs:160-245` | - | validate a JSON object | - | a wrong value is an error (except of `maxTopicSize`, which then is the server's default) |
| json-rpc and errors, `jsonrpc.rs`, `lib.rs:49-116, 211-213` | requests under way between services | call, answer, map errors to status codes and back, time out | an error crosses several services; proxies answer for a service; a callee hangs | an internal failure stays one, no failure becomes a payload, no call holds its caller |
| redis connection, `redis.rs` | client | connect | - | an outcome |
| prelude, `prelude.rs` | - | names and constants | - | - |

The components interact through calls within a process (handlers are callbacks
of the request consumer and of the task consumer), and through the Iggy server,
the RabbitMQ broker and the database between processes; nothing else is shared.
`PROJECT.json` lists under `hazards` what can go wrong at which line and which
property watches it.

## The modules

| module | what it models | composed with |
|---|---|---|
| `RpcConsumer` | the request consumer, the Iggy server's consumer group, gates and clock | - |
| `LogReader` | abstract: what the replicas of a service are together, one reader of a log | - |
| `RpcConsumerProofs`, `RpcConsumerRefinement` | theorems about it, the refinement | extend `RpcConsumer`, which implements `LogReader` |
| `AtLeastOnce` | abstract: what the task queue promises | - |
| `TaskQueue` | publishers, RabbitMQ, workers | implements `AtLeastOnce` |
| `TaskQueueProofs`, `TaskQueueRefinement` | theorems about it, the refinement | extend `TaskQueue` |
| `InternalCalls` | chains of `internal_http_request` between services | - |
| `TaskReplies` | a request answered in two parts | extends `InternalCalls`; service and worker around an instance of `AtLeastOnce` |
| `TaskRepliesProofs` | theorems about both | extends `TaskReplies` |
| `TopicConsumers` | starting, watching and joining the consumers | - |
| `TopicConsumersProofs` | theorems about it | extends `TopicConsumers` |
| `AppStartup` | the initialisation of `APP`, the overrides of the config | - |
| `AppStartupProofs` | theorems about it | extends `AppStartup` |
| `PostgresPools` | connecting, and the schema a session works in | - |
| `Migrations` | `run_migrations` in several processes | extends `PostgresPools` |
| `MigrationsProofs` | theorems about it | extends `Migrations` |
| `MC*` | the same for TLC, with the symmetry sets | |

A definition named `X_Something` is a faulty version of `X`: putting it in X's
place must make TLC report the property it is listed with under `mutants`. It
shows that the property can fail on a plausible mistake.

### RpcConsumer and the code

A request is its offset in the partition. `Poll`, `StoreOffset` are the Iggy
client as `run_service_consumer` configures it (`iggy.rs:362-379`): batches of
`batch_length` after the stored offset, offsets stored in the background when a
message is *taken* (`AutoCommitWhen::ConsumingEachMessage`, line 371). `Take` is
one turn of `for_each_concurrent` (391-437) up to the closure's first `await`:
the staleness filter, the decoding, the start of the handler. `HandlerReturns`
and `SendReturns` are the closure's resumptions after `handler(..).await` (435)
and `send_one(..).await` (440-450). `stage` says at which `await` each future
stands, `fate` what was decided. The closure's futures live in one task, so
`Crash` - a dying process or a panicking handler - drops all of them, the
buffer and the offsets not yet stored.

Of the Iggy SDK the model assumes: the client drops polled messages it has
consumed before; background stores go out in order and eventually succeed; the
server takes an offset from a member that lost the partition; an `Err` item of
the stream is logged and nothing else (453); the stream does not end.

`LogReader` is what remains of this for somebody who looks only at the log: a
position that moves on by one request at a time, a stored position that trails
it by the requests whose offset has not reached the server, requests being
handled, and requests decided. `ReadUpTo`, `Handling` and `Decided` are the
mapping: the reader stands where the owner of the partition has consumed up to,
or, with a new or no owner, at the stored offset; a replica that dies makes it
fall back there. `End` stands for the resumption after which a future is done
(`SendReturns`, or a `HandlerReturns` without a reply). The mapping is for runs
without a live move; with one, two replicas may be handling requests of the same
partition at a time, and no single reader describes them.

### TaskQueue and the code

`Publish`, `PublishReturns`, `PublishBreaks` are `RabbitMqPublisher::publish`
(249-272): it returns `Ok` only on an ack of the broker. `Take`, `HandlerReturns`
and `AckReturns` are one delivery in `run_task_consumer` (174-217): up to the
first `await`, the resumption after the handler, and the one after
`ack(..).await` or `nack(..).await` (203-213), which ends the future. Calling
either is `Acknowledge`; from then on the acknowledgement is on its way (`acks`)
and the future awaits (`awaiting`). `AckArrives` is its receipt by the broker,
external: it frees the place in the `basic_qos` window (153, `HasRoom`), while
only `AckReturns` frees the slot of `for_each_concurrent` (171, `Slots`). Either
comes first, so the broker may push a delivery for which there is no slot yet.
`ConnectionBreaks` is a broken and automatically recovered connection (67-70):
the broker requeues what the worker held, the handlers keep running, and their
acks fail because delivery tags belong to the old channel.

Of RabbitMQ the model assumes: a requeued task gets its old position back; an
ack of the publisher follows the write to disk; a restarted broker has what it
wrote. Left out: a deleted queue, an unroutable message, an acknowledgement the
broker forgets in a restart (it would deliver an already settled task once
more, which at-least-once allows). So "settled once" (`SettledOnce`, part of
`AtLeastOnce`) is said of a broker that remembers what it received: an
acknowledgement still on its way is lost with the connection, one that arrived
is not.

### InternalCalls, TaskReplies and the code

`InternalCalls` has one chain of calls per request: hop 1 is made by the handler
of the request, hop k + 1 by the handler that serves hop k. `Call`, `Receive` and
`GiveUp` are `internal_http_request` (`jsonrpc.rs:98-150`) with the client's
timeout (`lib.rs:212`): it ends in a payload or in an `AppError`. `HttpStatus` is
what `JsonRpcResponse` and `JsonRpcErrorResponse` answer (66-96), `FromStatus`
what the caller makes of it (126-142), `ServiceError` the collapse of internal
errors (`lib.rs:110`). An `AppError` is the code of its `Service` variant or
"internal" for every other one. Callees, the network and what stands between
two services are not in this repository; `Stray` lets a router refuse a request
and a proxy answer 5xx while the handler behind it still runs. Nothing tells a
callee that its caller gave up, so its handler runs on, and its answer is
nobody's. `raised` records the codes that handlers and routers came to.

`TaskReplies` takes the queue's promise (`AtLeastOnce`) instead of its
machinery: the handler calls (`HandlerCalls`), goes on with the result or ends
with the error (`HandlerGoesOn`), publishes a task and answers provisionally; the
worker announces with `TaskDonePublisher::publish` (574-598) and settles the task.
It may also give a task up, because the payload does not deserialize
(`rabbitmq.rs:185-199`, `WorkerTakes`) or because its handler returns
`Nack { requeue: false }` (`WorkerDecides`). What handlers decide is up to the
services, outside this repository; the model assumes of them one thing, that
they ack only what `publish` announced with `Ok`. `DoneOnlyIfAnnounced` and
`NoFailureAsPayload` are about what the library makes of handlers that hand
errors on. `ServiceReplies` puts `service_error()` on the bus
(`iggy.rs:318-326`). Redelivery of the request makes a second task. A handler
that outlives its connection, or the move of its partition to another replica,
handles the same request or task beside the next one; the model has one handling
at a time.

### PostgresPools, Migrations and the code

A run of `Migrations` parses its argument (`Start`), connects (`Connect`, one
step per pool), takes a connection (`AcquireMaster`), and lets the migrator work:
`Lock`, `Up` or `Down` per script, `Finish`. `Fail` is an error returned from
`run_migrations`: sqlx does not unlock then, but the pools are dropped and the
session's lock goes with the session. `Crash` may come at any point. The
migrator is `sqlx`'s: an advisory lock of the database, one transaction per
script, `undo` reverting what is above the target version.

`PostgresPools` adds which schema that happens in. `AfterConnect` is the hook of
`configure_pool` (`postgres.rs:77-103`), run on every new connection; `Acquire`
hands out the connection it has or, when `test_before_acquire` found that one
dead, a new one. `SET search_path` does not ask whether the schema exists, so a
run whose schema nobody created fails in `Lock`. Each process has a config of its
own (`Creates`, `Scopes`, `Slaves`) and its own directory of migrations
(`Files`). Of several connections in a pool only the one the migrator uses is
modelled.

### TopicConsumers, AppStartup

`TopicConsumers` starts from every short config and every set of method topics.
`GetConfigTopicTypes`, `ValidateRpcMethods`, `Spawn`, `JoinNext`, `ReturnError`
follow `iggy.rs:459-527, 602-624`; `StartConsumer` and `StopConsumer` are what a
`JoinSet` sees of a request consumer; `CallerDrops` is the future being dropped.

`AppStartup` has a config of three values, one inside another, and every way of
overriding them. `Access` is a dereference of `APP`, `Load`, `Override`, `Build`
are `Config::load`, one turn of the override loop and the rest of `init_by_env`;
each of them may panic and poison the `LazyLock`. A value is its JSON type; of
numbers there are two, one `expect_u32` takes and one it refuses. A `serde_json` map is ordered
by its keys, so overrides apply in that order. That is the default; the feature
`preserve_order`, which the workspace's manifest (not in this repository) could
turn on, would let the file's order decide, and `OverridesWin` would depend on it.

## The runs

| run | question | result |
|---|---|---|
| `rpc_safety` | what do crashes, moves and background stores cost? | only requests a dying replica was handling are lost, at most `batch_size` per crash (`CrashLossBound`); a request is handled at most once per assignment of the partition (`TakenOncePerAssignment`); without moves only requests whose offset was not stored are handled again (`RedeliveredOnlyIfUncommitted`) |
| `rpc_live` | does the filter drop live requests, does a slow handler block others, do replicas that take over from each other pass over a request or start one twice? | no (`SkippedOnlyAfterGateGaveUp`), when the clocks agree; no, together they are one `LogReader` (`ImplementsLogReader`); no (`SlowHandlerDelaysOnlyItself`), when fewer than `batch_size` handlers are slow, and a failed reply does not keep its slot |
| `task_safety` | what do broken connections, crashes and restarts do to tasks? | nothing confirmed is lost (`ConfirmedNotLost`), tasks leave only as decided: the queue implements `AtLeastOnce` |
| `task_slow` | do slow and retrying tasks hold up others? | not without broken connections: no delivery waits for a running handler (`NoDeliveryWaits`), at most for the return of an `ack`, and a handler is started on every other task (`OthersNotHeldUp`) |
| `task_break` | and with a broken connection? | **violated**: see findings |
| `topics` | what is started, joined, left behind? | one consumer per listed entry (`OneTaskPerSpelling`, `EveryListedTypeServed`), none left behind when the call is over (`NoConsumerLeftBehind`), the call ends after the last consumer (`ReturnsWhenAllStopped`) |
| `topics_spelling` | one consumer per topic *type*? | **violated** by two spellings |
| `startup` | what does the config hold, does every thread get `APP`? | every override is in (`OverridesWin`), every value keeps its JSON type (`OverridesKeepKinds`), nobody waits for ever (`EveryAccessReturns`) |
| `migrate` | may replicas, an older release and another service migrate together, fail and die? | yes: what is applied is a prefix of some release's files (`AppliedInOrder`), runs do not interfere (`RunsDoNotInterfere`), an old release leaves what it does not know alone (`KnownOnly`), services keep to their schemas (`InOwnSchema`), and a lock nobody unlocked holds nobody up (`RunsEnd`) |
| `migrate_down` | does `down` revert the last migration? | **violated**: all above version 1 |
| `replies` | is a provisional reply followed up, and what becomes of errors of called services? | yes, through crashes of service and worker and a restarting broker, unless a worker gives the task up (`PromiseKept`); a task is done only once announced (`DoneOnlyIfAnnounced`); no failure arrives as a payload (`NoFailureAsPayload`), the client is blamed only with a code some handler or router raised (`CodeHasOrigin` between services, `RepliedCodeHasOrigin` on the bus), and a callee that never answers does not hold the handler (`HangingCalleeDoesNotHold`) |
| `replies_order` | does the final reply follow the provisional one? | **violated** without any failure |

### Findings

- `migrator.undo(master, 1)` (`migrations.rs:53`) reverts every migration above
  version 1, the log line above it (52) announces "Revert last migration".
- After a recovered connection the handlers of old deliveries still hold slots
  (`rabbitmq.rs:171`) while their tasks are delivered again: one slow task takes
  two slots, against the comment at 169-170.
- `.unique()` (`iggy.rs:470`) compares JSON values, parsing ignores case: two
  spellings of a topic type start two consumers of one topic.
- Nothing orders the provisional reply after the task it announces: the handler
  queues the task first, the worker may be faster (`iggy.rs:435-444, 575-595`).

One more came up in a failed proof. That every request is eventually read needs
"a replica that has read all its polls return has read the log to its end"; TLC
refutes it with a live move. The replica that lost the partition may store an
older offset after the new owner has read on. If the owner polls then, and the
offset is `batch_size` or more behind it, it gets only requests it has handed out
already, drops them, and has nothing new to store, so the next poll is the same.
In the model, which lets only a consumed request store its offset, it goes on
only when something else moves the offset. Whether this happens with the real
SDK depends on whether it stores offsets of requests it filters out; it is listed
under `hazards` and not as a finding. `NeverStuck` proves the statement for runs
without a live move.

Five more disagreements came up in the model. Changing one constant of a
configuration shows each of the first three.

- `rpc_live` with `Skew = 1`: where the service's clock is ahead of the server's,
  the filter (`iggy.rs:410-415`) drops requests whose gate still waits.
- `rpc_live` with `BatchSize = 1`, the default (367): one slow handler blocks
  the topic, despite the comment at 387-388.
- `task_slow` with `Prefetch = 0`: "no limit" to the broker (153), one slot in
  the consumer (171), so deliveries wait behind a running handler.
- A task that is given up leaves its client with a provisional reply only,
  although "the final reply for the same signature follows later"
  (`prelude.rs:54-55`); nothing in the library announces it. `PromiseKept` without
  `GivenUp` is violated by it.
- `config.rs:66-68` lets any number replace any number. One that is negative,
  fractional or out of range panics later, in `expect_u64` or `expect_u32`
  (163-178), where the file's value would not have.

### Bounds

Every bound is a constant of its module, none is in the code: `MaxMessages`,
`MaxTasks`, `MaxTime`, `MaxRuns`, `MaxEntries`, `Depth`, and `MaxCrashes`, `MaxMoves`,
`MaxBreaks`, `MaxRestarts` for failures. They are the smallest at which the
cases of interest meet:

- `rpc_safety`: three requests with `batch_size` 2, so a loss bound of 2 can be
  exceeded, a second batch exists, and a crash and a move can follow each other
  on both replicas.
- `rpc_live`: no live moves, so that the mapping to `LogReader` applies. Requests
  are as old as the timeout or older (0, and times 0 and 1). The first keeps its
  slot for ever, so all others have to go through the second: a slot that the
  second request does not give back after its reply was, or could not be, sent
  is missed by the third, which is undecodable and waits for it.
- `task_safety`: two tasks, two workers and one failure of each kind, so that a
  task can be delivered to a second worker while the first still handles it.
  Publishers' connections may break around each of the tasks (`CutOff`).
- `task_slow`: three tasks for two slots, one slow and retried, one undecodable.
- `topics`: three entries can repeat one type around another one.
- `startup`: two threads, one initialises and one waits; the three config values
  hold all relations (apart, containing, contained). The file holds no number of
  the refused kind, environment variables do: `convert_env_to_value` treats the
  two kinds of number alike, so the other half is a renaming.
- `migrate`: four runs of three processes. The old and the new release of one
  service have two and three migrations and share a schema, which one creates
  and the other only selects; the other service has no schema of its own. Four
  runs let an up run be overtaken by a down run and leave one to find the lock
  after two failures. The second version is the one the database may refuse, so
  that something lies before and after it.
- `replies`: requests do not influence one another, so one is enough; one crash
  each of the service and of a worker gives it a second task and interrupts the
  first. Two hops are the least at which an error is handed on. Handlers
  raise `NotFound`, which a router may answer too, and an internal error; the
  strays are that 404 and a proxy's 503. Every delivery of a task may be one the
  worker cannot read, or one it gives up.

`batch_size` 0, which the consumer treats as 1 (`.max(1)`), is excluded
(`BatchSize > 0`): what the client polls with a batch of 0 is not in this
repository.

`CHECK_DEADLOCK FALSE` is set everywhere because all these systems may come to
rest: all requests are handled, all runs done, the failures used up.

### Fairness

- `RpcConsumer`: weak fairness of what the executor and the client's background
  task run - polls, takes, stores, sends, handlers that are not slow - and of the
  server assigning a partition that has no owner. Nothing is assumed of clocks,
  gates, restarts or moves.
- `TaskQueue`: weak fairness of the consumer's steps, of the arrival of each
  acknowledgement and of restarting a dead worker (its orchestrator does); strong fairness of `Deliver`, because with a
  task that is retried for ever room appears and disappears, and the broker
  pushes within the round trip.
- `TopicConsumers`: weak fairness of the caller's steps and of the start of each
  consumer. Nothing makes a consumer stop.
- `TaskReplies`: weak fairness of the worker; strong fairness of a successful
  announcement - neither does the back topic refuse every attempt, nor does a
  handler that gets a task again and again requeue it for ever - and of a
  settlement that reaches the broker. Workers of the library's version that
  queued the task (`lib.rs:140`) stay until its queue is empty; they need not
  be of one release of their service, so some may not be able to read it. On the service's side only its own future after a call and the timer
  of the HTTP client are fair: callees, routers and the network may be silent
  for ever, publishing may never return, and a service may die and not come back.
- `Migrations`: weak fairness of each run. Connecting and acquiring end by their
  timeouts, the database answers, and with a bounded number of runs a waiter for
  the lock gets it.
- `AppStartup`: weak fairness of every thread.

## The proofs

Every theorem is proved from the assumptions its modules name
(`ConstantsAssumption`, `PoolsAssumption`, `InternalCallsAssumption`), which give
the constants their types. Three theorems have a hypothesis more, each the
negation of something the runs and the findings show to matter: `Skew <= 0`
in `SkippingIsSafe`, `Prefetch > 0` and no recovered connection in
`NoHandlerDelays`, and no live move (`moves = 0`) in the refinement of
`LogReader` and in `NeverStuck`. The runs that check the same properties meet them.

### RpcConsumerProofs and RpcConsumerRefinement

For any number of replicas,
requests, crashes and moves, any batch size and any sets of undecodable, badly
named and slow requests:

| theorem | says |
|---|---|
| `TypeCorrect` | `Spec => []TypeOK` |
| `Invariance` | `Spec => []IInv` |
| `LossIsBounded` | `Spec => []CrashLossBound` |
| `RedeliveryIsOfUncommitted` | `Spec => RedeliveredOnlyIfUncommitted` |
| `TakenAtMostOncePerAssignment` | `Spec => []TakenOncePerAssignment` |
| `SkippingIsSafe` | `Spec => []SkippedOnlyAfterGateGaveUp`, if `Skew <= 0` |
| `OneReaderUntilMoved` | `Spec => []ReaderInv` |
| `Refinement` | `Spec /\ [](moves = 0) => ImplementsLogReader` |
| `NeverStuck` | until a live move, an owner with nothing to poll, take or store has read and stored the whole log, and all of it is decided, in flight or lost with a replica |

`CrashLossBound` is not inductive: nothing in it says why a stored offset was
taken by somebody. `IInv` adds what connects the stored offset with the streams:

- a buffer lies ahead of its cursor, offsets waiting to be stored do not
  (`BuffersAhead`, `StoresTrail`);
- whatever lies below the stored offset, a cursor or a buffered request, and is
  not buffered itself, was taken by some replica (`NothingSkipped`);
- a request that was taken has a fate, is in flight, or was in flight on a
  replica that died (`TakenAccounted`);
- at most `BatchSize` futures are in flight per replica, so every crash adds at
  most `BatchSize` to `abandoned` (`FlightsBounded`, `AbandonedBounded`).

A lost request is then an abandoned one, and the bound follows. For redeliveries,
`OnlyOwnerWorks`: while nothing has moved between live replicas only the owner
has a buffer or offsets to store, and its buffer lies above the stored offset.
`TakenOncePerAssignment` counts: a request has at
most as many takes behind it and candidates before it as there were owners.
`MayTake` are the candidates - whoever has it in its buffer, the owner if its
stream has not passed it, and the owner to come while there is none - and
`TakesAccounted` bounds takes and candidates together by `1 + crashes + moves`:
a take uses its candidate up, and only a crash or a move makes a new one.
For the filter, `StampsOrdered` (`askedAt <= sentAt <= now`) and
`UnsentUntouched`: a clock that is not ahead makes a request look younger, never
older.

The refinement has two steps that are not obvious. A take must start exactly the
next request: the owner's buffer begins at the cursor and has no gap
(`BufferGapless`), so its least element is the next offset. A store must move
the stored position by one: what waits to be stored is all that was consumed
since the stored offset (`StoresAll`), so the least of it is next to it. Both
fail if anybody but the owner still has something to take, to store or in flight
(`OthersIdle`), which is why the mapping ends with the first live move. A crash
is the fall-back, the next owner's arrival and its first poll are invisible
because `ReadUpTo` already is the stored offset. `NeverStuck` uses the
same facts: with nothing to store the stored offset is the cursor, so a poll that
returns nothing new means the log ends there.

### TaskQueueProofs and TaskQueueRefinement

For any number of workers, tasks and failures and any prefetch count:

| theorem | says |
|---|---|
| `TypeCorrect` | `Spec => []TypeOK` |
| `ConfirmedIsKept` | `Spec => []ConfirmedNotLost` |
| `HeldAtMostPrefetch` | `Spec => [](QosKept /\ SlotsKept)`: no worker has more than `prefetch_count` tasks unacked, nor more futures - handlers that run and acknowledgements awaited - than slots |
| `NoDeliveryForgotten` | `Spec => []NoneForgotten`: a task the broker counts as unacked at a worker is in that worker's stream or handlers, or its acknowledgement is on its way |
| `DeliveriesAgree` | `Spec => []DeliveriesInv` |
| `Refinement` | `Spec => ImplementsAtLeastOnce` |
| `SettledAsDecided` | `Spec => []KeptUntilDecided /\ [][SettledOnce]_(Abstract!avars)`, of a broker that does not forget an acknowledgement it received |
| `NoHandlerDelays` | `Spec => [](breaks = 0 /\ restarts = 0 => NoDeliveryWaits)`, if `Prefetch > 0` |

`ConfirmedNotLost` needs the disk in between: an `Ok` means the task was saved
(`OkMeansSaved`), and what was saved is neither unsent nor lost (`SavedIsKept`).

In the refinement most steps are invisible. The step that is not obvious is the
receipt of an acknowledgement: `AtLeastOnce` allows it only for a task that is
still queued and as somebody decided, while the worker acts on a delivery it took
long ago, and the future that acknowledged may be gone. `DeliveriesInv` says why
this is right: a delivery of the current connection is of a task the broker has
unacked at this very worker (`InboxSound`, `RunsSound`), and so is an
acknowledgement on its way, whose verdict is recorded (`AcksSound`); of each task
there is at most one of all these, buffered, being handled or acknowledged
(`InboxUnique`, `AcksUnique`, `InboxApart`, `AcksApart`), so acting on one cannot
make another unsound. Futures that await the return are only counted: once the
acknowledgement was sent, they say nothing about the task any more, which by then
may be settled or delivered again. A break of the connection makes all older
deliveries stale at once and loses the acknowledgements, so it preserves the
invariant although it moves the tasks.
`StepRefines` then maps each action to a step of `AtLeastOnce` or to none.
`SettledAsDecided` uses the refinement: that a settled task stays so, as
somebody decided, is proved of `AtLeastOnce` in a few lines and holds of the
queue because it implements it.

`NoDeliveryWaits` compares two counters kept by two processes. While no
connection was recovered all deliveries a worker has are of its current one; by
`DeliveriesInv` they are of different tasks, all unacked at this worker, so they
are no more than `Unacked`, which the broker keeps to `Prefetch` (`QosKept`). If
one waits, at most `Prefetch - 1` are being handled. It may still have to wait
for an `await` that has not returned, so what is shown is that no handler,
however slow, keeps it waiting. `NoneForgotten` is the other
direction: what the broker counts exists at the worker, so the prefetch window
cannot fill with tasks that nobody will settle. It and `SlotsKept` hold through
broken connections too; what a break costs is slots, not tasks.

### TopicConsumersProofs and MigrationsProofs

For a config of any length, and for any processes, schemas, releases and numbers
of runs:

| theorem | says |
|---|---|
| `TypeCorrect` (topics) | `Spec => []TypeOK` |
| `NothingLeftBehind` | `Spec => []NoConsumerLeftBehind` |
| `EveryTypeSpawned` | `Spec => []AllListedSpawned`: when the joining begins every listed type has a consumer |
| `OnePerSpelling` | `Spec => []OneTaskPerSpelling` |
| `AppliedIsPrefix` | `Spec => []AppliedInOrder` |
| `NoInterference` | `Spec => []RunsDoNotInterfere` |
| `OldReleaseKeepsOut` | `Spec => []KnownOnly` |
| `SchemasApart` | `Spec => []InOwnSchema` |
| `NoLockLeftBehind` | `Spec => []HolderIsAlive`: who holds the lock migrates or is about to leave |
| `OnlyHolderChanges` | `Spec => [][ChangesUnderLock]_vars`: a schema's table changes only by the holder of the lock, in its own schema and knowing all that is there: the first of its missing files is added or the last one taken away |

A consumer leaves the `JoinSet` only when it has stopped (`JoinedHaveStopped`)
and the call ends only with an empty one (`EndedWithoutConsumers`). That nothing
runs on after the caller dropped the future assumes that the `JoinSet`'s abort
takes effect at once; a consumer is aborted at its next `await`. What is started is decided by `ListedTypes`, which picks
the first occurrences of the config's entries in order: `InOrder` takes as its
n-th the position that has n chosen positions up to it. `EveryRank` shows that
there is one for every n: the ranks of a set's members grow with them, so they
are as many different numbers of `1..Cardinality` as there are members. Typing,
`EveryTypeSpawned` and `OnePerSpelling` follow.

Migrations rest on the advisory lock: a process that migrates holds it
(`LockHeld`), so no table changes under a run's plan. A run that
migrates works in its own schema, whichever connection it was given
(`SessionOwn`), and knows all of that schema's history; `AppliedInOrder` follows because such a run adds
the least of its missing files and takes away the last of those applied.

### TaskRepliesProofs

For any number of requests and crashes, calls of any depth and any strays:

| theorem | says |
|---|---|
| `TypeCorrect` | `Spec => []TypeOK` |
| `PayloadsAreReal` | `Spec => []NoFailureAsPayload` |
| `CodesBetweenServices` | `Spec => []CodeHasOrigin` |
| `CodesOnTheBus` | `Spec => []RepliedCodeHasOrigin` |
| `FinalBeforeDone` | `Spec => []DoneOnlyIfAnnounced` |
| `PromiseNeverEmpty` | `Spec => []PromiseBacked`: a request with a provisional reply has its final one, or a promised task in the queue, or one that a worker decided to give up |

`ChainInv` is what a chain keeps between its hops: below a hop that is idle
nothing has been called (`IdleBelow`), a handler that returned a payload had one
from below or had not asked (`PayloadsBelow`), a caller's payload is the
handler's (`PayloadIsHandlers`), and a status on its way that stands for a client
code was raised (`StatusHasOrigin`). The last one is where a status that
`FromStatus` does not know becomes `InternalServerError`. A code then travels from
the chain to the handler's result (`ErrorHasOrigin`) and to the reply.
`AnnouncedFirst` puts the final reply before any verdict on the task. For
`PromiseBacked`, a provisional reply was sent for a task that was promised, in
this attempt or an earlier one (`ProvisionalPromised`); a promised task is
queued, acknowledged or dropped (`PromisedStays`), since nothing promised is
lost; an acknowledged one was announced, and a dropped one was dropped by a
worker's decision (`DroppedByWorker`). No crash or restart can leave a
provisional reply with nothing behind it.

### AppStartupProofs

For any number of threads:

| theorem | says |
|---|---|
| `TypeCorrect` | `Spec => []TypeOK` |
| `NoOverrideLost` | `Spec => []OverridesWin` |
| `JsonTypesKept` | `Spec => []OverridesKeepKinds` |
| `NobodyWaitsForNothing` | `Spec => []WaitersServed`: who waits for `APP` can go on, or another thread is initialising it |
| `BuiltOnce` | `Spec => [][Final]_vars`: what is ready or poisoned stays so, with its config |

One thread initialises at a time (`OneInitialises`), so nobody else touches the
config. An override that was applied stays (`AppliedStays`) because while an
array is still to be replaced its elements' overrides are pending too
(`ElementsAfterArray`); this is where the order of the keys is needed.

### Only model-checked

The liveness properties, which, like `ENABLED` and induction over data, the
provers do not handle: `SlowHandlerDelaysOnlyItself`, `OthersNotHeldUp`,
`ReturnsWhenAllStopped`, `EveryListedTypeServed`, `RunsEnd`, `EveryAccessReturns`,
`PromiseKept` and `HangingCalleeDoesNotHold` (of the service's own handler, the
first hop's caller, with silence anywhere below it). For most of them the state that
would keep them from coming true is proved impossible, and only the fairness
argument is left to TLC:

| liveness | what is proved |
|---|---|
| `SlowHandlerDelaysOnlyItself` | `NeverStuck` |
| `OthersNotHeldUp` | `NoDeliveryForgotten`, `NoHandlerDelays` |
| `EveryListedTypeServed` | `EveryTypeSpawned` |
| `RunsEnd` | `NoLockLeftBehind` |
| `EveryAccessReturns` | `NobodyWaitsForNothing` |
| `PromiseKept` | `PromiseNeverEmpty` |

## Not modelled

Payloads, headers and their formats; logging; the getters of the config, which
only read; the handlers of services, which are callbacks returning anything.

Components without a module of their own:

- iggy connection (`iggy.rs:88-156`): a choice of transport and of a local
  address, then one call of the client library. Its outcome, connected or an
  error, is in `StartConsumer` and `Restart`.
- task-done publisher start (`iggy.rs:551-570`): a chain of calls that ends in a
  publisher or an error. Publishing is in `TaskReplies`.
- topic config of gates (`iggy.rs:158-238`): a function of one JSON value without
  state, whose cases the unit tests go through; only gates call it.
- freshness of signed requests (`lib.rs:170`): a comparison that no code in this
  repository uses. It and the gates' timers, their map of waiting signatures
  and the delivery of late and of final replies live in the gates, another
  repository; all this code says of them is when they began to wait, which
  `RpcConsumer` has.
- redis connection (`redis.rs`): one connect call.
- prelude (`prelude.rs`): re-exports, names and constants.

## Plan

What is left, in this order:

1. The service's side of `TaskReplies` (`HandlerStarts` to `ServiceReplies`,
   `ServiceCrash`) as an abstraction of one request in `RpcConsumer`, with the
   crash that repeats or loses it.
2. The safety that is left behind `ReturnsWhenAllStopped` and
   `HangingCalleeDoesNotHold`: a consumer that is not joined yet is unjoined, a
   call that is out has a caller whose timer can end it.
