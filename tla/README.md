# go-base: specification of the task queue and its neighbours

go-base is a library for Go services. Its core logic is `pkg/queue`: a task
queue, its workers and its schedules on PostgreSQL, which several processes
share without a coordinator. `pkg/db/migrations` prepares the database of
services that start together, `pkg/http` and `pkg/tokens` let services call
each other with short-lived tokens. This directory models these parts in TLA+,
checks the models with TLC and proves their safety properties with TLAPS.
`PROJECT.json` maps every definition to the lines it models.

## 1. Inventory

| Component | State | Operations | What is hard |
|---|---|---|---|
| Queue table and dequeuer (`queue/postgres/dequeuer.go`, `queuer.go`) | rows of `tasks`, row locks, the local variables of each call | `Enqueue`, `attemptDequeue`, `Heartbeat`, `Finish`, `Fail` | several processes on READ COMMITTED snapshots, lists read without a lock, silent workers, lost answers |
| Blocking `Dequeue` (`dequeuer.go`, trigger in `setup.go`) | the shared `pq.Listener`, notifications | `Dequeue` | lost notifications, reconnects, two workers on one listener, cancellation |
| Task worker (`queue/workers/task_worker.go`) | goroutines, `heartbeats`, `processDone`, the heartbeat timer | `Work`, `handleTask`, `processHeartbeats` | unbuffered channels, late or refused heartbeats, panics, cancellation |
| Task handlers (`queue/handlers`) | the stage of `Process`, the ticker goroutine | SQL, API and JSON API handlers, dispatcher | two senders on one channel that one of them closes |
| Schedule worker (`queue/workers/schedule_worker.go`) | rows of `schedules`, the connection pool | `Work`, `iteration`, `scheduleTask` | two connections per step, crash between Enqueue and UPDATE, `SKIP LOCKED`, cron dates |
| Scheduler (`queue/postgres/scheduler.go`) | table locks | `Schedule`, `EnsureSchedule`, `AssertSchedule` | check-then-act under a lock that several callers can hold |
| Retention (`queue/postgres/retention.go`) | a schedule and the DELETE it runs | `AssertRetentionSchedule` | upsert against a running execution; DELETE against working dequeuers |
| Migrations (`db/migrations`) | the table `migrations`, the outer transaction and its lock | `PrepareDatabase`, `initialize`, `migrate`, `configureViews` | effects and their record are committed separately, crashes, lost lock |
| Queue table setup (`queue/postgres/setup.go`, `db/migrations/init.go`) | the columns, indexes and trigger of the two tables | `SetupTables`, retried by `NewIniter` | each statement commits by itself, columns are listed before they are changed, several versions start together |
| Queue metrics (`queue/metrics.go`) | four global structs, the Prometheus registry, gauges | `SwitchMetricsServiceName`, Inc and Dec of the workers | workers read the structs while they are replaced |
| Public keys (`tokens/public_keys.go`) | map of keys, key files | `KeyFunction`, `MaintainCache` | refresh against readers, files that change while they are read |
| API client (`http/clients`) | attempts, open bodies, encoding goroutines | `DoRequest`, `DoRequestWithResponse` | retry of a call whose answer is lost, cancellation at any point, a plan shared without a lock |
| Authorization (`tokens/creator.go`, `http/middlewares/authorization`) and base handler (`http/handlers`) | claims of a token | `Create`, `Validate`, middleware, `DefaultErrorParser` | boundaries of the validity interval, whole seconds on the wire, clock skew |
| Server, other middlewares, config, crypto, serialization, telemetry, helpers | none of their own | request plumbing, conversions | little: stateless |

The parts interact through tables and channels. A queuer inserts a row and the
trigger notifies the listener; a task worker calls `Dequeue`, hands the task to a
handler goroutine, turns what arrives on `heartbeats` into `Heartbeat` calls and
the result on `processDone` into `Finish` or `Fail`. A schedule worker is a
queuer with a transaction of its own around the `Enqueue`. Retention is a task
that deletes other tasks. All connections of a process come from one pool. A
service that starts runs `NewIniter`, which sets up the queue tables, and then
its migrations. The API client asks a token provider for each attempt; the
service it calls checks the token in its middleware, with a key of the key
cache, and turns the error of its handler into a status that the client turns
into an error again.

## 2. Modules

| Module | Models | Extends / instantiates |
|---|---|---|
| `TaskQueue` | the `tasks` table, queuer, dequeuers, user cancellation, retention | instantiates `TaskLifecycle` |
| `TaskLifecycle` | abstract: the life of one task as readers of `status` see it | |
| `TaskQueueProofs` | the theorems about `TaskQueue` | `TaskQueue`, `TLAPS` |
| `DequeueLoop` | `Dequeue` on a shared listener, polling, notifications | |
| `TaskHandlers` | the handler goroutine, the ticker goroutine, both channels | |
| `TaskWorker` | `Work`, `handleTask`, `processHeartbeats`, composed with the handlers | `TaskHandlers` |
| `ScheduleWorker` | the schedule workers of a process, their pool, the table `schedules` | |
| `Scheduler` | `AssertSchedule` and its table lock | |
| `Migrations` | `PrepareDatabase` of services that start together | |
| `QueueSetup` | `SetupTables` of services that start together | |
| `QueueMetrics` | the metric structs, the registry and the gauges of the workers | |
| `PublicKeyMap` | the key cache and its refresh | |
| `Claims` | operators: making and checking the claims of a token | |
| `APIClient` | a call of `DoRequest`, the service behind its middleware, the network | `Claims` |
| `MC*` | the instances that TLC checks | |
| `TaskWorkerProofs` | the theorems about `TaskWorker` with its handlers, and about `DequeueLoop` | both, `TLAPS` |
| `ScheduleProofs` | the theorems about `ScheduleWorker` and `Scheduler` | both, `TLAPS` |
| `MigrationsProofs`, `QueueSetupProofs`, `QueueMetricsProofs`, `APIClientProofs`, `PublicKeyMapProofs` | the theorems about the module of the same name | that module, `TLAPS` |

`DequeueLoop` and `Scheduler` give their specifications names of their own
(`LoopInit`, `LoopNext`, `LoopSpec`; `AssertInit`, `AssertNext`, `AssertSpec`), so
that one proof module can extend them together with `TaskWorker` and
`ScheduleWorker`.

Operators that are introduced by a comment "Mutant" are wrong versions of the
definition that follows them. They are not used by any specification; each one
stands for a plausible mistake in the code that a property is expected to
detect.

### TaskQueue

Each worker drives one dequeuer and `pc` says which statement comes next.
`attemptDequeue` is `BeginDequeue` (read the clock, BEGIN), `ListUnfinished` and
`ListInflight` (on another connection, no lock), `SelectCandidates` (the rows of
the snapshot), `LockCandidate`/`SkipCandidate` (FOR UPDATE waits for the row lock
and evaluates the WHERE clause again on the newest version), `Claim`.
`updateProgress` is `BeginUpdate`, `LockForUpdate` or `RefuseUpdate`,
`WriteUpdate`. Each early return, the loss of the answer to the COMMIT and
`Abort` (failed statement, cancelled context, dead process) are actions. A row
has the columns that decisions read; ids follow `created_at`. `now` is the clock
of `time.Now()` and of SQL; one clock stands for all machines, so clock skew is
not modelled.

`ImplementsLifecycle` maps the table to `TaskLifecycle`: a task is enqueued once,
never returns to waiting, is not touched once it is finished, and is deleted only
after it was started. `TaskLifecycle` also records what the code permits and one
might not expect: a failed task may be updated by a worker that lost it, and a
task that was cancelled before it finished may be started (the WHERE clause does
not look at `status`).

### DequeueLoop

`attemptDequeue` is one step; what matters is who waits where. `Listen` opens the
channel of the shared listener, or fails with `ErrChannelAlreadyOpen` if it is
open (`ListenTwice`) or because the server answers with an error
(`ListenRefused`). `Unlisten` is the deferred call: `pq.Listener` forgets the
channel unless the server answers with an error (`refused`), after which the
channel stays open and every later `Listen` fails. `Enqueue` notifies whoever
listens at that moment; `Expire` lets twice the TTL pass for a running task,
whose worker may be dead or slow, and notifies nobody; `Revive` is the late
heartbeat of a slow worker. Two workers may so work on one task, and the first
one to finish ends it. `TakeUnanswered` is a claim whose worker gets an error, by
a lost answer or a refused UNLISTEN; `StopWorkers` cancels the context of all
workers, with which no update of a row succeeds any more.

### TaskHandlers and TaskWorker

The unbuffered channel `heartbeats` is the queue `sendq` of goroutines blocked in
a send; `processDone` is a one-place buffer that may be closed. The handler is at
a stage of `Process`; an application's own `TaskHandlerFunc` (`"func"`) may do
anything the interface allows: beat, close or not close, fail, panic. The
worker's select is four actions. The row is what the dequeuer would answer, and
`Interfere` changes it as users, cascades and other workers do. A handler that
outlives its `handleTask` is counted and forgotten when the next task starts.

### ScheduleWorker

`scheduleTask` is `Begin`, `Pick` (FOR NO KEY UPDATE SKIP LOCKED), `Enqueue` on a
second connection, `Advance`; `Fail` at each stage, `BeginFails` (the error is
not looked at: a nil transaction is used and the process dies), `Kill` and
`Restart`. For each schedule the model keeps the difference between enqueued
tasks and recorded executions, and how many executions were rolled back after
their Enqueue, instead of unbounded counters.

### Scheduler

`AssertSchedule` is `LockTable` (SHARE), `EnsureSchedule`, `Schedule` (the INSERT
needs ROW EXCLUSIVE, which every other SHARE holder excludes) and `Commit`.
PostgreSQL queues requests that exclude each other and aborts one of several
callers that wait for each other (`DeadlockAbort`).

### Migrations

The outer transaction takes the lock and records; the init statement,
`migrate` and `configureViews` commit on their own connections before that.
`runs` counts effects, `pending` are effects the open outer transaction will
record, `undone` counts effects whose outer transaction is gone. `LoseTx` ends
the outer transaction, which sits idle while the migrations run; the service
notices when it next uses it (`SeeLost`). `Fail` stands for every error return
and for a crash, which look the same to the database.

### QueueSetup

A service is at a statement of `SetupTables`: for each table `ListColumns` and
then `CreateTable` or `AlterTable`, which works from the list that was read, then
`SetupTrigger` and `CreateIndexes`. PostgreSQL decides at the statement itself:
a column that is added must not exist and one that is dropped must, or the whole
ALTER TABLE fails; CREATE TABLE IF NOT EXISTS is a no-op on a table that
appeared meanwhile; an index needs its column. `StatementFails` and `Restart`
may come at any point; an answer that is lost is a statement followed by
`StatementFails` at the next one. One column stands for each kind of system
column (a key, one with an index, the reference from tasks to schedules).

### QueueMetrics

A generation is the set of metrics that one switch makes; `current` says which
one each global struct holds. The steps of a switch are those the mutex
protects, struct by struct. A worker is inside gauges like functions on a stack:
`Enter` is the Inc, `Defer` the `defer ....Dec()`, which reads the struct a
second time, `Return` and `EndWait` the Dec. All steps of a worker interleave
with all steps of the switches.

### PublicKeyMap

The refresh is `ReadDir`, `Clone`, then for each regular file `Compare`, `Stat`
and `ReadFile`, then `Publish`; init runs the same loop from an empty map. The
directory changes between any two of them and each read may fail. A stamp stands
for modification time and size and is new with every write; a write that changes
neither is not modelled, and the code would not notice it. `seen` and `stable`
are histories of the directory since the pass began, which the properties need.

### Claims and APIClient

`Claims` counts time in half seconds, because tokens carry whole seconds:
`Timestamp` is the round trip through JSON. `Create`, the five checks of
`Validate` and the laxer default validation of the JWT parser are operators.

`APIClient` is one call. The caller goes from `attempt` to `flight`, from there
to `done` or to `backoff`, and from `wait` to the next attempt. Every attempt
that was sent is a process of its own on the service: `Parse` and
`ValidateClaims` read the clock of the service separately, then `Handle` runs the
handler, also when the caller has given up. `BreakConnection` and
`GatewayAnswer` may come before or after the service has the request. The plan
may wait or stop as it likes, because other requests share and reset it. A
payload may fail to be encoded (`"invalid"`), a URL may be unusable (`badURL`),
a handler may never return (`hangs`).

## 3. Runs

| Run | Shows | Bounds, and why they are enough |
|---|---|---|
| `task_queue` | claims stay valid until written, takeovers only after 2 TTL of silence, finished is final, refinement of `TaskLifecycle`; also checks the inductive invariant of the proofs | 2 workers, 1 queue, 2 tasks, clock up to 3 = one tick past 2 TTL, so a task can be claimed, fall silent, be taken over and be finished by both. The proofs cover all other sizes |
| `one_dequeuer` | with one dequeuer that handles one task after the other there is one live task per queue, and no queue keeps a task that was never started, or is silent for more than 2 TTL, while the dequeuer looks for work and nothing in the queue is alive | 2 queues, 2 tasks, requests for any and for one queue, clock 4: a worker can die, and start and end a second task around the expiry of the first, and a row stays exactly at the 2 TTL boundary when the clock ends, so that its queue is chosen in vain again and again |
| `two_dequeuers` (violation) | the same does not hold with two dequeuers | 2 workers, 2 tasks, no clock needed |
| `task_worker` | an error is never stored as finished, the outcome keeps the last progress, only a ticker goroutine can end the process, the worker gets out of `handleTask` and `Work` unless it is stuck with a handler whose heartbeat was refused | all kinds of handlers, 1 document or beat of each (a second only repeats the loop), tasks one after the other with 1 handler left behind |
| `dequeue_loop` | the channel is released on every way out unless the server refuses, and then nobody waits for it; one worker that is free is enough for a task to be taken, cancelled workers return | 2 workers, 3 tasks in 2 queues, 2 faults: enough to lose a notification, kill a worker and let the other find the channel occupied. A refused UNLISTEN needs no bound: it can happen once |
| `schedule_worker` | a due date gives exactly one task unless its execution was rolled back after the Enqueue; due schedules are executed; iterations end; workers stop | 2 workers, a cron and a one-time schedule, a pool of 3, clock 3, 2 faults (a kill and a restart, or an error and a lost answer) |
| `scheduler` | no schedule is created twice, an asserted schedule exists, callers return and do not all fail | 3 callers, 2 keys, 1 writer, 1 fault: two callers wait for each other while a third and a writer come and go |
| `migrations` | each statement takes effect once unless its record was lost, a recorded version was migrated, recorded statements do not run again, every service returns | 3 services of 2 versions with nested lists of 1 and 2 migrations, pool of 3, 2 faults: lose the lock of one service and crash another |
| `public_keys` | a withdrawn key is forgotten by the next complete refresh, keys of files nobody touched stay, the cache converges to the directory, `MaintainCache` ends | 2 file names, 2 keys, 2 changes, 1 fault: a file can be replaced between listing, stamp and content, two files can share a key, and a read can fail |
| `queue_setup` | what `SetupTables` returned for is there, common columns are never dropped, replicas converge, every service succeeds | 2 services with reference lists that are the same, extend each other or are refused, 2 faults, 8 attempts, which is more than services with valid lists can make each other lose |
| `queue_metrics` | no panic, the registry exports the current metrics, gauges add up | 2 overlapping switches to the same or to different names, and a worker of either kind: what one worker adds to the gauges does not depend on the others |
| `api_client` | attempts are bounded, an effect happens once unless a gateway hides it, errors and statuses survive the way back, bodies and goroutines are released, tokens are fresh and not accepted after their end, the call returns | up to 3 attempts, calls that begin on a second and between two, lifetimes from half a second to 5 s, clocks 1 s ahead and half a second behind, 3 ticks of time, configurations that differ from a common one in a few ways at a time |

Runs without deadlock checking are those in which the system really may stop:
all workers have returned, the process is dead, all services are prepared, or
the call has returned.

Most modules join their type invariant and their state invariants in one
invariant that the run checks; the parts keep their names. Where it is proved,
the invariant is inductive, or the proof module says what it adds to it:

| Invariant | Parts besides `TypeOK` |
|---|---|
| `WorkerInv` | `HandlerInv` (`SendersWait`, `StagesOfKind`, `TickerRuns`, `ResultIsFinal`), what was sent is what the worker keeps, `ErrorsAreNotFinished`, `OutcomeKeepsProgress`, `OnlyTickersCrash` |
| `ListenerInv` | `ListenerIsReleased`, workers stop only when cancelled |
| `PickInv` | `PickedIsStillDue`, `LockedIsPicked`, `SurplusIsUnrecorded` |
| `SchedulerInv` | `LockInv`, `SeenInv`, `OneRowPerKey` |
| `MigrationsInv` | `LockInv`, `ProgressInv`, `EffectsInv`, `OnceUnlessUndone`, `VersionMeansMigrated` |
| `SetupInv` | `TablesInv`, `AttemptInv`, `ReplicaInv`, `ReplicasConverge` |
| `MetricsInv` | `NeverPanics`, `CurrentIsExported`, `GaugesBalance`, `ExportedIsCount`, and what they rest on: `MutexInv`, `RegistryInv`, `MadeInv`, `UnusedInv`, `BoundInv`, `UndisturbedInv`, `DriftInv` |
| `ClientInv` | `BoundInv`, `TokenInv`, `HeldInv`, `AnswerInv`, `OnceInv`, `AttemptsBounded`, `ErrorsSurvive`, `NothingHeld` |
| `KeyMapInv` | `StampInv`, `OneEntryPerFile`, `LoopInv`, `StableInv` |

`IndInv` of `TaskQueue` contains its `TypeOK` in the same way.

The mutants of `PROJECT.json` show that each property depends on the code: each
replaces one definition by a plausible mistake, and the property then fails.

### Fairness

* `TaskWorker`: goroutines that can run do run, calls of handlers and of the
  dequeuer return, the heartbeat timer fires. Nothing is assumed about ticks of
  the API handlers, cancellation or interference.
* `DequeueLoop`: each worker's goroutine runs and the calls of `Dequeue` return,
  `pq.Listener` reconnects (it retries for ever), a handler returns once its
  context is cancelled. A handler may otherwise work
  for ever, so that one worker alone has to find the tasks; a second worker that
  tries again and again would hide a missing poll. Faults are not fair.
* `ScheduleWorker`: clock and goroutines run and calls return; strong fairness
  only for the return from `Work`, because Go's select chooses at random among
  the ready cases.
* `Scheduler`: statements return; strong fairness for the two lock requests,
  because PostgreSQL serves its lock queue in order.
* `Migrations`: the calls of a service return.
* `QueueSetup`: statements return and the timer of the backoff fires. Failures
  and restarts are not fair.
* `PublicKeyMap`: calls on the file system return and the ticker ticks.
* `APIClient`: the caller's goroutine runs (so timers fire and a transport
  notices the end of its context) and the service serves what it has received,
  unless its handler hangs. The clock, the network's faults and the cancellation
  are not fair.

* `TaskQueue`, for `NeglectedTasksAreTaken` only: a worker without a task asks
  for any queue again and again, as `TaskWorker.Work` does, and the steps of an
  attempt are taken; strong fairness for the choice of each queue, which
  `rand.Intn` makes; errors and crashes end at some time, for otherwise every
  attempt may fail. Handlers may run for ever and the clock may stop.

`QueueMetrics` has no fairness; its properties are safety properties.

## 4. Proofs

TLC checks the instances of section 3; the theorems hold for every value of the
constants that satisfies the named assumptions: any number of workers, callers,
services, schedules, keys, attempts and faults, and any bound on time. Each
proof module proves that its inductive invariant holds initially and is kept by
every step, one proof step per action, and derives the properties from it. TLC
checks the same invariants on the runs.

| Theorem | States |
|---|---|
| `TaskQueueProofs`: `Invariance`, `TypeCorrect`, `ClaimSafe` | `IndInv`, `TypeOK`, `ClaimIsStillValid` |
| `RecoveredInTime` | no heartbeat lies in the future, and an unfinished row that is not renewed is claimable once 2 TTL have passed from now |
| `FinishedFinal`, `TakeoverSafe` | `FinishedIsFinal`, `TakeoverOnlyWhenSilent` |
| `LifecycleRefinement` | `Spec => Lifecycle!Spec`: statements, locks and clocks implement the abstract life cycle |
| `OneAtATime` | `OneTaskPerQueue`, if there is at most one dequeuer |
| `TaskWorkerProofs`: `OutcomeIsTheHandlers`, `ListenerReleased` | `WorkerInv` of `TaskWorker`, `ListenerInv` of `DequeueLoop` |
| `ScheduleProofs`: `PickedSafe`, `DueDateOnce` | `PickInv`, `OneTaskPerDueDate` of `ScheduleWorker` |
| `ScheduleProofs`: `ScheduledOnce`, `AssertSound` | `SchedulerInv`, `AssertedExists` of `Scheduler` |
| `QueueMetricsProofs`: `MetricsSafe` | `MetricsInv` |
| `MigrationsProofs`: `MigratedSafely`, `RecordedOnce` | `MigrationsInv`, `RecordedIsNotRunAgain` |
| `QueueSetupProofs`: `ReplicasAgree`, `ReadyOnReturn`, `CommonColumnsSafe` | `SetupInv`, `ReturnMeansReady`, `CommonColumnsStay` |
| `APIClientProofs`: `ClientSafe`, `EffectOnce`, `TokensAreFresh`, `AcceptedAlive` | `ClientInv`, `OnceUnlessGateway`, `FreshTokens`, `AcceptedWhileAlive` |
| `PublicKeyMapProofs`: `KeyMapSafe`, `WithdrawnForgotten`, `StableAccepted` | `KeyMapInv`, `WithdrawnKeysAreForgotten`, `StableKeysAreAccepted` |

### The arguments

*TaskQueue.* `ClaimIsStillValid` alone is not inductive: nothing in it says that
other workers keep off the row. `IndInv` adds that a row lock is held exactly by
the transaction that is about to write that row (`LockInv`), that the row stays
in the table and stays what the transaction saw under the lock, and how the
timestamps of a row depend on its status (`RowInv`). `LockInv` makes every other
action's guard `lock[t] = NoWorker` protect the claim; `RowInv`,
with the strict comparisons of the SQL conditions, rules out a claim of a
finished row, which `FinishedIsFinal` and the refinement need. `RecoveredInTime`
adds that heartbeats are not in the future (`BeatStep`): they are written with
the time that the call has read.
`OtherLock` handles all workers but the acting one at once. `RowStepCases` shows
that every step changes a row in one of five ways (not at all, inserted, claimed
under a valid claim, updated while updatable, cancelled); the consistency of
rows, both action properties and the refinement follow from these cases.

*One task per queue.* `OneTaskPerQueue` is false for two dequeuers
(`two_dequeuers`), so `OneAtATime` is stated for at most one. The strengthening
`SoleInv` says that the queues of the list `attemptDequeue` has read stay without
a live task until it claims, and that the queue of the task in work has no other
live task. Rows only lose their liveness while the clock runs (`InflightLater`);
the clock, the queuer, users and retention write no heartbeat (`CalmStep`); and
the only two writers of heartbeats write the row of the one task (`WriteStep`).

*Scheduler.* The SHARE lock is held from `LOCK TABLE` to the end of the
transaction and excludes every writer, so what `EnsureSchedule` saw (`SeenInv`)
is still true when the INSERT is committed: two callers that both saw no row
cannot both commit.

*TaskWorker.* That a failed task is not stored as finished needs to know which
goroutine can still do what. `SendersWait` relates the queue of blocked senders
to the stages of the handler and of the ticker, `StagesOfKind` says which stages
each kind of handler has, `TickerRuns` while which of them the ticker goroutine
lives, `ResultIsFinal` that nothing follows the result on `processDone`. Most
actions touch the worker only (`WorkerOnly`) or move one goroutine to another
stage (`StageMoves`, `GotoMoves`); the sends are `BlockStep` and `ReceiveStep`,
with `JoinQueue` and `LeaveQueue` for the queue.

*DequeueLoop.* The channel belongs to the worker that waits, and at most one
worker waits. So when the server refuses that worker's UNLISTEN nobody waits, and
since the channel stays open nobody can start to: that `refused` implies an open
channel is what makes the invariant inductive (`DequeueReturns`).

*ScheduleWorker.* `surplus - undone` of a schedule is 1 exactly while some worker
is between its Enqueue and its UPDATE (`SurplusIsUnrecorded`); that there is at
most one such worker follows from the row lock (`LockedIsPicked`).

*Migrations.* The lock is the one of the service whose outer transaction is open
(`LockInv`). Until it is lost, what the service read in the table stays true and
it reaches its record with everything its version needs (`ProgressInv`).
`EffectsInv` counts every effect that is not undone exactly once, as recorded or
as pending in that transaction.

*QueueSetup.* `ReplicaInv` says what makes replicas converge: as long as a table
is not what they expect, each one that has listed its columns has listed the
current ones and none is past it. `ReturnMeansReady` does not need replicas: the
last statements create the indexes, an index requires its column, and a table
that exists has its system columns (`TablesInv`).

*QueueMetrics.* The proof splits `MetricsInv` in two. `SwitchInv` is about the
registry and needs the switches only: the mutex makes the struct that is between
`Unregister` and `Create` the only one whose metrics are missing (`RegistryInv`),
and metrics of different structs have different names, so `Create` meets none
that is registered. `WorkInv` is about the gauges. A worker takes back its Inc
from the generation it has deferred or, in the wait, from the current one;
`Takers` are those that will take from a given generation, and each step adds or
removes the same worker from `Takers` and from the set the gauge counts.
`UnusedInv` (a generation starts from zero) needs that no two switches make the
same one (`MadeInv`). `DriftInv` bounds how far a gauge can be off after a switch
at the wrong moment: by one for each worker. `GaugesBalance` sums over the
generations with a fold. That a sum changes by as much as one of its terms is
shown without an induction theorem: a least cardinality of a set of generations
for which it fails would have a smaller one (`Least`, `SumsExist`, `SumsChange`).

*APIClient.* An attempt that is over has failed for good unless a gateway
answered it (`OnceInv`), which bounds the effects by counting the attempts that
were left behind. `TokenInv` relates the claims of a token to the clocks of both
sides, `AnswerInv` the error that the caller holds to the answer it comes from,
`HeldInv` the open body and the encoder to the stage of the call. `Inv` of the
proof module puts them together.

*PublicKeyMap.* A stamp is never used twice, so an entry with the stamp of its
file has the key of its content (`StampInv`), although the two are read at
different times. `LoopInv` and `StableInv` follow the loop over the files:
an entry that is not going to be deleted has a key that was seen during the
pass, and the key of an untouched file is still to be read or confirmed.

### Assumptions

They are the ASSUMEs of the modules, and TLC evaluates them on every run. Most
only give types to constants, and tell values such as `NoWorker` from the actors.
Five say more: `DistinctAssumption`, no
migration is listed twice; `GatewayAssumption`, a gateway that
answers in place of the service reports an error (400 to 599; with 200 a call
could succeed without an effect); `RelayedAssumption`, the token that is relayed
is some token; `KeysAssumption`, a public key is not one of the values that stand
for an error of `KeyFunction`; `TimesAssumption`, a call starts late enough for
the times of its token to be natural numbers.

### Only model-checked

* All liveness properties: fairness and ENABLED are outside the prover's reach.

## 5. Where the code differs from what is written about it

`two_dequeuers` ends in a violation; `PROJECT.json` quotes the lines: two tasks
of one queue can run at once, because the list of inflight queues is read
without a lock.

Other behaviours that the models contain, which no run of their own is about:

* `ORDER BY created_at DESC` (`dequeuer.go:166`, `FirstFound`) returns the newest
  claimable task; the comments at `dequeuer.go:43` and `:155` say the oldest.
* After a refused heartbeat nobody receives from `heartbeats`; a handler that
  sends again and its worker wait for each other (`Stuck`), also after the
  cancellation of the worker's context. `WorkReturnsUnlessStuck` without `Stuck`
  fails.
* A handler's panic closes `processDone`, which reads as success: the task is
  stored as finished. `ErrorsAreNotFinished` without `done = "closed"` fails.
* `configureViews` drops the error of its Commit (`views.go:34`), so that a
  version can be recorded without its views; the clause of
  `VersionMeansMigrated` about views fails without `dropped`, the versions to
  which that has happened.
* `Dequeue` is "expected to block until work is available" (`dequeuer.go:41`).
  After the server has refused an UNLISTEN (`dequeuer.go:62`) the channel stays
  open, each `Dequeue` that finds nothing returns `ErrChannelAlreadyOpen`, and
  the workers poll without a pause. A second worker on the same dequeuer does so
  all the time. Tasks are still started (`TasksAreStarted`).
* A heartbeat timeout calls `Fail`, so the task is not restarted by another
  worker as `task_worker.go:21-22` says; the slow handler stays in its send.
* `updateProgress` does not refuse failed tasks (`dequeuer.go:294-302`).
* The ticker goroutine of the API handlers may send on the closed channel, which
  ends the process (`OnlyTickersCrash` shows that nothing else does).
* With `PoolSize` not larger than the number of schedule workers they can all
  hold a connection and wait for a second one; `DueIsExecuted` fails with
  `PoolSize = 2` in the instance of `schedule_worker`. `PrepareDatabase` needs
  three connections; `PrepareReturns` fails with `PoolSize = 2`.
* A cron expression that matches no date gets the zero time as its next
  execution; `IterationEnds` fails with a schedule in `Impossible`.
* An error of `BeginTx` in `scheduleTask` is not looked at and the process dies.
* A reference that is named like a column of tasks only (`queue`, for example)
  is refused after the table schedules has been given that column
  (`setup.go:185-192`). Versions whose reference lists do not extend each other
  can undo each other's columns until their backoff ends; `SetupSucceeds` is
  checked for lists that do.
* A switch of the service name while a worker is at work leaves the exported
  gauge off by that worker for good (`disturbed` in `ExportedIsCount`). The
  `DequeueingGauge` of the schedule worker is never changed.
* `nbf` allows for 5 seconds of clock skew but `iat` does not: a service whose
  clock is behind the caller's by part of a second can refuse a fresh token
  (`FreshTokens` fails without its first alternative). `NewCreator` replaces only
  lifetimes below 5 nanoseconds; one below a second may have passed on arrival.
* When `http.NewRequest` fails, the goroutine that encodes the payload stays in
  its write (`badURL` in `NothingHeld`).
* The default `IsRetryable` also retries 400, which the base handler answers to
  `ErrInvalidParameters` and user errors; a sentinel error that is wrapped is
  answered with 500 and retried too.
* `Timestamp.UnmarshalJSON` is said to support null (`timestamp.go:37`); it
  returns an error, as its test expects.

## 6. Not modelled

* The SQL of tasks, specs, progress documents and error texts: no decision of
  the modelled code reads them.
* Clock skew between machines, and the data race on the progress struct of the
  API handlers, whose outcomes are all "some progress".
* Queue names that differ in case only (`citext` in the table, Go strings in
  `processableQueues`).
* Schedules without a spec in `EnsureSchedule`, whose comparison depends on how
  the driver sends a nil slice.
* A retry test given by the application in place of `IsRetryable`, the messages
  inside an `APIError`, and the resend of idempotent requests without a body that
  Go's transport may do by itself (`OnceUnlessGateway` counts what `DoRequest`
  sends).
* Migration lists that name a statement twice (`DistinctAssumption`): the second
  occurrence is run again, because `migrate` reads committed rows only
  (`migrations.go:79`). Migration files that end their transaction themselves:
  the Commit error "unexpected transaction status idle", which `migrate` ignores
  (`migrations.go:41-44`), is modelled as its comment describes it, as a
  transaction in which nothing was executed.
* Go's transport may close the body of a request shortly after `Do` has returned;
  `APIClient` closes it with the end of the attempt.
* In `DequeueLoop` an attempt finds a task whenever one is available; that the
  random queue may have none is part of `TaskQueue`. Notifications that nobody
  receives fill the buffer of `pq.Listener`, which is not bounded in the model.
* Two writes of a key file with the same size and modification time.
* Counters and durations of the metrics.
* Cryptography, serialization, telemetry, configuration and the HTTP plumbing:
  conversions and I/O without state of their own.

## 7. Plan

1. The connection pool shared by dequeuers and schedule workers: `TaskQueue`'s
   second connection and `ScheduleWorker` composed over one pool.
2. `processableQueues` on names that differ in case; pagination as operators
   checked on bounded inputs.
