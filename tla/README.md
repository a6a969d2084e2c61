# Verification of the Prefect orchestration engine

This directory holds TLA+ models of the Prefect server and client found in
`src/prefect/src/prefect/` (paths below are relative to it), the TLC runs that
check them on small instances, and theorems checked by TLAPS.

## 1. The system and its parts

Prefect runs user-written *flows*. A **server** stores flow runs and task runs
in a SQL database and decides every change of their state; **workers** poll the
server for scheduled runs and start processes for them; a **flow run process**
executes the flow (the flow engine) and reports each state; **services** of the
server repair or advance runs in the background; **users** pause, resume,
cancel, delete and reschedule through the API.

| part | state it keeps | operations | hard behaviour | what makes it correct |
|---|---|---|---|---|
| Flow run orchestration (`server/orchestration`, `server/models/flow_runs.py`, `server/api/flow_runs.py`) | a row per flow run: current state, `run_count`, pause metadata, infrastructure id | create, set state (orchestrated or forced), resume, delete, update | every client may send any proposal at any time; rules undo each other's side effects; reads made before the row is locked | slots are never leaked, a cancellation is final, retries are bounded, a transition is applied once |
| Deployment concurrency (`SecureFlowConcurrencySlots`, `ReleaseFlowConcurrencySlots`, `server/models/concurrency_limits_v2.py`) | `active_slots`, `limit`, `active` of one row, shared by the runs of a deployment | conditional increment, clamped decrement, update and removal of the limit | the row does not say who holds a slot; increments and decrements must pair up over the whole life of a run | never more slots than runs that use them, never more runs than slots |
| Task run orchestration and tag limits (`CoreTaskPolicy`, `server/models/concurrency_limits.py`) | a row per task run; per tag, the set of task runs that hold a slot | set state, take and release tag slots, cache lookup and insertion | several tags taken one after the other, partial failure and cleanup | a slot's owner is running, all tags or none |
| Global concurrency limits (`server/api/concurrency_limits_v2.py`, `concurrency/`) | slots with decay, denied slots | take slots of several limits or of none, count a denial, release; on the client queue, ask, sleep as told, time out | decay computed from a column that other writes move too; calls that wait behind others; resent requests, cancelled callers | no over-admission, the rate is kept, slots come back, who waits is served |
| Background services (`server/services`) | none; they scan the database | mark late, fail expired pauses, clean up after cancellation, mark workers offline | decisions on rows read without a lock; batches that are re-read | no live run is overwritten, every cycle ends |
| Scheduler (`server/services/scheduler.py`, `server/models/deployments.py`) | scheduled runs with idempotency keys | select deployments by page, generate the runs of their schedules, insert them in batches, delete outdated ones | two schedulers, errors in the middle of a page, deployments and schedules that change between reading and inserting | each date has its run, and one; runs of an old configuration go |
| Worker (`workers/base.py`) and runner (`runner/`) | runs being submitted, capacity limiter | poll, propose PENDING, submit, report crash | several workers see the same run; crash between PENDING and submission | one submission per scheduled visit |
| Flow engine and task engine (`flow_engine.py`, `task_engine.py`, `utilities/engine.py`) | local copy of the run and its state | begin, retry, pause, finish, crash | the server answers WAIT, REJECT or ABORT | the process follows the server's state |
| Transactions, results and locks (`transactions.py`, `results.py`, `locking/`) | staged writes, records, locks | begin, stage, commit, rollback | crash between stage and commit; lock hand-over | a committed record is complete and written once |
| Task queue and task worker (`server/task_queue.py`, `task_worker.py`) | in-memory queues of scheduled task runs | enqueue, get, retry | bounded queue, client disconnects, restart | no task is dropped or run twice at once |
| Events: causal ordering, triggers, composite triggers (`server/events`) | followers waiting for their leader, buckets, firings | receive, record, evaluate, fire | out-of-order and duplicated events, timeouts | events are handled once and in causal order |
| Messaging (`server/utilities/messaging/memory.py`) and task run recorder | in-memory topics, retry queue, dead letters | publish, consume, retry | redelivery, handler errors | at-least-once delivery up to the retry limit |
| Thread and event-loop bridging (`_internal/concurrency`) | calls, waiters, cancel scopes | submit, wait, cancel | timeouts racing results | a result or a cancellation is seen once |
| Client transport (`client/base.py`) | none | retry a request after an error or a lost answer | a request applied although its answer was lost | `transition_id` makes a retried transition idempotent |
| ECS deployment (`src/terraform`) | infrastructure descriptions | none at run time | | not a program with state |

### How they interact

A worker lists the SCHEDULED runs of its queues, proposes PENDING for each, and
submits infrastructure only for a run the server put in PENDING. The PENDING
transition takes a slot of the deployment's limit. The process it starts
proposes RUNNING, then a terminal state or a pause; a FAILED proposal may be
answered with AwaitingRetry, which the same process turns into RUNNING again
without passing through PENDING. Leaving PENDING, RUNNING or CANCELLING gives
the slot back. Services and users change the same rows at the same time; the
only thing they share is the database, whose row locks make each transition
atomic, and the lists each of them read earlier.

## 2. Modules

| module | kind | models |
|---|---|---|
| `FlowRunRules` | operators | the rules of `core_policy.py`, how `rules.py` composes them, the global transforms that change what a rule reads, the SQL of the limit's row |
| `FlowRunOrchestration` | specification | the server: the rows of the flow runs of one deployment and the row of its limit, under any client behaviour |
| `FlowRunSessions` | specification | the same server on PostgreSQL, where three operations read a run before they lock it |
| `SlotPool` | abstract specification | what a concurrency limit promises |
| `FlowRunLifecycle` | specification, composition | the server in the company of workers, runners, flow processes, users and services, each of which proposes only what its code proposes |
| `FlowRunProofs` | proofs | of the server: `TypeCorrect`, `SlotsNeverLeak`, `FullLimitAdmitsNobody`, `CancellationIsFinal`, `RetriesAreBounded`; of the sessions: `SessionsTypeCorrect`, `OnlyOldRowsLoseSlots`; of the lifecycle: `LifecycleTypeCorrect`, `SubmittedAtMostOnce`, `ExecutedAtMostOnce`, `RunningRunsHaveProcesses`, `LifecycleLeaksNoSlot`, `LimitIsSlotPool` |
| `WorkerSubmission` | specification | the inside of one worker with `--limit`: the poll loop, `_submit_run`, the monitor of the infrastructure, the tokens they share |
| `WorkerSubmissionProofs` | proofs | `TokensNotLost`, `LimitKept` |
| `Transactions` | specification | nested transactions of tasks with their records, and the two lock managers |
| `TaskRunOrchestration` | specification | `CoreTaskPolicy`, the slots of tags, and the task engines that take such slots through another API |
| `CancellationCleanup` | specification, composition | the service that follows a cancelled flow run to its task runs and subflows; EXTENDS `TaskRunOrchestration` |
| `Messaging` | specification of a part | the server's topic in memory: two queues, a dead letter queue, the tasks of a consumer |
| `EventServices` | specification, composition | what the consumers of events do: the recorder of task runs and the causal ordering of triggers; EXTENDS `Messaging` |
| `TaskQueue` | specification | deferred task runs from the request that schedules them to the task worker that executes them |
| `GlobalConcurrency` | specification | the rows of global concurrency limits, the requests on them, the clients' acquisition services and the users |
| `Scheduler` | specification | both schedulers, the requests that change deployments and schedules, and those who start runs |
| `CancellationCleanupProofs` | proofs | `SlotOwners`, `Admission`, `SlotsKept`: of the slots of tags, with clients, engines and the cleanup |
| `EventServicesProofs` | proofs | `EventsInOrder`, `NoEventForgotten`, `EvaluatedOnce`, `LatestStateWins` |
| `TransactionsProofs` | proofs | `TypeCorrect`, `OneTransactionAtATime`, `RolledBackWhole`, `RecordsWrittenOnce`, `LocksGivenBack` |
| `TaskQueueProofs` | proofs | `TypeCorrect`, `NoTaskForgotten`, `ExecutedOnceAtATime` |
| `GlobalConcurrencyProofs` | proofs | `RateIsBounded`, `BlocksWithinLimit`, `SlotsAccounted`, `ServicesInOrder` |
| `SchedulerProofs` | proofs | `EveryDateHasItsRun`, `NoMoreThanNeeded`, `OldRunsGo`, `NoRunStartsTwice` |
| `MC...` | instances | the values of the constants for TLC |

`FlowRunLifecycle` EXTENDS `FlowRunOrchestration`, which EXTENDS
`FlowRunRules`; `FlowRunSessions` EXTENDS it too: a client's action in the lifecycle contains the very operator,
`SetFlowRunState`, that the proofs are about. `WorkerSubmission` stands alone,
because what it is about (coroutines of one event loop that take turns at every
`await`) is finer than the lifecycle's steps; there the server is reduced to
what a worker can tell of it. The other components meet flow runs only in states
of flow runs, which `TaskRunOrchestration` has as a variable that clients move.

### State and actions of `FlowRunOrchestration`

`runs` is the table of flow runs: per identity `None` or a record with the
columns the rules read. `limit` is the row of `concurrency_limit_v2` that
belongs to the deployment. `retried` is a history variable. One action is one
request, that is one database transaction: `set_flow_run_state` locks the row
of the run before the policy reads it. Three operations read it before without a
lock, `FailExpiredPauses`, `resume_flow_run` and `delete_flow_run`; on SQLite,
where a transaction cannot write once another has written what it read, they
are one action all the same. `SetFlowRunState` computes `Verdict`, the
answer of the policy's rules in their order, then `RunAfter` and `LimitAfter`,
what the rules, their cleanups (fizzled and nullified transitions), the
transforms and the validation leave behind. A rule is an operator from the run
and the proposal (and the limit) to one of four verdicts; `++` composes two
rules the way nested context managers do: the first that does not pass decides,
and the rules before it clean up.

### State and actions of `FlowRunSessions`

On PostgreSQL the three operations are two steps each. `ReadRun` reads the row
into `session[s]`, the object that the SQLAlchemy session keeps. Between it and
the second step anything else may happen. In the second step
(`FailCachedPause`, `ResumeCachedRun`) `set_flow_run_state` locks the row with
SELECT ... FOR UPDATE, but a session does not refresh an object it has loaded:
the rules get the old row (`CachedRows`), and `Flushed` writes only the columns
that differ from it. `DeleteCachedRun` decides by the old row whether to release
a slot, before the DELETE shows whether there still is a run. `overtaken` counts
the sessions that acted on a run which had taken a slot since they read it.

### State and actions of `FlowRunLifecycle`

`listed` holds what each worker was told and has not acted upon, however old.
`process` and `watcher` hold, for each submission of a run that is alive, where
its process and its runner are. `lost` holds a request whose answer was lost.
`GoesOn` is `propose_state` and its callers: what the process does on ACCEPT,
REJECT, WAIT and ABORT. `Step` is the loop of the flow engine; `Reap`,
`ReportCrashed`, `DetectCancelling` and `MarkCancelled` are the runner, which
looks for cancellations only among the processes it still has in its map.

### State and actions of `Transactions`

A thread (`pc`) enters an outer transaction and runs its tasks in it, one after
the other, each in a transaction that has the task's cache key and isolation
level SERIALIZABLE. The outer transaction (`outer`) may have a key as well, as
`with transaction(key=...)` gives it one, and as the task has that calls the
others: the thread then takes its lock first (`entering`), `BeginOuter` looks for
its record, and its own record is written last. `current` is the transaction of
the task, `children` those whose commit the outer one has taken over (`Reset`),
`entry` what the lock manager knows of a key and `taken` which lock objects are
locked. `Begin` looks for a record under the lock; `Succeed` stages, and commits at
once in mode EAGER; `Raise` rolls back before the engine decides whether to retry;
`Stage` stages the outer transaction at the end of its block.

`CommitChild` and `RollBackChild` are the loops over the children, one step per
child, since a crash or another thread may come between them. A commit or
rollback of one child has several results (`CommitResults`, `RollbackResults`),
according to which of the write and the hooks raise. After the last child
`EndCommit` runs the outer transaction's own hooks and writes its record. Either
may raise, as may the release of a child's lock that is gone; the `except` clause
then rolls back the outer transaction and its children (`FailCommit`).
`RollBackFrom` runs the outer transaction's own rollback hooks before those of its
children, which it passes over if one raises; `EndRollBack` is the `finally` clause.
A transaction is `open` until it gives its lock back; its `notes` record for the
properties that it was found cached, began late, or was committed again.

The two lock managers are
modelled as far as they differ: `FileSystemLockManager` creates a file and then
writes it, `MemoryLockManager` waits for a lock object outside of the lock of
its dictionary, and registers itself afterwards.

### State and actions of `TaskRunOrchestration` and `CancellationCleanup`

`task` is the table of task runs, `slots` the `active_slots` of each tag, a set
of task runs. `SetTaskRunState` is a request under `CoreTaskPolicy`; the rules
are composed as in `FlowRunRules`. `SlotsSecured` is what the loop over the tags
leaves behind, `SlotsAsked` adds the cleanup for rules that decide later. Task
runs of `Engine` keep their states themselves (`Recorded`) and take slots with
`increment_concurrency_limits_v1`, which stops at the first full tag and rolls
back. The service's rounds are `ReadCancelled`, `ReadChildren`, `CancelChild`,
`ReadSubflows`, `ConsiderSubflow`, `CancelSubflow`: each is one session, and
everybody else may act between them.

### State and actions of `Messaging` and `EventServices`

`queue` and `retries` are the subscription's queues; `Block` is a task that
found both empty and from then on waits for the first alone. `stack[t]` is the
recursion of `reactive_evaluation`: the handler of a leader handles, within its
own call, the followers that wait for it. `Entry` decides whether a follower is
parked (`Park`), `Evaluate` evaluates and records the event as seen,
`ReadFollowers` and `NextWaiter` go on to the followers, `FinishFrame` returns.
`Sweep` is the periodic evaluation of followers that are too old. `old` holds the
copies received longer ago than the lookback; `GrowOld` may make any copy old at
any time. The recorder handles a message in one transaction (`Record`).

### State and actions of `TaskQueue`

`scheduled` and `retry` are the queues of a key. `server[w]`, `hand[w]` are the
server's side of a worker's connection, `wire[w]` and `ack[w]` the messages on
it; `stale[w]` counts subscriptions whose connection broke while they waited for
a task run: they notice only when they wake up, and may take a task run first.
`received[w]` is what the worker has acknowledged and waits to get a token for,
`running[w]` what it executes. `MultiQueue.get` polls without an await between
the look and the take, so that `Deliver` is one step.

### State and actions of `GlobalConcurrency`

`status`, `limit`, `slots`, `denied` and `age` are the row of a limit; `age` is the
time since `updated`, the column that every UPDATE of the row sets and from which
decay is computed. A call of `concurrency` or `rate_limit` is sent to the service of
its set of names (`Call`), waits in `queue` until the service handles it (`Handle`),
asks (`Grant`, `Deny` or `Refuse`: one transaction), is counted as denied in a
transaction of its own (`CountDenial`), sleeps for `wait` and asks again (`Retry`).
`Receive` is the answer on its way back to the caller, who may have been cancelled
(`abandoned`). `Leave`, `Decrement` and `Return` are the end of the block. `debt` is
a history variable: the content of a bucket that leaks continuously and gets
`DecayTicks` for each slot granted.

### State and actions of `Scheduler`

`deployment` and `schedule` are the rows that users change; a row of `schedule` is
known by its place, which is never used again, as ids are not. `runs` is the table
of flow runs as far as they were scheduled automatically: deployment, schedule and
date, which make up the idempotency key (`Key`), and whether the run has left its
first state. A round of a scheduler is `SelectDeployments`, then `ReadDeployment`
and `ReadSchedules` for each deployment of the page (two queries of one session,
between which others commit), then `Insert` for each batch, `EndPage`, and the next
page. A page and what is collected from it are sets: deployments are read in the
order of their ids (`Min`, `Max`), and `Before` says which of two runs comes first in
`runs_to_insert`, from which `Batch` cuts the next transaction; the schedules of a
deployment come by `updated`, the latest first, for which the model takes the order
in which they were made. An error while the runs of one deployment are generated has
two ends: a broken connection makes `_collect_flow_runs` raise `TryAgain`, after which
the page is selected again; any other error is logged, and the round goes on without
that deployment and counts as a success (`Skip`; on PostgreSQL it may have aborted the
transaction, so that the rest of the page is left out too). An error anywhere else
ends the round (`Fail`), which `LoopService.start` survives. `Enough` and `Wanted` are the rule when the generation of dates ends. Each request of a user is a
transaction, except a request to pause, which is two (`PauseDeployment`,
`FinishPause`). `recent` is what the second scheduler asks for, a column `updated`
of the last seconds: requests about a deployment set it, those about one of its
schedules do not, a worker that polls does (`Poll`). The rest is history: `version`
tells runs that were generated before their deployment's runs were deleted from
those generated after, `overtaken` names the deployments into which a scheduler has
inserted runs it had collected before such a change, and `settled` those for which the
main scheduler has begun and ended a round since they were changed or skipped.

### Worlds

`FlowRunLifecycle`, `GlobalConcurrency` and `Scheduler` have a constant `Worlds`, a
set of records that say who takes part and which troubles there are. The initial
states choose one of them into the variable `world`, which never changes. One run
thereby checks a property in several instances, each with the combination of
troubles in which it is meant to hold, and the formula that is checked is the same.

### Abstractions

- Times are `past`, `future` or `None`; `ClockPasses` turns one into the other.
- A proposal is a type, a scheduled time, the pause's details, a transition id
  and whether the result is persisted; names are those the rules test.
- The lifecycle neither deletes runs nor changes the limit; the core does both.
- The engine's PATCH of `empirical_policy` (`begin_run`, retries set in code) is
  left out: the policy is the one the run was created with.
- `Reap` takes the process out of the runner's map in the step in which its exit
  is seen; in the code two awaits lie between.
- At most one answer per run is outstanding as lost, and only answers to
  requests that changed something get lost: a request without effect that is
  sent again is a request that is sent later.
- The worker's own report of CRASHED, after the runner's, is left out.
- `MarkFlowRunAsLate` may act on any run: the service's query is older than the
  row it then locks.
- In `WorkerSubmission` a run has one monitor at a time, a rejection to PENDING
  counts as an acceptance, and infrastructure that returns without ever calling
  `started` is left out. Once an exception is in the worker's task group
  (`error`), the worker takes no further step.
- In `Transactions` a plan names the keys of a thread's tasks in order, no key
  twice and none that of the outer transaction; timeouts of locks, READ_COMMITTED
  and `overwrite` are left out; a task's exception is caught or ends the block.
  Transactions are nested two deep: tasks that stage more than their result, or
  call tasks of their own within a third transaction, are left out. The outer
  transaction stages, if it does, at the end of its block. Hooks that raise are
  those of staged transactions (`"write"` in `Failures` stands for a commit that
  raises, by its hooks or its write).
- `TaskRunOrchestration` takes a request for one transaction, as SQLite does.
  `early` stands for a scheduled time in the future. Tags are numbers in the
  order in which their rows are locked.
- The decision of `CancelSubflow` is under `MinimalFlowPolicy`, which rejects
  nothing the service proposes. A round handles all children of a flow run; the
  code reads at most 100 of them at a time.
- `EventServices` has one service per instance, since each has a subscription of
  its own; evaluating an event is counted, not carried out. Dead letters are
  always written; the expiry of what was seen is left out.
- In `TaskQueue` sent messages are received in order or lost with the
  connection; a worker's subscription reconnects only to receive.
- In `GlobalConcurrency` time has ticks, a decay rate is a number of ticks per slot,
  `avg_slot_occupancy_seconds` is a constant, and a request names a limit once. The
  answer to a request that fails on the server for another reason is left out, as is
  `create_if_missing`, which callers are told not to use. A caller that was cancelled
  makes no new call while the service still has its old one.
- In `Scheduler` the dates of a schedule are the multiples of a number; a schedule
  with 0 stands for one that raises. Deployments and schedules have their ids in the
  order they were made. Within one tick the main scheduler begins and ends a round
  (`covered`): its interval, a minute, is far below `min_scheduled_time`, an hour; a
  round that fails does not count. A run that has left its first state does not come
  back to it, though the code deletes runs that wait for a slot again too
  (`run_count` is 0). A request about a deployment adds one schedule or patches one,
  not several at once. Users who ask for a run (`POST /schedule`,
  `create_flow_run`), delete a run or give it another date are left out.

## 3. Runs

| run | instance | what it asks | size |
|---|---|---|---|
| `life` | 1 run, every detail of a proposal, `retries` = 2, at most 4 executions | `RetriesBounded`, `CancellationFinal` | under a minute |
| `lifecycle` | worlds `OldLists` (1 run, 2 workers; suspends, crashes; resumed, rerun), `Contention` (2 runs, 1 slot; fail, time out, suspend, crash; resumed), `Crashing` (2 runs, 1 slot; crash; rerun), `Cancelling` (1 run, 1 worker; fails, times out, pauses, suspends, crashes; resumed, cancelled); 3 submissions of a run at a time | `SubmittedOnce`, `ExecutedOnce`, `RunningHasProcess`, `NoSlotLeak`, `SlotPoolKept`: `FlowRunLifecycle` implements `SlotPool` | 717 thousand states |
| `liveness` | worlds `Retried` (2 runs, 1 slot, 1 retry), `Resent` (1 run, 2 workers, lost answers; suspends, crashes, is suspended and resumed); under fairness | `LifecycleTypeOK`, `ScheduledRunsEnd`, `GrantedRetriesHappen`, `ResumedRunsStart` | 16 thousand states |
| `worker` | 2 runs, 1 token, failing infrastructure, deleted deployments | `NoSlotLost` | 167 thousand states |
| `sessions` | 1 run and its slot, 1 session with an old row; pauses with and without timeout, limits none, 0, 1, forced proposals | `LostSlotsCounted`, `NoAdmissionBeyondLimit` | 107 thousand states |
| `transactions` | 2 threads, tasks of 2 keys in one order, both lock managers, 4 plans, of which 2 have an outer transaction with a key that a task of the other thread, or its outer transaction, has too; both threads LAZY, or one OFF and one EAGER; every failure, 1 retry with files; under fairness | `OneOpenTransaction`, `RecordWrittenOnce`, `RollbackIsTotal`, `LocksStranded`, `WaitersProceed` | 357 thousand states |
| `tags` | 2 tags with limits none, 0, 1; one task run of a client and one of an engine, or a cancelled flow run with such task runs or a subflow, and the cleanup; under fairness | `SlotsHaveOwners`, `AdmittedWithinLimits`, `KeptWhileExecuting`, `CancellationsSpread`, `WaitersServed` | 115 thousand states |
| `events` | 4 events in a chain, or 3 in a fork, 2 tasks, at most 2 copies, 1 redelivery; a recorder of 3 states with two clocks, triggers with and without troubles; under fairness | `RowIsLatest`, `NothingForgotten`, `HandledOnce`, `CausallyOrdered`, `EventsSettle` | 428 thousand states |
| `task_queue` | 3 task runs of 2 keys, 2 workers with limits 2 and 1, queues of 1, 2 troubles; under fairness | `TasksKept`, `OneExecutionAtATime`, `TasksBegin` | 280 thousand states |
| `gcl` | limits of 2 slots and of 1, and one of 2 that decay in 2 ticks; worlds `Failing` (2 calls of one service, 1 of both limits; resent increments, cancelled callers, deaths), `Quiet` (calls for one, the other and both), `Decaying` (a call of each kind, all failures), `Changed`, `Replaced` (users change the limit); under fairness | `LimitKept`, `NothingLeaks`, `SomebodyGetsIn`, `RateBounded` | 217 thousand states |
| `scheduler` | times 0 to 3, pages of 2, batches of 1, at least 2 runs and 2 ticks, at most 4 runs and 4 ticks; worlds `Racing` (both schedulers; 2 of update, pause, resume), `Changing` (both; 1 of update, replace, delete, patch, delete a schedule), `Starting` (2 updates while runs are started), `Failing` (2 deployments, errors at every step, 1 update), `Paging` (3 deployments, errors at every step), `Growing` (both; 1 deployment or schedule more, which may raise; a worker polls) | `DatesKept`, `FewestRuns`, `OldRunsRemoved`, `StartedOnce` | 1.9 million states |
| `memory_lock` | 2 threads, 1 key, locks in memory, 1 retry | `OneOpenTransaction` is violated | |

What the properties say and the code they are about stands above each of them.

### Why the bounds are enough

- *Runs.* A run interacts with another only through the limit's row. Two runs
  that contend for one slot show every such interaction; with a third, the
  theorems about the core take over, which hold for any number. Properties about
  one run are checked with one run.
- *Workers.* The hazard is a list that is older than another worker's action; two
  workers show it. Runs are taken for alike (`Symmetry`) in `lifecycle` and `worker`.
- *Submissions of a run at a time* (`Attempts`): three for safety, since the late
  report of the first lets a third begin beside the second; two for liveness.
  `SubmittedAtMostOnce` and `ExecutedAtMostOnce` hold for any number.
- *`MaxRunCount`* caps executions. Outside `FlowRunSessions` it is the only bound on
  the length of behaviours. In the lifecycle it lies above `Retries`
  (`LifecycleAssumption`), so that every
  retry that is granted fits.
- *Sessions* with old rows: one, next to clients that lock the row first, shows
  every write of old columns; two would add deletions of one run at a time.
  `OnlyOldRowsLoseSlots` holds for any number of sessions and of runs.
- *`MaxOvertaken`* stops the counting of lost slots at two: a second one
  shows that losses add up.
- *Transition ids*: one is enough for a request that is resent while it is the
  run's latest transition; other requests carry ids nobody else has, written
  `None`.

- *Threads*: two, with two keys; a third thread adds only more waiting to the
  locks in files. With locks in memory the third thread, or a retry, shows the
  race of `memory_lock`, so that the run `transactions` has neither there. A
  transaction with two children has one before the other in each loop; one with a
  key and one child has a record of its own that fails after another was written;
  two with the same key meet at `begin`. The modes of the two threads hardly
  interact: each of the three occurs in one. Keys come in one order, since transactions that take them in opposite orders wait
  for each other for ever.
- *Tags*: two, since the hazard is the second one being full. One client and
  one engine contend for both. `BatchSize` is two with two flow runs, so that
  batches are full and not full; a child that ends, is deleted or rerun between
  two steps of the service needs no third flow run. The two populations keep the
  two halves apart: the cleanup meets a slot only as one that it gives back.
- *Events*: four make a chain, with nested handling (`MaxDepth` = 2 is exceeded by its
  end), three a fork. With a chain of three no event is handled twice in quiet times;
  with four one is, if an event before it is too old to wait (`Overdue`). `troubles` bounds resent events, raising handlers and
  restarts: two for the recorder, one for the triggers, whose chain and fork
  have none (a raised handler within a nested call is in the smaller instance).
- *Task queue*: queues of one place are full most of the time; three runs of two
  keys make each worker wait. Two troubles cover a death after a broken
  connection, a restart after a death, two broken connections in a row.
- *Global limits*: a row with room beside a row without needs two limits, waiting in
  a service two calls. `MaxDenied` caps `denied_slots` at one: it only lengthens
  waits, which TLC compares with timeouts of one tick. `MaxAge` is the age from which
  nothing is left to decay. A decay of two ticks has a rest to round off.
- *Scheduler*: with batches of one, every boundary lies between any two runs, and a
  round may fail at each. A page of two is read whole, in half or not at all when one of
  its deployments meets an error; two deployments fill one page, so that an empty one
  follows (`Failing`), and a third is on a page of its own (`Paging`). `MinRuns` and
  `MinScheduledTime` of two let each of the two minimums be the later one
  (intervals of 1 and of 2). Times up to 3 show a selection that becomes due again;
  two changes are a pause and a resumption, or an update during a round and one
  after it. Two schedules of a deployment occur in `Growing`.

### Fairness

`FairLifecycle` assumes weak fairness of each worker's poll and of each proposal
from its list (the worker's loops run in `critical_service_loop`, which comes
round until the worker is stopped), of each live process and its runner (they are
operating-system processes and tasks of an event loop without a condition they
could wait for), of resending (`_send_with_retry`; the model assumes that one of
its attempts arrives), and of services and the clock. Nothing is assumed of
users, nor of crashes and losses. Only weak fairness is used: no step of the
code is favoured over a rival for a resource.

The other specifications assume it of the code's own steps too: of each thread of
`Transactions` (a thread that holds a lock goes on until it crashes), of the
service's loop (`LoopService.start`) and of each engine that asks for slots (its
acquisition loop asks again without end), of each task of a consumer, of the
periodic sweep and of time, and of the server's coroutines, the workers' loops
and the end of executions in `TaskQueue`. In
`GlobalConcurrency` it is that of time, of the server's answers, of the services
and of blocks, which end. Events need not be sent, task runs not
be scheduled, cancelled or deleted, and no trouble need happen. A consumer that
raises is not obliged to.

The run `lifecycle` checks the unfair `LifecycleSpec`, and `scheduler` the unfair
`Spec` of its module, in which no step need happen but time does not go on before
the main scheduler has done a round: `DatesKept` says of every moment what liveness
would say of some later one.

Three liveness properties say less than one might read into them. The instances
have finitely many runs, so that those ahead of one that waits end some day:
`ScheduledRunsEnd` does not show that a run gets a slot beside a sustained stream of
others, nor `TasksBegin` that the order of the keys in `MultiQueue.get` starves
nobody. `SomebodyGetsIn` speaks of the world `Quiet` alone (`Untroubled`): a caller
that is cancelled or dies may take slots with it, for which the others then wait.

## 4. What the code does otherwise than it says

One counterexample has a run, `memory_lock`; the trace that TLC prints is the
scenario. A thread waits for the lock object of a key. The holder's
`release_lock` deletes the entry of the key and releases the object. Before the
waiting thread, which has the object now, registers itself, the first thread
retries (or a third comes), finds no entry, makes a lock of its own and computes
the record. The waiting thread then overwrites the entry: both have open
transactions of one key, which isolation level SERIALIZABLE is to exclude.

More were met by TLC with other constants, worlds or properties of the same modules.
They have no run: the instances above leave the combination out, do not forbid it, or
make an exception of it in a property. Braces hold the behaviours and requests of the
world that shows it; the properties named stand in the modules, those that no run
checks included.

Flow runs and workers:

- *A retry without a slot* (`LimitRespected` in the world `Retried`). FAILED is
  answered with AwaitingRetry, which leaves RUNNING and gives the slot back
  (`ReleaseFlowConcurrencySlots`). Another run takes it. The first process then
  proposes RUNNING, for which `SecureFlowConcurrencySlots` asks nothing: two runs
  run under a limit of one.
- *A pause without a slot* (two runs, `{"pause"}`, `{"resume"}`, `LimitRespected`): a
  run that pauses in its process gives its slot back, and `HandleResumingPausedFlows`
  lets it go on to RUNNING without taking one. `SlotPoolKept` is therefore about the
  worlds without such pauses and without cancellations (`Pooled`).
- *A cancellation that is overtaken* (`{"cancel"}`, `CancellationsComplete` under
  fairness). A process that ends by itself after its run was set to CANCELLING
  leaves the runner's map; the runner no longer looks for its run, the proposals
  COMPLETED and CRASHED are rejected, and the run stays CANCELLING.
- *A retried run that is resumed* (one retry, `{"suspend", "fail"}`,
  `{"resume"}`, `ResumedRunsStart`). `RetryFailedFlows` sets `retry_type` to
  `in_process`; the workers' query skips such runs; suspending and resuming does
  not reset it. The run is never started again.
- *A token that is released twice* (`NeverReleasedTwice` in the instance of
  `worker`). If the infrastructure fails to start, both `_submit_run` and the
  `finally` clause of its monitor release the token of the run; the second release
  raises a `RuntimeError` in the worker's task group.

- *A late report* (`{"suspend", "crash"}`, `{"cancel", "rerun"}`, two workers, three
  submissions): the runner reports CRASHED for the run, not for the attempt. A
  process that is told to stop forces CRASHED, the run is rerun and PENDING again
  when the first runner reports: it is crashed, can be rerun once more and is submitted
  twice (`SubmittedOnce`). With three workers no rerun is needed: PENDING takes a run
  out of FAILED or CRASHED too, for a worker with an old list (`{"fail"}`, or
  `{"cancel"}` as a request).
- *A pause behind a full limit* (`{"pause"}`, `{"resume"}`, two runs, two workers): a
  worker with an old list proposes PENDING for a run that is paused in its process;
  the limit is full, and the answer makes the run AwaitingConcurrencySlot. It is
  submitted again while its first process still waits for the end of its pause
  (`ExecutedOnce`).
- *A lost answer to a pause* (`{"pause"}`, `{"resume"}`, `MayLose`): the resent
  request is rejected with the state PAUSED, which `propose_state` takes for a
  suspension. The process exits; the run is resumed as RUNNING by nobody
  (`RunningHasProcess`). With `{"suspend"}` the process learns ABORT and goes
  on, and the resumed run has two (`ExecutedOnce`).
- *Suspension from outside* (`{"suspend"}` as a user request): the process goes
  on; the resumed run is executed twice (`ExecutedOnce`).
- *A timeout with retries* (`{"timeout"}`, one retry): `handle_timeout` ignores
  the answer AwaitingRetry; the runner reports CRASHED and the granted retry
  never happens (`GrantedRetriesHappen`).
- *A stale `infrastructure_pid`* (`{"cancel", "rerun"}`, or `{"suspend"}` with
  `{"cancel", "resume"}`): nothing resets it when a run is scheduled again, so
  that cancelling a run no worker has picked up yet makes it CANCELLING instead
  of CANCELLED. It stays so, and it counts among the holders of slots without
  having taken one: when such a run is forced to CANCELLED, it gives back
  another run's slot (`SlotPoolKept`).
- *A stale list* (two workers): PENDING takes a run out of COMPLETED if its
  result was not persisted, as a rerun would; a worker with an old list runs a
  completed run again.
- *A deletion on PostgreSQL*: `delete_flow_run` reads a SCHEDULED run; a worker
  takes it to PENDING, with a slot; the row is deleted, and nobody is left to
  give the slot back. This is a behaviour of the run `sessions`, which counts
  the slot. With two sessions, both read the same RUNNING run to delete it, and
  both decrement, the second after the first has committed: it gives back a slot
  that belongs to another run, although `cleanup_flow_run_concurrency_slots` is
  said to be "idempotent and safe to call multiple times".
- *A lost answer to a failure* (`{"fail"}`, one retry, `MayLose`): the request is
  answered with AwaitingRetry and the answer gets lost. The AwaitingRetry state
  does not carry the transition id of the request; the resent FAILED finds the
  run no longer RUNNING and is accepted: the granted retry never happens
  (`GrantedRetriesHappen`).
- *An expired pause on PostgreSQL*: `FailExpiredPauses` forces FAILED upon every
  run of its batch whose pause, as it was read, has expired. A run that was
  resumed in the meantime is failed while it runs, and one that was cancelled is
  failed after its cancellation (`CancellationFinal` with `SessionNext`). The
  first case is a behaviour of the run `sessions`, which counts the slot it loses.
- *The tokens of a worker*: a run whose deployment was deleted keeps its token
  (`NoSlotLost` makes this exception); ten minutes later the worker removes from
  `_cancelling_flow_run_ids` an id that was never put there, which raises a
  `KeyError`; and a poll that is answered after the run was submitted makes the
  loop take a second token for it, a `RuntimeError` that
  `_submit_scheduled_flow_runs` does not catch. All three are behaviours of
  `WorkerSubmission`.

Transactions and locks:

- *A commit that fails at its end.* `commit` writes the children first and then runs
  the transaction's own `on_commit` hooks and writes its own record
  (`transactions.py` 303-318). If one of these raises, the transaction is rolled back
  and its rollback hooks run, but the children stay COMMITTED and their records
  written: `rollback` passes over them. `docs/v3/develop/transactions.mdx:97` says of
  a transaction that meets any error after staging that it "rolls itself back and
  does not proceed to commit anything". `RollbackIsTotal` speaks of what is not yet
  written when the rollback begins.
- *Tasks with retries in a transaction.* A task's first failure rolls the whole
  outer transaction back at once, before the engine retries it; what the retried
  attempt stages is never committed, and its lock never given back
  (`LocksStranded` names the case, "late").
- *Staging after a rollback.* `stage` overwrites every state but COMMITTED, so that a
  transaction that was rolled back by a task's first failure is STAGED and commits
  after all. Its commit comes to the failed attempt, which is ROLLED_BACK and
  releases its key's lock once more: by now that of the attempt that succeeded,
  which is written later. In between another thread may begin with the key, and
  compute its record ("again" in `OneOpenTransaction` and `RecordWrittenOnce`).
- *Cached tasks in a transaction that is rolled back* keep their locks: `rollback`
  returns early for a child that is COMMITTED ("cached").
- *An outer transaction that is found cached*, and whose block raises or whose mode is
  OFF, keeps its own lock for the same reason, and those of its children, to which
  no commit or rollback comes then.
- *A rollback hook that raises* leaves the transaction STAGED and its children, with
  their locks, as they are (`LocksStranded` names the case).
- *A write and a rollback hook that both raise*, in mode EAGER: the child gives
  its lock back, stays STAGED, and is committed again by the outer transaction
  ("again" in `RecordWrittenOnce`).
- *A second release.* The commit of a child that is committed already releases its
  lock once more; if the lock is gone that raises in the outer transaction's
  commit, which rolls back what is not yet written (`CommitChild`). In a rollback
  the release is in the `finally` clause: if it raises, the children before this
  one are passed over (`RollBackChild`).
- *A failed child* does not stop the outer transaction's commit: `commit` catches
  the error and returns False, which nobody looks at.
- *A lock file without content*, between `touch` and the write, makes whoever reads
  it raise (`ReadEmptyLockFile`). A process that dies leaves its lock files for
  ever, unless locks have a hold timeout. Threads that take two keys in opposite
  orders wait for each other for ever (`WaitersProceed` with such plans).

Task runs and tags:

- *A full tag among several.* The loop of `SecureTaskConcurrencySlots` does not
  stop at a full tag: the run keeps the slots of the tags behind it, and waits,
  when it asks again, for itself. A RUNNING run whose RUNNING is sent again loses
  slots in the same way: task runs have no `PreventDuplicateTransitions`.
  `SlotsHaveOwners` and `KeptWhileExecuting` name these runs (`delayed`).
- *A lost answer to a request for slots.* The request is sent again, finds the
  tags taken by the run itself and waits for ever (`WaitersServed` makes the
  exception); an engine that crashes, and a task run that is deleted, keep their
  slots.
- *A full batch of cancelled flow runs.* `clean_up_cancelled_flow_run_task_runs`
  reads until a batch is not full, but what it does takes nothing out of the query:
  with a batch's worth (200) of flow runs cancelled within a day the loop never ends,
  and subflows are never cleaned up; with more, the same ones may be read each
  time. A child that ended between the read and its turn is overwritten with
  CANCELLED.

Events:

- *A clock that stands still for three states.* `set_state` moves a state's
  timestamp on if it equals the last one; the third state within one tick of the
  clock equals the first, not the second, and gets an earlier timestamp than the
  second: the row stays on the second state (`RowIsLatest` with the clock
  `<<1, 1, 1>>`), although the comment at `task_engine.py:440` wants it "unique,
  or at least not equal to the last state".
- *A follower that is parked late.* If its leader reads its followers before the
  row is written, it waits for the sweep, a quarter of an hour. So does a
  follower whose nested handling raised: the leader is then retried, and dropped
  as seen.
- *The sweep* deletes the rows before it handles what it read: an event that
  raises loses the others, and a restart loses all (`lost`). It may handle a
  follower while its leader does, and then each of the two goes on to what follows
  the follower: an event may be evaluated twice although it is young itself.
  `HandledOnce` excepts the events that are too old and those after them (`Overdue`).
- *A trigger that raises* commits what was evaluated before it, and the retried
  event counts twice.

Task queue:

- *A restart* loses the queues, and nothing puts scheduled task runs back, although
  `docs/v3/develop/deferred-tasks.mdx` has them wait for a task worker and a test
  is called `test_server_restores_scheduled_task_runs_at_startup`.
- *An acknowledgement* is sent on receipt, before there is a token: a worker that
  dies loses the run. If it gets lost, the run is put back and executed by two
  workers at once; the engine does not ask the server before it begins. A worker
  without a limit executes it twice itself.
- *Any other error* than a disconnect, and the "quit" message, lose the run in the
  hands of the subscription.

Global concurrency limits:

- *Slots that never come back* (`SlotsComeBack`). `bulk_update_denied_slots` writes
  `denied_slots` alone, but `updated` has `onupdate=now`, and the decay of
  `active_slots` is counted from `updated`. Each denial discards what had decayed since
  the last write. If callers give up and come back, or are many, and each denial comes
  before a whole slot has decayed, a full limit stays full for ever, although
  `docs/v3/develop/global-concurrency-limits.mdx` says that a slot "eventually becomes
  available again over time".
- *A timeout behind a queue* (`TimeoutsKept`). `timeout_seconds` begins when the service
  handles the item. Until then the item waits behind those that were sent before it,
  and an item without a timeout is handled for as long as it is refused.
- *A limit that nobody created* (`NotImplicitlyCreated`). The server's `decrement`
  creates limits that it does not find, inactive and with a limit of one, since
  `create_if_missing` is true by default and the client does not send it, although the
  same page says that limits "are not implicitly created". After the first block,
  `strict=True` no longer raises.
- *A release that is sent twice*, because its answer was lost or because its caller
  was cancelled while it waited for it and the `ConcurrencyContext` releases again,
  gives back a slot of another call (`LimitKept` with "resend decrement").
- *A limit that changes while it is used*: a release reaches the limits that are
  active by then. One that is disabled between the two keeps the slots; one that is
  enabled between them loses slots of others (`LimitKept` with "status").
- *An increment that is sent twice* takes slots that nobody gives back; so does a
  caller that is cancelled while its service asks, and a process that dies
  (`NothingLeaks` with these troubles). Without decay only a user gets them back.

The scheduler:

- *Runs of an old configuration.* A scheduler collects runs of a page and inserts them
  in later transactions. A change in between deletes the old runs, and the scheduler
  inserts the old ones after it, although `docs/v3/automate/add-schedules.mdx` says
  that "previously scheduled flow runs that have not started are removed". They have
  the keys that the new runs would have, so that these are never inserted: parameters
  and tags of the old configuration stay until the next change (`overtaken`, the
  exception in `DatesKept` and `OldRunsRemoved`). A deployment that was paused, or deleted, meanwhile
  gets scheduled runs in the same way.
- *A round that succeeds without a deployment.* An error while a deployment's runs are
  generated, a query that times out for instance, is only logged. On PostgreSQL the
  transaction is aborted by it, so that the rest of the page fails as well, and the round
  goes on with the next page and ends as every other (`scheduler.py:200-218`). The dates
  in between have no runs until a later round gets through (`DatesKept` without the
  deployments that were skipped).
- *One schedule starves another.* Whether a deployment needs runs is decided on the
  runs of all its schedules together. A schedule that is added, or comes more often
  than another one, gets no runs while those of the other suffice for both minimums
  (`DatesKept` without `Only`). A worker that polls hides this, since it makes the
  deployment one of those that the second scheduler schedules anyway.
- *A date that is started twice.* Whoever replaces schedules, as every `prefect deploy`
  does unless all of them have slugs, gives them new ids and their runs new keys. A
  date whose run was started early, within the worker's prefetch window, is scheduled
  and started once more; `StartedOnce` speaks of one schedule.
- *Fewer runs than documented.* The same page has an hourly schedule scheduled for the
  next four days; the generation of dates ends as soon as both minimums are met, after
  three runs (`FewestRuns`).
- *A pause in two transactions.* Between them runs of a paused deployment can start.
  What a scheduler had collected before is inserted after the second one, as above.

## 5. Proofs

`FlowRunProofs` begins with `FlowRunOrchestration`, for any runs, proposals, initial
states, limits, retries, policies and bound:

- `TypeCorrect`: `Spec => []TypeOK`. Every rule returns one of eight verdicts
  (`RulesClosed`), compositions are closed (`ChainClosed`), so that a state a
  rule writes is well formed; each transform keeps the record's type.
- `SlotsNeverLeak`: `Spec => []NoSlotLeak`, under the assumption that no client
  selects the legacy policy, which takes slots without knowing of limits.
  `TypeOK /\ NoSlotLeak` is inductive: `NoSlotLeak` alone is not, because the
  limit's counter must be known to be a natural number. `HoldersStep` says how
  writing one row changes the number of holders; `SetStateSlots` goes through the
  cases in which the counter moves. An increment always comes with a new holder,
  and whoever leaves the slot states decrements: a case analysis over the rules
  of the policy in the order they run.
- `FullLimitAdmitsNobody`: `Spec => NoAdmissionBeyondLimit`, for every policy.
  Of all steps only a request under the current policy adds a slot
  (`LimitAfterCases`), after the conditional update found one free, and the run
  it took it for is written as `PENDING` (`RunAfterType`).
- `CancellationIsFinal`: `Spec => CancellationFinal`, as long as clients force
  nothing (`ForceAllowed = FALSE`; the user interface may force a run out of any
  state). `CancelledVerdict` follows the rules in their order: for a cancelled
  run, any proposal but `CANCELLED` is decided before a slot is asked for, and
  none of the deciding rules writes a state. The two services are cases of their
  own: `LateKeepsOthers` rejects late marking, and the failing of expired pauses
  finds the run paused.
- `RetriesAreBounded`: `Spec => []RetriesBounded`, as long as clients force nothing
  and create no run as `PAUSED`. The bound is not inductive: what a grant tests is
  the run's number of executions, which pauses and resumptions can leave as it is.
  The invariant adds a budget (`Budget`): a run has begun at least one execution
  for each retry it was granted, and one more while it is `RUNNING`, `PAUSED` or
  marked as resuming. A grant spends that one (`GrantVerdict`: only a `RUNNING` run
  is granted a retry), a run enters `RUNNING` with another or was already resuming
  (`CountsAfter`), and it is paused from `RUNNING` only (`PauseAccepted`); a forced
  pause would set the mark for a run that has nothing to spend.

These five take each request for one step, which is what SQLite guarantees.
The second part (`FlowRunSessions`) says what is left of them on PostgreSQL, for any
runs, sessions and proposals:

- `SessionsTypeCorrect`: `SessionSpec => []SessionTypeOK`. A session writes
  columns of a row that is no longer current, which could make up a run that is
  none. The invariant adds that the cached row of a session that sets a state is
  that of a paused run (`CachedRowsOK`), and that a row and its cached copies
  belong to the same deployment (`DeploymentsKept`, by `FreshId`).
- `OnlyOldRowsLoseSlots`: `SessionSpec => []LostSlotsCounted`, without the legacy
  policy. For the requests that lock first the proof reuses `AtMostLeaked(k)`,
  the form in which `SlotsNeverLeak` is proved: a step keeps the difference
  between slots and holders at most `k`, for any `k`. `CacheSlots` and
  `DeleteSlots` show that a step of a session adds to it only if it adds to
  `overtaken`.

The third part follows the flow runs through their whole lives, for any runs,
workers, submissions and worlds (`LifecycleSpec`):

- `LifecycleTypeCorrect`: `[]LifecycleTypeOK`; `LifecycleLeaksNoSlot`: `[]NoSlotLeak`,
  without the legacy policy. Each action of the lifecycle contains one of the
  server's (`LifecycleSteps`), about which the first part says everything that is
  needed.
- `SubmittedAtMostOnce`, `ExecutedAtMostOnce`, `RunningRunsHaveProcesses`:
  `[]SubmittedOnce`, `[]ExecutedOnce`, `[]RunningHasProcess`, in worlds that are
  `Orderly` and if runs are created SCHEDULED. All three follow from one invariant,
  `LifecycleInv`: of all submissions of a run at most one is *active*, which means
  that it may yet change the run, be it by the report of a crash; and a run without
  one is settled. The difficulty is a worker with an old list. With any number of
  workers, what protects the run is its state: the active submission knows it
  (`Follows`), so that PENDING is rejected as long as there is one, and a run that a
  report has crashed has no submission left. That is why nobody may cancel there. With
  one worker (`OneInv`) the protection is that a run with an active submission is on
  no list and is not put on one: it may then be cancelled, fail, time out and pause in
  its process, but not be rerun. Section 4 has the counterexamples that make these
  hypotheses necessary; the code has nothing that excludes them.
- `LimitIsSlotPool`: `LifecycleSpec => SlotPoolKept`, the refinement of `SlotPool`, in
  the same worlds, with any one limit, without retries and the legacy policy. The
  refinement needs more than that no slot leaks: the limit must count *exactly* the
  runs that hold a slot (`SlotsExact`), or the guard of `Acquire` does not follow. So a
  run must enter the slot states by asking for PENDING only (`Enters`), and that a
  process never proposes RUNNING for a run which has given its slot back follows from
  where each submission is (`PoolRun`).

`WorkerSubmissionProofs`, for any runs and any limit:

- `TokensNotLost`: `WorkerSpec => []NoSlotLost`. `NoSlotLost` is not inductive: a
  coroutine that is about to record the `infrastructure_pid` looks like one that
  still guards the token, and its next step ends it. `TokensAccounted` asks for
  more: from that point on the monitor must be there or the token be gone.
- `LimitKept`: `WorkerSpec => []LimitHonoured` as long as no infrastructure fails
  to start (`MayFail = FALSE`). The inductive invariant says that a run holds a
  token from the poll to the end of its monitor, that where `_submit_run` may
  give it back there is no monitor, and that there are no more tokens than
  `Limit`. The assumption is needed: with failures TLC finds a token that is
  given back for a run which another coroutine is about to start.

`CancellationCleanupProofs`, for any task runs, tags, limits and flow runs, on the
composed specification, so that the cleanup's forced transitions are steps too:

- `SlotOwners`: `Spec => []SlotsHaveOwners`. The invariant (`SlotInv`) adds to the
  types that only limited tags count anything (`SlotsLimited`: so that to give
  back the slots of a run's limited tags is to give back all of them), and states
  ownership of each run (`Entitled`) for every slot, those of engines included. A
  request moves only its own run's slots (`RequestStep`), so that one lemma per
  way to write a state is enough.
- `Admission`: `Spec => AdmittedWithinLimits`, for finitely many task runs, and if
  the task runs that stand for subflows have no tags: a subflow's states are
  forced on its parent task run, without asking for slots. `TakenWithinLimit` is
  the arithmetic; that only an accepted RUNNING enters is `RunningIsAccepted`.
- `SlotsKept`: `Spec => KeptWhileExecuting`, a case for each step that takes a slot
  out of a tag.

`EventServicesProofs`, for any events, whoever follows whom, any number of tasks,
copies, retries and depth:

- `EventsInOrder`: `Spec => CausallyOrdered`. A step that handles an event must find
  its leader handled, or be too old to wait. The step's own guard does not say
  so: the check may lie many steps of other tasks back. `StackFine` says it of every
  frame of the recursion: an event that is being evaluated is due, and one whose
  followers are read was handled; followers that a nested call of the sweep found
  waiting are parked, or were handled, since nobody forgets one without handling it.
  `Seen` says that what is remembered as seen was handled.
- `NoEventForgotten`: `Spec => []NothingForgotten`. `Kept` is inductive next to
  these: an event that was sent is in a queue, in the hands of a task, parked,
  read by a frame or the sweep, handled, dead, or lost with a restart; and what a
  task has in hand is still its message, which the broker takes back if it fails.
- `EvaluatedOnce`: `Spec => []HandledOnce`. The message of an event is in one place
  (`OnePlace`), all copies are first copies (`AllKnown`), and a call lies on one that
  handles the event it follows (`Nested`). `Alone` follows one event: with its message,
  in the table, as a waiter of the one call of its leader, in a call of its own, and
  then seen; each excludes the earlier ones. Two conjuncts carry the argument. A row
  that a leader is about to read is of an event that nobody has evaluated, since who
  evaluates it is a call on that of the leader (`NoCallYet`). And a row may outlive
  the evaluation of its event only until its leader is seen. Both need the leader's own
  uniqueness (`LeaderAlone`): this is where one event that is too old spoils those
  after it, and only those. `On` speaks of a call by task, depth and content, so
  that each action is proved from one fact about which calls there are after it
  (`OnStart`, `OnTurn`, `OnGrow`, `OnPop`, `OnClear`).
- `LatestStateWins`: `Spec => []RowIsLatest`, if the engine's clock shows one time for at
  most two states in a row and then moves on by more than one tick (`ClockTicks`). Under
  this hypothesis timestamps rise (`TimestampsRise`); without it they do not, see the
  clock that stands still in section 4. `Timestamps` is a recursive function, whose
  values are given here in closed form and shown to be the only solution by a
  least counterexample (`NatLeast`). `Newest` is inductive: the row shows the latest
  timestamp of the table of states.

`TaskQueueProofs`, for any task runs, keys, workers, limits and sizes of queues:

- `TypeCorrect`: `Spec => []TypeOK`; `NoTaskForgotten`: `Spec => []TasksKept`. Their
  invariant `Inv` adds what a connection may hold (`ConnectionOK`): a message on
  the wire is the one the server delivers and waits for.
- `ExecutedOnceAtATime`: `Spec => []OneExecutionAtATime`. `Uniqueness` counts the
  places of a run whose acknowledgements all arrived: a queue, one place in it,
  one server's hand, one worker, one execution exclude each other. `TokensHeld`
  bounds a worker's executions by its limit. Both are needed at once: a run that
  is put back is unique only if the worker that it was sent to never got it.

`TransactionsProofs`, for locks in files (`Managers = {"files"}`; with locks in
memory the run `memory_lock` shows the opposite) and any threads, keys, plans,
retries, commit modes and failures, crashes included:

- `TypeCorrect`: `Spec => []TypeOK`. That a rollback ends before it would come to a
  child before the first needs `OuterFine`.
- `OneTransactionAtATime`: `Spec => []OneOpenTransaction`. The invariant says that an
  open transaction's thread has the lock of its key. For this to survive the release
  of a sibling's lock, no sibling may have the same key: `KeysFine` says so, with
  the exception of attempts that failed and were withdrawn.
- `RolledBackWhole`: `Spec => RollbackIsTotal`, an action property. A step that
  rolls the outer transaction back before its commit finds nothing saved, since
  `OuterFine` says that before the commit only what was found cached is committed,
  unless the mode is EAGER (`NothingSaved`); while it is rolled back, what its tasks
  stage is taken over as it is, and the rollback of a child saves nothing.
- `RecordsWrittenOnce`: `Spec => []RecordWrittenOnce`. `Once` says that whoever is
  going to write a record found none under the lock, be it a task or an outer
  transaction (`Computes`); a write leaves nobody who computes the same record,
  since to compute it takes the lock (`ComputesAlone`). Both this theorem and
  `OneTransactionAtATime` except keys of which a transaction was committed again,
  after it had given its lock back (`CommittedAgain`, `Lost`).
- `LocksGivenBack`: `Spec => []LocksStranded`. A lock belongs to a transaction that is
  about to begin, is open, or is a child that is still open (`Held`). `Settling` says
  where the outer transaction is in each of its states (`Placed`), and of each child
  that is open that a commit or a rollback still comes to it, or that it has notes
  (`Settles`): while the outer transaction rolls back, those up to `next` are still
  to come, while it commits those from `next`. A rollback may end early, where the
  release of a child's lock raises; `Spared` shows that the children it then passes
  over have notes: they were found cached or began after the rollback.

`GlobalConcurrencyProofs`, for any limits, rates, calls, services and all troubles:

- `RateIsBounded`: `Spec => RateBounded`. The invariant is that the slots still taken
  after decay, times the ticks one takes to decay, cover what the bucket holds
  (`DebtCovered`): each floor of a quotient errs on the side of the limit
  (`FloorIsBelow`), a tick drains the bucket at least as fast as the row
  (`DecayIsSlower`), and a denial, which moves `updated` without writing the slots,
  only makes the row slower.
- `BlocksWithinLimit`: `Spec => []LimitKept`; `SlotsAccounted`: `Spec => []NothingLeaks`.
  What a set of calls occupies is the cardinality of a set (`Taken`: pairs of a call and
  a number up to its slots), since a sum over a set is defined by recursion. `LimitKept`
  speaks of the blocks that run; what is inductive is that `active_slots` covers all
  calls that have slots on the server's side (`Covered`), those included that were
  granted to somebody who is gone. `EveryoneMoves` says of each step whether it takes
  slots for one call while there is room, gives back those of one, or takes none.
  Without troubles the same argument holds with equality (`HoldingStepKeeps`); that a
  granted answer is never thrown away then needs `Calm`.
- `ServicesInOrder`: `Spec => []TypeOK`, which says of the services that the calls that
  wait are those in the queues, and that only the first of a queue is worked for.
  `QueuesOK` adds that a call is in its queue once and in no other, without which
  `Finish`, which drops the head, could drop the wrong call; `ValuesOK` adds that a
  service without retries left does not sleep, so that `tries` is never decremented
  below zero. That `Retry-After` is a number, not a division by a limit of zero, is due
  to the check before it that the request can ever be granted (`RetryAfterIsNat`).

`SchedulerProofs`, for any deployments, intervals, settings, sizes of pages and
batches, changes, errors and worlds:

- The invariant `Inv`. Keys are unique among `runs` and among what each scheduler has
  collected (`OneEach`), and a started run stays in the table (`BegunLeft`). A run that is
  current, which means that its deployment's scheduled runs were not deleted since it
  was generated, belongs to a schedule as it is now, and its date was wanted at some
  time that has come, with every earlier date from that time on (`Follows`, `Reaches`). It
  takes the order in which batches are cut to keep this while only some of what was
  collected is in the table (`BatchDownwards`); the mutant of `DatesKept` changes it.
  `ScheduledCurrent` says that only those in `overtaken` and `pausing` have scheduled
  runs that are not current. All requests of users are shown to be one kind of step
  (`Touches`), so that the invariant is proved for them once (`TouchesKeeps`).
- `NoRunStartsTwice`: `Spec => StartedOnce`; `OldRunsGo`: `Spec => []OldRunsRemoved`. Both
  follow from `Inv`.
- `NoMoreThanNeeded`: `Spec => []FewestRuns`. Take the last of the dates to come: it was
  wanted at one time, then all of them were, as counted from that time, and what was
  enough to stop then is enough now (`DatesToCome`).
- `EveryDateHasItsRun`: `Spec => []DatesKept`, if the settings make a scheduler that
  looks at a deployment see to this time and the next (`SettingsOK`: `min_runs` is at
  least 1, and 2 unless `min_scheduled_time` reaches the next tick; `max_runs` is at
  least 2; `max_scheduled_time` reaches the next tick). The defaults (3, an hour, 100,
  100 days) are far from these bounds, and beyond any of them TLC finds the property
  violated. `DatesKept` speaks of now; what is inductive is about the next tick too
  (`SettledOK`): a round that begins at a time sees to that time and the next, and it
  ends before the clock has moved twice. `MainRoundOK` follows the main scheduler's round:
  a deployment that was neither changed nor skipped since the round began has its runs, or
  will have them with what is collected, or is still to be read, or comes after all of a page
  that is full (`Passed`). The last disjunct carries the argument over pages:
  a deployment that the selection leaves out is not due, which means that its runs
  reach far enough (`NotDueSoon`), is before `last_id`, or the page is full
  (`PageFull`); and a page that is not full is the last.

The assumptions about constants, one per module, are evaluated by every run of
their modules; hypotheses of a theorem beyond them are named above.

Every safety property that a run checks, invariants and action properties, is stated by
one of these theorems. Only model-checked are locks in memory and the temporal
properties under fairness (`ScheduledRunsEnd`, `GrantedRetriesHappen`, `ResumedRunsStart`,
`WaitersProceed`, `WaitersServed`, `CancellationsSpread`, `EventsSettle`, `TasksBegin`,
`SomebodyGetsIn`): liveness and ENABLED are out of the prover's reach.

Type invariants: those of `FlowRunOrchestration`, `FlowRunSessions`, `FlowRunLifecycle`,
`TaskQueue`, `Transactions` and `GlobalConcurrency` are theorems; those of `Messaging`,
`EventServices` and `Scheduler` are part of the invariant of their proofs. `TypeOK` of
`CancellationCleanup` holds in the instance of `tags`, whose run leaves it out for what
it says beyond types.

## 6. Plan

In this order.

1. The buckets of triggers and composite triggers, on top of `EventServices`, with the
   theorem that a trigger fires once for its threshold.
2. The runner's shutdown: rescheduling while processes still report.
3. Threads and event loops.

## 7. Not modelled

Calendar arithmetic, blocks, artifacts, variables, logs, the UI's accounts, the
integrations and the infrastructure descriptions: rows written one at a time,
calls to external services, or data without behaviour. Of the modelled parts:
labels, inputs and run times of flow runs, the copy of a subflow's state in its
parent task run, heartbeats and base job templates of workers, result
persistence, hooks and contexts of the flow engine; timeouts of locks and the
isolation level READ_COMMITTED; task inputs and the expiry of caches; buckets,
composite triggers and actions of automations; brokers other than the one in
memory; task workers that are told to stop; averages of slot
occupancy and the events of concurrency blocks; runs that users schedule, delete or
move themselves. PROJECT.json lists each part
with its status.
