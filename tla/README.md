# Verification of Tapis Workflows

TLA+ modules that model the workflow engine (`src/src/engine/src`) and the API in
front of it (`src/src/api/src/backend`), the TLC runs that check them, and theorems
about them with proofs that TLAPS checks. Paths below are relative to
`src/src/engine/src` unless they start with `api/` (`src/src/api/src/backend`).

## 1. The system

A client asks the **API** (Django) to run a pipeline. The API stores a
`PipelineRun` with status `submitted` and publishes a workflow submission to
RabbitMQ. The **engine** consumes it: `Server` gives the submission a thread and
a `WorkflowExecutor` from its `WorkerPool`. The executor stages the run,
validates the task graph, and starts one thread per ready task; a task thread
stages its inputs, runs the task's executor (Kubernetes job, Tapis job or actor,
HTTP request), records the result in shared lists, looks for tasks that have
become ready and starts their threads. What happens is published over an
`EventExchange` to a notification handler, which calls the API back to update
the status of the run and of its task executions, and to an archiver.

| component | state | operations | hard behaviour | correct means |
|---|---|---|---|---|
| `core/workflows/WorkflowExecutor.py`, scheduling | `queue`, `finished`, `succeeded`, `failed`, `skipped`, `executors`, `ctx.output`; the threads | `start`, `_set_tasks`, `_start_task`, `_on_task_terminal_state`, `_on_pipeline_terminal_state`, `_fetch_ready_tasks` | every task thread reads and changes the lists without a lock over more than one access | tasks in dependency order, once; failures and skips propagate; no terminal event twice, and one does come |
| `core/workflows/GraphValidator.py` | marked edges, call stack | `has_cycle`, `traverse` | recursion over a possibly cyclic graph; marks never cleared | answers "cycle" for graphs with a loop and for no others |
| `owe_python_sdk/events/EventExchange.py` | `subscribers`, `handled_events`, `lock` | `add_subscribers`, `publish`, `reset` | publishers race with each other and with a reset; keys are `id()`s | terminal events handled at most once, by every subscriber, before the reset |
| `core/state/ReactiveState.py` | `_state`, `_lock`, `_called_externally`, hooks | get, set, `reset` | the flag that tells hook code from outside code is shared by all threads | every set of `ready_tasks` starts each thread once |
| termination (`terminate`, `_on_change_state`, `interruptable`, `reset`) | `terminating`, `terminated` | hooks at every access to the state | the state is taken from under threads that go on; threads outlive the run and meet the worker's next one | the run ends; no effect of an old run on a new one |
| `core/Server.py` | `active_workers`, threads, delivery tags | `_start_worker`, `_register_worker`, `_deregister_worker`, `_ack_nack` | one thread per message, no lock on `active_workers` | a message is settled once; the policies deny or terminate duplicates; workers come back |
| `core/workers/WorkerPool.py` | `pool`, `checked_out`, `lock` | `check_out`, `check_in` | `check_in` does not take the lock | no worker serves two runs; the limit holds |
| task executors (`owe_python_sdk/TaskExecutor.py`, `core/tasks/executors`, `contrib/tapis/executors`) | registered resources, `terminating`; jobs in the cluster | `execute` (polling), `cleanup`, `terminate` | termination while polling; calls that fail between two creations | what was created is deleted again; a run that is terminated ends |
| input staging, conditions, parameters | none of their own | pure evaluation and file writes | errors that the task thread does not catch | a task starts when its conditions hold and its inputs are there |
| notification handler (`contrib/tapis`) | HTTP session | one call per event; a thread per task on `PIPELINE_ACTIVE` | late and concurrent updates | the API's status follows the run |
| API dispatch and status (`api/services/PipelineDispatcher.py`, `api/views/Update*Status.py`) | `PipelineRun`, `Pipeline.current_run`, `last_run` | create run, publish, overwrite status | two systems in one operation; unordered updates | runs are chained; a final status stays |
| API pipelines and tasks (`api/services/TaskService.py`, `api/views/*Pipelines.py`, `Tasks.py`) | pipelines, tasks, contexts, credentials, rollbacks | multi-step create with hand-written rollback | a step fails half way; the rollbacks of one request meet the rows of another | all or nothing, and nothing of anybody else |
| API groups, users, identities, archives (`api/views`), authentication | their tables; the Security Kernel | create, change, delete, with refusals | two systems in one operation; checks before writes, without transactions | no row of credentials outlives its secret but in a deletion cut short; an owner stays admin |
| archivers; templates, repositories, IOC, configuration; request schemas; migrations; `engine-streams`; deployment | | I/O, wiring, shapes | | see section 6 |

`PROJECT.json` lists the components with their status and every hazard at its line.

## 2. Modules

| module | models | kind |
|---|---|---|
| `TaskGraph` | the submission as data; `_set_tasks`, `_get_initial_tasks`; `has_cycle` in closed form | operators |
| `GraphValidator` | `has_cycle` and `traverse`, the call stack as a sequence of frames | state machine |
| `EventExchange` | `EventExchange.py` with concurrent publishers | state machine |
| `DagScheduler` | what the executor promises about order | abstract specification |
| `WorkflowExecutor` | one run, from `start()` to the join of its threads | state machine; refines `DagScheduler` |
| `ReactiveState` | `ReactiveState.py` under concurrent `ready_tasks +=` | state machine |
| `WorkerLease` | what the pool promises: a worker is lent to one client at a time | abstract specification |
| `WorkerPool` | `WorkerPool.py`, `check_in` without the lock included | state machine; refines `WorkerLease` |
| `Server` | `_start_worker` for concurrent messages, registration and deregistration; extends `WorkerPool`, whose clients are the messages | state machine |
| `Values` | where values come from; conditions; input staging; parameters | operators |
| `TaskExecutors` | the executors of all kinds of task, their clean-up, and Kubernetes; extends `Values` | actions |
| `TaskRuns` | one worker through several runs: server thread, task threads, hook, termination; extends `TaskExecutors` | state machine |
| `Database` | the tables of the API with their keys, unique constraints and cascades; the secrets | operators |
| `RequestHandling` | what all views share: authentication, group checks, answers | actions |
| `TaskCreation` | `TaskService.create`, `SecretService`, the rollbacks of `Service` | actions |
| `PipelineViews`, `AccountViews`, `ReadViews` | the views: pipelines and tasks; groups, users, identities, archives; everything that only reads | actions |
| `RunViews` | dispatch, and the calls by which the engine reports about a run | actions |
| `Api` | the views together, on one database; each module of the API extends the one before it | state machine |
| `MCGraphValidator`, `MCEventExchange`, `MCReactiveState`, `MCServer`, `MCWorkflowExecutor`, `MCTaskRuns`, `MCApi` | instances for TLC | |
| `GraphValidator_proofs`, `EventExchange_proofs`, `ReactiveState_proofs`, `Server_proofs`, `WorkflowExecutor_proofs`, `TaskRuns_proofs` | theorems about one component each | proofs |
| `Api_proofs`, `ApiViews_proofs` | the API: what inserting, deleting and changing rows preserves, the inductive invariant and what a step must do to keep it; every view and every call of the engine, and the theorems. The second extends the first | proofs |

A definition whose name has a suffix and whose comment begins with "Fault" is a
deliberately wrong variant of the definition after it. The properties must fail
when the variant takes its place (`PROJECT.json`, `mutants`); no specification
uses it.

### WorkflowExecutor

A thread is named `<<task, n>>`: the n-th thread started for the task. `Server`
is the thread that calls `start()`, makes the first fetch, and joins the others.
`pc[self]` is the statement a thread is about to execute; one action is one
access to shared state or one call to the outside:

| code | actions |
|---|---|
| `start`, `_staging`, `_prepare_tasks`, `_set_tasks` | `StartUnbuildable`, `StartRejected`, `StartInvalidArgs`, `StartRun` |
| `_start_task`: skip check, conditions, input staging | `Begin` |
| `publish(TASK_ACTIVE)` | `Announce`, `Announcing` |
| `_get_executor`, `execute`, merge of the output | `Execute`, `Executing`, `Store` |
| `_on_task_completed / _skipped / _failed` | `Report`, `Reporting`, `Finish`, `Record` |
| `_deregister_executor` | `Cleanup`, `Deregister` |
| the two tests of `_on_task_terminal_state` | `Check` |
| `_on_pipeline_terminal_state` | `PublishTerminal`, `DeliverTerminal`, `ResetExchange` |
| `_fetch_ready_tasks`, `_remove_from_queue` | `Scan` (one turn of the loop), `RemoveFromQueue`, `QueueIndex`, `QueuePop` |
| `ready_tasks +=` and its hook | `Launch`, `LaunchLost`, `LaunchFirst` |
| join loop of `Server._start_worker` | `Join` |

A thread that meets an exception nobody catches goes to `dead` and does nothing
more. The staging is one action per outcome, because no other thread of the run
exists yet. `finished` is a list with repetitions in the code and the number of
entries per task here, since the code only appends, tests membership and takes
the length. The other lists are only tested for membership, and are sets. No two
tasks of a submission have the same id: the API's tables do not let two tasks of a
pipeline have one (`task_id_pipeline_id`, `api/models.py`). The
world outside (conditions, input staging, the executor's answer) is the set
`outcomes[t]` of the submission, of which each attempt takes one; what becomes of
them in detail is in `Values` and `TaskExecutors`. Termination is in `TaskRuns`.

The exchange is reduced to one subscriber, the notification handler: attached or
not, with the two terminal events it may already have handled. A handler that cannot
be constructed is logged, and the run goes on without it; whether it can is part of
the submission (`notified`). That reduction
keeps what a task thread can observe (a publish that is handled, returns early,
finds nobody, or raises because the exchange was reset in between). Starting the
threads of one list of ready tasks is a single step (`Launch`), which is what
`ReactiveState` does as long as no access falls into a hook of another thread
(`HandedIsStarted`). If one does, the list may be dropped with nobody started:
`LaunchLost`, which any handover may be, since another thread may be in a hook at any
time.

### EventExchange

`CheckHandled` takes the lock and tests, `MarkHandled` appends and releases,
`LookupSubscriber` is the second, unlocked lookup, `Handle` the call, `EndLoop`
and `ResetHandled` the two assignments of a reset. A loop keeps the dictionary it
started with (`keys[p]`). `AddSubscriber` may reuse a key, as `id()` may; it
happens while no thread is publishing, because a run adds its handlers before it
has task threads and the server joins those of the run before. (After a
termination a thread may be left that nobody joins; see `RunsSeparate` in
`TaskRuns`.)

### ReactiveState

The statement `self.state.ready_tasks += unstarted_threads` of a task thread, as
Python executes it: a get (`Get`), an extension of the list object in place
(`Extend`), and a set (`Set`). Lists are objects (`lists`), because a caller may
hold one that the hook is iterating over or has replaced. `Dispatch` is the
unlocked test of the flag in `__getattr__` and `__setattr__`; it leads to
`Internal`, which only touches `_state`, or to `Acquire`, `RunHooks`, the hook
(`Iterate`, `StartThread`, `EndLoop`, `Drain`), `LeaveHooks` and `Release`. A
start of a thread that was started before raises (`StartAgain`): the lock is
released, the flag stays down and the caller dies. `Peek` stands for all the
other accesses a thread makes to the state; what matters about them is that they
take the flag down and the lock. The variable `bypassed` is a history variable:
some access took the flag of another thread's hook for its own.

### WorkerPool and Server

A client of the pool is the thread that serves a message; `place[c]` is where it
is in `check_out` or `check_in`, and one action is one access to `pool` or
`checked_out`. Steps under the lock are still separate actions, because `check_in`
takes no lock and may fall between them: `PopFails` is the `IndexError` that
follows, after which nobody releases the lock. `count()` reads two lengths in two
steps.

| code | actions |
|---|---|
| decoding the body, `basic_reject`, nack of an invalid one | `Reject` |
| `worker_pool.check_out()` and `NoAvailableWorkers` | `CheckOutWorker`, `NoneAvailable` |
| an `IndexError`, or a middleware that raises | `RaisesEarly` |
| ack, `worker.key = ...` | `Accept` |
| ack, and a constraint of the idempotency key that does not split in two | `KeyRaises` |
| `_get_active_workers`, the branch on the policy | `Lookup` |
| `active_worker.terminate()` | `Terminate`, `TerminateRaises` |
| `can_start = True`, `active_workers.append` | `Register` |
| `start()` and the joins | `SkipStart`, `Start`, `StartRaises` |
| `_deregister_worker`, of a victim or of the own worker | `Deregister`, `Rewrite` |
| `check_in` | `CheckInWorker` |

Acks, nacks and rejects are counted when they are handed to the channel or to the
connection's thread, which executes callbacks one after the other; a closed
channel and the delay before a nack are not modelled. `active_workers` is a set:
the code only filters it and appends to it. A run is one step, from the staging to
the end of its threads; what it leaves on the worker is kept (`key`, `can_start`,
`ctx`, `terminating`, `terminated`, and `hooked`, which stands for
`_called_externally`). So `terminate()` meets a worker here before its staging or
after its threads have ended; in the middle of a run it is in `TaskRuns`. Its hook
needs the logger of the context, which a worker does not have whose staging failed
before it was set up (`Logging`).

The registry has no lock, and the code does not keep the policies when two
threads are in it at once: two submissions with `deny` and the same key both
start, and a worker appended between the copy and the assignment of
`active_workers` is lost. The history variable `overlapped` records that two
threads have been in the registry at the same time. `DenyExcludes` and
`TerminatesDuplicates` are stated for behaviours in which that has not happened;
runs are concurrent in them all the same. `KeyOfHolder`, `ImplementsLease` and
`SettledOnce` do not need the premise.

### GraphValidator

One step is a call of `traverse`, a return, or a turn of the loop in `has_cycle`.
The machine exists to justify the operator `HasCycle`, which `WorkflowExecutor`
uses in `Rejected`: `VerdictIsHasCycle` says they agree. The list comprehensions of
`_set_tasks` and `_get_initial_tasks` are the recursive function `InListOrder`, and not
`SelectSeq`, of which the provers know nothing.

### Values

A *world* is what the repositories see when they are asked for a value: whether
the worker has a context, the arguments, the environment, and the output file of
each task. `Resolve` follows the mappers: a key that is not given is `None` and no
error; an output that is not there, or anything without a context, is. The
verdict of a condition is `true`, `false`, `unresolved` (the task thread catches
the error) or `type_error` (it does not, and dies). The schema makes texts of
numbers, so a value is its place in the order of texts, in which 10 comes before
9 (`Number`). `StagingFails` says when the staging of an input raises.

### TaskExecutors and TaskRuns

A thread and an executor are both named `<<run, task>>`, a resource by its type and
the thread that created it. Normally a thread uses the executor of its own name;
`using[t]` is the one it has looked up, which can be that of the worker's next run,
because the lookup goes by the context the state has at that moment.

| code | actions |
|---|---|
| `execute()` of each executor up to the first call of somebody else | `Prepare`, with the `Refusal` of its kind |
| config map for the registry's credentials, creation of the job, each registered for deletion | `CreateConfigMap`, `CreateFunctionJob`, `CreateKanikoJob`, `CreateSingularityJob` |
| the polling loop: the read of the job, and the flag | `Poll`, `StopCleanup` |
| the logs of the builders | `KanikoLogs`, `SingularityLogs` |
| an HTTP request; the submission of a Tapis job and the wait for it | `Request`; `Submit`, `Follow` |
| Kubernetes runs, fails and retries the job | `JobStep` (external) |
| `_start_task` up to `TASK_ACTIVE`; its publication; the lookup of the executor | `Begin`; `Announce`; `Enter` |
| the callback with the result: `ctx.output`; the publication; the lists | `Report`; `Reporting`; `AppendFinished` |
| `_deregister_executor`; what follows it in `_on_task_terminal_state` | `Cleanup`; `Conclude`, `HandOver` |
| `_on_pipeline_terminal_state`: the event and the reset of the exchange | `EndRun` |
| `start()`: staging, first fetch; join; `reset()` | `Stage`, `Launch`; `Join`; `ResetByServer` |
| `_on_change_state` on an access | `HookStart`, `HookContext`, `HookPublish`, `StopExecutor`, `StopFails`, `HookEnd` |
| another submission: list of workers; `terminate()` | `Choose`; `Signal`, the hook, `ResetByTerminator`, `Mark` |

Between two of these actions the state can be taken from under the thread. Each
action therefore says what it does without a context, without its executor, and
with the flags set or not: `interruptable` swallows an exception under either flag,
and lets it kill the thread otherwise. `HookStart` stands for the access itself; a
thread runs the hook once in this model, since a second time would mark executors
that are marked. The hook iterates over the dictionary of executors while other
threads delete from it, which Python refuses (`StopFails`), and a hook that raises
leaves the flag of `ReactiveState` down for good (`hooked`).

An access is one step here; its inner steps are in `ReactiveState`, and the races of task
threads for the lists in `WorkflowExecutor`. A publication begins in one step and ends
in a later one, and if the exchange is reset in between, by a thread that ends the run or
by the termination (`ResetExchange`, `Disturb`), it may find its subscriber gone and raise
(`disturbed`): the thread dies, before it has cleaned up what it made, unless a
termination has set a flag meanwhile. Which subscriber is handed what is in `EventExchange`. No
dependency of these pipelines may fail or be skipped
(`can_fail`, `can_skip` are not used). A deletion that fails is not tried again
(`undeleted`). A call of the `Singularity` executor that fails with anything but an
`ApiException` leaves `execute` and is answered for by the task thread (`CallFails`).
The loop reads the job after it has looked at its flag, so one read
may follow the flag: `Poll` has no guard on it. An access waits while the thread itself
would have to run the hook, and passes while another one runs it (`Passes`): the flag of
`ReactiveState` is down then. A thread shares its executor (`Shares`) when another one,
of a later run, has looked the same one up, and has concluded it.

### The API

`Database` keeps the rows of all tables as one set. A row has its uuid, its id, what
the code compares, its unique key and `above`: the rows with which it is deleted,
because every foreign key cascades. There are no transactions. A view is a
sequence of steps, one per query, call of the Security Kernel or of the broker that
changes something; what it checks before its first write is one step, and what it
has read is in its local variables `loc[r]`. `Insertable` is where the database
refuses a row: a foreign key that is gone, or a unique constraint that two requests
have met after both had checked it.

A request has an operation, a user, a body, a worker process that serves it, requests
of its client that come before it (`after`), and a `fault`: the call that fails
while it is served. The views end in an answer, `crashed` being an exception that
leaves the view. `rollbacks[w]` is the list of the module-level `TaskService` in
process w, from which nothing is ever removed; so the rollback of one request
deletes the rows of those before it. `Hangs` lists which table has a foreign key,
its own or one of its target's, to which other; the database a batch starts with
has only such references, and its tasks have one pipeline each (`SeedAssumption`), and requests ask for known operations
with bodies of the schema's shape (`BatchesAssumption`).

`SecretService.delete` is two calls: the secret goes first (`DropSecret`), and then the
row is looked up and deleted (`DropRow`). A rollback of credentials is the same
(`Rollback`, `RollbackRow`). The faults `undo` and `undo_row` make the first or the second
fail; a view then crashes, and a rollback goes on with its next entry.

An acknowledged task can go in three ways that `DamageStaysInProcess` tells apart: a
request deletes it, its pipeline or an identity it uses (`Deletes`); the creation of its
pipeline is refused after another request has put the task into it (`Withdraws`); or
a rollback takes it, and then the request of the rollback and the one that made the task
were served by the same process.

In `RunViews` the engine is reduced to what decides which report is made when: the
thread of the run, the ones that publish an end of it, and the one that terminates it.
Its calls are steps of their own and arrive in the order in which these threads make
them. There may be two ends: a thread whose task failed while others were running
publishes that the run has failed, and if it is slow to reset the exchange, the thread of
the last task publishes that it is complete (`RunEnds`). Each call may fail, in runs with the
fault `report` (`CallsFail`), on its way there or on its way back; the exchange logs that
and nobody calls again. A failed first call means that no execution is made
(`RunActive`); `lost` keeps the tasks about which a call has failed. The
message holds the ids of the tasks; the rest of it is not kept.
`ReadViews` changes nothing; what it shows is what can be answered while rows
come and go.

## 3. Runs

| run | shows | states |
|---|---|---|
| `graph` | `traverse` ends on all 4096 graphs of four tasks (`WalkEnds`); its answer is `HasCycle` (`VerdictIsHasCycle`) | 9,548 |
| `graph_exact` (violation) | a graph with a loop passes: only the first dependent of each initial task is walked (`VerdictIsExact`) | |
| `exchange` | terminal events once per subscriber (`AtMostOnce`); nobody is thrown out unserved (`ResetReachesAll`); who has seen the end does not stay (`EndIsFollowedByReset`); publish returns (`PublishReturns`) | 160,774 |
| `executor` | order, refinement, executors, events; and, for workflows in which only leaves overlap, single starts, propagation of failures and skips, outputs, and the terminal event | 310,716 |
| `executor_hang` (violation) | a diamond hangs: its join runs twice and the test for equality of lengths is passed over | |
| `reactive` | hooks exclude each other (`HooksExclusive`); everything handed over is started, once, unless an access was taken for a hook's own (`HandedIsStarted`); every access returns, also after an error in a hook (`AccessesReturn`) | 177,027 |
| `reactive_lost` (violation) | a thread handed over is never started, although `+=` has returned (`HandedOverIsStarted`) | |
| `server` | messages are settled once and threads end, unless the pool's lock is lost (`SettledOnce`); a worker is lent once (`ImplementsLease`); keys belong to holders (`KeyOfHolder`); and without overlap in the registry, `deny` excludes (`DenyExcludes`) and `terminate` hits duplicates only (`TerminatesDuplicates`) | 606,300 |
| `server_reset` (violation) | a worker that was terminated from an outdated list is checked in with its hooks off | |
| `tasks` | what the threads of a run created is deleted when they are joined (`ResourcesReleased`); runs of a worker do not overlap (`RunsSeparate`); a run whose executors were marked ends although its jobs hang (`TerminationEndsRun`) | 267,849 |
| `api` | credentials have their secrets unless a deletion was cut short (`CredentialsResolve`); a refused pipeline leaves nothing (`RefusedLeavesNothing`); owners stay admins (`OwnerStaysAdmin`); runs are chained (`ChainKept`); executions of a completed run are reported (`ExecutionsReported`); final statuses stay (`FinalStatusStays`); a rollback hits its own process only (`DamageStaysInProcess`); every request is answered (`Answered`) | 183,680 |
| `api_rollback` (violation) | a request that fails rolls back a task whose creation was answered with success before (`AcknowledgedTasksStay`) | |

**What holds always and what does not.** The order of a run
(`DependencyOrder`, `ImplementsDag`), the executors (`ExecutorKept`), the
uniqueness of pipeline events (`PipelineEventsOnce`) and the return of the server
thread (`ServerThreadReturns`) hold for every workflow. Single starts, propagation and
delivery of the terminal event do not: two tasks that end together and have
dependents race in `_fetch_ready_tasks`. They are therefore stated under
`OnlyLeavesOverlap`: of two tasks that may run at the same time, neither has a
dependent. That is a premise about the races of the lists, and what they do is not
checked under it; with it the properties are about the rules by which one thread at a
time decides what to start. `executor_hang` shows that the premise is needed, and the instance
contains chains, ladders and stars that satisfy it and joins and diamonds that
do not.

`TerminalEventDelivered` needs more: that the handler could be constructed
(`notified`), that no thread died while staging inputs, and that no handover was lost in
the hook of another thread (`HandoverLost`). Without any of these the run is never
reported as over, and nothing in the code notices.

The properties of `tasks` name their exceptions, and each is a behaviour TLC
found. `ResourcesReleased`: a deletion that failed is not tried again; a thread that was
publishing its result while a failure beside it reset the exchange dies before it has
cleaned up (`FailedBeside`); in a worker
that was terminated, a thread that dies because the context is gone leaves its
job, and a late thread of the run before may look up, clean and remove the
executor of the new run. `RunsSeparate`: a thread handed over after the terminator
has reset the state is appended to a list nobody joins (`late`), and what it finds in
the queue of the run the worker has by then is appended to the list of the next one.
`TerminationEndsRun`: executors that wait for HTTP or for Tapis never look at
their flag, so the premise restricts it to those that run jobs.

So do those of `api`. `CredentialsResolve`: a deletion or a rollback that is between
the secret and the row, or whose second call has failed, leaves a row without its secret
(`CutShort`), and only that does. `RefusedLeavesNothing`: when a task of a `workflow` pipeline
fails with a `ServerError`, the view returns without deleting the pipeline (the
`ci` and `etl` types do delete it). `ExecutionsReported`: a task deleted between
submission and execution has no row to attach its execution to, and its thread in
the handler dies; one deleted and made again with the same id may come too late for the
execution, so the property is about tasks made before the run was asked for that are
still there (`Remaining`). A call about a task that failed, or the one that makes the run
active, is not repeated, so the tasks it was about (`lost`) are left out.
`FinalStatusStays`: a run that is terminated may complete
meanwhile, and the two updates come in either order; a run of which two threads have
published two ends, failed and completed, goes from either to the other. `ChainKept`: two submissions
of a pipeline at once read the same current run, and one of them is lost from the
chain, so it is stated for two that do not overlap, any third one
on the pipeline having been answered before both.

**Bounds.**
`graph`: four tasks in one submission order. Four is the smallest number for
both errors of the walk: two initial tasks, their join and its dependent; and an
initial task with a second dependent that is in a loop.
`exchange`: two publishers, two subscribers, two terminal events and a task
event, four calls of `publish` (`MaxPublish`). A race needs two callers; four
calls let a second set of subscribers meet what the first left behind.
Initially all publishers have the same, irrelevant, event.
`reactive`: three callers, two with a child to hand over and one with none (the
common case in the code, where `+=` is executed with an empty list), and one
access to another attribute (`MaxPeeks`, over all callers). Two callers are
enough to lose a thread; a third is needed to meet the flag an error has left down.
`server`: three messages, a pool of one starting worker with a limit of one or
two, and five batches of submissions with two keys: duplicates under each policy,
a bystander, an undecodable body, an invalid one, a failing middleware, a
failing staging, also of a worker that is then terminated, and a key that cannot be split.
Three messages make at most three workers, so `Worker` never
limits `Create`. Two submissions race in the registry; the third finds what they
have left. A limit of one is enough for the pool to be exceeded and for
`PopFails`.
`executor`: workflows of at most four tasks, one per way in which threads can
meet. `MaxStarts = 2`: a task is started twice when two threads scan at the same
time. A third start would need a third thread with a common dependent ready.
`ServerThreadReturns` would fail if the bound ever stopped a thread.
`tasks`: pipelines of one or two tasks; each submission names its own bounds, the
number of runs of the worker (`runs`, at most `Runs` = 3) and of calls that fail
(`faults`, at most `MaxFaults` = 1). Two runs are what it takes for a thread to
outlive its own, a chain of two what it takes for one to be handed over late, and three
for a late thread to hand a task of the second run over to the third. Every
kind of task, context and destination is submitted by itself with one failing call,
every condition and input with none. Runs without a handler, and runs of which one task
fails beside another one that has a job, are among them.
`api`: batches of at most three requests, two worker processes, one failing call per
request, on a database of twelve rows. Two requests meet in a race or a rollback, the
third is a bystander in another process, or the deletion of what they work on. The
faults go through every write in turn, through the two calls of a deletion (`undo`,
`undo_row`), and through every call of the engine about a run (`report`, of which any
number may fail).

**Fairness.** `WorkflowExecutor`: weak fairness of each thread's next statement
and of the server's. These are operating system threads, none waits for another
except in `Join`, and an executor's `execute` is assumed to return.
`EventExchange`: weak fairness of the statements inside `publish`; nobody is
obliged to publish or subscribe. Weak fairness suffices for `PublishReturns`
although the lock is shared, because the number of calls is bounded and each
call takes it a bounded number of times. `ReactiveState`: weak fairness of each
caller's next statement, for the same reasons. `Server`: weak fairness of each
message's thread, whose workflow is assumed to end; the lock of the pool is
taken at most once per message. `TaskRuns`: weak fairness of what the server thread, a
running hook, the terminator once it has chosen and the task threads do by themselves
(`Running`), taken together: each of them makes finitely many steps, so all of them
come to their end. None of the jobs, of Tapis or of an HTTP server, which may hang, and
nobody is obliged to terminate a run. `Api`: weak fairness of the next step as a whole: the
database, the Security Kernel and the broker answer, and the batch is finite.
`GraphValidator`: a sequential program goes on.
`CHECK_DEADLOCK FALSE` is set where the program really stops: the
validator has answered, the run is joined, nobody publishes any more, every
caller is through, every message is settled or the lock of the pool is lost, the
worker has had its runs, the batch is answered and its runs are over.

## 4. Theorems

All hold for every value of the constants that satisfies the modules' assumptions
(`RequestsAssumption`, `MaxStartsAssumption`, `ServerAssumption`,
`PipelinesAssumption`, `ConfigAssumption`, `HandedAssumption`, `PoolAssumption`, `BatchAssumption`,
`NoMessageAssumption`, `TaskAssumption`, `RunsAssumption`, `FaultsAssumption`, `SubmissionsAssumption`,
`NoRowAssumption`, `SeedAssumption`, `BatchesAssumption`); TLC evaluates these on every run.

`GraphValidator_proofs`
- `ClosedFormIsExact` (`VerdictIsHasCycle`): the recursion answers what the closed form says,
  on every graph. What the recursive functions compute is shown first, by the least
  argument for which it would be wrong: `InListOrder` (`InListOrderSound`), and `WalkedEdges`, which is
  closed under following edges (`WalkedClosed`) and in every closed set with the entry
  edges (`WalkedWithin`). It is closed because as long as a round finds a new target the
  targets are as many as the rounds, and initial tasks are never targets. The
  invariant `Walking` of the machine then says, while it has not answered: an edge starts
  where another one ends, or at a root that has had its turn (`Origins`); each frame
  was pushed with its own edge into its vertex (`Frames`); what it has still to follow was not
  followed before, unless its vertex was reached twice (`Untaken`); what is to be walked
  has been or is still to be followed by a frame (`Unfinished`); and a vertex with
  dependents that was just reached is on top, at its first edge (`AtOnce`). `Untaken`
  gives that the answer "cycle" comes only with a vertex reached twice, `AtOnce` that it comes
  whenever there is one, and `Unfinished` that without it all of `WalkedEdges` was walked.
- `AcceptedHasNoLoop`: what is accepted has no cycle among its walked edges. Of the edges
  of a cycle take one that is walked in the earliest round: the edge before it on the cycle is not
  walked earlier, so its source is reached along another edge too, which is rejected. So the cycles that
  `graph_exact` finds accepted are beyond another dependent of an initial
  task than the first, or cannot be reached from any.

`EventExchange_proofs`
- `TypeCorrect`. Positions in the loop are part of the type invariant: `mark`,
  `lookup` and `handle` only happen at a position inside `keys[p]`.
- `DeliveredAtMostOnce`. `AtMostOnce` is not inductive. The invariant `IInv` adds
  that the lock is held exactly by the publisher at `mark`, that a delivery that
  was made or is about to be made has its mark in `handled_events` or its
  subscriber is no longer subscribed, and that of two publishers at most one is
  on its way to deliver the same event to the same subscriber. The reset is the
  delicate step: it removes subscribers before marks, and a publisher that still
  has a removed key meets the lookup, which raises.
- `LockIsReleased`: the lock is held by the publisher at `mark` and by nobody else.
- `ResetFollowsDelivery` (`ResetReachesAll`) from `ResetInv`: the dictionary of a publisher
  has all who are still subscribed, since nobody subscribes meanwhile (`KeysComplete`), and
  a publisher only gets past a handler by calling it, or because it was not added for the
  event (`Walked`). One that finds the event handled returns, and resets nothing.

`ReactiveState_proofs`
- `TypeCorrect`.
- `HooksAreExclusive` from `LockInv`: whoever is between taking the lock and
  releasing it is its holder, and the flag is down only if somebody is past
  `RunHooks` in a hook or has died in one. Most steps are `Aside` of both.
- `HandedOverAreStarted` from `HandOverInv`. As long as `bypassed` is FALSE, a
  caller is never at `internal`; whoever runs the hook on `ready_tasks` has that
  list to itself, with exactly its own children after a set and nothing after a
  get (`HookList`); otherwise the list is empty (`IdleList`); between its get and
  its set a caller owns a list nobody else can reach (`Private`), because the
  hook that ran on the get has replaced it; and the started children are those
  whose caller has come so far (`StartedInv`). That the get's hook swaps the list
  is what makes `+=` safe at all, and a caller whose get bypassed the hook shares it.

`Server_proofs`
- `PoolLendsOnce` and `ServerLendsOnce` from `PoolInv`: the deque has no
  repetitions, a worker in somebody's hands is not in it, and no two clients have
  the same one (`LentOnce`). The lock is not part of the argument: what makes
  lending exclusive is that a pop and an `appendleft` are single steps, and that
  `check_in` expels only a worker of the deque. The lemmas before it say what
  taking off, prepending and removing the first occurrence do to a sequence
  without repetitions.
- `KeysBelong`. `KeyOfHolder` needs `KeyInv`: a thread holds its worker from the
  ack to the end of its own deregistration, and once that has cleared the key,
  nobody sets it again before the worker is back, because only its holder sets
  keys (`LeavesWithoutKey`). The stale lists of other threads do no harm to keys:
  they only clear them.
- `TypeCorrect`. That `settled` is at most 1 needs `Settling`: a thread that can still
  settle its message has not done so, and `acked` is set where it has.
- `DenyKeepsApart` and `TerminationJustified` from `RegistryInv`. Two of its parts hold
  of every behaviour: who has a victim is deregistering it under the policy terminate
  (`Victims`), and the context of a worker is that of its holder, once that has started
  (`Contexts`). The others (`Ordered`) hold as long as no two threads have been in the
  registry at once. The list then has only workers that are held (`ListedHeld`), the copy a
  thread is about to assign is up to date (`CopyCurrent`), what it is about to terminate
  is listed under its key (`Duplicates`), a submission that is served and not terminated
  is listed under its own (`Served`), and what a lookup has told a `deny` still
  holds at its append (`NoTwin`). The delicate step is `Deregister`: the key it
  clears may be that of another thread's worker, which is no longer to be served since it
  has been terminated.

`WorkflowExecutor_proofs`
- `TypeCorrect`, with `ResultKnown`: a thread that has passed its verdict has one.
- `RunsInOrder` from `OrderInv`: every task in a thread's list of ready tasks has
  all its dependencies in `finished` (`ReadyInOrder`), and every failed task is
  in `finished` (`RecordedIsFinished`), because `failed` is appended second. The
  invariant survives every interleaving because `finished` only grows, and
  nothing that `QueuePop` does to the queue can put a task into a list of ready
  tasks.
- `RefinesDag`: each step is a `Start`, a `Finish` or a stutter of `DagScheduler`.
- `ExecutorsAreKept` from `ExecutorInv`: executors only go when the thread of the
  task has appended it to `finished`.
- `EventsDeliveredOnce` from `EventInv`. While the handler is attached, a terminal event
  is in `handled` before it is delivered and at most one thread has it to deliver
  (`Marked`); marks are only cleared once the handler is gone, and it is attached in one
  place, before there are threads (`ServerFirst`, `FirstFetch`). ACTIVE is first for the
  same reason.
- `StartsOnce`, `FailuresStop`, `SkipsStop`, `OutputsKeptForDependents` from `SerialInv`
  and `FatesInv`. `OnlyLeavesOverlap` is the premise the properties have anyway. The
  argument has three steps. When all dependencies of a task are finished, so are all its
  ancestors (`AncestorsWithin`), because nothing is finished before its own dependencies
  are; so of two tasks that are free at once neither is an ancestor of the other, and
  the premise makes both leaves (`FreeTogether`). Therefore a thread whose task has
  dependents is the only one alive (`Alone`), and when a leaf is started nothing is left
  in the queue (`LeavesLast`). Therefore fetches do not meet: what is collected is what is
  free among the tasks looked at (`Collecting`), what is removed is at the place where it was found
  (`Removing`), and nothing free stays behind (`Launching`), so nothing is collected
  twice (`QueueFresh`, `Once`). `FatesInv` follows the records of a task that
  has dependents: they are complete before the fetch that may start these, since both are
  steps of one thread and no other is alive (`Recorded`, `FailureStops`, `SkipsSeen`).
  Two merges of outputs may overwrite each other, but only those of leaves
  (`OutputsKept`).

`TaskRuns_proofs`
- `TypeCorrect`. The type of a variable is not inductive by itself: a late thread looks
  up executors of a run that is not its own, so `OfPipeline` says that every thread
  there is belongs to a task of the submission, and `HookOwner` that the server thread
  only runs the hook while it launches.
- `ThreadsSeparate` from `Separate`: a thread that runs is in the list of those to be
  joined or was handed over late (`ActiveListed`); when the join is over, all of the
  list are (`JoinedOver`); in a worker without a late thread, all in the list are of the
  present run (`OneRun`); and no thread is started twice (`StartOnce`), since what is in
  the queue or ready has no thread yet. Only the reset of a terminator makes a
  hand-over late, hence the exception in the property.
- `ClusterReleased` from `ReleaseInv`. While nobody has chosen to terminate, every thread
  uses its own executor and the context is that of the run (`Calm`); a publication is only
  disturbed by a thread of the run that has failed its task, because the run is complete
  only when every thread has appended its own (`Heard`); an executor of
  the context is in the state until a thread concludes it (`ExecutorsKept`); and a
  resource that is in the cluster and whose deletion has not failed is registered with
  the executor of its task in this run, up to the clean-up of the thread that
  created it (`Tracked`). A thread reaches its end past the clean-up only, unless its
  publication was cut short, or it has lost the context or its executor, which are the
  exceptions of the property.

The API (`Api_proofs`, `ApiViews_proofs`)
- First come the lemmas on tables: an insert that `Insertable` admits, a
  delete with its cascades and a change of fields that are not keys keep foreign keys,
  unique constraints and the transitivity of `above` (`InsertSound`, `DeleteSound`).
- `Invariant`: `ApiInv` is inductive. Its parts say where a request is (`Control`); that
  the rows are sound (`Sound`) and refer to tables theirs have foreign keys to
  (`Hanging`); that no row is made twice and none comes back (`Fresh`: nothing that a
  request may still insert is among the rows, the registered rollbacks and what requests are
  about to delete); that a process only registers rows and secrets of its own requests
  (`Entries`); that groups have their owner as admin (`Owned`), credentials their secrets, or else a deletion
  that was cut short between the two (`Secrets`), and tasks the contexts and credentials of the request that made them
  (`Lineage`); what the engine has reported (`Reporting`); that a request's local
  variables point to rows of the table it takes them for (`Points`); and what a
  refused pipeline leaves (`WithdrawalOf`). Each view is shown to be a `Step(r)`: an
  insert of a row that was ahead of r, a removal, or a revision, with what it does to
  the secrets and rollbacks and where it goes; a lemma then gets `ApiInv'` from
  `Step(r)` once for all views.
- `DatabaseKept`, `SecretsKept`, `OwnersKept` and `RefusalsLeaveNothing` follow from
  `Sound`, `Secrets`, `Owned` and `WithdrawalOf`. For secrets the point is `Fresh`: a
  rollback may delete a secret whose row another request is about to make only if
  uuids could come back. The row that a deletion leaves without its secret is the one
  it has in hand, or, if its second call failed, one of those its process had registered. For
  owners it is that `DeleteUser` compares with the owner of a
  group whose owner cannot change, and groups are never deleted.
- `StatusFinal` from `Reporting`: a report that is still to be made is of an end
  that was published, and so is a final status; ACTIVE is reported before any end. So
  after a final status, unless somebody terminates the run, only the other of two published ends can follow.
- `DamageContained`: every step that removes rows is one of those `Takes` lists. A rollback
  removes the credentials, contexts and destinations its process has registered; by
  `Lineage` a task that goes with one of them was made by the same request, whose
  process is that of the rollback by `Entries`. The credentials of an identity, which
  other tasks may use, are deleted by `DropRow`, on the deletion of the identity, which is
  a deletion, or after its creation was refused, when nothing uses them yet.
- `ChainIsKept` (`ChainKept`) from two invariants on top of `ApiInv`. `DispatchInv`: what a
  request for a run has read, that the requests it waits for are done, and that a run
  hangs on its one pipeline. `ChainInv`, for a run q and the next run r of its pipeline,
  with no other in between (`Named`): q stays current until r has read it into its local
  `target`, and when r has made itself current q is the pipeline's last run.
- `ExecutionsAreReported` (`ExecutionsReported`) from `WorkInv`. `Progress`: all executions
  have been asked for before the first task ends, and a run is only completed when all its
  tasks have ended; and if it is, its handler was there when they did, since nobody
  publishes an end without one (`Heeded`). `ExecutedOf`: a task whose execution has been
  asked for, by a call that did not fail, has one; it hangs on nothing but the run and the
  task, so no delete takes it while these two stay. That the call of the engine finds the
  right task needs that the tasks of one pipeline have different ids, and that a task has
  exactly one pipeline.

Model-checked only: liveness (`TerminalEventDelivered`, `ServerThreadReturns`,
`EndIsFollowedByReset`, `PublishReturns`, `AccessesReturn`, `SettledOnce`, `WalkEnds`,
`TerminationEndsRun`, `Answered`), which the prover does not reach. Every safety property
that a run checks has a theorem.

## 5. Plan

Done: the graph validator, one run and its refinement of `DagScheduler`, the
exchange, the reactive state, the worker pool and the server; termination, reuse
of a worker and the task executors with the values they read; the API from a request
to the last report about a run; theorems for all safety properties that the runs check.
Left: submissions in which a task names the same parent twice, whose dependency graph
has an edge twice.

## 6. Not modelled

- Archivers (`contrib/tapis/middleware/event_handlers/archivers`, `core/middleware`):
  each copies the files of a finished run to some system, in the thread that publishes the event.
  The exchange drops what a handler raises (`Handle` in `EventExchange`), and there is no
  state besides the files.
- The connection to RabbitMQ and its retries at start-up: a loop around a call, with no
  state of the engine yet.
- Templates, git repositories, the IOC container and the configuration: file access
  and the wiring of objects, without a protocol of their own. That cloning may
  fail is in `TaskExecutors` and `PipelineViews`.
- The schemas of submissions and requests (`owe_python_sdk/schema.py`,
  `api/views/http/requests.py`): declarations of shapes. A body is valid or not
  here; what their validators do to values (numbers become texts) and the combinations
  they let through are in `Values` and `TaskExecutors`.
- Migrations, start-up and the `Nuke` view of the API: the tables once more, and
  development only. `CIPipelines` is not routed.
- Submissions in which a task names a parent twice: nothing checks that it does not
  (`depends_on` is a list), and `_set_tasks` then has the task twice among the dependents of the
  parent. `Pipeline` leaves them out.
- The contents of jobs, outputs, logs and messages.
- `engine-streams`, a prototype in JavaScript, and the deployment files.
