# TalentMind: models and proofs

TLA+ models of the stateful core of TalentMind, the TLC configurations that
check them on small instances, and TLAPS proofs about them for every instance.
Paths below are relative to the repository root; `platform/...`, `pipeline/...`
and `ai/...` are under `src/`.

TalentMind is a recruiting application (Streamlit) over pure scoring code, with
an in-process "enterprise platform" (`platform/`): job runtime, integrations,
security and deployment services. Nearly all state is in Python objects, every
method is synchronous, and hardly anything takes a lock. What is hard is
therefore seldom inside a method. It is the order in which calls of several
tenants, executors, tickers, threads and browser sessions arrive, what a caller
still believes when it calls back, what a method leaves behind when it raises
halfway, and what one object remembers from one use to the next.

## 1. Inventory

| Component | State | Operations | Hard behaviour | What makes it correct |
|---|---|---|---|---|
| Job platform `platform/runtime/jobs` | job repository, priority queue with a capacity, schedule | submit, promote_scheduled, claim, complete, fail, cancel | overflow halfway through an operation, reports after a cancel, retries, dependencies that end while others are submitted | one ticket per job, dependencies first, bounded retries, priority order, tenant isolation, terminal means terminal, nothing stranded but by an overflow |
| Worker pool `platform/runtime/workers` | status, current job, last heartbeat of each worker | register, deregister, scale_to, heartbeat, mark_busy, mark_idle, drain, check_health | heartbeats racing timeouts, drains racing health checks, dispatchers that found the same worker | the pool's picture is the truth; one job per worker; a drained worker gets no more |
| Resilience engine `platform/runtime/resilience` | circuit state, failure count, time of the trip | execute (attempt, retry, recover), guard, record | attempts that overlap, outcomes that arrive after the trip | an outage is left alone for the recovery time, and ends |
| Hiring pipeline `pipeline/` | one JSON file with all candidates | move, advance, edit, view (which creates) | whole-file read-modify-write by several sessions, a shared temporary file, crashes | legal histories, nothing lost, the file readable |
| Workflow engine `ai/orchestration` | per run: statuses, outputs, context; per engine: ledger, execution count | run, cancel | failing and missing agents, retries, fallbacks, duplicate work, ceilings, cancellation | no work twice, dependencies first, an honest verdict, every run ends |
| Runtime composition `platform/runtime/{bootstrap,demo}.py` | none of its own | claim, mark_busy, complete or fail, mark_idle | a drain between claim and mark_busy; lost workers | the managers agree; no job RUNNING without an executor |
| Background services `platform/runtime/services` | last run of each task | register, unregister, run, tick | a failing task ends the tick; registrations during a tick | every due task runs |
| Execution engine `platform/runtime/execution` | none | run_sequential, run_parallel, run_batch, run_chunked | stride and slice disagree for sizes below one | every item processed once |
| Load manager `platform/runtime/load`, `platform/api/ratelimit.py` | slots, throttle, buckets | acquire, release, configure, check | reconfiguration under load, a clock that is set back | no slot leaks; limits hold |
| Cache `platform/runtime/cache` | entries with expiry | get_or_set, invalidate, namespaces | an invalidation during a computation | a value that is out of date does not stay |
| Event bus `platform/integrations/events` | log, subscriptions, dead letters | publish, subscribe, unsubscribe, redeliver | publishing and unsubscribing from a handler, redelivery after unsubscription | no event is lost |
| Webhooks `platform/integrations/webhooks` | deliveries, seen signatures | dispatch, retry, receive | lost answers, replays, retry of what was delivered | accepted once, and reported as delivered only if accepted |
| Synchronisation `platform/integrations/sync` | job with cursor and attempts | run, recover, resolve | the attempt budget of an earlier run, interruptions | every failed job can be resumed |
| Integrations and credentials `platform/integrations/manager.py`, `.../common/secrets.py` | integrations, vault | install, configure, connect, disconnect, disable, rotate, uninstall | installations that are refused halfway | a credential has one owner, and goes with it |
| Security secrets `platform/security/secrets` | leases | issue, rotate, revoke | expiry beside users | what is revoked is not served |
| Configuration governance `platform/security/configuration` | versions, change requests | propose, approve, reject, rollback | several changes of one key | each request carried out once; nobody waits for nothing |
| Audit log `platform/security/audit`, `platform/audit` | hash chain | record, verify, retention | pruning in the middle | an untouched chain verifies |
| Authentication sessions `platform/auth` | sessions, refresh tokens, passwords, recovery tokens | login, validate, refresh, revoke, change and reset of passwords | lazy expiry, rotation | one way to prolong a session; none outlives its password |
| Subscription, notifications, deployment `platform/...` | meters; scheduled messages; releases | see source | plan changes, preferences that change, rollback | quotas hold; preferences respected |
| Tenancy, organizations, workspaces, RBAC `platform/...` | records by tenant | lookups | – | isolation |
| Orchestrator, planner and registry `ai/orchestration` | agents by capability | plan, register | – | the graph is valid |
| Scoring, semantic, intelligence, reasoning | none | pure functions | – | – |
| Agents, providers, UI | – | prompts, model calls, pages | – | – |

Interactions: the runtime composition claims a job from the job platform on
behalf of a worker of the pool, and tells both how it ended. Background services
promote the schedule and check the workers' health. Executors wrap their work in
the resilience engine. Integrations publish on the event bus, which the webhooks
deliver with secrets of the vault. Pages of the user interface call the pipeline
engine and the workflow engine directly, each browser session in its own thread.

## 2. What is modelled

Five components are modelled operation by operation: the job platform, the worker
pool, the resilience engine, the hiring pipeline and the workflow engine. `Dispatch`
composes the first two. Eleven smaller services, each a module of its own, are put
side by side by `Services`.

### JobPlatform.tla (and TaskGraph.tla)

One action per call of `JobManager`: `Submit`, `Promote`, `Claim`, `Complete`,
`Fail`, `Cancel`. A call is one step because nothing in it waits; an operation
that raises halfway (`QueueOverflowError`) is one step to the state it leaves
behind, e.g. `FirstThatFit` is the part of a loop that was done before the queue
was full. The list of the queue, which every push sorts, is the set of its
entries: priority and sequence number determine the order. Job ids are numbers
of submission, which is the order of the repository. `executing` is the world
outside: what executors hold and will report, whatever became of the job.

`TaskGraph` is what the platform promises its users: a task begins only when all
it needs is done, has one worker at a time, is never begun again after success,
and not more often than its limit. `Graph` in JobPlatform.tla is the refinement
mapping, by state functions of the platform.

### WorkerPool.tla

`status`, `current` and `stale` are what the pool believes, `tasks` what the
workers do. Dispatchers share the pool: `Find` is `available_worker()`, and `Assign` is
the `mark_busy()` that follows at any later time for the worker that was `found`, which
may have been taken, drained or removed since. `CanTake` is the guard of
`mark_busy()`, which accepts an available worker or one that is BUSY already;
`MarkBusy` is what the call does, and `Dispatch` uses it too. `Finish` is a worker that
ends a job and calls `mark_idle()`; `CheckHealth`, `Heartbeat`, `Drain`, `ScaleUp`,
`ScaleDown`, `Register`, `Deregister` are the methods. Time is the set of workers whose
last heartbeat is older than the timeout. STARTING is a status that `IsAvailable`
accepts and that no worker shows between two calls, since `register()` ends at IDLE.
`misjudged` is a history variable: the workers at a job that the pool has lost sight of,
because a health check marked them UNHEALTHY or a second drain marked them STOPPED
while they were at work, or because `mark_busy()` gave them a second job. The pool's
picture of them is incomplete until they are out of work.

### Resilience.tla

`Execute` enters `execute()`, whose loop is `Begin` or `Refuse` (the guard), and at
any later time `Succeed`, `Retry` or `GiveUp` (the two branches of the `except`).
`Tick` is the clock; times are ages, capped where no comparison of the code can
tell them apart. Attempts of several callers overlap freely. `broken` is the dependency: out of order at first, when
calls may end in any way, and repaired for good at some time, after which it
answers within the budget. Delays between attempts are accounted by the code and
not slept, so `Retry` leads back to the guard at once.

### HiringFunnel.tla and PipelineStore.tla

`HiringFunnel` is the funnel: the transition table, `derive_status`, and one step
per change of a candidate's record. `PipelineStore` is how the code does it: read
the file (`Look`), change the record in memory, read the file again (`Load`), truncate
the temporary file (`Open`), write it (`Write`), rename it (`Replace`, or
`ReplaceFails` when another session has renamed it first). Files are inodes, so a session that has
opened one goes on writing to it after somebody renamed it, and `Unreadable` is a
file that is truncated or mixed. `Crash` stops the process anywhere. `Promise` is the
refinement mapping: the records of the funnel are what `load()` returns.

### WorkflowEngine.tla

One engine and a sequence of `run()` calls: `Start` (validation, layers), the two
kinds of skip, `RunTask` (ceiling, ledger, candidates), `AgentSucceeds`/`AgentFails`
for every invocation, `Fallback`/`FallbackRaises`, `Record`, `Cancel`, `Complete`. The
ledger and the execution count are the guard's and outlive a run, which is what
the engine of an orchestrator sees. A task is gated by every dependency, optional or not,
as in the code. Graphs and policies are constants; which
agents there are, what they return and when somebody cancels is chosen freely.

### Dispatch.tla

`JobPlatform` and `WorkerPool`, instantiated over one set of workers and driven by
the loop of the demo and the tests: each worker's runner claims a job, marks the
worker busy, works and reports, and marks it idle. The four calls are atomic one by
one, and nothing makes them one (`MarkBusy` is the pool's own, and `at` is the call that comes next, `held` the job the
runner believes to have). `MarkBusyRaises` is the exception of `mark_busy()`, which
ends the runner with the job in its hands. `Users` submit, promote and cancel, `Operators`
register, remove, scale and drain, and `HealthPoll` marks workers unhealthy, between
any two calls. The job platform's `executing` and the pool's `tasks` are both about the
same runners, which is what the refinement mappings of the two instances say.

### Services.tla and its eleven modules

The services share no state and do not call one another, so a behaviour of all of
them shows nothing that a behaviour of each alone does not: `chosen` is the one that
moves, and one run of TLC explores the sum of their state spaces, not the product.
Each module has its own Init, Next and properties and can be read alone.

* `LoadManager`: the counters of the bulkhead (`Acquire`, `Release`, `Configure`, which puts a
  new counter in place of the old one) and the adaptive throttle. `holders` is the
  world outside, `displaced` the slots a reconfiguration forgot.
* `RateLimiter`: `Check` refills a bucket by the wall clock and takes from it. The clock may
  be set back; `seconds` is the time that really passed, `spent` what a key was allowed.
  A bucket holds units, `Window` to a token, so that all refills are whole numbers.
* `CacheAside`: readers in the three steps of `get_or_set()` (look, compute, store) beside
  writers that change a source and then invalidate, and expiry. `Store` chooses a time to live or
  `Forever`, which is the default of `ttl_seconds`. A value is the number of the change it was
  computed from.
* `Maintenance`: `tick()` as a walk over the dictionary of tasks, by two tickers that
  overlap; a task that raises and a dictionary that changed size end the walk. `Switch` sets
  the `enabled` of a task, which nothing in the repository does but every holder of one may.
* `ConfigGovernance`: versions and change requests of several keys: `SetInitial`, `Propose`,
  `Approve`, `Reject`, `Rollback` with every refusal of the validator.
* `AuditChain`: `Record`, retention by type and age, and `VerifyChain`. An entry's number
  stands for its hash.
* `Sessions`: login, `Validate` (which records an expiry), `Refresh` (which rotates the token,
  and does not ask about expiry), revocation, the two ways of changing a password,
  recovery tokens. `epoch` counts the passwords of a user.
* `EventBus`: a stack of calls, because a handler may itself publish, subscribe,
  unsubscribe and redeliver. `lists` keeps the lists of subscriptions that running calls
  still walk through.
* `Webhooks`: a sender, a receiver and the network between them, which loses requests and
  answers and repeats requests. The sender is in one call at a time. A signature is the second and the body it is made from.
* `SyncJobs`: one job, several callers of `run()` and `recover()`, a runner that succeeds, fails
  halfway or is interrupted. The job is one shared object, as in the repository in memory.
* `Integrations`: installed integrations and the credential vault. An installation that is
  refused after its credential was issued leaves it `abandoned`.

## 3. Runs

Bounds are chosen so that every action fires and every pair of operations that
can disturb each other meets. Each property is shown to fail under the same
configuration for a mutated form of a definition, kept beside the original
(`*_Late`, `*_Forgetful`, ...).

| Run | Instance | Shows |
|---|---|---|
| jobs | 3 jobs, 2 priorities, 2 attempts, cancels of running jobs; in one scene executors with and without a tenant and a queue of 2, in the other jobs of 2 tenants, one executor bound to one of them, room for every job | `JobsSound` (types, one ticket per job, queue and status agree, dependencies first, bounded attempts, tenants kept apart), jobs left where nothing is at work on them by an overflow only, terminal statuses final unless a running job was cancelled, the platform implements TaskGraph, no overtaking; the tenant's queued jobs settle behind other tenants' jobs of higher priority |
| pool_circuit_store | pool: 2 dispatchers, 2 registrations, 2 jobs, late heartbeats and repeated drains included; circuit: 2 callers overlapping, threshold 2, recovery 2, timeout 1, 2 attempts; store: 1 session, 2 candidates, 4 calls, crashes | the pool's picture is right of all it has not lost sight of, a stopped worker comes back by the report of a job only, a live one comes back; the circuit is closed exactly below the threshold, an outage is left alone, only an attempt under way ends it early, the circuit recovers; the file implements HiringFunnel, is never half written, nothing is lost |
| pipeline_shared | 2 sessions in any interleaving, 3 calls, crashes | records that can be read are legal |
| workflow_safety | 5 graphs (3 invalid), 3 policies, 3 runs, ceiling 4 | no work twice, required dependencies, reasons for skips, honest verdict, every run ends |
| dispatch | 2 jobs, queue of 1, 2 attempts, 2 workers, one of which may be removed or miss a heartbeat | the managers agree about workers in good standing; a RUNNING job is held by a runner unless its worker was turned away; jobs settle while some runner keeps going |
| services | see below | the books of each of eleven services balance, and its work gets done |

One run, pool_circuit_store, shows three components that share no state: as in `Services`,
`chosen` is the one that moves, and TLC explores the sum of their state spaces. In the run jobs,
`scene` chooses between two instances of the one module in the same way.

Three jobs are the least for a chain of dependencies with a bystander; a queue
shorter than the number of jobs overflows. Two priorities and two tenants suffice
because all comparisons are between pairs. Two workers and two jobs are the least for
an overbooked worker beside an idle one, and for a choice of whom to scale away; two
dispatchers are the least that can find the same worker. Two
sessions and two candidates are the least for a lost update of somebody else's record;
more sessions add writers of the same kind. Three graph nodes give a layer, a join and a
duplicate; the ceiling of 4 is met within a run and across runs. In `dispatch` a queue of
one makes submissions, retries and released dependants overflow, and a worker that
is never turned away goes on beside one that is.

In `services`: two partitions whose limit is configured to 0, 1 or 2 while up to four
slots are held; one key, a bucket of six units, four seconds and a clock set back by up
to two; three readers of one cache key and three changes of its source, so that two
readers can be late one after the other; two tasks of interval one, of which one raises and
the other is disabled and enabled, and two tickers; two configuration keys, one of which needs approval and one
of which has a validator, three requests and three versions; four audit entries of two
types and two policies that delete opposite ones; three pairs of tokens, a password and
a reset, two lifetimes; two subscriptions of one subscriber name, two events, calls
two deep; two deliveries with one retry each, three calls, three seconds, a tolerance of
one; two callers, two records, two attempts; two integrations and three credentials.
Each is the least at which two of its operations can come between the steps of a third.

Counters (submissions, registrations, calls, runs) are bounded by the constants said
to be bounds of the model, and deadlock is switched off only where these bounds stop
the model.

The properties of `services`, by module:

| Property | Says |
|---|---|
| `SlotsAccountedFor` | a slot that counts as used is held by somebody, and a partition is overfilled by no more than the users a reconfiguration forgot |
| `RateHeld` | no key is allowed more than a bucket and what the time that really passed is worth |
| `EventuallyFresh` | once sources are at rest no read is answered with a value that is out of date, unless it was stored without a time to live |
| `DueTasksRun` | a task that is due is run, unless one registered before it may raise |
| `PendingMeansAwaiting`, `CarriedOutOnce` | an entry waits only while a request of it is pending; a request is carried out once, with the value that was validated |
| `FailsExactlyAtGaps` | verification of a log nobody tampered with fails exactly where retention cut the chain |
| `OneWayIn`, `EndedForGood`, `NoneOutlivesItsPassword` | one refresh token prolongs a session; what was seen to end stays so; no session outlives its password |
| `NothingLost` | every event reaches each subscription it was meant for, or the dead letters |
| `DeliveredOnce` | what is reported as delivered was accepted; no signature is accepted twice |
| `FailedJobsRecover` | a job that failed moves all its records in the end, unless it is left RUNNING |
| `CredentialsAccounted` | the vault holds the credentials of installed integrations, one each, and those of refused installations |

### Where the code differs from what is said of it

Each run that ends in a violation checks what a comment or docstring says and the
code does not do:

| Run | Said | Done |
|---|---|---|
| jobs_late_report | a terminal job makes no further transition (`TerminalIsFinal`) | a report after a cancel overwrites it |
| jobs_blocked | a BLOCKED job is "waiting on dependencies" (`BlockedIsWaiting`) | it stays so behind a dependency that was cancelled, or had failed before it was blocked |
| workers_drained | a DRAINING worker accepts no new work (`DrainedTakesNoWork`) | a second drain, or a health check, makes the pool forget it, and it is given another job |
| pipeline_lost | a put preserves all others (`HistoriesOnlyGrow`) | a put writes the map it read |
| workflow_reuse | duplicate work reuses the prior output (`OkMeansDone`) | it is reported ok with nothing |
| workflow_optional | only a required dependency gates a task (`OptionalDoesNotGate`) | an optional one that failed does, too |

More of what is said is stated beside them, each with the line it quotes, and does not
hold; there is no run for these. TLC refutes each within seconds under the
specification of its module that states fairness (`FairSpec`, `PoolFairSpec`,
`CircuitFairSpec`) with the bounds of the table above (`RetryingIsTried`: with a queue of one):

| Definition | Said | Done |
|---|---|---|
| `FailureReachesDependants` (JobPlatform) | a failure fails the dependants | those submitted or promoted later, and dependants of dependants, stay BLOCKED |
| `ScheduledIsInScheduler` (JobPlatform) | a SCHEDULED job waits for its time | a promotion that overflows the queue forgets the due jobs behind the one that did not fit |
| `RetryingIsTried` (JobPlatform) | a RETRYING job awaits another attempt | a retry that meets a full queue leaves it RETRYING |
| `NeverOverbooked` (WorkerPool) | an idle worker able to take new work is found | a late heartbeat makes a busy worker idle, and it gets a second job |
| `AvailableIsTaken` (WorkerPool) | an available worker becomes BUSY | of two dispatchers that found one worker the second puts its job in the place of the first one's |
| `DrainedWorkersStop` (WorkerPool) | drain, then stop | a DRAINING worker that is marked UNHEALTHY comes back IDLE with the next heartbeat |
| `SingleTrial` (Resilience) | a half-open circuit allows a single trial call | any number of overlapping calls pass |

Others show in the models:

* Scaling down drains the workers registered last, busy or not, although the comment
  speaks of idle ones.
* A call that asked to degrade gets CircuitOpenError when its own failure opened the
  circuit.
* Two saves at once can leave the pipeline's file unreadable, which counts as empty.
* The ceiling of the workflow engine counts over the engine's life, and when a fallback
  meets it the error leaves `run()`.
* A runner whose worker is drained between claim and mark_busy leaves its job RUNNING;
  nothing puts the job of a lost worker back into the queue.
* A reconfigured bulkhead lets its new limit be used up beside the holders it forgot.
* A maintenance task that raises keeps the tasks behind it from running.
* A late value that is cached without a time to live is served until the next invalidation
  of its key.
* `platform/integrations/manager.py:115` says that validation comes before anything is
  persisted; the credential was issued at :105. `configure()` changes the stored
  configuration before it validates it.
* `platform/security/configuration` rejects changes that are not pending; the entry then
  becomes active although another change of it may be pending.
* docs/OPERATIONS.md:100 and docs/DISASTER_RECOVERY.md:112 take a failed verification
  for tampering; retention alone brings it about.
* `platform/integrations/sync/service.py:3` speaks of recovering interrupted runs;
  `recover()` resumes FAILED jobs only, and an interrupted one is RUNNING.
* A webhook whose answer was lost, or a second delivery of one body within a second, is
  taken for a replay, and ends as a dead letter although it was accepted.
* Dead letters of a subscriber name are delivered again to subscriptions of it that
  had handled the event.

### Fairness

Liveness is claimed only where somebody outside the modelled code must go on, and
weakly unless said otherwise: once such a step is possible it stays so until taken.

* `jobs` (`TenantsJobsSettle`): the tenant's executor keeps polling and reports what it claimed.
* `workflow_safety` (`EveryRunEnds`): an agent invocation returns or raises.
* `pool_circuit_store`: workers end their jobs and send heartbeats, however late
  (`FleetComesBack`); the guarded function returns, the clock goes on, callers keep calling
  (`CircuitRecovers`).
* `dispatch`: a runner that has not ended makes its next call. `JobsSettle` supposes
  that some runner goes on for ever.
* `services`: time passes (`EventuallyFresh`: entries expire whatever readers do);
  `tick()` is called again and again, and a tick and a task come to their end
  (`DueTasksRun`); somebody calls `recover()` for a failed job, a call of the runner comes
  back, and one that may succeed again and again does so at some time, which is strong
  fairness (`FailedJobsRecover`).

Where a run chooses a component or a scene, each condition holds for the one that was chosen.

Nothing is assumed of submissions, cancellations, drains, failures, repairs, crashes,
invalidations or releases.

## 4. Proofs

The proofs are in modules of their own (`*_proofs.tla`) and hold for any number of
jobs, tenants, executors, workers, callers, sessions, graphs, runs, partitions, keys,
requests, users, deliveries, integrations, audit entries, subscriptions and nested calls.
Every invariant, every action property and every refinement that a passing run checks
is the statement of a theorem.

* **JobPlatform_proofs.** The inductive invariant is `Books`: types, `Recorded`
  (what was not submitted has no traces), `QueueTickets` (queued jobs and queue
  entries correspond) and `ExecutorTickets`. `OneTicketPerJob` and
  `QueueMirrorsStatus` are not inductive alone, since an entry may be taken twice
  unless it is known to be unique per job and the executors' tickets are too.
  On `Books` rest `Ordered` (dependencies first: a released or running job has all
  dependencies succeeded, and success is stable), `Counted` (attempts, where a
  queued job has one to spare), `NoOvertaking`, `EntitledExecutions`, all of these
  together (`JobsSound`), finality (`SettledIsFinal`), `LeftOnlyByOverflow` and the
  refinement of `TaskGraph`, step by step. `LeftOnlyByOverflow` has no hypothesis on the
  capacity: each call is shown either to bring everything it touches into the queue or to
  an end, or to stop where the queue was full (`OverflowAlone`). It says nothing of
  a job BLOCKED behind one that failed or was cancelled, which is `BlockedIsWaiting`.
* **WorkerPool_proofs.** For any number of dispatchers with any worker found, a worker that
  is BUSY or DRAINING is at work on `current_job_id`, and what else goes on is of
  workers that are `misjudged` (`BeliefIsExact`). That holds through a second
  `mark_busy()`, which the pool answers by knowing of the later job. On it rests
  `StoppedStays`, which has no exception: only the report of a job brings a worker
  back that has stopped. The invariant `Exact` adds that workers yet to register have
  no past.
* **Resilience_proofs.** The circuit is closed exactly below the threshold; after
  it no attempt begins within the recovery time of the last failure; and an open
  circuit is closed early only by an attempt that began before it opened, however
  many callers overlap. The invariant relates the age of the trip to the time since
  the last failure (`ClockAgrees`) and to the age of the attempts under way (`Elders`).
* **PipelineStore_proofs.** Whatever overwrites what, and wherever the process
  stops, records that can be read have legal histories. The invariant `Kept` says
  it of everything a session holds in memory and of every inode; a counting
  argument shows that an inode is always free. Of one session (`Sessions = {s}`, the
  hypothesis of these three theorems and the instance of pool_circuit_store) more is
  proved: the file can be read wherever the process stops (`NeverHalfWritten`), it
  implements the funnel (`OneSessionIsTheFunnel`), and no history loses an event
  (`OneSessionLosesNothing`, which pipeline_lost refutes for two). None of these is
  inductive: what a session writes is right only if the file still is what it read two
  steps ago. `Undisturbed` says that of every step of a call: the change is due (`IsDue`),
  the map in memory is the file with that change, the open inode is the temporary one
  and not the live one, and before the rename it holds that map. With it every step is
  a step of the funnel or none, and only the rename is one.
* **WorkflowEngine_proofs.** No work is handed to agents twice in the life of an
  engine (`LedgerIsComplete`: what was handed is written down, and once), and no
  task rests on a required dependency that did not end well (`LoopInvariant`: what the loop
  has not passed has no output, so outputs are not revised). A skipped task has a reason
  (`SkippedInTurn`) and the verdict agrees with the outputs (`VerdictsAreHonest`) by `RunBooks`,
  which carries the reason of each skip and the required failures up to now (`Missed`)
  through the run: the verdict is about the whole run and no single step shows it.
  That a dependency has had its turn needs the order of the loop. Layers are given
  by a recursive function over sets of tasks; what it computes is not proved by induction,
  but from a least set for which it would fail, in the well-founded order of
  strict inclusion (`LayersExist`, `LayersRise`).
  Of termination everything but fairness is proved: each step of a run is closer to its end in the
  lexicographic order of tasks left, stage of the task in hand and attempts left
  (`RunsDrawToAnEnd`, stated and proved in the proof module only, without the help of the ceiling on executions), and a task comes next
  as long as there is one (`NeverAtALoss`).
* **Dispatch_proofs.** Every behaviour of the composition is one of JobPlatform
  (`IsJobPlatform`), so that what JobPlatform_proofs proves is cited of it and not
  proved again. On that rests one invariant that relates where each runner is to what
  the pool believes and to what the job platform believes; `ManagersAgree` and
  `RunningMeansHeld` follow. Neither is inductive alone: that a job is held by its runner
  needs that no other runner holds it, which is `OneTicketPerJob` of the job platform.
* **Sessions_proofs.** `AuthBooks` adds to the types that every pair of tokens belongs
  to a session that was issued, and a session's current pair to that session; with it
  the tokens of different sessions are apart. `OneWayIn` needs in addition that tokens
  that are not current were used (`OneByOne`).
* **Services_proofs.** One invariant per service. `SlotBooks`: what a counter counts is
  at most its limit and its holders at most that and the displaced. `RateBooks`: what was
  spent, what is left and what the clock owes together never exceed a bucket and the
  time that passed. `HookBooks`: a signature was received once if it was seen and never
  otherwise. `IntgBooks`: references are used once. `AuditBooks`: an entry was linked to the last one
  there was, so that whatever is kept before it is not later than its link; the chain
  that `verify_chain()` walks then fails where a link leads nowhere, and nowhere else
  (`FailsOnlyAtGaps`; a log that is not empty has a last entry because a finite set of numbers
  has a greatest, `HighestIsThere`). `BusBooks`: besides `NothingLost` itself, every call on the stack
  has a letter at hand and a place in a list that exists, a handler runs only at a place
  within its list, and nobody is in the audience of an event who never
  subscribed. It speaks of the calls one by one, by their depth, so that a step disturbs the
  topmost call only and no induction over the stack is needed; each action has a lemma
  that says where the letters of that call are afterwards. `ConfigBooks`: the two properties
  themselves, which are inductive together with the types because a request that was
  settled stays so (`RequestsKept`). The theorems of Sessions_proofs are carried over by
  showing that the composition takes steps of the sessions only. The types of all eleven
  services are proved together (`TypeCorrect`): among them that the
  attempts of a synchronisation never exceed its budget, and that it never moves more records
  than there are.

Assumptions are those named in the modules and the ones written in the theorems:
an executor reports each claim at most once, retry policies allow one attempt at
least, a synchronisation too, lifetimes, limits, costs and the bounds of the model are
numbers, there are finitely many browser sessions, and the absence of a record, task or output
is told apart from all of them. `Services` collects those of its modules in `ServicesAssumption`,
which TLC evaluates with the run; `PoolAssumption` and `LimitsAssumption` are hypotheses of the
theorems about the pool and the circuit, and the modules that instantiate the two for TLC assume them.

Only model-checked:

* the eight liveness properties, since the prover does not reason about fairness:
  `TenantsJobsSettle`, `FleetComesBack`, `CircuitRecovers`, `EveryRunEnds`,
  `JobsSettle`, `EventuallyFresh`, `DueTasksRun`, `FailedJobsRecover`;
* the six properties that the code violates, whose counterexamples are TLC's.

## 5. Not modelled, and what comes next

Left out of the modelled components: telemetry, events and histories kept for
display; metrics of workers; the accounting of backoff; JSON text; warnings and
context slots of the workflow engine; backpressure signals; namespaces and counters of
the cache; direct calls of `run()` for a maintenance task; replay of the event log;
conflicts of a synchronisation; feature flags, profiles and drift of the configuration;
second factors, devices and lockout. Dependencies of jobs and tasks are sets; a
task graph that lists one twice is reported to have a cycle by the code.

Not worth a model: pure scoring and text code, prompts and templates, pages, exports,
manifests. They are the greater part of the source (`ai/agents`, `ui`, `scoring`, `app.py`)
and have neither state nor steps, so that the models map a small share of the lines of
the repository although they cover the operations in which order matters. Tenancy and
RBAC are lookups; the tenant filter is part of the modules that use it.

What is left, in order:

1. Subscription meters under plan changes, scheduled notifications beside
   preferences, leases of the security secrets, releases with promotion and rollback:
   each a module of its own beside the others in `Services`.
2. Conflicts in `SyncJobs`; rotation of a webhook's secret between two attempts in
   `Webhooks`; lockout in `Sessions`.
3. The execution engine as operators over bounded inputs.
4. Proofs: for the other liveness properties, as for `EveryRunEnds`, what a step may do to the
   measure each rests on, which would leave fairness alone to TLC; that the workflow
   engine's tasks that are reported ok were done by an agent unless the ledger is said to
   have them, which delimits what workflow_reuse refutes.
