------------------------------ MODULE JobPlatform ------------------------------
(***************************************************************************)
(* The background job platform: JobManager with its JobQueue, JobScheduler *)
(* and job repository (src/src/platform/runtime/jobs).                     *)
(*                                                                         *)
(* Every operation of the manager is synchronous and takes no lock, so one *)
(* call is one action.  What interleaves are the calls themselves: tenants *)
(* submit and cancel, a ticker promotes due jobs, and executors claim a    *)
(* job, work on it outside the manager and report later.                   *)
(***************************************************************************)
EXTENDS Integers, FiniteSets

CONSTANTS
    Tenants,        \* tenant ids
    NoTenant,       \* Python's None: a claim that is not restricted to a tenant
    Workers,        \* executors that claim jobs
    Serves,         \* the tenant filter each executor claims with
    Priorities,     \* the JobPriority values that submissions use
    MaxAttempts,    \* the retry.max_attempts values that submissions use
    Capacity,       \* JobQueue(capacity = ...)
    MaxJobs         \* bound of the model: number of submissions

ASSUME TenantsAssumption == NoTenant \notin Tenants
ASSUME ServesAssumption == Serves \in [Workers -> Tenants \cup {NoTenant}]
ASSUME PrioritiesAssumption == Priorities \subseteq Nat
ASSUME MaxAttemptsAssumption == MaxAttempts \subseteq Nat \ {0}
ASSUME CapacityAssumption == Capacity \in Nat
ASSUME MaxJobsAssumption == MaxJobs \in Nat

(***************************************************************************)
(* Job ids are fresh and the repository lists jobs in insertion order, so  *)
(* a job is the number of its submission and repository order is <.        *)
(***************************************************************************)
Jobs == 1..MaxJobs

Terminal == {"SUCCEEDED", "FAILED", "CANCELLED"}

JobStatus ==
    {"PENDING", "BLOCKED", "QUEUED", "SCHEDULED", "RUNNING", "RETRYING"} \cup Terminal

\* What a submission fixes.  A policy whose retry_on lacks TRANSIENT never
\* retries, which is the behaviour of maxAttempts = 1.
Submission == [tenant : Tenants, prio : Priorities,
               maxAttempts : MaxAttempts, deps : SUBSET Jobs]

NoSubmission == [tenant |-> NoTenant, prio |-> 0, maxAttempts |-> 0, deps |-> {}]

\* The list of JobQueue is always sorted by (-prio, seq) and no two entries
\* share a seq, so the set of its entries determines it.
QueueEntry == [prio : Nat, seq : Nat, job : Jobs, tenant : Tenants]

VARIABLES
    job,        \* repository: the submitted part of every job
    status,     \* repository: Job.status, "ABSENT" before the submission
    attempts,   \* repository: Job.attempts
    queue,      \* JobQueue._entries
    sequence,   \* JobQueue._sequence
    schedule,   \* the keys of JobScheduler._scheduled
    executing   \* executors' view: <<w, j>> is claimed and not yet reported

vars == <<job, status, attempts, queue, sequence, schedule, executing>>

Init ==
    /\ job = [j \in Jobs |-> NoSubmission]
    /\ status = [j \in Jobs |-> "ABSENT"]
    /\ attempts = [j \in Jobs |-> 0]
    /\ queue = {}
    /\ sequence = 0
    /\ schedule = {}
    /\ executing = {}

-------------------------------------------------------------------------------
(* Helpers *)

Repository == {j \in Jobs : status[j] # "ABSENT"}

\* The id the next submission gets.
IsFresh(j) == j \notin Repository /\ \A k \in Jobs : k < j => k \in Repository

\* Mutated form: a dependency that is done is taken for pending too.
HasPending_Any(st, deps) == deps # {}

HasPending(st, deps) == \E d \in deps : st[d] # "SUCCEEDED"

QueueIsFull == Cardinality(queue) >= Capacity

\* Position of j when S is walked in repository order.
Rank(S, j) == Cardinality({k \in S : k <= j})

\* The jobs of S that a loop of enqueue calls in repository order gets into
\* the queue; the first one that does not fit raises QueueOverflowError and
\* ends the loop.
FirstThatFit(S) == {j \in S : Cardinality(queue) + Rank(S, j) <= Capacity}

Entry(desc, j, n) ==
    [prio |-> desc.prio, seq |-> n, job |-> j, tenant |-> desc.tenant]

EnqueueAll(A) ==
    /\ queue' = queue \cup {Entry(job[j], j, sequence + Rank(A, j)) : j \in A}
    /\ sequence' = sequence + Cardinality(A)

\* Mutated form: newest first within a priority.
Before_Newest(e, f) == e.prio > f.prio \/ (e.prio = f.prio /\ e.seq > f.seq)

\* e stands before f in the sorted list.
Before(e, f) == e.prio > f.prio \/ (e.prio = f.prio /\ e.seq < f.seq)

IsFirst(e, S) == e \in S /\ \A f \in S \ {e} : Before(e, f)

-------------------------------------------------------------------------------
(* JobManager.submit *)

\* A dependency that is unknown, or another tenant's, is an error that changes
\* nothing; otherwise the job enters the repository.
Create(j, s, st) ==
    /\ IsFresh(j)
    /\ \A d \in s.deps : d \in Repository /\ job[d].tenant = s.tenant
    /\ job' = [job EXCEPT ![j] = s]
    /\ status' = [status EXCEPT ![j] = st]
    /\ UNCHANGED <<attempts, executing>>

SubmitScheduled(j, s) ==
    /\ Create(j, s, "SCHEDULED")
    /\ schedule' = schedule \cup {j}
    /\ UNCHANGED <<queue, sequence>>

SubmitBlocked(j, s) ==
    /\ HasPending(status, s.deps)
    /\ Create(j, s, "BLOCKED")
    /\ UNCHANGED <<queue, sequence, schedule>>

SubmitQueued(j, s) ==
    /\ ~HasPending(status, s.deps)
    /\ ~QueueIsFull
    /\ Create(j, s, "QUEUED")
    /\ queue' = queue \cup {Entry(s, j, sequence + 1)}
    /\ sequence' = sequence + 1
    /\ UNCHANGED schedule

\* enqueue raises after repo.add: the job stays behind as PENDING.
SubmitOverflow(j, s) ==
    /\ ~HasPending(status, s.deps)
    /\ QueueIsFull
    /\ Create(j, s, "PENDING")
    /\ UNCHANGED <<queue, sequence, schedule>>

Submit(j, s) ==
    \/ SubmitScheduled(j, s)
    \/ SubmitBlocked(j, s)
    \/ SubmitQueued(j, s)
    \/ SubmitOverflow(j, s)

-------------------------------------------------------------------------------
(* JobManager.promote_scheduled *)

\* Run times are abstracted to the set of jobs a call finds due: a job's
\* run_at can be such that any given call is the first to find it due.  All due
\* jobs leave the scheduler before the first one is looked at.
Promote(due) ==
    LET live     == {j \in due : status[j] = "SCHEDULED"}
        runnable == {j \in live : ~HasPending(status, job[j].deps)}
        fit      == FirstThatFit(runnable)
        reached  == {j \in live : \A o \in runnable \ fit : j < o}
    IN  /\ due # {}
        /\ schedule' = schedule \ due
        /\ status' = [j \in Jobs |-> IF j \in fit THEN "QUEUED"
                                     ELSE IF j \in reached THEN "BLOCKED"
                                     ELSE status[j]]
        /\ EnqueueAll(fit)
        /\ UNCHANGED <<job, attempts, executing>>

-------------------------------------------------------------------------------
(* JobManager.claim *)

\* Mutated form: only the head of the queue is looked at.
Visible_HeadOnly(w) ==
    {e \in queue : IsFirst(e, queue) /\ Serves[w] \in {NoTenant, e.tenant}}

Visible(w) == {e \in queue : Serves[w] \in {NoTenant, e.tenant}}

Claim(w) ==
    \E e \in Visible(w) :
        /\ IsFirst(e, Visible(w))
        /\ queue' = queue \ {e}
        /\ attempts' = [attempts EXCEPT ![e.job] = @ + 1]
        /\ status' = [status EXCEPT ![e.job] = "RUNNING"]
        /\ executing' = executing \cup {<<w, e.job>>}
        /\ UNCHANGED <<job, sequence, schedule>>

-------------------------------------------------------------------------------
(* JobManager.complete and JobManager.fail, called once by the executor that
   claimed the job.  Neither looks at the job's current status. *)

Reported(w, j) ==
    /\ <<w, j>> \in executing
    /\ executing' = executing \ {<<w, j>>}

\* Mutated form: the dependents are not filtered by status.
Freed_AnyStatus(st, j) ==
    {k \in Jobs : /\ st[k] \in JobStatus \ Terminal
                  /\ job[k].tenant = job[j].tenant
                  /\ ~HasPending(st, job[k].deps)}

\* Mutated form: only the jobs that waited for j alone.
Freed_SoleDependants(st, j) ==
    {k \in Jobs : /\ st[k] = "BLOCKED"
                  /\ job[k].tenant = job[j].tenant
                  /\ job[k].deps = {j}}

\* The jobs _unblock_dependents queues: any blocked job of the tenant counts,
\* not only those that depend on j.
Freed(st, j) ==
    {k \in Jobs : /\ st[k] = "BLOCKED"
                  /\ job[k].tenant = job[j].tenant
                  /\ ~HasPending(st, job[k].deps)}

Complete(w, j) ==
    LET done == [status EXCEPT ![j] = "SUCCEEDED"]
        fit  == FirstThatFit(Freed(done, j))
    IN  /\ Reported(w, j)
        /\ status' = [k \in Jobs |-> IF k \in fit THEN "QUEUED" ELSE done[k]]
        /\ EnqueueAll(fit)
        /\ UNCHANGED <<job, attempts, schedule>>

CanRetry(j) == attempts[j] < job[j].maxAttempts

\* RETRYING is only passed through: the same call queues the job again.
FailRetry(w, j) ==
    /\ Reported(w, j)
    /\ CanRetry(j)
    /\ ~QueueIsFull
    /\ status' = [status EXCEPT ![j] = "QUEUED"]
    /\ EnqueueAll({j})
    /\ UNCHANGED <<job, attempts, schedule>>

\* ... unless enqueue raises, which leaves it RETRYING.
FailRetryOverflow(w, j) ==
    /\ Reported(w, j)
    /\ CanRetry(j)
    /\ QueueIsFull
    /\ status' = [status EXCEPT ![j] = "RETRYING"]
    /\ UNCHANGED <<job, attempts, queue, sequence, schedule>>

FailForGood(w, j) ==
    /\ Reported(w, j)
    /\ ~CanRetry(j)
    /\ status' = [k \in Jobs |->
                    IF \/ k = j
                       \/ /\ status[k] = "BLOCKED"
                          /\ job[k].tenant = job[j].tenant
                          /\ j \in job[k].deps
                      THEN "FAILED" ELSE status[k]]
    /\ UNCHANGED <<job, attempts, queue, sequence, schedule>>

Fail(w, j) == FailRetry(w, j) \/ FailRetryOverflow(w, j) \/ FailForGood(w, j)

-------------------------------------------------------------------------------
(* JobManager.cancel: a finished job is returned unchanged. *)

\* Mutated form: finished jobs are not spared.
MayCancel_Finished(j) == j \in Repository

MayCancel(j) == j \in Repository /\ status[j] \notin Terminal

\* Mutated form: the queue entry stays.
Withdrawn_Nothing(j) == {}

\* JobQueue.remove takes out the first entry of the job only.
Withdrawn(j) == LET mine == {e \in queue : e.job = j}
                IN  {e \in mine : IsFirst(e, mine)}

Cancel(j) ==
    /\ MayCancel(j)
    /\ queue' = queue \ Withdrawn(j)
    /\ schedule' = schedule \ {j}
    /\ status' = [status EXCEPT ![j] = "CANCELLED"]
    /\ UNCHANGED <<job, attempts, sequence, executing>>

-------------------------------------------------------------------------------
Next ==
    \/ \E j \in Jobs, s \in Submission : Submit(j, s)
    \/ \E due \in SUBSET schedule : Promote(due)
    \/ \E w \in Workers : Claim(w)
    \/ \E w \in Workers, j \in Jobs : Complete(w, j)
    \/ \E w \in Workers, j \in Jobs : Fail(w, j)
    \/ \E j \in Jobs : Cancel(j)

Spec == Init /\ [][Next]_vars

\* Executors that keep polling and report what they claimed.  Nothing in the
\* manager forces this: it is what an executor bound to the platform must do.
Fairness ==
    /\ \A w \in Workers : WF_vars(Claim(w))
    /\ \A w \in Workers, j \in Jobs : WF_vars(Complete(w, j) \/ Fail(w, j))

FairSpec == Spec /\ Fairness

-------------------------------------------------------------------------------
(* Properties *)

\* The variables have their types and the queue stays within its capacity,
\* whichever of submit, promote, complete and fail fills it.
TypeOK ==
    /\ job \in [Jobs -> Submission \cup {NoSubmission}]
    /\ status \in [Jobs -> JobStatus \cup {"ABSENT"}]
    /\ attempts \in [Jobs -> Nat]
    /\ queue \subseteq QueueEntry
    /\ sequence \in Nat
    /\ schedule \subseteq Jobs
    /\ executing \subseteq Workers \X Jobs
    /\ Cardinality(queue) <= Capacity

\* A job is never handed out twice at a time: it has at most one entry in the
\* queue, at most one executor works on it, and never both.
OneTicketPerJob ==
    /\ \A e, f \in queue : e.job = f.job => e = f
    /\ \A x, y \in executing : x[2] = y[2] => x = y
    /\ \A e \in queue, x \in executing : e.job # x[2]

\* Status and queue tell the same story: exactly the QUEUED jobs have an entry,
\* which carries the tenant and the priority the job was submitted with.
QueueMirrorsStatus ==
    /\ \A j \in Jobs : status[j] = "QUEUED" <=> \E e \in queue : e.job = j
    /\ \A e \in queue : e.tenant = job[e.job].tenant /\ e.prio = job[e.job].prio

\* A job that was ever handed to an executor has all its dependencies done, and
\* they stay done: no later call takes a dependency's success back.
RunsAfterDependencies ==
    \A j \in Jobs : attempts[j] > 0 => \A d \in job[j].deps : status[d] = "SUCCEEDED"

\* Retries, however they interleave with cancellations, keep within the policy.
AttemptsBounded ==
    \A j \in Repository : attempts[j] <= job[j].maxAttempts

\* Executors only ever work for a tenant they are entitled to.
EntitledExecutions ==
    \A x \in executing : Serves[x[1]] \in {NoTenant, job[x[2]].tenant}

\* All of it at once: queue, statuses, attempts and executors tell one story,
\* through every overflow, retry, cancellation and late report.
JobsSound ==
    /\ OneTicketPerJob
    /\ QueueMirrorsStatus
    /\ RunsAfterDependencies
    /\ AttemptsBounded
    /\ EntitledExecutions

\* A claim never passes over a queued job of the same tenant that has a higher
\* priority, or the same priority and a longer wait.
NoOvertaking ==
    [][\A e, f \in queue :
         (e \notin queue' /\ status'[e.job] = "RUNNING" /\ f \in queue' /\ f.tenant = e.tenant)
            => \/ job[f.job].prio < job[e.job].prio
               \/ (job[f.job].prio = job[e.job].prio /\ e.seq < f.seq)]_vars

\* The job is left where only another job's report or cancel() may find it: it
\* rests in a status that submit and fail pass through, is SCHEDULED but no longer
\* in the scheduler, or is BLOCKED on nothing.
Left(j) ==
    \/ status[j] \in {"PENDING", "RETRYING"}
    \/ status[j] = "SCHEDULED" /\ j \notin schedule
    \/ status[j] = "BLOCKED" /\ ~HasPending(status, job[j].deps)

\* Only an overflow leaves a job there: whichever call does it, the queue is full
\* when the call is over.  submit, promote, complete and fail each have a way of
\* their own to do it; cancel and claim have none.
LeftOnlyByOverflow ==
    [][\A j \in Jobs : ~Left(j) /\ Left(j)' => Cardinality(queue') = Capacity]_vars

\* models.py:27, "waiting for a future run time": a SCHEDULED job is known to the
\* scheduler.  It does not hold: a promotion that overflows has dropped all due jobs.
ScheduledIsInScheduler ==
    \A j \in Jobs : status[j] = "SCHEDULED" => j \in schedule

\* models.py:29, "failed, awaiting another attempt": a job does not stay RETRYING as
\* long as executors poll and report.  It does not hold: a retry may overflow.
RetryingIsTried ==
    \A j \in Jobs : status[j] = "RETRYING" ~> status[j] # "RETRYING"

\* models.py:25, "waiting on dependencies": a BLOCKED job has a dependency that may
\* still be done.  It does not hold: cancel() leaves the dependants where they are.
BlockedIsWaiting ==
    \A j \in Jobs : status[j] = "BLOCKED" => \E d \in job[j].deps : status[d] \notin Terminal

\* test_runtime_jobs.py:118, test_dependency_failure_fails_dependents: no job waits for
\* one that has failed.  It does not hold: a job submitted or promoted after the
\* failure, and a dependant of a dependant, stay BLOCKED.
FailureReachesDependants ==
    \A j \in Jobs : status[j] = "BLOCKED" => \A d \in job[j].deps : status[d] # "FAILED"

\* JobStatus.is_terminal, "no further transition is possible", as far as it goes:
\* a finished job changes its status only if it was cancelled under an executor
\* that still works on it.
SettledIsFinal ==
    [][\A j \in Jobs :
         status[j] \in Terminal /\ status'[j] # status[j]
            => status[j] = "CANCELLED" /\ \E w \in Workers : <<w, j>> \in executing]_vars

\* JobStatus.is_terminal taken at its word; it does not hold: an executor's report
\* turns a job that was cancelled under it into a finished or a queued one.
TerminalIsFinal ==
    [][\A j \in Jobs : status[j] \in Terminal => status'[j] = status[j]]_vars

\* A queued job of a tenant that some executor serves is eventually finished,
\* whatever other tenants queue at whatever priority.
QueuedJobsSettle ==
    \A j \in Jobs :
        (status[j] = "QUEUED" /\ \E w \in Workers : Serves[w] \in {NoTenant, job[j].tenant})
            ~> status[j] \in Terminal

-------------------------------------------------------------------------------
(* The abstract specification and the state functions that play its variables. *)

Graph == INSTANCE TaskGraph WITH
    Tasks     <- Jobs,
    Limits    <- MaxAttempts,
    needs     <- [j \in Jobs |-> job[j].deps],
    limit     <- [j \in Jobs |-> job[j].maxAttempts],
    added     <- Repository,
    active    <- {x[2] : x \in executing},
    succeeded <- {j \in Jobs : status[j] = "SUCCEEDED"},
    starts    <- attempts

\* The manager with its queue, scheduler and repository implements the task
\* graph: every call is one of its steps or changes nothing it can see.
ImplementsTaskGraph == Graph!Spec
================================================================================
