------------------------------ MODULE WorkerPool -------------------------------
(***************************************************************************)
(* The worker fleet: WorkerPool (src/src/platform/runtime/workers), driven *)
(* by dispatchers, which ask for an available_worker() and then call       *)
(* mark_busy() for the worker they got, and by the workers, which run      *)
(* beside the pool, finish their jobs and send heartbeats.  "tasks" is     *)
(* what the workers really do; status and current are what the pool        *)
(* believes.                                                               *)
(***************************************************************************)
EXTENDS Integers, FiniteSets

CONSTANTS
    MaxWorkers,      \* bound of the model: number of registrations
    Dispatchers,     \* bound of the model: dispatchers that share the pool
    Jobs,            \* jobs the dispatchers hand out, one run at a time each
    NoJob            \* current_job_id = ""

\* What the bound and the null are; assumed wherever the module is instantiated.
PoolAssumption == MaxWorkers \in Nat /\ NoJob \notin Jobs

\* A worker is the number of its registration: the dict iterates in that order.
Workers == 1..MaxWorkers

\* available_worker() found None.
NoWorker == 0

WorkerStatus == {"STARTING", "IDLE", "BUSY", "DRAINING", "STOPPED", "UNHEALTHY"}

VARIABLES
    registered,  \* the keys of WorkerPool._workers
    used,        \* number of registrations so far
    status,      \* Worker.status
    current,     \* Worker.current_job_id
    stale,       \* workers whose last heartbeat is older than the timeout
    found,       \* what available_worker() has given each dispatcher
    tasks,       \* the jobs each worker is really working on
    retired,     \* workers that were told to drain or shut down
    misjudged    \* workers at a job that the pool has lost sight of

poolVars == <<registered, used, status, current, stale, found, tasks, retired, misjudged>>

PoolInit ==
    /\ registered = {}
    /\ used = 0
    /\ status = [w \in Workers |-> "STOPPED"]
    /\ current = [w \in Workers |-> NoJob]
    /\ stale = {}
    /\ found = [d \in Dispatchers |-> NoWorker]
    /\ tasks = [w \in Workers |-> {}]
    /\ retired = {}
    /\ misjudged = {}

-------------------------------------------------------------------------------
(* Helpers *)

Active == {w \in registered : status[w] # "STOPPED"}

IsAvailable(w) == w \in registered /\ status[w] \in {"IDLE", "STARTING"}

\* mark_busy() takes a worker that is BUSY already as well.
CanTake(w) == IsAvailable(w) \/ (w \in registered /\ status[w] = "BUSY")

\* The n workers of S that were registered last.
Last(n, S) == {w \in S : Cardinality({v \in S : v > w}) < n}

\* Mutated form: a busy worker is stopped on the spot.
Drained_AtOnce(w) == "STOPPED"

Drained(w) == IF status[w] = "BUSY" THEN "DRAINING" ELSE "STOPPED"

\* Mutated form: the two ends are swapped.
AfterJob_Swapped(w) == IF status[w] = "DRAINING" THEN "IDLE" ELSE "STOPPED"

AfterJob(w) == IF status[w] = "DRAINING" THEN "STOPPED" ELSE "IDLE"

\* Mutated form: no revival.
Revived_Never(w) == status[w]

\* Mutated form: every worker that is not at work is revived.
Revived_Any(w) == IF status[w] \in {"BUSY", "DRAINING"} THEN status[w] ELSE "IDLE"

Revived(w) == IF status[w] = "UNHEALTHY" THEN "IDLE" ELSE status[w]

\* A second drain stops a worker that is still finishing its job.
DrainAll(S) ==
    /\ status' = [w \in Workers |-> IF w \in S THEN Drained(w) ELSE status[w]]
    /\ retired' = retired \cup S
    /\ misjudged' = misjudged \cup {w \in S : status[w] = "DRAINING"}

-------------------------------------------------------------------------------
(* Registration and scaling *)

\* Nothing runs between a worker's STARTING and its IDLE within register().
Enlist(n) ==
    LET new == (used + 1)..(used + n)
    IN  /\ used + n <= MaxWorkers
        /\ used' = used + n
        /\ registered' = registered \cup new
        /\ status' = [w \in Workers |-> IF w \in new THEN "IDLE" ELSE status[w]]
        /\ UNCHANGED <<current, stale, found, tasks, retired, misjudged>>

Register == Enlist(1)

\* The worker may be at work; it then goes on outside the pool.
Deregister(w) ==
    /\ w \in registered
    /\ registered' = registered \ {w}
    /\ UNCHANGED <<used, status, current, stale, found, tasks, retired, misjudged>>

ScaleUp(size) ==
    /\ size > Cardinality(Active)
    /\ Enlist(size - Cardinality(Active))

\* shutdown() for the tail of the active workers, whatever they are doing.
ScaleDown(size) ==
    /\ size < Cardinality(Active)
    /\ DrainAll(Last(Cardinality(Active) - size, Active))
    /\ UNCHANGED <<registered, used, current, stale, found, tasks>>

-------------------------------------------------------------------------------
(* Lifecycle *)

Heartbeat(w) ==
    /\ w \in registered
    /\ stale' = stale \ {w}
    /\ status' = [status EXCEPT ![w] = Revived(w)]
    /\ UNCHANGED <<registered, used, current, found, tasks, retired, misjudged>>

\* A dispatcher asks for available_worker(): the first that can accept new work.
Find(d) ==
    \E w \in Workers :
        /\ found[d] = NoWorker
        /\ IsAvailable(w)
        /\ \A v \in Workers : v < w => ~IsAvailable(v)
        /\ found' = [found EXCEPT ![d] = w]
        /\ UNCHANGED <<registered, used, status, current, stale, tasks, retired, misjudged>>

\* mark_busy().  A worker that is at work already gets a second job; the pool
\* knows of one.
MarkBusy(w, j) ==
    /\ CanTake(w)
    /\ current' = [current EXCEPT ![w] = j]
    /\ status' = [status EXCEPT ![w] = "BUSY"]
    /\ misjudged' = IF tasks[w] = {} THEN misjudged ELSE misjudged \cup {w}
    /\ UNCHANGED <<registered, used, stale, retired>>

\* The dispatcher hands a job to the worker it found, whatever came between.
Assign(d, j) ==
    LET w == found[d]
    IN  /\ w # NoWorker
        /\ \A v \in Workers : j \notin tasks[v]
        /\ found' = [found EXCEPT ![d] = NoWorker]
        /\ \/ /\ MarkBusy(w, j)
              /\ tasks' = [tasks EXCEPT ![w] = @ \cup {j}]
           \/ /\ ~CanTake(w)                              \* WorkerError
              /\ UNCHANGED <<registered, used, status, current, stale, tasks, retired, misjudged>>

\* A worker ends a job and calls mark_idle(), an error if it was deregistered.
Finish(w, j) ==
    /\ j \in tasks[w]
    /\ tasks' = [tasks EXCEPT ![w] = @ \ {j}]
    /\ IF w \in registered
         THEN /\ current' = [current EXCEPT ![w] = NoJob]
              /\ status' = [status EXCEPT ![w] = AfterJob(w)]
         ELSE UNCHANGED <<current, status>>
    /\ misjudged' = IF tasks'[w] = {} THEN misjudged \ {w} ELSE misjudged
    /\ UNCHANGED <<registered, used, stale, found, retired>>

\* drain() and shutdown()
Drain(w) ==
    /\ w \in registered
    /\ DrainAll({w})
    /\ UNCHANGED <<registered, used, current, stale, found, tasks>>

-------------------------------------------------------------------------------
(* Health *)

\* The clock passes the timeout of a worker that has not sent a heartbeat.
MissHeartbeat(w) ==
    /\ w \in registered \ stale
    /\ stale' = stale \cup {w}
    /\ UNCHANGED <<registered, used, status, current, found, tasks, retired, misjudged>>

CheckHealth ==
    /\ status' = [w \in Workers |-> IF w \in Active \cap stale THEN "UNHEALTHY" ELSE status[w]]
    /\ misjudged' = misjudged \cup {w \in Active \cap stale : tasks[w] # {}}
    /\ UNCHANGED <<registered, used, current, stale, found, tasks, retired>>

-------------------------------------------------------------------------------
PoolNext ==
    \/ Register
    \/ \E w \in Workers : Deregister(w)
    \/ \E size \in 0..MaxWorkers : ScaleUp(size)
    \/ \E size \in 0..MaxWorkers : ScaleDown(size)
    \/ \E w \in Workers : Heartbeat(w)
    \/ \E d \in Dispatchers : Find(d)
    \/ \E d \in Dispatchers, j \in Jobs : Assign(d, j)
    \/ \E w \in Workers, j \in Jobs : Finish(w, j)
    \/ \E w \in Workers : Drain(w)
    \/ \E w \in Workers : MissHeartbeat(w)
    \/ CheckHealth

PoolSpec == PoolInit /\ [][PoolNext]_poolVars

\* Jobs end and live workers send heartbeats, however late.
PoolFairness ==
    /\ \A w \in Workers, j \in Jobs : WF_poolVars(Finish(w, j))
    /\ \A w \in Workers : WF_poolVars(Heartbeat(w))

PoolFairSpec == PoolSpec /\ PoolFairness

-------------------------------------------------------------------------------
(* Properties *)

\* Types; only workers that were registered are in the fleet or were found.
PoolTypeOK ==
    /\ registered \subseteq 1..used
    /\ used \in 0..MaxWorkers
    /\ status \in [Workers -> WorkerStatus]
    /\ current \in [Workers -> Jobs \cup {NoJob}]
    /\ stale \subseteq Workers
    /\ found \in [Dispatchers -> {NoWorker} \cup 1..used]
    /\ tasks \in [Workers -> SUBSET Jobs]
    /\ retired \subseteq Workers
    /\ misjudged \subseteq Workers

\* What the pool says of a worker is what the worker does.  A worker that is
\* BUSY or DRAINING is at work on current_job_id, however often its status was
\* overwritten; that job is all it does, and the others do nothing, unless the
\* pool lost sight of a job that is still going on: the worker was marked
\* unhealthy at work, told to leave once more while it was finishing, or given a
\* second job by mark_busy().  When it is out of work the picture is right again.
BeliefMatchesWork ==
    \A w \in registered :
        /\ status[w] \in {"BUSY", "DRAINING"} => current[w] \in tasks[w]
        /\ w \notin misjudged =>
             tasks[w] \subseteq (IF status[w] \in {"BUSY", "DRAINING"} THEN {current[w]} ELSE {})

\* A worker that has stopped comes back only by the report of a job it was still
\* at: no heartbeat, no health check and no dispatcher brings it back.
StoppedForGood ==
    [][\A w \in registered :
        status[w] = "STOPPED" /\ status'[w] # "STOPPED"
            => \E j \in tasks[w] : j \notin tasks'[w]]_poolVars

\* A worker that is alive and was not retired comes back to the available workers,
\* whatever heartbeats it missed and whatever it was doing when it missed them.
FleetComesBack ==
    \A w \in Workers :
        w \in registered \ retired
            ~> status[w] = "IDLE" \/ w \notin registered \/ w \in retired

\* pool.py:167, "Return the first idle worker able to take new work": no worker
\* is at two jobs.  It does not hold, even of one dispatcher: a late heartbeat
\* makes a worker IDLE that was marked unhealthy at work.
NeverOverbooked ==
    \A w \in Workers : \A j, k \in tasks[w] : j = k

\* pool.py:95, "Transition an available worker to BUSY": a worker that takes a job
\* was available.  It does not hold: of two dispatchers that found the same worker
\* the second puts its job in the place of the first one's.
AvailableIsTaken ==
    [][\A w \in Workers : current'[w] \notin {current[w], NoJob} => IsAvailable(w)]_poolVars

\* models.py:28, "finishing current work, accepting no new work": a worker that was
\* told to drain is given no other job.  It does not hold: a second drain makes a
\* worker STOPPED that is still at its job, and the report of the job makes it IDLE.
DrainedTakesNoWork ==
    [][\A w \in retired : tasks'[w] \subseteq tasks[w]]_poolVars

\* pool.py:6, "graceful shutdown (drain then stop)": a worker that was told to
\* drain leaves the active fleet.  It does not hold: a worker that is DRAINING is
\* marked UNHEALTHY, and the next heartbeat makes it IDLE.
DrainedWorkersStop ==
    \A w \in Workers : w \in retired ~> w \notin Active
================================================================================
