------------------------------- MODULE Dispatch -------------------------------
(***************************************************************************)
(* The runtime composition: JobPlatform and WorkerPool driven by the loop  *)
(* that puts a worker to work (src/src/platform/runtime/demo.py and        *)
(* src/tests/test_runtime_platform.py):                                    *)
(*                                                                         *)
(*     claimed = jobs.claim(worker.id, tenant_id=...)                      *)
(*     workers.mark_busy(worker.id, claimed.id)                            *)
(*     jobs.complete(claimed.id) or jobs.fail(claimed.id)                  *)
(*     workers.mark_idle(worker.id)                                        *)
(*                                                                         *)
(* Every worker has a runner that repeats the loop.  Each of the four      *)
(* calls is atomic, nothing makes them one, and an exception ends the      *)
(* runner where it is.  Users of the job platform, operators of the fleet  *)
(* and the health poll come between any two of them.                       *)
(***************************************************************************)
EXTENDS Integers, FiniteSets

CONSTANTS
    Tenant, NoTenant, Priorities, MaxAttempts, Capacity, MaxJobs,  \* of JobPlatform
    MaxWorkers, NoJob,                                             \* of WorkerPool
    Frail        \* bound of the model: the workers that are removed or miss a heartbeat

ASSUME DispatchAssumption ==
    /\ NoTenant # Tenant
    /\ Priorities \subseteq Nat
    /\ MaxAttempts \subseteq Nat \ {0}
    /\ Capacity \in Nat
    /\ MaxJobs \in Nat
    /\ MaxWorkers \in Nat
    /\ NoJob \notin 1..MaxJobs
    /\ Frail \subseteq 1..MaxWorkers

Jobs    == 1..MaxJobs
Workers == 1..MaxWorkers

VARIABLES
    job, status, attempts, queue, sequence, schedule, executing,  \* the job platform's
    registered, used, standing, current, stale, retired, misjudged, \* the pool's; standing is Worker.status
    at,         \* runner of each worker: the call it makes next
    held,       \* runner of each worker: "claimed", the job of the iteration
    unwell      \* workers that were marked UNHEALTHY at some time

board  == <<job, status, attempts, queue, sequence, schedule, executing>>
fleet  == <<registered, used, standing, current, stale, retired, misjudged>>
runner == <<at, held>>
vars   == <<board, fleet, runner, unwell>>

\* "ended" is a runner that an exception has ended.
Steps == {"claim", "mark_busy", "work", "mark_idle", "ended"}

\* What each worker is at work on, as far as the pool has been told.
InHand == [w \in Workers |-> IF at[w] \in {"work", "mark_idle"} THEN {held[w]} ELSE {}]

Board == INSTANCE JobPlatform WITH
    Tenants <- {Tenant},
    Serves  <- [w \in Workers |-> Tenant]

\* The runners claim for themselves: nobody asks for an available_worker().
Pool == INSTANCE WorkerPool WITH
    Dispatchers <- {},
    found  <- [d \in {} |-> 0],
    status <- standing,
    tasks  <- InHand

Init ==
    /\ at = [w \in Workers |-> "claim"]
    /\ held = [w \in Workers |-> NoJob]
    /\ unwell = {}
    /\ Board!Init
    /\ Pool!PoolInit

-------------------------------------------------------------------------------
(* The loop of a runner *)

Goes(w, from, to) ==
    /\ at[w] = from
    /\ at' = [at EXCEPT ![w] = to]

\* The runner does not look at the state of its worker before it claims.
ClaimJob(w) ==
    \E claimed \in Jobs :
        /\ w <= used
        /\ Goes(w, "claim", "mark_busy")
        /\ Board!Claim(w)
        /\ executing' = executing \cup {<<w, claimed>>}
        /\ held' = [held EXCEPT ![w] = claimed]
        /\ UNCHANGED <<fleet, unwell>>

MarkBusy(w) ==
    /\ Goes(w, "mark_busy", "work")
    /\ Pool!MarkBusy(w, held[w])
    /\ UNCHANGED <<board, held, unwell>>

\* WorkerError: the job was claimed, and nobody will work on it.
MarkBusyRaises(w) ==
    /\ ~Pool!CanTake(w)
    /\ Goes(w, "mark_busy", "ended")
    /\ UNCHANGED <<board, fleet, held, unwell>>

\* complete() and fail() raise when the queue has no room for what they enqueue.
WorkSucceeds(w) ==
    LET done  == [status EXCEPT ![held[w]] = "SUCCEEDED"]
        freed == Board!Freed(done, held[w])
    IN  /\ Goes(w, "work", IF Board!FirstThatFit(freed) = freed THEN "mark_idle" ELSE "ended")
        /\ Board!Complete(w, held[w])
        /\ UNCHANGED <<fleet, held, unwell>>

WorkFails(w) ==
    /\ Goes(w, "work", IF Board!CanRetry(held[w]) /\ Board!QueueIsFull
                         THEN "ended" ELSE "mark_idle")
    /\ Board!Fail(w, held[w])
    /\ UNCHANGED <<fleet, held, unwell>>

\* mark_idle() raises for a worker that was deregistered.
NextTurn(w) == IF w \in registered THEN "claim" ELSE "ended"

MarkIdle(w) ==
    /\ Goes(w, "mark_idle", NextTurn(w))
    /\ held' = [held EXCEPT ![w] = NoJob]
    /\ Pool!Finish(w, held[w])
    /\ UNCHANGED <<board, unwell>>

Work(w) == WorkSucceeds(w) \/ WorkFails(w)

Runner(w) ==
    ClaimJob(w) \/ MarkBusy(w) \/ MarkBusyRaises(w) \/ Work(w) \/ MarkIdle(w)

-------------------------------------------------------------------------------
(* Everybody else *)

\* Users of the job platform and its scheduler.
Users ==
    /\ \/ \E j \in Jobs, s \in Board!Submission : Board!Submit(j, s)
       \/ \E due \in SUBSET schedule : Board!Promote(due)
       \/ \E j \in Jobs : Board!Cancel(j)
    /\ UNCHANGED <<fleet, runner, unwell>>

\* Operators of the fleet, and heartbeats.
Operators ==
    /\ UNCHANGED <<board, runner, unwell>>
    /\ \/ Pool!Register
       \/ \E w \in Workers : Pool!Drain(w) \/ Pool!Heartbeat(w)
       \/ \E w \in Frail : Pool!Deregister(w) \/ Pool!MissHeartbeat(w)

\* Scaling, as the recovery playbook asks for it.
Scale ==
    /\ UNCHANGED <<board, runner, unwell>>
    /\ \E size \in 0..MaxWorkers : Pool!ScaleUp(size) \/ Pool!ScaleDown(size)

\* The health poll: worker_pool_check asks pool.health(), which is check_health().
HealthPoll ==
    /\ UNCHANGED <<board, runner>>
    /\ Pool!CheckHealth
    /\ unwell' = unwell \cup {w \in Workers : standing'[w] = "UNHEALTHY"}

Next ==
    \/ \E w \in Workers : Runner(w)
    \/ Users
    \/ Operators
    \/ Scale
    \/ HealthPoll

Spec == Init /\ [][Next]_vars

\* A runner goes on as long as its calls return.
Fairness == \A w \in Workers : WF_vars(Runner(w))

FairSpec == Spec /\ Fairness

-------------------------------------------------------------------------------
(* Properties *)

\* A worker in good standing is registered and was never told to leave nor found
\* unhealthy.
GoodStanding == registered \ (retired \cup unwell)

\* Types of what the composition adds.
TypeOK ==
    /\ Board!TypeOK
    /\ Pool!PoolTypeOK
    /\ at \in [Workers -> Steps]
    /\ held \in [Workers -> Jobs \cup {NoJob}]
    /\ unwell \subseteq Workers

\* The two managers agree: what the pool says of a worker in good standing is
\* where its runner is, it names the job that the runner holds, and that job is
\* one the job platform takes for running, or was cancelled meanwhile.
ManagersAgree ==
    \A w \in GoodStanding :
        /\ at[w] \in {"claim", "mark_busy"} => standing[w] = "IDLE" /\ current[w] = NoJob
        /\ at[w] \in {"work", "mark_idle"} => standing[w] = "BUSY" /\ current[w] = held[w]
        /\ at[w] \in {"mark_busy", "work"} =>
             /\ <<w, held[w]>> \in executing
             /\ status[held[w]] \in {"RUNNING", "CANCELLED"}

\* A job that is RUNNING has a runner that will report it, unless the pool turned
\* its worker away: it was removed, told to leave or found unhealthy.
RunningMeansHeld ==
    \A j \in Jobs : status[j] = "RUNNING" =>
        \E w \in Workers :
            /\ <<w, j>> \in executing
            /\ held[w] = j
            /\ at[w] \in {"mark_busy", "work"} \/ (at[w] = "ended" /\ w \notin GoodStanding)

\* The jobs whose runner was ended while it held them, and those that an overflow
\* has left where submit and fail only pass through.
Stranded ==
    {j \in Jobs : \/ status[j] \in {"PENDING", "RETRYING"}
                  \/ \E w \in Workers : <<w, j>> \in executing /\ at[w] = "ended"}

\* What a job waits for, directly or not.  (A dependency is always an older job.)
Needs[j \in Jobs] == job[j].deps \cup UNION {Needs[d] : d \in job[j].deps \cap 1..(j - 1)}

\* As long as some runner keeps going every job comes to its end, or is stranded,
\* or waits behind a job that is: stranded, failed, cancelled, not yet due, or
\* blocked on nothing by an overflow.
JobsSettle ==
    (\E w \in Workers : <>[](w <= used /\ at[w] # "ended")) =>
        \A j \in Jobs :
            status[j] \in {"QUEUED", "BLOCKED"} ~>
                \/ status[j] \in Board!Terminal
                \/ j \in Stranded
                \/ \E d \in Needs[j] :
                     d \in Stranded \/ status[d] \in {"FAILED", "CANCELLED", "SCHEDULED"}
                \/ \E d \in Needs[j] \cup {j} :
                     status[d] = "BLOCKED" /\ ~Board!HasPending(status, job[d].deps)
================================================================================
