-------------------------------- MODULE SyncJobs --------------------------------
(***************************************************************************)
(* A synchronisation job and the callers that run and recover it, from     *)
(* src/src/platform/integrations/sync/service.py.                          *)
(*                                                                         *)
(* The job is one shared object; a call of its runner takes its time, so   *)
(* callers interleave there.  The records a job has to move are numbered,  *)
(* a cursor is the number of records before it, and what a call of the     *)
(* runner reports is an outcome: [ok, next], where next is 0 when the      *)
(* runner raised.                                                          *)
(***************************************************************************)
EXTENDS Integers

CONSTANTS
    Callers,
    Records,        \* the number of records
    MaxAttempts,    \* max_retries + 1
    MaxRuns         \* bound of the model: calls of run() from outside

VARIABLES
    state,          \* SyncJob.state
    attempts,       \* SyncJob.attempts
    cursor,         \* SyncJob.cursor
    moved,          \* the records 1..moved have been moved by some call of the runner
    running,        \* what each caller is doing: "free", or the cursor its runner started at
    runs,           \* how often run() was called from outside
    excused         \* run() was called with no attempt left, or interrupted

SyncAssumption == Records \in Nat /\ MaxAttempts \in Nat \ {0} /\ MaxRuns \in Nat

syncVars == <<state, attempts, cursor, moved, running, runs, excused>>

States   == {"pending", "running", "completed", "failed"}
Free == -1

SyncTypeOK ==
    /\ state \in States
    /\ attempts \in 0..MaxAttempts
    /\ cursor \in 0..Records /\ moved \in 0..Records
    /\ running \in [Callers -> 0..Records \cup {Free}]
    /\ runs \in 0..MaxRuns
    /\ excused \in BOOLEAN

\* schedule() with no cursor.
SyncInit ==
    /\ state = "pending"
    /\ attempts = 0
    /\ cursor = 0 /\ moved = 0
    /\ running = [c \in Callers |-> Free]
    /\ runs = 0
    /\ excused = FALSE

--------------------------------------------------------------------------------
(* run() and recover()                                                         *)

IsFree(c) == running[c] = Free

\* The first test of the loop: another attempt, or the assertion that there was
\* one, which leaves the state as it is by then.
EnterLoop(c, used) ==
    /\ state' = "running"
    /\ attempts' = IF used < MaxAttempts THEN used + 1 ELSE used
    /\ running' = IF used < MaxAttempts THEN [running EXCEPT ![c] = cursor] ELSE running

Run(c) ==
    /\ IsFree(c)
    /\ runs < MaxRuns
    /\ runs' = runs + 1
    /\ EnterLoop(c, attempts)
    /\ excused' = (excused \/ attempts = MaxAttempts)
    /\ UNCHANGED <<cursor, moved>>

\* Mutated form: the attempts that were used up stay so.
Budget_Kept == attempts

\* The attempts a recovery starts from.
Budget == 0

\* RECOVERING is overwritten by run() before anything else happens.
Recover(c) ==
    /\ IsFree(c)
    /\ state = "failed"
    /\ EnterLoop(c, Budget)
    /\ UNCHANGED <<cursor, moved, runs, excused>>

--------------------------------------------------------------------------------
(* The runner                                                                  *)

\* What _apply_batch() makes of the last outcome.
StateAfter(o) == IF o.ok THEN "completed" ELSE "failed"
CursorAfter(o) == IF o.next > 0 THEN o.next ELSE cursor

\* run() applies the outcome when the runner was successful or no attempt is left.
Ends(o) == o.ok \/ attempts >= MaxAttempts

Report(c, o) ==
    IF Ends(o)
      THEN /\ state' = StateAfter(o)
           /\ cursor' = CursorAfter(o)
           /\ running' = [running EXCEPT ![c] = Free]
           /\ excused' = FALSE
           /\ UNCHANGED attempts
      ELSE /\ attempts' = attempts + 1
           /\ running' = [running EXCEPT ![c] = cursor]
           /\ UNCHANGED <<state, cursor, excused>>

\* The runner has moved everything; or some records, and says how far it came;
\* or some records, and raised.
Succeeds(c) ==
    /\ ~IsFree(c)
    /\ moved' = Records
    /\ Report(c, [ok |-> TRUE, next |-> Records])
    /\ UNCHANGED runs

Fails(c) ==
    /\ ~IsFree(c)
    /\ \E n \in running[c]..Records :
        /\ moved' = IF n > moved THEN n ELSE moved
        /\ \E told \in {n, 0} : Report(c, [ok |-> FALSE, next |-> told])
    /\ UNCHANGED runs

\* What stops the runner is not an Exception: nothing is applied.
Interrupted(c) ==
    /\ ~IsFree(c)
    /\ running' = [running EXCEPT ![c] = Free]
    /\ excused' = TRUE
    /\ UNCHANGED <<state, attempts, cursor, moved, runs>>

RunnerReturns(c) == Succeeds(c) \/ Fails(c) \/ Interrupted(c)

SyncNext == \E c \in Callers : Run(c) \/ Recover(c) \/ RunnerReturns(c)

\* Failed jobs are recovered, runners return, and do not fail for ever.
SyncFairness ==
    /\ WF_syncVars(\E c \in Callers : Recover(c))
    /\ \A c \in Callers : WF_syncVars(RunnerReturns(c)) /\ SF_syncVars(Succeeds(c))

SyncSpec == SyncInit /\ [][SyncNext]_syncVars /\ SyncFairness

--------------------------------------------------------------------------------
(* Properties                                                                  *)

\* A job that failed is recovered and moves all its records in the end, however
\* often it fails and whoever runs it besides, unless a run of it was interrupted
\* or asked for with no attempt left: recover() does not resume the RUNNING job
\* either of them leaves.
FailedJobsRecover ==
    state = "failed" ~> (excused \/ (state = "completed" /\ moved = Records))

================================================================================
