------------------------------- MODULE TaskGraph -------------------------------
(***************************************************************************)
(* What the job platform promises to the code that runs on it: a job is    *)
(* never worked on before everything it depends on has succeeded, never by *)
(* two executors at a time, never again once it has succeeded, and never   *)
(* more often than its retry policy allows.  Queue, priorities, statuses,  *)
(* scheduler and cancellation do not appear.                               *)
(***************************************************************************)
EXTENDS Naturals

CONSTANTS
    Tasks,
    Limits      \* the retry limits a task may have

VARIABLES
    needs,      \* the tasks each task depends on
    limit,      \* how often each task may be started
    added,      \* the tasks that exist
    active,     \* the tasks being worked on
    succeeded,  \* the tasks that are done
    starts      \* how often each task was started

taskVars == <<needs, limit, added, active, succeeded, starts>>

Init ==
    /\ needs = [t \in Tasks |-> {}]
    /\ limit = [t \in Tasks |-> 0]
    /\ added = {}
    /\ active = {}
    /\ succeeded = {}
    /\ starts = [t \in Tasks |-> 0]

\* Dependencies exist before their dependents, so the graph has no cycle.
Add(t, D, n) ==
    /\ t \notin added
    /\ D \subseteq added
    /\ added' = added \cup {t}
    /\ needs' = [needs EXCEPT ![t] = D]
    /\ limit' = [limit EXCEPT ![t] = n]
    /\ UNCHANGED <<active, succeeded, starts>>

Start(t) ==
    /\ t \in added \ (active \cup succeeded)
    /\ needs[t] \subseteq succeeded
    /\ starts[t] < limit[t]
    /\ active' = active \cup {t}
    /\ starts' = [starts EXCEPT ![t] = @ + 1]
    /\ UNCHANGED <<needs, limit, added, succeeded>>

Succeed(t) ==
    /\ t \in active
    /\ active' = active \ {t}
    /\ succeeded' = succeeded \cup {t}
    /\ UNCHANGED <<needs, limit, added, starts>>

GiveUp(t) ==
    /\ t \in active
    /\ active' = active \ {t}
    /\ UNCHANGED <<needs, limit, added, succeeded, starts>>

Next ==
    \E t \in Tasks :
        \/ \E D \in SUBSET Tasks, n \in Limits : Add(t, D, n)
        \/ Start(t)
        \/ Succeed(t)
        \/ GiveUp(t)

Spec == Init /\ [][Next]_taskVars
================================================================================
