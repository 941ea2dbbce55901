------------------------------ MODULE Maintenance ------------------------------
(***************************************************************************)
(* The recurring maintenance tasks, from                                   *)
(* src/src/platform/runtime/services/background.py.                        *)
(*                                                                         *)
(* Tickers (a scheduler thread, the dashboard) call tick(), which walks    *)
(* through the registered tasks in the order of their registration and     *)
(* runs the ones that are due.  A task takes its time, during which the    *)
(* other ticker ticks and tasks are registered and unregistered, and one   *)
(* that raises ends the tick.  Time is kept as the age of each task's last *)
(* run, up to where it makes no difference any more.                       *)
(***************************************************************************)
EXTENDS Integers, Sequences, SequencesExt

CONSTANTS
    Names,           \* tasks; a name is registered once in the model
    Interval,        \* interval_seconds of each
    Flaky,           \* tasks that may raise
    Switched,        \* bound of the model: tasks that are disabled and enabled
    Tickers,
    MaxLag           \* bound of the model: how long a tick may take

VARIABLES
    order,       \* _tasks: the names in the order of registration
    removed,     \* the names that were unregistered since
    disabled,    \* tasks whose "enabled" is False
    age,         \* time since last_run_at of each task, or Never
    tick         \* the tick() of each ticker

TaskAssumption == MaxLag \in Nat

taskVars == <<order, removed, disabled, age, tick>>

Never == -1
Limit(n) == Interval[n] + MaxLag
Resting == [on |-> FALSE, inside |-> FALSE, at |-> 0, size |-> 0, lag |-> 0]

TaskTypeOK ==
    /\ order \in Seq(Names)
    /\ removed \subseteq Names
    /\ disabled \subseteq Names
    /\ age \in [Names -> Int]
    /\ tick \in [Tickers -> [on : BOOLEAN, inside : BOOLEAN, at : Nat, size : Nat, lag : 0..MaxLag]]

TaskInit ==
    /\ order = <<>>
    /\ removed = {}
    /\ disabled = {}
    /\ age = [n \in Names |-> Never]
    /\ tick = [t \in Tickers |-> Resting]

--------------------------------------------------------------------------------

Registered == ToSet(order) \ removed

Register(n) ==
    /\ n \notin ToSet(order)
    /\ order' = Append(order, n)
    /\ age' = [age EXCEPT ![n] = Never]
    /\ UNCHANGED <<removed, disabled, tick>>

Unregister(n) ==
    /\ n \in Registered
    /\ removed' = removed \cup {n}
    /\ UNCHANGED <<order, disabled, age, tick>>

\* register() and tasks() hand out the tasks, whose "enabled" may be set.
Switch(n) ==
    /\ n \in Registered \cap Switched
    /\ disabled' = IF n \in disabled THEN disabled \ {n} ELSE disabled \cup {n}
    /\ UNCHANGED <<order, removed, age, tick>>

\* Mutated form: a task that has never run waits for its first interval.
IsDue_NotYet(n, lag) == n \notin disabled /\ age[n] # Never /\ age[n] - lag >= Interval[n]

\* _is_due() at the moment at which the tick began, lag ago.
IsDue(n, lag) == n \notin disabled /\ (age[n] = Never \/ age[n] - lag >= Interval[n])

\* tick() notes the moment, then iterates over the dictionary of tasks.
BeginTick(t) ==
    /\ ~tick[t].on
    /\ Registered # {}
    /\ tick' = [tick EXCEPT ![t] =
           [Resting EXCEPT !.on = TRUE, !.at = 1, !.size = Cardinality(Registered)]]
    /\ UNCHANGED <<order, removed, disabled, age>>

AtTask(t) == tick[t].on /\ ~tick[t].inside

\* A dictionary whose size has changed ends the iteration with an exception.
Disturbed(t) == Cardinality(Registered) # tick[t].size

TickRaises(t) ==
    /\ AtTask(t)
    /\ Disturbed(t)
    /\ tick' = [tick EXCEPT ![t] = Resting]
    /\ UNCHANGED <<order, removed, disabled, age>>

TickEnds(t) ==
    /\ AtTask(t)
    /\ ~Disturbed(t)
    /\ tick[t].at > Len(order)
    /\ tick' = [tick EXCEPT ![t] = Resting]
    /\ UNCHANGED <<order, removed, disabled, age>>

\* Skips what is unregistered or not due.
NextTask(t) ==
    /\ AtTask(t)
    /\ ~Disturbed(t)
    /\ tick[t].at <= Len(order)
    /\ LET n == order[tick[t].at] IN n \in removed \/ ~IsDue(n, tick[t].lag)
    /\ tick' = [tick EXCEPT ![t].at = @ + 1]
    /\ UNCHANGED <<order, removed, disabled, age>>

RunTask(t) ==
    /\ AtTask(t)
    /\ ~Disturbed(t)
    /\ tick[t].at <= Len(order)
    /\ LET n == order[tick[t].at] IN n \notin removed /\ IsDue(n, tick[t].lag)
    /\ tick' = [tick EXCEPT ![t].inside = TRUE]
    /\ UNCHANGED <<order, removed, disabled, age>>

TaskReturns(t) ==
    /\ tick[t].inside
    /\ age' = [age EXCEPT ![order[tick[t].at]] = 0]
    /\ tick' = [tick EXCEPT ![t].inside = FALSE, ![t].at = @ + 1]
    /\ UNCHANGED <<order, removed, disabled>>

\* Nothing catches the exception: the task stays as it was, the tick ends.
TaskRaises(t) ==
    /\ tick[t].inside
    /\ order[tick[t].at] \in Flaky
    /\ tick' = [tick EXCEPT ![t] = Resting]
    /\ UNCHANGED <<order, removed, disabled, age>>

TimePassesBy ==
    /\ \A t \in Tickers : tick[t].lag < MaxLag
    /\ age' = [n \in Names |->
           IF age[n] = Never \/ age[n] >= Limit(n) THEN age[n] ELSE age[n] + 1]
    /\ tick' = [t \in Tickers |->
           IF tick[t].on THEN [tick[t] EXCEPT !.lag = @ + 1] ELSE tick[t]]
    /\ UNCHANGED <<order, removed, disabled>>

Tick(t) == TickRaises(t) \/ TickEnds(t) \/ NextTask(t) \/ RunTask(t) \/ TaskReturns(t) \/ TaskRaises(t)

TaskNext ==
    \/ \E n \in Names : Register(n) \/ Unregister(n) \/ Switch(n)
    \/ \E t \in Tickers : BeginTick(t) \/ Tick(t)
    \/ TimePassesBy

TaskSpec == TaskInit /\ [][TaskNext]_taskVars

\* tick() is called again and again and comes to its end; so does a task.
TaskFairness == \A t \in Tickers : WF_taskVars(BeginTick(t)) /\ WF_taskVars(Tick(t))

--------------------------------------------------------------------------------
(* Properties                                                                  *)

\* The task is enabled, and its interval has passed or it has never run.
Due(n) == n \in Registered \ disabled /\ (age[n] = Never \/ age[n] >= Interval[n])

\* A task that may raise is registered before it.
BehindFlaky(n) ==
    \E i, j \in DOMAIN order :
        i < j /\ order[j] = n /\ order[i] \in Flaky \ removed

\* A task that is due is run, although tasks come and go under the ticks that
\* are to run it and the task itself may fail for ever: unless one that was
\* registered before it may fail, which can keep it from running for good.
DueTasksRun ==
    \A n \in Names \ Flaky : Due(n) ~> (~Due(n) \/ BehindFlaky(n))

================================================================================
