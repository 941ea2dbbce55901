---------------------------- MODULE WorkflowEngine -----------------------------
(***************************************************************************)
(* The multi-agent workflow engine (src/src/ai/orchestration): one engine  *)
(* runs task graphs one after the other.  Each task is delegated to the    *)
(* candidate agents of its capability, with retries, an optional fallback  *)
(* capability, a ledger against duplicate work and a ceiling on the number *)
(* of delegations.  Ledger and count live as long as the engine does.      *)
(*                                                                         *)
(* Tasks are numbered in the order of priority, then id.                   *)
(***************************************************************************)
EXTENDS Integers, FiniteSets, FiniteSetsExt

CONSTANTS
    MaxTasks,      \* max_graph_size
    MaxExecutions, \* max_total_executions
    Graphs,        \* the task graphs the engine is given
    Policies,      \* retries, continue_on_failure, fallback_capability
    MaxAgents,     \* bound of the model: candidate agents of a capability
    MaxRuns,       \* bound of the model: runs of the engine
    NoCap, NoTask, NoWork, NoOutput

ASSUME LimitsAssumption ==
    /\ MaxTasks \in Nat /\ MaxExecutions \in Nat
    /\ MaxAgents \in Nat /\ MaxRuns \in Nat

VARIABLES
    \* OrchestrationSafetyGuard
    executions,  \* _executions
    signatures,  \* _signatures
    \* one call of WorkflowEngine.run
    runs,        \* how many there were
    graph, policy,
    cancelled,   \* CancellationToken
    status,      \* WorkflowState.status; "raised" when the call raised
    todo,        \* the tasks of the plan that the loop has not reached
    ts,          \* TaskState.status; the two reasons to skip told apart
    outputs,     \* outputs[task_id]
    context,     \* SharedContext.outputs
    \* inside _run_task() and delegate()
    current,     \* the task
    phase,
    doing,       \* the work the agents are trying
    left,        \* the invocations they have left
    out,         \* the output in hand
    \* history
    handed,      \* how often each work was handed to the agents
    earned       \* the work an agent succeeded at

guardVars == <<executions, signatures>>
runVars == <<runs, graph, policy, cancelled>>
stepVars == <<current, phase, doing, left, out>>
vars == <<guardVars, runVars, status, todo, ts, outputs, context, stepVars, handed, earned>>

-------------------------------------------------------------------------------
(* Task graphs *)

\* A graph maps its tasks to the sets of tasks they depend on and to their work.
TaskIds == 1..(MaxTasks + 1)
TasksOf(g) == DOMAIN g.deps

ASSUME InputsAssumption ==
    /\ \A g \in Graphs : TasksOf(g) \subseteq TaskIds /\ DOMAIN g.work = TasksOf(g)
    /\ \A p \in Policies : p.retries \in Nat

\* Work is what Task.signature() tells apart: capability, goal and payload.
Works == UNION {{g.work[t] : t \in TasksOf(g)} : g \in Graphs}
On(work, cap) == [work EXCEPT !.cap = cap]
Signatures ==
    Works \cup {On(w, p.fallback) : w \in Works, p \in {q \in Policies : q.fallback # NoCap}}

\* In a cycle, every task waits for another one of it.
HasCycle(g) ==
    \E S \in SUBSET TasksOf(g) : S # {} /\ \A t \in S : g.deps[t] \cap S # {}

\* validate_graph(): size, unknown dependencies, cycles.
IsValid(g) ==
    /\ Cardinality(TasksOf(g)) <= MaxTasks
    /\ \A t \in TasksOf(g) : g.deps[t] \subseteq TasksOf(g)
    /\ ~HasCycle(g)

\* execution_layers(): a task is one layer above the highest one it depends on.
Layer(g) ==
    LET layer[t \in TasksOf(g)] ==
          IF g.deps[t] = {} THEN 0 ELSE 1 + Max({layer[d] : d \in g.deps[t]})
    IN  layer

\* Mutated form: priorities are followed whatever the layers are.
Before_ByPriority(g, t, u) == t < u

Before(g, t, u) ==
    \/ Layer(g)[t] < Layer(g)[u]
    \/ Layer(g)[t] = Layer(g)[u] /\ t < u

\* The task the loop comes to next.
Upcoming(t) == t \in todo /\ \A u \in todo \ {t} : Before(graph, t, u)

-------------------------------------------------------------------------------
(* Initial state *)

BetweenTasks == current = NoTask /\ status = "running"

Output == [ok: BOOLEAN, data: Signatures \cup {NoWork}]

ASSUME NullsAssumption == NoTask \notin TaskIds /\ NoOutput \notin Output

\* An engine that was not asked to run anything yet.
Init ==
    /\ executions = 0 /\ signatures = {}
    /\ runs = 0
    /\ graph \in Graphs /\ policy \in Policies
    /\ cancelled = FALSE
    /\ status = "pending"
    /\ todo = {}
    /\ ts = [t \in TaskIds |-> "pending"]
    /\ outputs = [t \in TaskIds |-> NoOutput]
    /\ context = [t \in TaskIds |-> NoWork]
    /\ current = NoTask /\ phase = "next"
    /\ doing = NoWork /\ left = 0
    /\ out = NoOutput
    /\ handed = [w \in Signatures |-> 0]
    /\ earned = {}

-------------------------------------------------------------------------------
(* The loop of run() *)

\* The caller passes the context of the run before, or none.
Start(g, p) ==
    /\ status # "running"
    /\ runs < MaxRuns
    /\ runs' = runs + 1
    /\ graph' = g
    /\ policy' = p
    /\ cancelled' = FALSE
    /\ ts' = [t \in TaskIds |-> "pending"]
    /\ outputs' = [t \in TaskIds |-> NoOutput]
    /\ context' \in {context, [t \in TaskIds |-> NoWork]}
    /\ \/ IsValid(g)  /\ status' = "running" /\ todo' = TasksOf(g)
       \/ ~IsValid(g) /\ status' = "failed"  /\ todo' = {}
    /\ current' = NoTask /\ phase' = "next"
    /\ doing' = NoWork /\ left' = 0
    /\ out' = NoOutput
    /\ UNCHANGED <<guardVars, handed, earned>>

\* CancellationToken.cancel(), by whoever holds the token.
RequestCancel ==
    /\ status = "running"
    /\ ~cancelled
    /\ cancelled' = TRUE
    /\ UNCHANGED <<guardVars, runs, graph, policy, status, todo, ts, outputs,
                   context, stepVars, handed, earned>>

\* _cancel(): looked at before each task, never within one.
Cancel ==
    /\ BetweenTasks /\ todo # {}
    /\ cancelled
    /\ status' = "cancelled"
    /\ UNCHANGED <<guardVars, runVars, todo, ts, outputs, context, stepVars, handed, earned>>

GoesOn == BetweenTasks /\ ~cancelled

\* Mutated form: the loop comes to a skipped task over and over.
Past_Never(t) == todo

Past(t) == todo \ {t}

Skip(t, reason) ==
    /\ ts' = [ts EXCEPT ![t] = reason]
    /\ todo' = Past(t)
    /\ UNCHANGED <<guardVars, runVars, status, outputs, context, stepVars, handed, earned>>

\* The key of a conditional task is not truthy in the context, which the caller
\* and the agents fill.
SkipByCondition(t) ==
    /\ GoesOn /\ Upcoming(t)
    /\ t \in graph.conditional
    /\ Skip(t, "condition")

\* Whether the run has an output of the task, and a good one.
Ran(t) == outputs[t] # NoOutput
IsOk(t) == Ran(t) /\ outputs[t].ok

\* Mutated form: a dependency that ran counts as met, however it ended.
DependencyFailed_IfAbsent(t) ==
    \E d \in graph.deps[t] : ~Ran(d)

\* _dependency_failed(): it does not ask whether the dependency is optional.
DependencyFailed(t) ==
    \E d \in graph.deps[t] : ~IsOk(d)

SkipByDependency(t) ==
    /\ GoesOn /\ Upcoming(t)
    /\ DependencyFailed(t)
    /\ Skip(t, "dependency")

\* Mutated form: a failed optional task counts.
FailedRequired_Any == \E t \in TasksOf(graph) : Ran(t) /\ ~IsOk(t)

FailedRequired ==
    \E t \in TasksOf(graph) \ graph.optional : Ran(t) /\ ~IsOk(t)

Complete ==
    /\ BetweenTasks /\ todo = {}
    /\ status' = IF FailedRequired THEN "partial" ELSE "completed"
    /\ UNCHANGED <<guardVars, runVars, todo, ts, outputs, context, stepVars, handed, earned>>

-------------------------------------------------------------------------------
(* _run_task() and delegate() *)

Failed == [ok |-> FALSE, data |-> NoWork]
Succeeded(w) == [ok |-> TRUE, data |-> w]

\* The agents have failed at what they were given, or were given nothing.
GiveUp ==
    /\ doing' = NoWork /\ left' = 0
    /\ out' = Failed
    /\ phase' = IF phase \in {"next", "invoke"} /\ policy.fallback # NoCap
                  THEN "fallback" ELSE "record"

Settle(o) ==
    /\ doing' = NoWork /\ left' = 0
    /\ out' = o
    /\ phase' = "record"

\* Mutated form: the ledger is not written.
Ledger_Unwritten(w) == signatures

Ledger(w) == signatures \cup {w}

\* delegate() below the ceiling: work that is in the ledger is not done again,
\* and what the context holds under the id of this very task is its output.
Delegated(t, w, agents, retries) ==
    \/ /\ w \in signatures
       /\ Settle(Succeeded(context[t]))
       /\ UNCHANGED <<signatures, handed>>
    \/ /\ w \notin signatures
       /\ signatures' = Ledger(w)
       /\ IF agents = 0
            THEN GiveUp /\ UNCHANGED handed
            ELSE /\ handed' = [handed EXCEPT ![w] = @ + 1]
                 /\ doing' = w
                 /\ left' = agents * (retries + 1)
                 /\ phase' = IF phase = "fallback" THEN "last" ELSE "invoke"
                 /\ out' = NoOutput

\* before_execution()
Counted == executions' = executions + 1
Permitted == executions < MaxExecutions

\* A task is delegated to the agents that are healthy now.
RunTask(t, agents) ==
    /\ GoesOn /\ Upcoming(t)
    /\ ~DependencyFailed(t)
    /\ Counted
    /\ current' = t
    /\ ts' = [ts EXCEPT ![t] = "running"]
    /\ IF Permitted
         THEN Delegated(t, graph.work[t], agents, policy.retries)
         ELSE GiveUp /\ UNCHANGED <<signatures, handed>>
    /\ UNCHANGED <<runVars, status, todo, outputs, context, earned>>

\* An agent returns a good output.
AgentSucceeds ==
    /\ phase \in {"invoke", "last"}
    /\ earned' = earned \cup {doing}
    /\ Settle(Succeeded(doing))
    /\ UNCHANGED <<guardVars, runVars, status, todo, ts, outputs, context, current, handed>>

\* Whether no attempt is left once one of n has failed.
Exhausted(n) == n = 1

\* An agent raises, or returns a bad output: the next attempt or the next agent,
\* if there is one.
AgentFails ==
    /\ phase \in {"invoke", "last"}
    /\ \/ Exhausted(left) /\ GiveUp
       \/ ~Exhausted(left) /\ left' = left - 1 /\ UNCHANGED <<phase, doing, out>>
    /\ UNCHANGED <<guardVars, runVars, status, todo, ts, outputs, context, current,
                   handed, earned>>

\* The task is delegated once more, under the fallback capability, with no retries.
Fallback(agents) ==
    /\ phase = "fallback"
    /\ Permitted
    /\ Counted
    /\ Delegated(current, On(graph.work[current], policy.fallback), agents, 0)
    /\ UNCHANGED <<runVars, status, todo, ts, outputs, context, current, earned>>

\* Nothing catches the error of the ceiling here: it leaves run().
FallbackRaises ==
    /\ phase = "fallback"
    /\ ~Permitted
    /\ Counted
    /\ status' = "raised"
    /\ phase' = "next"
    /\ current' = NoTask
    /\ UNCHANGED <<signatures, runVars, todo, ts, outputs, context, doing, left, out,
                   handed, earned>>

\* The end of _run_task() and of the loop's body: a failed task that is required
\* ends the run if the policy says so.
Record ==
    LET t == current
    IN  /\ phase = "record"
        /\ ts' = [ts EXCEPT ![t] = IF out.ok THEN "completed" ELSE "failed"]
        /\ outputs' = [outputs EXCEPT ![t] = out]
        /\ context' = [context EXCEPT ![t] = out.data]
        /\ todo' = todo \ {t}
        /\ status' = IF ~out.ok /\ t \notin graph.optional /\ ~policy.continue
                       THEN "failed" ELSE status
        /\ current' = NoTask /\ phase' = "next"
        /\ out' = NoOutput
        /\ UNCHANGED <<guardVars, runVars, doing, left, handed, earned>>

-------------------------------------------------------------------------------
EngineStep ==
    \/ Cancel
    \/ \E t \in todo : SkipByCondition(t)
    \/ \E t \in todo : SkipByDependency(t)
    \/ \E t \in todo, n \in 0..MaxAgents : RunTask(t, n)
    \/ AgentSucceeds
    \/ AgentFails
    \/ \E n \in 0..MaxAgents : Fallback(n)
    \/ FallbackRaises
    \/ Record
    \/ Complete

Next ==
    \/ \E g \in Graphs, p \in Policies : Start(g, p)
    \/ RequestCancel
    \/ EngineStep

Spec == Init /\ [][Next]_vars

\* run() is a loop of one thread, and agents return or raise.
FairSpec == Spec /\ WF_vars(EngineStep)

-------------------------------------------------------------------------------
(* Properties *)

Statuses == {"pending", "running", "completed", "partial", "failed", "cancelled", "raised"}

\* Types; the countdown of invocations never passes zero, and outputs belong to
\* tasks of the graph that is run.
TypeOK ==
    /\ executions \in Nat
    /\ signatures \subseteq Signatures
    /\ runs \in 0..MaxRuns
    /\ graph \in Graphs /\ policy \in Policies
    /\ cancelled \in BOOLEAN
    /\ status \in Statuses
    /\ todo \subseteq TasksOf(graph)
    /\ ts \in [TaskIds -> {"pending", "running", "completed", "failed",
                          "condition", "dependency"}]
    /\ outputs \in [TaskIds -> Output \cup {NoOutput}]
    /\ context \in [TaskIds -> Signatures \cup {NoWork}]
    /\ current \in TasksOf(graph) \cup {NoTask}
    /\ phase \in {"next", "invoke", "fallback", "last", "record"}
    /\ doing \in Signatures \cup {NoWork}
    /\ left \in Nat /\ (left > 0 <=> phase \in {"invoke", "last"})
    /\ out \in Output \cup {NoOutput}
    /\ handed \in [Signatures -> Nat]
    /\ earned \subseteq Signatures

\* "the same unit of work is never run twice": over all runs of the engine, and
\* whether as a task or as a fallback, work is handed to the agents once.
WorkHandedOnce == \A w \in Signatures : handed[w] <= 1

\* "skip if any *required* dependency failed": a task that is running or has run
\* found every required task it depends on well done, in this run.
RestsOnItsDependencies ==
    \A t \in TasksOf(graph) :
       ts[t] \in {"running", "completed", "failed"} =>
          \A d \in graph.deps[t] \ graph.optional : IsOk(d)

\* engine.py:339, "any *non-optional* dependency of task failed/absent": a task is
\* skipped for a dependency only if one that is required did not end well.  It does
\* not hold: an optional dependency that failed or was skipped gates as well.
OptionalDoesNotGate ==
    \A t \in TasksOf(graph) :
       ts[t] = "dependency" =>
          \E d \in graph.deps[t] \ graph.optional : ts[d] \in {"failed", "condition", "dependency"}

\* The loop takes tasks in an order where nothing is skipped because its
\* dependency has not had its turn yet.  An optional dependency is a reason like
\* any other here; that the comments say otherwise is OptionalDoesNotGate.
SkippedForAReason ==
    \A t \in TasksOf(graph) :
       ts[t] = "dependency" =>
          \E d \in graph.deps[t] : ts[d] \in {"failed", "condition", "dependency"}

\* The status of a run that ended agrees with the outputs it hands out.
VerdictIsHonest ==
    LET Failures == {t \in TasksOf(graph) : Ran(t) /\ ~IsOk(t)}
        Required == Failures \ graph.optional
    IN  /\ status = "completed" => Required = {}
        /\ status = "partial" => Required # {} /\ policy.continue
        /\ status = "failed" /\ IsValid(graph) => Cardinality(Required) = 1 /\ ~policy.continue
        /\ status \in {"completed", "partial"} =>
              \A t \in TasksOf(graph) :
                 Ran(t) \/ ts[t] \in {"condition", "dependency"}

\* Every run ends, whatever fails.
EveryRunEnds == [](status = "running" => <>(status # "running"))

\* "reuses the prior output for an identical unit of work": what is reported ok
\* comes with the output of its own work, done by an agent.
OkMeansDone ==
    \A t \in TasksOf(graph) :
       IsOk(t) =>
          /\ outputs[t].data \in earned
          /\ outputs[t].data.job = graph.work[t].job
================================================================================
