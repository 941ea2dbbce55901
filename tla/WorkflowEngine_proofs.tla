------------------------- MODULE WorkflowEngine_proofs -------------------------
(***************************************************************************)
(* What the engine guarantees for any graphs, policies, number of agents   *)
(* and number of runs: its types, that no work is handed to agents twice,  *)
(* that no task runs before the tasks it requires are done, or is skipped  *)
(* before its turn, that a run's verdict agrees with its outputs, and that *)
(* each of its steps brings it closer to its end.                          *)
(***************************************************************************)
EXTENDS WorkflowEngine, FiniteSetTheorems, TLAPS

USE LimitsAssumption, InputsAssumption, NullsAssumption

\* A task is in hand exactly between being taken and being recorded, agents try
\* real work, only real outputs are recorded, and there is a fallback capability
\* whenever the engine turns to it.
InHand ==
    /\ phase = "next" <=> current = NoTask
    /\ phase = "fallback" => policy.fallback # NoCap
    /\ phase \in {"invoke", "last"} => doing \in Signatures
    /\ phase = "record" => out \in Output

Typed == TypeOK /\ InHand

\* What a task does is work, and so is what a fallback does.
LEMMA WorkIsWork ==
    ASSUME NEW g \in Graphs, NEW t \in TasksOf(g)
    PROVE  /\ g.work[t] \in Signatures
           /\ \A p \in Policies : p.fallback # NoCap => On(g.work[t], p.fallback) \in Signatures
<1>1. g.work[t] \in Works
  BY DEF Works
<1> QED BY <1>1 DEF Signatures

\* One agent means one attempt at least.
LEMMA SomeAttempts ==
    ASSUME NEW a \in Nat, a # 0, NEW r \in Nat
    PROVE  a * (r + 1) \in Nat /\ a * (r + 1) > 0
<1>1. a * (r + 1) = a * r + a
  OBVIOUS
<1>2. a * r \in Nat
  OBVIOUS
<1> QED BY <1>1, <1>2

\* Giving up on a task leaves the types alone.
LEMMA GiveUpTyped ==
    ASSUME GiveUp
    PROVE  /\ doing' = NoWork /\ left' = 0 /\ out' = Failed /\ Failed \in Output
           /\ phase' \in {"fallback", "record"}
           /\ phase' = "fallback" => policy.fallback # NoCap
           /\ phase' \in {"invoke", "last"} => doing' \in Signatures
           /\ phase' = "record" => out' \in Output
BY DEF GiveUp, Failed, Output

\* One delegation, as a task or as a fallback, keeps the types.
LEMMA DelegatedTyped ==
    ASSUME Typed, NEW t \in TasksOf(graph), NEW w \in Signatures,
           NEW agents \in 0..MaxAgents, NEW retries \in Nat,
           Delegated(t, w, agents, retries)
    PROVE  /\ signatures' \subseteq Signatures
           /\ handed' \in [Signatures -> Nat]
           /\ doing' \in Signatures \cup {NoWork}
           /\ out' \in Output \cup {NoOutput}
           /\ left' \in Nat /\ (left' > 0 <=> phase' \in {"invoke", "last"})
           /\ phase' \in {"invoke", "fallback", "last", "record"}
           /\ phase' = "fallback" => policy.fallback # NoCap
           /\ phase' \in {"invoke", "last"} => doing' \in Signatures
           /\ phase' = "record" => out' \in Output
<1>1. t \in TaskIds
  BY DEF Typed, TypeOK
<1>2. CASE w \in signatures
  <2>1. Settle(Succeeded(context[t])) /\ UNCHANGED <<signatures, handed>>
    BY <1>2 DEF Delegated
  <2>2. Succeeded(context[t]) \in Output
    BY <1>1 DEF Succeeded, Output, Typed, TypeOK
  <2> QED BY <2>1, <2>2 DEF Settle, Typed, TypeOK
<1>3. CASE w \notin signatures /\ agents = 0
  <2>1. GiveUp /\ UNCHANGED handed /\ signatures' = signatures \cup {w}
    BY <1>3 DEF Delegated, Ledger
  <2> QED BY <2>1, GiveUpTyped DEF Typed, TypeOK
<1>4. CASE w \notin signatures /\ agents # 0
  <2>1. /\ handed' = [handed EXCEPT ![w] = @ + 1]
        /\ signatures' = signatures \cup {w}
        /\ doing' = w /\ out' = NoOutput
        /\ left' = agents * (retries + 1)
        /\ phase' \in {"last", "invoke"}
    BY <1>4 DEF Delegated, Ledger
  <2>2. left' \in Nat /\ left' > 0
    BY <2>1, <1>4, SomeAttempts
  <2> QED BY <2>1, <2>2 DEF Typed, TypeOK
<1> QED BY <1>2, <1>3, <1>4

-------------------------------------------------------------------------------
(* Types *)

\* Every step keeps the types.
LEMMA TypedStep == Typed /\ [Next]_vars => Typed'
<1> SUFFICES ASSUME Typed, [Next]_vars PROVE Typed'
  OBVIOUS
<1> USE DEF Typed, TypeOK, InHand
<1>1. ASSUME NEW g \in Graphs, NEW p \in Policies, Start(g, p) PROVE Typed'
  <2>1. /\ todo' \subseteq TasksOf(g) /\ status' \in {"running", "failed"}
        /\ context' \in [TaskIds -> Signatures \cup {NoWork}]
    BY <1>1 DEF Start
  <2>2. /\ runs' \in 0..MaxRuns /\ graph' = g /\ policy' = p
        /\ cancelled' = FALSE
        /\ ts' = [t \in TaskIds |-> "pending"]
        /\ outputs' = [t \in TaskIds |-> NoOutput]
    BY <1>1 DEF Start
  <2>3. /\ current' = NoTask /\ phase' = "next" /\ doing' = NoWork
        /\ left' = 0 /\ out' = NoOutput
        /\ UNCHANGED <<executions, signatures, handed, earned>>
    BY <1>1 DEF Start, guardVars
  <2>4. graph' \in Graphs /\ policy' \in Policies /\ todo' \subseteq TasksOf(graph')
    BY <2>1, <2>2
  <2>5. ts' \in [TaskIds -> {"pending", "running", "completed", "failed",
                           "condition", "dependency"}]
    BY <2>2
  <2>6. outputs' \in [TaskIds -> Output \cup {NoOutput}]
    BY <2>2
  <2>7. InHand'
    BY <2>3
  <2>8. TypeOK'
    <3>1. /\ executions' \in Nat /\ signatures' \subseteq Signatures
          /\ handed' \in [Signatures -> Nat] /\ earned' \subseteq Signatures
      BY <2>2, <2>3
    <3>2. /\ cancelled' \in BOOLEAN /\ status' \in Statuses
          /\ current' \in TasksOf(graph') \cup {NoTask}
          /\ phase' \in {"next", "invoke", "fallback", "last", "record"}
          /\ doing' \in Signatures \cup {NoWork} /\ out' \in Output \cup {NoOutput}
      BY <2>1, <2>2, <2>3 DEF Statuses
    <3>3. left' \in Nat /\ (left' > 0 <=> phase' \in {"invoke", "last"})
      BY <2>3
    <3> QED BY <2>1, <2>2, <2>4, <2>5, <2>6, <3>1, <3>2, <3>3
  <2> QED BY <2>7, <2>8
<1>2. CASE RequestCancel
  BY <1>2 DEF RequestCancel, guardVars, stepVars
<1>3. CASE Cancel
  BY <1>3 DEF Cancel, guardVars, runVars, stepVars, Statuses
<1>4. ASSUME NEW t \in todo, NEW r \in {"condition", "dependency"}, Skip(t, r) PROVE Typed'
  BY <1>4 DEF Skip, Past, guardVars, runVars, stepVars
<1>5. ASSUME NEW t \in todo, NEW n \in 0..MaxAgents, RunTask(t, n) PROVE Typed'
  <2>1. t \in TaskIds /\ t \in TasksOf(graph) /\ current' = t /\ t # NoTask
    BY <1>5 DEF RunTask
  <2>2. /\ UNCHANGED <<runVars, status, todo, outputs, context, earned>>
        /\ executions' = executions + 1
        /\ ts' = [ts EXCEPT ![t] = "running"]
    BY <1>5 DEF RunTask, Counted
  <2>3. CASE Permitted
    <3>1. Delegated(t, graph.work[t], n, policy.retries)
      BY <1>5, <2>3 DEF RunTask
    <3>2. graph.work[t] \in Signatures /\ policy.retries \in Nat
      BY <2>1, WorkIsWork
    <3> HIDE DEF Typed, TypeOK, InHand
    <3>3. /\ signatures' \subseteq Signatures
          /\ handed' \in [Signatures -> Nat]
          /\ doing' \in Signatures \cup {NoWork}
          /\ out' \in Output \cup {NoOutput}
          /\ left' \in Nat /\ (left' > 0 <=> phase' \in {"invoke", "last"})
          /\ phase' \in {"invoke", "fallback", "last", "record"}
          /\ phase' = "fallback" => policy.fallback # NoCap
          /\ phase' \in {"invoke", "last"} => doing' \in Signatures
          /\ phase' = "record" => out' \in Output
      BY <2>1, <3>1, <3>2, DelegatedTyped
    <3> USE DEF Typed, TypeOK, InHand
    <3> QED BY <2>1, <2>2, <3>3 DEF runVars
  <2>4. CASE ~Permitted
    <3>1. GiveUp /\ UNCHANGED <<signatures, handed>>
      BY <1>5, <2>4 DEF RunTask
    <3> QED BY <2>1, <2>2, <3>1, GiveUpTyped DEF runVars
  <2> QED BY <2>3, <2>4
<1>6. CASE AgentSucceeds
  <2>1. Succeeded(doing) \in Output
    BY DEF Succeeded, Output
  <2>2. doing \in Signatures
    BY <1>6 DEF AgentSucceeds
  <2> QED BY <1>6, <2>1, <2>2 DEF AgentSucceeds, Settle, guardVars, runVars
<1>7. CASE AgentFails
  <2>1. CASE Exhausted(left) /\ GiveUp
    BY <1>7, <2>1, GiveUpTyped DEF AgentFails, guardVars, runVars
  <2>2. CASE ~Exhausted(left) /\ left' = left - 1 /\ UNCHANGED <<phase, doing, out>>
    BY <1>7, <2>2 DEF AgentFails, Exhausted, guardVars, runVars
  <2> QED BY <1>7, <2>1, <2>2 DEF AgentFails
<1>8. ASSUME NEW n \in 0..MaxAgents, Fallback(n) PROVE Typed'
  <2> DEFINE w == On(graph.work[current], policy.fallback)
  <2>1. /\ Delegated(current, w, n, 0)
        /\ UNCHANGED <<runVars, status, todo, ts, outputs, context, current, earned>>
        /\ executions' = executions + 1
    BY <1>8 DEF Fallback, Counted
  <2>2. current \in TasksOf(graph) /\ current # NoTask /\ w \in Signatures
    BY <1>8, WorkIsWork DEF Fallback
  <2> HIDE DEF Typed, TypeOK, InHand, w
  <2>3. /\ signatures' \subseteq Signatures
        /\ handed' \in [Signatures -> Nat]
        /\ doing' \in Signatures \cup {NoWork}
        /\ out' \in Output \cup {NoOutput}
        /\ left' \in Nat /\ (left' > 0 <=> phase' \in {"invoke", "last"})
        /\ phase' \in {"invoke", "fallback", "last", "record"}
        /\ phase' = "fallback" => policy.fallback # NoCap
        /\ phase' \in {"invoke", "last"} => doing' \in Signatures
        /\ phase' = "record" => out' \in Output
    BY <2>1, <2>2, DelegatedTyped
  <2> USE DEF Typed, TypeOK, InHand
  <2> QED BY <2>1, <2>2, <2>3 DEF runVars
<1>9. CASE FallbackRaises
  BY <1>9 DEF FallbackRaises, Counted, runVars, Statuses
<1>10. CASE Record
  <2>1. current \in TaskIds
    BY <1>10 DEF Record
  <2>2. out \in Output
    BY <1>10 DEF Record
  <2> QED BY <1>10, <2>1, <2>2 DEF Record, guardVars, runVars, Output, Statuses
<1>11. CASE Complete
  BY <1>11 DEF Complete, guardVars, runVars, stepVars, Statuses
<1>12. CASE UNCHANGED vars
  BY <1>12 DEF vars, guardVars, runVars, stepVars
<1> QED
  BY <1>1, <1>2, <1>3, <1>4, <1>5, <1>6, <1>7, <1>8, <1>9, <1>10, <1>11, <1>12
  DEF Next, EngineStep, SkipByCondition, SkipByDependency

\* A new engine is well typed.
LEMMA TypedInit == Init => Typed
<1> SUFFICES ASSUME Init PROVE Typed
  OBVIOUS
<1>1. ts \in [TaskIds -> {"pending", "running", "completed", "failed",
                         "condition", "dependency"}]
  BY DEF Init
<1>2. outputs \in [TaskIds -> Output \cup {NoOutput}]
  BY DEF Init
<1>3. context \in [TaskIds -> Signatures \cup {NoWork}] /\ handed \in [Signatures -> Nat]
  BY DEF Init
<1>4. /\ graph \in Graphs /\ policy \in Policies /\ runs \in 0..MaxRuns
      /\ todo \subseteq TasksOf(graph) /\ status \in Statuses
  BY DEF Init, Statuses
<1>5. InHand
  BY DEF Init, InHand
<1>6. left \in Nat /\ (left > 0 <=> phase \in {"invoke", "last"})
  BY DEF Init
<1>7. TypeOK
  BY <1>1, <1>2, <1>3, <1>4, <1>6 DEF Init, TypeOK
<1> QED BY <1>5, <1>7 DEF Typed

\* Types hold throughout.
LEMMA AlwaysTyped == Spec => []Typed
<1> QED BY TypedInit, TypedStep, PTL DEF Spec

\* Types hold on every engine, and the attempts at a piece of work are counted
\* down to zero and not further.
THEOREM TypeCorrect == Spec => []TypeOK
<1>1. Typed => TypeOK
  BY DEF Typed
<1> QED BY <1>1, AlwaysTyped, PTL

-------------------------------------------------------------------------------
(* Work is handed out once *)

\* The ledger remembers all that was handed out.
LedgerIsComplete ==
    \A w \in Signatures : handed[w] <= 1 /\ (w \notin signatures => handed[w] = 0)

\* Delegating work, as a task or as a fallback, writes its signature down before an agent sees it.
LEMMA DelegationKeepsLedger ==
    ASSUME Typed, LedgerIsComplete, NEW t \in TasksOf(graph), NEW w \in Signatures,
           NEW agents \in 0..MaxAgents, NEW retries \in Nat,
           Delegated(t, w, agents, retries)
    PROVE  LedgerIsComplete'
<1>1. handed \in [Signatures -> Nat]
  BY DEF Typed, TypeOK
<1>2. CASE w \in signatures
  BY <1>2 DEF Delegated, LedgerIsComplete
<1>3. CASE w \notin signatures
  <2>1. /\ signatures' = signatures \cup {w}
        /\ handed' = handed \/ handed' = [handed EXCEPT ![w] = @ + 1]
    BY <1>3 DEF Delegated, Ledger
  <2>2. handed[w] = 0
    BY <1>3 DEF LedgerIsComplete
  <2> QED BY <1>1, <2>1, <2>2 DEF LedgerIsComplete
<1> QED BY <1>2, <1>3

\* No step hands out work that is missing from the ledger.
LEMMA LedgerStep == Typed /\ LedgerIsComplete /\ [Next]_vars => LedgerIsComplete'
<1> SUFFICES ASSUME Typed, LedgerIsComplete, [Next]_vars PROVE LedgerIsComplete'
  OBVIOUS
<1>1. ASSUME NEW t \in todo, NEW n \in 0..MaxAgents, RunTask(t, n) PROVE LedgerIsComplete'
  <2>1. CASE Permitted
    <3>1. t \in TasksOf(graph) /\ policy \in Policies /\ graph \in Graphs
      BY DEF Typed, TypeOK
    <3>2. graph.work[t] \in Signatures /\ policy.retries \in Nat
      BY <3>1, WorkIsWork
    <3>3. Delegated(t, graph.work[t], n, policy.retries)
      BY <1>1, <2>1 DEF RunTask
    <3> QED BY <3>1, <3>2, <3>3, DelegationKeepsLedger
  <2>2. CASE ~Permitted
    BY <1>1, <2>2 DEF RunTask, LedgerIsComplete
  <2> QED BY <2>1, <2>2
<1>2. ASSUME NEW n \in 0..MaxAgents, Fallback(n) PROVE LedgerIsComplete'
  <2> DEFINE w == On(graph.work[current], policy.fallback)
  <2>1. current \in TasksOf(graph) /\ w \in Signatures
    BY <1>2, WorkIsWork DEF Fallback, Typed, TypeOK, InHand
  <2>2. Delegated(current, w, n, 0)
    BY <1>2 DEF Fallback
  <2> HIDE DEF w
  <2> QED BY <2>1, <2>2, DelegationKeepsLedger
<1>3. UNCHANGED <<signatures, handed>> => LedgerIsComplete'
  BY DEF LedgerIsComplete
<1>4. CASE UNCHANGED vars
  BY <1>3, <1>4 DEF vars, guardVars
<1>5. CASE Next
  <2>1. CASE \E g \in Graphs, p \in Policies : Start(g, p)
    BY <2>1, <1>3 DEF Start, guardVars
  <2>2. CASE RequestCancel \/ Cancel \/ Complete
    BY <2>2, <1>3 DEF RequestCancel, Cancel, Complete, guardVars
  <2>3. CASE \E t \in todo : SkipByCondition(t) \/ SkipByDependency(t)
    BY <2>3, <1>3 DEF SkipByCondition, SkipByDependency, Skip, guardVars
  <2>4. CASE AgentSucceeds \/ AgentFails
    BY <2>4, <1>3 DEF AgentSucceeds, AgentFails, guardVars
  <2>5. CASE FallbackRaises \/ Record
    BY <2>5, <1>3 DEF FallbackRaises, Record, guardVars
  <2> QED BY <1>1, <1>2, <1>5, <2>1, <2>2, <2>3, <2>4, <2>5 DEF Next, EngineStep
<1> QED BY <1>4, <1>5

\* No piece of work is handed to the agents twice in the life of an engine,
\* neither as a task nor as a fallback, in whichever runs it comes up.
THEOREM HandedOnce == Spec => []WorkHandedOnce
<1>1. Init => LedgerIsComplete
  BY DEF Init, LedgerIsComplete
<1>2. LedgerIsComplete => WorkHandedOnce
  BY DEF LedgerIsComplete, WorkHandedOnce
<1> QED BY <1>1, <1>2, AlwaysTyped, LedgerStep, PTL DEF Spec

-------------------------------------------------------------------------------
(* Tasks rest on their dependencies *)

\* More than is promised: a task that is running or has run found all it depends
\* on well done, the optional tasks among them too.
RestsOnAll ==
    \A t \in TasksOf(graph) :
       ts[t] \in {"running", "completed", "failed"} => \A d \in graph.deps[t] : IsOk(d)

\* What the loop has not passed has no output, the task in hand is running and is
\* not passed, and a graph that is run refers to its own tasks only.
LoopInvariant ==
    /\ \A t \in todo : outputs[t] = NoOutput
    /\ current # NoTask => current \in todo /\ ts[current] = "running"
    /\ todo # {} => \A t \in TasksOf(graph) : graph.deps[t] \subseteq TasksOf(graph)
    /\ RestsOnAll

\* A good output stays, so steps that start no task and give no new output to a
\* task that has one keep the invariant.
LEMMA LoopStep == Typed /\ LoopInvariant /\ [Next]_vars => LoopInvariant'
<1> SUFFICES ASSUME Typed, LoopInvariant, [Next]_vars PROVE LoopInvariant'
  OBVIOUS
<1> USE DEF LoopInvariant, RestsOnAll, Ran, IsOk
<1>0. /\ ts \in [TaskIds -> {"pending", "running", "completed", "failed",
                            "condition", "dependency"}]
      /\ outputs \in [TaskIds -> Output \cup {NoOutput}]
      /\ graph \in Graphs /\ todo \subseteq TasksOf(graph)
      /\ TasksOf(graph) \subseteq TaskIds
      /\ phase = "next" <=> current = NoTask
      /\ phase = "record" => out \in Output
  BY DEF Typed, TypeOK, InHand
<1>1. ASSUME NEW g \in Graphs, NEW p \in Policies, Start(g, p) PROVE LoopInvariant'
  <2>1. /\ todo' \subseteq TasksOf(g) /\ graph' = g /\ current' = NoTask
        /\ ts' = [t \in TaskIds |-> "pending"]
        /\ outputs' = [t \in TaskIds |-> NoOutput]
        /\ IsValid(g) \/ todo' = {}
    BY <1>1 DEF Start
  <2>2. TasksOf(g) \subseteq TaskIds
    OBVIOUS
  <2> QED BY <2>1, <2>2 DEF IsValid
<1>2. UNCHANGED <<graph, todo, ts, outputs>> /\ current' \in {current, NoTask} => LoopInvariant'
  OBVIOUS
<1>3. CASE RequestCancel \/ Cancel \/ Complete \/ AgentSucceeds \/ AgentFails \/ FallbackRaises
  BY <1>2, <1>3 DEF RequestCancel, Cancel, Complete, AgentSucceeds, AgentFails, FallbackRaises,
                    runVars, stepVars
<1>4. ASSUME NEW n \in 0..MaxAgents, Fallback(n) PROVE LoopInvariant'
  BY <1>2, <1>4 DEF Fallback, runVars
<1>5. ASSUME NEW t \in todo, NEW r \in {"condition", "dependency"}, BetweenTasks, Skip(t, r)
      PROVE LoopInvariant'
  <2>1. /\ ts' = [ts EXCEPT ![t] = r] /\ todo' = todo \ {t}
        /\ UNCHANGED <<graph, outputs, current>> /\ current = NoTask
    BY <1>5 DEF Skip, Past, runVars, stepVars, BetweenTasks
  <2> QED BY <1>0, <2>1
<1>6. ASSUME NEW t \in todo, NEW n \in 0..MaxAgents, RunTask(t, n) PROVE LoopInvariant'
  <2>1. /\ ts' = [ts EXCEPT ![t] = "running"] /\ current' = t
        /\ UNCHANGED <<graph, outputs, todo>>
        /\ \A d \in graph.deps[t] : IsOk(d)
    BY <1>6 DEF RunTask, DependencyFailed, runVars
  <2> QED BY <1>0, <2>1
<1>7. CASE Record
  <2>1. /\ ts' = [ts EXCEPT ![current] = IF out.ok THEN "completed" ELSE "failed"]
        /\ outputs' = [outputs EXCEPT ![current] = out]
        /\ todo' = todo \ {current}
        /\ current' = NoTask /\ graph' = graph
        /\ current \in todo /\ ts[current] = "running"
    BY <1>0, <1>7 DEF Record, runVars
  <2>2. \A d \in TasksOf(graph) : IsOk(d) => d # current /\ outputs'[d] = outputs[d]
    BY <1>0, <2>1
  <2>3. \A t \in TasksOf(graph) : graph.deps[t] \subseteq TasksOf(graph)
    BY <2>1
  <2>4. \A d \in todo' : outputs'[d] = NoOutput
    BY <1>0, <2>1
  <2>5. ASSUME NEW t \in TasksOf(graph), ts'[t] \in {"running", "completed", "failed"},
               NEW d \in graph.deps[t]
        PROVE  outputs'[d] # NoOutput /\ outputs'[d].ok
    <3>1. ts[t] \in {"running", "completed", "failed"}
      BY <1>0, <2>1, <2>5
    <3>2. IsOk(d) /\ d \in TasksOf(graph)
      BY <2>3, <2>5, <3>1
    <3> QED BY <2>2, <3>2
  <2> QED BY <2>1, <2>3, <2>4, <2>5
<1>8. CASE UNCHANGED vars
  BY <1>2, <1>8 DEF vars, runVars, stepVars
<1> QED
  BY <1>1, <1>3, <1>4, <1>5, <1>6, <1>7, <1>8
  DEF Next, EngineStep, SkipByCondition, SkipByDependency, GoesOn

\* A new engine has passed no task.
LEMMA LoopInit == Init => LoopInvariant
<1> SUFFICES ASSUME Init PROVE LoopInvariant
  OBVIOUS
<1>1. \A t \in TasksOf(graph) : ts[t] = "pending"
  BY DEF Init
<1> QED BY <1>1 DEF Init, LoopInvariant, RestsOnAll

\* No task runs, or has run, unless every required task it depends on ended well
\* in this run.
THEOREM DependenciesFirst == Spec => []RestsOnItsDependencies
<1>1. LoopInvariant => RestsOnItsDependencies
  BY DEF LoopInvariant, RestsOnAll, RestsOnItsDependencies
<1> QED BY <1>1, AlwaysTyped, LoopInit, LoopStep, PTL DEF Spec

-------------------------------------------------------------------------------
(* Layers *)

\* A finite set of numbers that is not empty has a highest one.
LEMMA MaxIsThere ==
    ASSUME NEW S \in SUBSET Nat, IsFiniteSet(S), S # {}
    PROVE  Max(S) \in S /\ \A n \in S : n <= Max(S)
<1> DEFINE HasHighest(T) == \E m \in T : \A n \in T : n <= m
           Bad == {T \in SUBSET S : T # {} /\ ~HasHighest(T)}
<1>1. Bad = {}
  <2> SUFFICES ASSUME Bad # {} PROVE FALSE
    OBVIOUS
  <2>1. Bad \subseteq FiniteSubsetsOf(S)
    BY FS_FiniteSubsetsOfFinite
  <2> HIDE DEF Bad
  <2>2. PICK T \in Bad : \A U \in Bad : ~(<<U, T>> \in StrictSubsetOrdering(S))
    BY <2>1, FS_StrictSubsetOrderingWellFounded, WFMin
  <2> USE DEF Bad
  <2>3. PICK x \in T : TRUE
    OBVIOUS
  <2> DEFINE U == T \ {x}
  <2>4. U \in SUBSET S /\ <<U, T>> \in StrictSubsetOrdering(S)
    BY <2>3 DEF StrictSubsetOrdering
  <2>5. U = {} \/ HasHighest(U)
    BY <2>2, <2>4
  <2>6. \A n \in T : n \in Nat
    OBVIOUS
  <2>7. CASE U = {}
    <3>1. \A n \in T : n <= x
      BY <2>3, <2>6, <2>7
    <3> QED BY <2>3, <3>1
  <2>8. CASE HasHighest(U)
    <3>1. PICK m \in U : \A n \in U : n <= m
      BY <2>8
    <3>2. m \in T /\ x \in T /\ m \in Nat /\ x \in Nat
      BY <2>3, <2>6, <3>1
    <3>3. CASE x <= m
      <4>1. \A n \in T : n <= m
        BY <3>1, <3>3
      <4> QED BY <3>2, <4>1
    <3>4. CASE m <= x
      <4>1. \A n \in T : n <= x
        BY <2>6, <3>1, <3>2, <3>4
      <4> QED BY <3>2, <4>1
    <3> QED BY <3>2, <3>3, <3>4
  <2> QED BY <2>5, <2>7, <2>8
<1>2. PICK m \in S : \A n \in S : n <= m
  BY <1>1
<1> QED BY <1>2 DEF Max

\* What layer a task is in, given the layers f of those it depends on.
Above(g, f, t) == IF g.deps[t] = {} THEN 0 ELSE 1 + Max({f[d] : d \in g.deps[t]})

\* A task is above those it depends on.
LEMMA AboveAll ==
    ASSUME NEW g, NEW t, IsFiniteSet(g.deps[t]),
           NEW f, \A d \in g.deps[t] : f[d] \in Nat
    PROVE  Above(g, f, t) \in Nat /\ \A d \in g.deps[t] : f[d] < Above(g, f, t)
<1> DEFINE D == g.deps[t]
           S == {f[d] : d \in D}
           h == [d \in D |-> f[d]]
<1>1. h \in Surjection(D, S)
  BY DEF Surjection
<1>2. IsFiniteSet(S)
  BY <1>1, FS_Surjection
<1>3. CASE D # {}
  <2>1. S # {} /\ S \in SUBSET Nat
    BY <1>3
  <2> HIDE DEF S
  <2>2. Max(S) \in Nat /\ \A n \in S : n <= Max(S)
    BY <1>2, <2>1, MaxIsThere
  <2>3. Above(g, f, t) = 1 + Max(S)
    BY <1>3 DEF Above, S
  <2>4. \A d \in D : f[d] \in S
    BY DEF S
  <2> QED BY <2>2, <2>3, <2>4
<1>4. CASE D = {}
  BY <1>4 DEF Above
<1> QED BY <1>3, <1>4

\* A set of tasks of a graph without cycles has a task that depends on no other of it.
LEMMA SomeTaskIsFree ==
    ASSUME NEW g, IsValid(g), NEW S \in SUBSET TasksOf(g), S # {}
    PROVE  \E t \in S : g.deps[t] \cap S = {}
BY DEF IsValid, HasCycle

\* A graph that can be run is finite, with the dependencies of every task.
LEMMA ValidIsFinite ==
    ASSUME NEW g \in Graphs, IsValid(g)
    PROVE  /\ IsFiniteSet(TasksOf(g))
           /\ \A t \in TasksOf(g) : g.deps[t] \subseteq TasksOf(g) /\ IsFiniteSet(g.deps[t])
<1>1. IsFiniteSet(TaskIds)
  BY FS_Interval DEF TaskIds
<1>2. IsFiniteSet(TasksOf(g))
  BY <1>1, FS_Subset
<1>3. \A t \in TasksOf(g) : g.deps[t] \subseteq TasksOf(g)
  BY DEF IsValid
<1> QED BY <1>2, <1>3, FS_Subset

\* The layers of a graph that can be run exist: as long as tasks are left without
\* one, one of them depends only on tasks that have theirs.
LEMMA LayersExist ==
    ASSUME NEW g \in Graphs, IsValid(g)
    PROVE  \E f : f = [t \in TasksOf(g) |-> Above(g, f, t)]
<1> DEFINE T == TasksOf(g)
           Layers(D, f) ==
             /\ f \in [D -> Nat]
             /\ \A t \in D : g.deps[t] \subseteq D /\ f[t] = Above(g, f, t)
           Rest == {S \in SUBSET T : \E f : Layers(T \ S, f)}
<1>1. T \in Rest
  <2> DEFINE f == [t \in {} |-> 0]
  <2>1. T \ T = {}
    OBVIOUS
  <2>2. Layers({}, f)
    OBVIOUS
  <2> QED BY <2>1, <2>2
<1>2. Rest \subseteq FiniteSubsetsOf(T)
  BY ValidIsFinite, FS_FiniteSubsetsOfFinite
<1> HIDE DEF Rest
<1>3. PICK S \in Rest : \A U \in Rest : ~(<<U, S>> \in StrictSubsetOrdering(T))
  BY <1>1, <1>2, FS_StrictSubsetOrderingWellFounded, WFMin
<1> USE DEF Rest
<1> DEFINE D == T \ S
<1>4. S \in SUBSET T /\ \E f : Layers(D, f)
  BY <1>3
<1>5. PICK f : Layers(D, f)
  BY <1>4
<1>6. CASE S # {}
  <2>1. PICK t \in S : g.deps[t] \cap S = {}
    BY <1>4, <1>6, SomeTaskIsFree
  <2>2. t \in T /\ t \notin D /\ g.deps[t] \subseteq D
    BY <1>4, <2>1, ValidIsFinite
  <2> DEFINE E == D \cup {t}
             h == [u \in E |-> IF u \in D THEN f[u] ELSE Above(g, f, t)]
  <2>3. Above(g, f, t) \in Nat
    BY <1>5, <2>2, ValidIsFinite, AboveAll
  <2>4. h \in [E -> Nat]
    BY <1>5, <2>3
  <2>5. ASSUME NEW u \in E
        PROVE  g.deps[u] \subseteq E /\ h[u] = Above(g, h, u)
    <3>1. g.deps[u] \subseteq D /\ h[u] = Above(g, f, u)
      BY <1>5, <2>2
    <3>2. \A d \in g.deps[u] : h[d] = f[d]
      BY <3>1
    <3> HIDE DEF h
    <3>3. {h[d] : d \in g.deps[u]} = {f[d] : d \in g.deps[u]}
      BY <3>2
    <3> QED BY <3>1, <3>3 DEF Above
  <2>6. E = T \ (S \ {t})
    BY <1>4, <2>1
  <2>7. Layers(E, h)
    BY <2>4, <2>5
  <2>8. S \ {t} \in Rest
    <3> HIDE DEF h, Layers
    <3>1. Layers(T \ (S \ {t}), h)
      BY <2>6, <2>7
    <3> QED BY <1>4, <3>1
  <2>9. <<S \ {t}, S>> \in StrictSubsetOrdering(T)
    BY <1>4, <2>1 DEF StrictSubsetOrdering
  <2> QED BY <1>3, <2>8, <2>9
<1>7. CASE S = {}
  <2>1. D = T
    BY <1>7
  <2>2. f = [t \in T |-> Above(g, f, t)]
    BY <1>5, <2>1
  <2> QED BY <2>2
<1> QED BY <1>6, <1>7

\* Every task is in a higher layer than those it depends on.
LEMMA LayersRise ==
    ASSUME NEW g \in Graphs, IsValid(g)
    PROVE  /\ \A t \in TasksOf(g) : Layer(g)[t] \in Nat
           /\ \A t \in TasksOf(g) : \A d \in g.deps[t] : Layer(g)[d] < Layer(g)[t]
<1> DEFINE T == TasksOf(g)
           f == Layer(g)
<1>1. f = CHOOSE l : l = [t \in T |-> Above(g, l, t)]
  BY DEF Layer, Above
<1>2. f = [t \in T |-> Above(g, f, t)]
  BY <1>1, LayersExist
<1> HIDE DEF f
<1> DEFINE S == {t \in T : f[t] \notin Nat}
<1>3. \A t \in T : f[t] = Above(g, f, t)
  BY <1>2
<1>4. CASE S # {}
  <2>1. PICK t \in S : g.deps[t] \cap S = {}
    BY <1>4, SomeTaskIsFree
  <2>2. \A d \in g.deps[t] : f[d] \in Nat
    BY <2>1, ValidIsFinite
  <2>3. f[t] \in Nat
    BY <1>3, <2>2, ValidIsFinite, AboveAll
  <2> QED BY <2>1, <2>3
<1>5. CASE S = {}
  <2>1. \A t \in T : f[t] \in Nat
    BY <1>5
  <2>2. ASSUME NEW t \in T, NEW d \in g.deps[t] PROVE f[d] < f[t]
    BY <1>3, <2>1, ValidIsFinite, AboveAll
  <2> QED BY <2>1, <2>2 DEF f
<1> QED BY <1>4, <1>5
-------------------------------------------------------------------------------
(* What a run says of its tasks *)

\* The tasks of the plan that failed, of those that matter to the verdict.
Missed == {t \in TasksOf(graph) \ graph.optional : Ran(t) /\ ~IsOk(t)}

\* How a task the loop has passed came out.
CameOut(t) ==
    \/ ts[t] \in {"condition", "dependency"} /\ ~Ran(t)
    \/ ts[t] = "completed" /\ IsOk(t)
    \/ ts[t] = "failed" /\ Ran(t) /\ ~IsOk(t)

\* A task that was skipped for a dependency was reached after one that did not
\* end well.
HasReason(t) ==
    /\ t \notin todo
    /\ \E d \in graph.deps[t] :
          d \notin todo /\ ts[d] \in {"failed", "condition", "dependency"}

\* The loop runs on valid graphs, and its books agree: the statuses of the tasks
\* it has passed, their outputs, and what the run's own status will say of them.
RunBooks ==
    /\ status = "running" => IsValid(graph) /\ runs > 0
    /\ current # NoTask => status = "running"
    /\ runs > 0 /\ IsValid(graph) => \A t \in TasksOf(graph) \ todo : CameOut(t)
    /\ \A t \in TasksOf(graph) : ts[t] = "dependency" => HasReason(t)
    /\ status = "running" => Missed = {} \/ policy.continue
    /\ status \in {"completed", "partial"} => IsValid(graph) /\ runs > 0 /\ todo = {}
    /\ status = "completed" => Missed = {}
    /\ status = "partial" => Missed # {} /\ policy.continue
    /\ status = "failed" /\ IsValid(graph) =>
          ~policy.continue /\ \E t \in TasksOf(graph) : Missed = {t}

\* Steps that write neither statuses nor outputs of tasks keep the books, unless
\* they end the run well or badly.
LEMMA SameBooks ==
    ASSUME RunBooks, UNCHANGED <<runs, graph, policy, todo, ts, outputs>>,
           status' \in {status, "cancelled", "raised"},
           current' # NoTask => status' = "running"
    PROVE  RunBooks'
BY DEF RunBooks, Missed, CameOut, HasReason, Ran, IsOk

\* The loop reaches a task after all it depends on.
LEMMA ReachedInOrder ==
    ASSUME Typed, IsValid(graph), NEW t \in TasksOf(graph), Upcoming(t),
           NEW d \in graph.deps[t]
    PROVE  d \in TasksOf(graph) /\ d \notin todo
<1>1. d \in TasksOf(graph)
  BY DEF IsValid
<1>2. Layer(graph)[d] \in Nat /\ Layer(graph)[t] \in Nat /\ Layer(graph)[d] < Layer(graph)[t]
  BY <1>1, LayersRise DEF Typed, TypeOK
<1>3. d \in todo => Before(graph, t, d)
  BY <1>2 DEF Upcoming
<1>4. ~Before(graph, t, d)
  BY <1>2 DEF Before
<1> QED BY <1>1, <1>3, <1>4

\* A task that is skipped had its reason, and has no output.
LEMMA SkipKeepsBooks ==
    ASSUME Typed, LoopInvariant, RunBooks, NEW t \in todo,
           NEW reason \in {"condition", "dependency"}, GoesOn, Skip(t, reason),
           reason = "dependency" => Upcoming(t) /\ DependencyFailed(t)
    PROVE  RunBooks'
<1>1. /\ ts' = [ts EXCEPT ![t] = reason] /\ todo' = todo \ {t}
      /\ UNCHANGED <<runs, graph, policy, status, outputs, current>>
  BY DEF Skip, Past, runVars, stepVars
<1>2. /\ status = "running" /\ current = NoTask /\ IsValid(graph) /\ runs > 0
      /\ t \in TasksOf(graph) /\ TasksOf(graph) \subseteq TaskIds
      /\ outputs[t] = NoOutput
      /\ DOMAIN ts = TaskIds
  BY DEF GoesOn, BetweenTasks, RunBooks, Typed, TypeOK, LoopInvariant
<1>3. \A u \in TaskIds : ts'[u] = IF u = t THEN reason ELSE ts[u]
  BY <1>1, <1>2
<1>4. ASSUME reason = "dependency"
      PROVE  \E d \in graph.deps[t] :
                d \notin todo /\ d \in TasksOf(graph) /\ ts[d] \in {"failed", "condition", "dependency"}
  <2>1. PICK d \in graph.deps[t] : ~IsOk(d)
    BY <1>4 DEF DependencyFailed
  <2>2. d \in TasksOf(graph) /\ d \notin todo
    BY <1>2, <1>4, ReachedInOrder
  <2>3. CameOut(d)
    BY <1>2, <2>2 DEF RunBooks
  <2> QED BY <2>1, <2>2, <2>3 DEF CameOut
<1>5. \A u \in TasksOf(graph) \ todo' : CameOut(u)'
  BY <1>1, <1>2, <1>3 DEF RunBooks, CameOut, Ran, IsOk
<1>6. ASSUME NEW u \in TasksOf(graph), ts'[u] = "dependency" PROVE HasReason(u)'
  <2>1. u \notin todo' /\ \E d \in graph.deps[u] :
             d \notin todo /\ d \in TasksOf(graph) /\ ts[d] \in {"failed", "condition", "dependency"}
    <3>1. CASE u = t
      BY <1>1, <1>3, <1>4, <1>2, <1>6, <3>1
    <3>2. CASE u # t
      BY <1>1, <1>2, <1>3, <1>6, <3>2 DEF RunBooks, HasReason, IsValid
    <3> QED BY <3>1, <3>2
  <2>2. PICK d \in graph.deps[u] :
             d \notin todo /\ d \in TasksOf(graph) /\ ts[d] \in {"failed", "condition", "dependency"}
    BY <2>1
  <2>3. d # t /\ d \in TaskIds
    BY <1>2, <2>2
  <2>4. d \notin todo' /\ ts'[d] \in {"failed", "condition", "dependency"}
    BY <1>1, <1>3, <2>2, <2>3
  <2> QED BY <1>1, <2>1, <2>2, <2>4 DEF HasReason
<1>7. Missed' = Missed
  BY <1>1 DEF Missed, Ran, IsOk
<1> QED BY <1>1, <1>2, <1>5, <1>6, <1>7 DEF RunBooks

\* A task that is taken, or recorded, is one the loop has not passed: what was
\* skipped keeps its reason.
LEMMA ReasonsStay ==
    ASSUME Typed, RunBooks, IsValid(graph), NEW t \in todo, NEW s, s # "dependency",
           ts' = [ts EXCEPT ![t] = s], todo' \in {todo, todo \ {t}}, graph' = graph
    PROVE  \A u \in TasksOf(graph) : ts'[u] = "dependency" => HasReason(u)'
<1>1. TasksOf(graph) \subseteq TaskIds /\ DOMAIN ts = TaskIds /\ t \in TasksOf(graph)
  BY DEF Typed, TypeOK
<1> SUFFICES ASSUME NEW u \in TasksOf(graph), ts'[u] = "dependency"
             PROVE  HasReason(u)'
  OBVIOUS
<1>2. u # t /\ ts[u] = "dependency"
  BY <1>1
<1>3. PICK d \in graph.deps[u] :
         d \notin todo /\ ts[d] \in {"failed", "condition", "dependency"}
  BY <1>2 DEF RunBooks, HasReason
<1>4. d \in TasksOf(graph) /\ d # t
  BY <1>3 DEF IsValid
<1>5. ts'[d] = ts[d] /\ d \notin todo'
  BY <1>1, <1>3, <1>4
<1>6. u \notin todo'
  BY <1>2 DEF RunBooks, HasReason
<1> QED BY <1>3, <1>5, <1>6 DEF HasReason

\* Recording a task adds it to those that were missed if it failed and matters,
\* which ends the run unless the policy lets it go on.
LEMMA RecordKeepsBooks ==
    ASSUME Typed, LoopInvariant, RunBooks, Record
    PROVE  RunBooks'
<1>0. PICK t : t = current
  OBVIOUS
<1> DEFINE s == IF out.ok THEN "completed" ELSE "failed"
<1>1. /\ ts' = [ts EXCEPT ![t] = s] /\ todo' = todo \ {t}
      /\ outputs' = [outputs EXCEPT ![t] = out]
      /\ current' = NoTask
      /\ UNCHANGED <<runs, graph, policy>>
      /\ status' = IF ~out.ok /\ t \notin graph.optional /\ ~policy.continue
                     THEN "failed" ELSE status
  BY <1>0 DEF Record, runVars
<1>2. /\ out \in Output /\ t # NoTask /\ t \in todo /\ outputs[t] = NoOutput
      /\ status = "running" /\ IsValid(graph) /\ runs > 0
      /\ t \in TasksOf(graph) /\ TasksOf(graph) \subseteq TaskIds
      /\ DOMAIN ts = TaskIds /\ DOMAIN outputs = TaskIds
  BY <1>0 DEF Record, RunBooks, LoopInvariant, Typed, TypeOK, InHand
<1>3. /\ \A u \in TaskIds : ts'[u] = IF u = t THEN s ELSE ts[u]
      /\ \A u \in TaskIds : outputs'[u] = IF u = t THEN out ELSE outputs[u]
  BY <1>1, <1>2
<1>4. out # NoOutput
  BY <1>2
<1>5. \A u \in TasksOf(graph) \ todo' : CameOut(u)'
  <2>1. CameOut(t)'
    BY <1>2, <1>3, <1>4 DEF CameOut, Ran, IsOk
  <2>2. ASSUME NEW u \in TasksOf(graph) \ todo PROVE CameOut(u)'
    BY <1>2, <1>3, <2>2 DEF RunBooks, CameOut, Ran, IsOk
  <2> QED BY <1>1, <2>1, <2>2
<1>6. \A u \in TasksOf(graph) : ts'[u] = "dependency" => HasReason(u)'
  BY <1>1, <1>2, ReasonsStay
<1>7. Missed' = IF ~out.ok /\ t \notin graph.optional THEN Missed \cup {t} ELSE Missed
  <2>1. \A u \in TasksOf(graph) : u # t => (Ran(u)' <=> Ran(u)) /\ (IsOk(u)' <=> IsOk(u))
    BY <1>2, <1>3 DEF Ran, IsOk
  <2>2. Ran(t)' /\ (IsOk(t)' <=> out.ok) /\ ~Ran(t)
    BY <1>2, <1>3, <1>4 DEF Ran, IsOk
  <2> QED BY <1>1, <1>2, <2>1, <2>2 DEF Missed
<1>8. Missed = {} \/ policy.continue
  BY <1>2 DEF RunBooks
<1> HIDE DEF s
<1>9. CASE ~out.ok /\ t \notin graph.optional /\ ~policy.continue
  <2>1. Missed' = {t} /\ status' = "failed"
    BY <1>1, <1>7, <1>8, <1>9
  <2> QED BY <1>1, <1>2, <1>5, <1>6, <1>9, <2>1 DEF RunBooks
<1>10. CASE ~(~out.ok /\ t \notin graph.optional /\ ~policy.continue)
  <2>1. status' = "running" /\ (Missed' = {} \/ policy.continue)
    BY <1>1, <1>2, <1>7, <1>8, <1>10
  <2> QED BY <1>1, <1>2, <1>5, <1>6, <2>1 DEF RunBooks
<1> QED BY <1>9, <1>10

\* Every step keeps the books of the run.
LEMMA BooksStep == Typed /\ LoopInvariant /\ RunBooks /\ [Next]_vars => RunBooks'
<1> SUFFICES ASSUME Typed, LoopInvariant, RunBooks, [Next]_vars PROVE RunBooks'
  OBVIOUS
<1>1. ASSUME NEW g \in Graphs, NEW p \in Policies, Start(g, p) PROVE RunBooks'
  <2>1. /\ runs' = runs + 1 /\ graph' = g /\ current' = NoTask
        /\ ts' = [t \in TaskIds |-> "pending"]
        /\ outputs' = [t \in TaskIds |-> NoOutput]
        /\ \/ IsValid(g)  /\ status' = "running" /\ todo' = TasksOf(g)
           \/ ~IsValid(g) /\ status' = "failed"  /\ todo' = {}
    BY <1>1 DEF Start
  <2>2. runs \in Nat /\ TasksOf(g) \subseteq TaskIds
    BY DEF Typed, TypeOK
  <2>3. Missed' = {}
    BY <2>1, <2>2 DEF Missed, Ran
  <2> QED BY <2>1, <2>2, <2>3 DEF RunBooks
<1>2. CASE RequestCancel \/ AgentSucceeds \/ AgentFails \/ Cancel \/ FallbackRaises
  BY <1>2, SameBooks
     DEF RequestCancel, AgentSucceeds, AgentFails, Cancel, FallbackRaises, runVars, stepVars,
         RunBooks, BetweenTasks
<1>3. ASSUME NEW n \in 0..MaxAgents, Fallback(n) PROVE RunBooks'
  BY <1>3, SameBooks DEF Fallback, runVars, RunBooks
<1>4. CASE Complete
  <2>1. /\ UNCHANGED <<runs, graph, policy, todo, ts, outputs, current>>
        /\ status = "running" /\ todo = {} /\ current = NoTask
        /\ status' = IF FailedRequired THEN "partial" ELSE "completed"
    BY <1>4 DEF Complete, BetweenTasks, runVars, stepVars
  <2>2. FailedRequired <=> Missed # {}
    BY DEF FailedRequired, Missed
  <2>3. /\ \A t \in TasksOf(graph) : CameOut(t)' <=> CameOut(t)
        /\ \A t \in TasksOf(graph) : HasReason(t)' <=> HasReason(t)
        /\ Missed' = Missed
    BY <2>1 DEF CameOut, HasReason, Missed, Ran, IsOk
  <2> QED BY <2>1, <2>2, <2>3 DEF RunBooks
<1>5. ASSUME NEW t \in todo, SkipByCondition(t) PROVE RunBooks'
  BY <1>5, SkipKeepsBooks DEF SkipByCondition
<1>6. ASSUME NEW t \in todo, SkipByDependency(t) PROVE RunBooks'
  BY <1>6, SkipKeepsBooks DEF SkipByDependency
<1>7. ASSUME NEW t \in todo, NEW n \in 0..MaxAgents, RunTask(t, n) PROVE RunBooks'
  <2>1. /\ ts' = [ts EXCEPT ![t] = "running"]
        /\ status = "running"
        /\ UNCHANGED <<runs, graph, policy, status, todo, outputs>>
    BY <1>7 DEF RunTask, GoesOn, BetweenTasks, runVars
  <2>2. IsValid(graph) /\ runs > 0 /\ TasksOf(graph) \subseteq TaskIds /\ DOMAIN ts = TaskIds
    BY <2>1 DEF RunBooks, Typed, TypeOK
  <2>3. \A u \in TasksOf(graph) \ todo : CameOut(u)'
    BY <2>1, <2>2 DEF RunBooks, CameOut, Ran, IsOk
  <2>4. \A u \in TasksOf(graph) : ts'[u] = "dependency" => HasReason(u)'
    BY <2>1, <2>2, ReasonsStay
  <2>5. Missed' = Missed
    BY <2>1 DEF Missed, Ran, IsOk
  <2> QED BY <2>1, <2>2, <2>3, <2>4, <2>5 DEF RunBooks
<1>8. CASE Record
  BY <1>8, RecordKeepsBooks
<1>9. CASE UNCHANGED vars
  BY <1>9, SameBooks DEF vars, runVars, stepVars, RunBooks
<1> QED
  BY <1>1, <1>2, <1>3, <1>4, <1>5, <1>6, <1>7, <1>8, <1>9 DEF Next, EngineStep

\* The books of the runs agree throughout.
LEMMA BooksAgree == Spec => []RunBooks
<1>1. Init => RunBooks
  <2> SUFFICES ASSUME Init PROVE RunBooks
    OBVIOUS
  <2>1. \A t \in TasksOf(graph) : ts[t] = "pending"
    BY DEF Init
  <2> QED BY <2>1 DEF Init, RunBooks
<1> QED BY <1>1, AlwaysTyped, LoopInit, LoopStep, BooksStep, PTL DEF Spec

\* No task is skipped for a dependency before that one has had its turn: layers
\* put tasks after all they depend on, and what the loop passes stays as it is.
THEOREM SkippedInTurn == Spec => []SkippedForAReason
<1>1. RunBooks => SkippedForAReason
  BY DEF RunBooks, HasReason, SkippedForAReason
<1> QED BY <1>1, BooksAgree, PTL

\* The status of a run that ended says what became of its tasks.
THEOREM VerdictsAreHonest == Spec => []VerdictIsHonest
<1>1. RunBooks => VerdictIsHonest
  <2> SUFFICES ASSUME RunBooks PROVE VerdictIsHonest
    OBVIOUS
  <2>1. Missed = {t \in TasksOf(graph) : Ran(t) /\ ~IsOk(t)} \ graph.optional
    BY DEF Missed
  <2>2. status = "failed" /\ IsValid(graph) => Cardinality(Missed) = 1
    BY FS_Singleton DEF RunBooks
  <2>3. status \in {"completed", "partial"} =>
           \A t \in TasksOf(graph) : Ran(t) \/ ts[t] \in {"condition", "dependency"}
    BY DEF RunBooks, CameOut, IsOk
  <2> QED BY <2>1, <2>2, <2>3 DEF RunBooks, VerdictIsHonest
<1> QED BY <1>1, BooksAgree, PTL
-------------------------------------------------------------------------------
(* A run draws to an end *)

\* How far the loop's body is with the task in hand.
Turn == [next |-> 0, invoke |-> 1, fallback |-> 2, last |-> 3, record |-> 4]

\* What one step of a run comes to: it ends the run, passes a task for good, takes
\* the task in hand further on its way through agents, fallback and the fallback's
\* agents, uses up an attempt, or is the one request to cancel.
Closer ==
    \/ status' # "running"
    \/ todo' \subseteq todo /\ todo' # todo
    \/ todo' = todo /\ Turn[phase] < Turn[phase']
    \/ UNCHANGED <<todo, phase>> /\ left' < left
    \/ UNCHANGED <<todo, stepVars>> /\ ~cancelled /\ cancelled'

\* Nothing a run does is done over again: no retry, fallback or reuse leads back.
DrawsToAnEnd == [][status = "running" => Closer]_vars

\* A delegation leads on: from a task to its agents, its fallback or its output,
\* and from a fallback to the last agents or to the output.
LEMMA DelegationLeadsOn ==
    ASSUME phase \in {"next", "fallback"}, NEW t, NEW w, NEW agents, NEW retries,
           Delegated(t, w, agents, retries) \/ GiveUp
    PROVE  Turn[phase] < Turn[phase']
<1>1. \/ phase' = "record"
      \/ phase = "next" /\ phase' \in {"invoke", "fallback"}
      \/ phase = "fallback" /\ phase' = "last"
  BY DEF Delegated, GiveUp, Settle
<1> QED BY <1>1 DEF Turn

\* Every step of a run brings it closer to its end.
LEMMA EveryStepIsCloser ==
    ASSUME Typed, LoopInvariant, status = "running", Next
    PROVE  Closer
<1> USE DEF Typed, TypeOK, InHand
<1>1. CASE RequestCancel
  BY <1>1 DEF RequestCancel, Closer
<1>2. CASE Cancel \/ Complete \/ FallbackRaises
  BY <1>2 DEF Cancel, Complete, FallbackRaises, Closer
<1>3. ASSUME NEW t \in todo, NEW r \in {"condition", "dependency"}, Skip(t, r)
      PROVE  Closer
  <2>1. todo' = todo \ {t}
    BY <1>3 DEF Skip, Past
  <2> QED BY <2>1 DEF Closer
<1>4. ASSUME NEW t \in todo, NEW n \in 0..MaxAgents, RunTask(t, n) PROVE Closer
  <2>1. phase = "next" /\ todo' = todo
    BY <1>4 DEF RunTask, GoesOn, BetweenTasks
  <2>2. Delegated(t, graph.work[t], n, policy.retries) \/ GiveUp
    BY <1>4 DEF RunTask
  <2>3. Turn[phase] < Turn[phase']
    BY <2>1, <2>2, DelegationLeadsOn
  <2> QED BY <2>1, <2>3 DEF Closer
<1>5. CASE AgentSucceeds
  <2>1. phase \in {"invoke", "last"} /\ phase' = "record" /\ todo' = todo
    BY <1>5 DEF AgentSucceeds, Settle
  <2>2. Turn[phase] < Turn[phase']
    BY <2>1 DEF Turn
  <2> QED BY <2>1, <2>2 DEF Closer
<1>6. CASE AgentFails
  <2>1. phase \in {"invoke", "last"} /\ todo' = todo
    BY <1>6 DEF AgentFails
  <2>2. CASE GiveUp
    <3>1. phase' = "record" \/ (phase = "invoke" /\ phase' = "fallback")
      BY <2>1, <2>2 DEF GiveUp
    <3>2. Turn[phase] < Turn[phase']
      BY <2>1, <3>1 DEF Turn
    <3> QED BY <2>1, <3>2 DEF Closer
  <2>3. CASE left' = left - 1 /\ UNCHANGED phase
    <3>1. left' < left
      BY <2>3
    <3> QED BY <2>1, <2>3, <3>1 DEF Closer
  <2> QED BY <1>6, <2>2, <2>3 DEF AgentFails
<1>7. ASSUME NEW n \in 0..MaxAgents, Fallback(n) PROVE Closer
  <2>1. phase = "fallback" /\ todo' = todo
    BY <1>7 DEF Fallback
  <2>2. Delegated(current, On(graph.work[current], policy.fallback), n, 0)
    BY <1>7 DEF Fallback
  <2>3. Turn[phase] < Turn[phase']
    BY <2>1, <2>2, DelegationLeadsOn
  <2> QED BY <2>1, <2>3 DEF Closer
<1>8. CASE Record
  <2>1. current \in todo
    BY <1>8 DEF Record, LoopInvariant
  <2>2. todo' = todo \ {current}
    BY <1>8 DEF Record
  <2> QED BY <2>1, <2>2 DEF Closer
<1>9. \A g \in Graphs, p \in Policies : ~Start(g, p)
  BY DEF Start
<1> QED
  BY <1>1, <1>2, <1>3, <1>4, <1>5, <1>6, <1>7, <1>8, <1>9
  DEF Next, EngineStep, SkipByCondition, SkipByDependency

\* Every step of a run ends it, passes a task for good, takes the task in hand
\* further or uses up an attempt, unless it asks for the cancellation: of these
\* there are finitely many, for any graph, policy and number of agents.
THEOREM RunsDrawToAnEnd == Spec => DrawsToAnEnd
<1>1. LoopInvariant /\ Typed /\ [Next]_vars => [status = "running" => Closer]_vars
  BY EveryStepIsCloser
<1>2. Spec => [][status = "running" => Closer]_vars
  BY <1>1, AlwaysTyped, LoopInit, LoopStep, PTL DEF Spec
<1> QED BY <1>2 DEF DrawsToAnEnd

\* In a set of tasks of a graph that can be run, one comes before all others.
LEMMA OneComesFirst ==
    ASSUME NEW g \in Graphs, IsValid(g), NEW S \in SUBSET TasksOf(g), S # {}
    PROVE  \E t \in S : \A u \in S \ {t} : Before(g, t, u)
<1> DEFINE f == Layer(g)
           IsFirst(t, T) == \A u \in T \ {t} : Before(g, t, u)
           Bad == {T \in SUBSET S : T # {} /\ ~\E t \in T : IsFirst(t, T)}
<1>1. \A t \in TasksOf(g) : f[t] \in Nat /\ t \in Nat
  BY LayersRise DEF TaskIds
<1> HIDE DEF f
<1>2. \A t, u : Before(g, t, u) <=> (f[t] < f[u] \/ (f[t] = f[u] /\ t < u))
  BY DEF Before, f
<1>3. \A t, u \in S : t = u \/ Before(g, t, u) \/ Before(g, u, t)
  BY <1>1, <1>2
<1>4. \A t, u, v \in S : Before(g, t, u) /\ Before(g, u, v) => Before(g, t, v)
  BY <1>1, <1>2
<1>5. Bad = {}
  <2> SUFFICES ASSUME Bad # {} PROVE FALSE
    OBVIOUS
  <2>1. Bad \subseteq FiniteSubsetsOf(S)
    BY ValidIsFinite, FS_Subset, FS_FiniteSubsetsOfFinite
  <2> HIDE DEF Bad
  <2>2. PICK T \in Bad : \A U \in Bad : ~(<<U, T>> \in StrictSubsetOrdering(S))
    BY <2>1, ValidIsFinite, FS_Subset, FS_StrictSubsetOrderingWellFounded, WFMin
  <2> USE DEF Bad
  <2>3. PICK x \in T : TRUE
    OBVIOUS
  <2> DEFINE U == T \ {x}
  <2>4. U \in SUBSET S /\ <<U, T>> \in StrictSubsetOrdering(S)
    BY <2>3 DEF StrictSubsetOrdering
  <2>5. U = {} \/ \E t \in U : IsFirst(t, U)
    BY <2>2, <2>4
  <2>6. CASE U = {}
    <3>1. IsFirst(x, T)
      BY <2>6
    <3> QED BY <2>3, <3>1
  <2>7. CASE \E t \in U : IsFirst(t, U)
    <3>1. PICK t \in U : IsFirst(t, U)
      BY <2>7
    <3>2. t \in T /\ t # x /\ \A u \in U \ {t} : u \in S
      BY <3>1
    <3>3. CASE Before(g, t, x)
      <4>1. IsFirst(t, T)
        BY <3>1, <3>3
      <4> QED BY <3>2, <4>1
    <3>4. CASE Before(g, x, t)
      <4>1. \A u \in U : Before(g, x, u)
        BY <1>4, <2>3, <3>1, <3>2, <3>4
      <4>2. IsFirst(x, T)
        BY <4>1
      <4> QED BY <2>3, <4>2
    <3> QED BY <1>3, <2>3, <3>2, <3>3, <3>4
  <2> QED BY <2>5, <2>6, <2>7
<1> QED BY <1>5

\* As long as tasks are left the loop comes to one of them next.
ATaskIsNext == BetweenTasks /\ todo # {} => \E t \in todo : Upcoming(t)

\* A run is never at a loss for a next step, for any graph that can be run: with
\* RunsDrawToAnEnd, all that is left of termination is that steps are taken.
THEOREM NeverAtALoss == Spec => []ATaskIsNext
<1>1. Typed /\ RunBooks => ATaskIsNext
  BY OneComesFirst DEF Typed, TypeOK, RunBooks, ATaskIsNext, BetweenTasks, Upcoming
<1> QED BY <1>1, AlwaysTyped, BooksAgree, PTL
================================================================================
