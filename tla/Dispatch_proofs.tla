---------------------------- MODULE Dispatch_proofs ----------------------------
(***************************************************************************)
(* Proofs about the composition, for any number of jobs and workers.       *)
(*                                                                         *)
(* The composition takes steps of the job platform only, so what           *)
(* JobPlatform_proofs proves holds of it.  On that rests the invariant     *)
(* that relates the runners to both managers.                              *)
(***************************************************************************)
EXTENDS Dispatch, FiniteSetTheorems, TLAPS

BoardProofs == INSTANCE JobPlatform_proofs WITH
    Tenants <- {Tenant},
    Serves  <- [w \in Workers |-> Tenant]

\* The constants of the composition are legal constants of the job platform.
LEMMA BoardConstants ==
    /\ NoTenant \notin {Tenant}
    /\ [w \in Workers |-> Tenant] \in [Workers -> {Tenant} \cup {NoTenant}]
BY DispatchAssumption

-------------------------------------------------------------------------------
(* The job platform of the composition is the one of JobPlatform_proofs. *)

\* The two instances define the same values ...
LEMMA SameValues ==
    /\ Board!Jobs = BoardProofs!Jobs
    /\ Board!Submission = BoardProofs!Submission
    /\ Board!NoSubmission = BoardProofs!NoSubmission
    /\ Board!Terminal = BoardProofs!Terminal
    /\ Board!vars = BoardProofs!vars
BY DEF Board!Jobs, BoardProofs!Jobs, Board!Submission, BoardProofs!Submission,
       Board!NoSubmission, BoardProofs!NoSubmission, Board!Terminal, BoardProofs!Terminal,
       Board!vars, BoardProofs!vars

\* ... the same helpers ...
LEMMA SameHelpers ==
    /\ \A S : Board!FirstThatFit(S) = BoardProofs!FirstThatFit(S)
    /\ \A A : Board!EnqueueAll(A) = BoardProofs!EnqueueAll(A)
    /\ \A st, deps : Board!HasPending(st, deps) = BoardProofs!HasPending(st, deps)
    /\ \A st, j : Board!Freed(st, j) = BoardProofs!Freed(st, j)
    /\ \A d, j, n : Board!Entry(d, j, n) = BoardProofs!Entry(d, j, n)
    /\ \A j : Board!CanRetry(j) = BoardProofs!CanRetry(j)
    /\ \A j : Board!IsFresh(j) = BoardProofs!IsFresh(j)
    /\ Board!QueueIsFull = BoardProofs!QueueIsFull
    /\ Board!Repository = BoardProofs!Repository
<1> USE SameValues
<1>1. \A st, deps : Board!HasPending(st, deps) = BoardProofs!HasPending(st, deps)
  BY DEF Board!HasPending, BoardProofs!HasPending
<1>2. \A d, j, n : Board!Entry(d, j, n) = BoardProofs!Entry(d, j, n)
  BY DEF Board!Entry, BoardProofs!Entry
<1>3. Board!Repository = BoardProofs!Repository
  BY DEF Board!Repository, BoardProofs!Repository
<1>4. ASSUME NEW S PROVE Board!Cardinality(S) = BoardProofs!Cardinality(S)
  BY DEF Board!Cardinality, BoardProofs!Cardinality, Board!IsFiniteSet, BoardProofs!IsFiniteSet
<1>5. ASSUME NEW S, NEW j PROVE Board!Rank(S, j) = BoardProofs!Rank(S, j)
  BY <1>4 DEF Board!Rank, BoardProofs!Rank
<1>6. \A S : Board!FirstThatFit(S) = BoardProofs!FirstThatFit(S)
  BY <1>5, <1>4 DEF Board!FirstThatFit, BoardProofs!FirstThatFit
<1>7. ASSUME NEW A PROVE Board!EnqueueAll(A) = BoardProofs!EnqueueAll(A)
  BY <1>5, <1>2, <1>4 DEF Board!EnqueueAll, BoardProofs!EnqueueAll
<1>8. ASSUME NEW st, NEW j PROVE Board!Freed(st, j) = BoardProofs!Freed(st, j)
  BY <1>1 DEF Board!Freed, BoardProofs!Freed
<1>9. /\ \A j : Board!CanRetry(j) = BoardProofs!CanRetry(j)
      /\ Board!QueueIsFull = BoardProofs!QueueIsFull
  BY <1>4 DEF Board!CanRetry, BoardProofs!CanRetry, Board!QueueIsFull, BoardProofs!QueueIsFull
<1>10. \A j : Board!IsFresh(j) = BoardProofs!IsFresh(j)
  BY <1>3 DEF Board!IsFresh, BoardProofs!IsFresh
<1> QED BY <1>1, <1>2, <1>3, <1>6, <1>7, <1>8, <1>9, <1>10

\* ... the same submissions ...
LEMMA SameSubmit ==
    ASSUME NEW j, NEW s, Board!Submit(j, s) PROVE BoardProofs!Submit(j, s)
<1>1. \A st : Board!Create(j, s, st) = BoardProofs!Create(j, s, st)
  BY SameHelpers DEF Board!Create, BoardProofs!Create
<1> QED
  BY <1>1, SameHelpers
  DEF Board!Submit, BoardProofs!Submit, Board!SubmitScheduled, BoardProofs!SubmitScheduled,
      Board!SubmitBlocked, BoardProofs!SubmitBlocked, Board!SubmitQueued,
      BoardProofs!SubmitQueued, Board!SubmitOverflow, BoardProofs!SubmitOverflow

\* ... and the same other calls.
LEMMA SameCalls ==
    /\ \A due : Board!Promote(due) => BoardProofs!Promote(due)
    /\ \A w : Board!Claim(w) => BoardProofs!Claim(w)
    /\ \A w, j : Board!Complete(w, j) => BoardProofs!Complete(w, j)
    /\ \A w, j : Board!Fail(w, j) => BoardProofs!Fail(w, j)
    /\ \A j : Board!Cancel(j) => BoardProofs!Cancel(j)
<1> USE SameHelpers, SameValues
<1>1. ASSUME NEW due, Board!Promote(due) PROVE BoardProofs!Promote(due)
  BY <1>1 DEF Board!Promote, BoardProofs!Promote
<1>2. ASSUME NEW w, Board!Claim(w) PROVE BoardProofs!Claim(w)
  BY <1>2 DEF Board!Claim, BoardProofs!Claim, Board!Visible, BoardProofs!Visible,
              Board!IsFirst, BoardProofs!IsFirst, Board!Before, BoardProofs!Before
<1>3. ASSUME NEW w, NEW j, Board!Complete(w, j) PROVE BoardProofs!Complete(w, j)
  BY <1>3 DEF Board!Complete, BoardProofs!Complete, Board!Reported, BoardProofs!Reported
<1>4. ASSUME NEW w, NEW j, Board!Fail(w, j) PROVE BoardProofs!Fail(w, j)
  BY <1>4 DEF Board!Fail, BoardProofs!Fail, Board!FailRetry, BoardProofs!FailRetry,
              Board!FailRetryOverflow, BoardProofs!FailRetryOverflow, Board!FailForGood,
              BoardProofs!FailForGood, Board!Reported, BoardProofs!Reported
<1>5. ASSUME NEW j, Board!Cancel(j) PROVE BoardProofs!Cancel(j)
  BY <1>5 DEF Board!Cancel, BoardProofs!Cancel, Board!MayCancel, BoardProofs!MayCancel,
              Board!Withdrawn, BoardProofs!Withdrawn,
              Board!IsFirst, BoardProofs!IsFirst, Board!Before, BoardProofs!Before
<1> QED BY <1>1, <1>2, <1>3, <1>4, <1>5

\* What a runner holds is a job.
HeldIsJob ==
    /\ at \in [Workers -> Steps]
    /\ held \in [Workers -> Jobs \cup {NoJob}]
    /\ \A w \in Workers : at[w] \in {"mark_busy", "work", "mark_idle"} => held[w] \in Jobs

\* Only the loop changes it.
LEMMA HeldIsJobStep == HeldIsJob /\ [Next]_vars => HeldIsJob'
<1> SUFFICES ASSUME HeldIsJob, [Next]_vars PROVE HeldIsJob'
  OBVIOUS
<1> USE DEF HeldIsJob, Steps, Goes
<1>1. ASSUME NEW w \in Workers, Runner(w) PROVE HeldIsJob'
  BY <1>1 DEF Runner, ClaimJob, MarkBusy, MarkBusyRaises, Work, WorkSucceeds, WorkFails,
              MarkIdle, NextTurn
<1>2. CASE Users \/ Operators \/ Scale \/ HealthPoll \/ UNCHANGED vars
  BY <1>2 DEF Users, Operators, Scale, HealthPoll, vars, runner
<1> QED BY <1>1, <1>2 DEF Next

\* Init and every step of the composition are those of the job platform.
LEMMA BoardSimulated ==
    /\ Init => BoardProofs!Init /\ HeldIsJob
    /\ HeldIsJob /\ [Next]_vars => [BoardProofs!Next]_(BoardProofs!vars)
<1>1. Init => BoardProofs!Init /\ HeldIsJob
  BY SameValues DEF Init, Board!Init, BoardProofs!Init, HeldIsJob, Steps
<1>2. ASSUME HeldIsJob, [Next]_vars PROVE [BoardProofs!Next]_(BoardProofs!vars)
  <2> USE SameCalls, SameSubmit, SameValues DEF BoardProofs!Next
  <2>1. ASSUME NEW w \in Workers, Runner(w) PROVE [BoardProofs!Next]_(BoardProofs!vars)
    <3>1. CASE ClaimJob(w)
      BY <3>1 DEF ClaimJob
    <3>2. CASE MarkBusy(w) \/ MarkBusyRaises(w) \/ MarkIdle(w)
      BY <3>2 DEF MarkBusy, MarkBusyRaises, MarkIdle, board, BoardProofs!vars
    <3>3. CASE Work(w)
      <4>1. Board!Complete(w, held[w]) \/ Board!Fail(w, held[w])
        BY <3>3 DEF Work, WorkSucceeds, WorkFails
      <4>2. at[w] = "work"
        BY <3>3 DEF Work, WorkSucceeds, WorkFails, Goes
      <4> QED BY <1>2, <4>1, <4>2 DEF HeldIsJob, Jobs, BoardProofs!Jobs
    <3> QED BY <2>1, <3>1, <3>2, <3>3 DEF Runner
  <2>2. ASSUME Users PROVE BoardProofs!Next
    BY <2>2 DEF Users, Jobs, BoardProofs!Jobs
  <2>3. ASSUME Operators \/ Scale \/ HealthPoll \/ UNCHANGED vars
        PROVE UNCHANGED BoardProofs!vars
    BY <2>3 DEF Operators, Scale, HealthPoll, vars, board, BoardProofs!vars
  <2> QED BY <1>2, <2>1, <2>2, <2>3 DEF Next
<1> QED BY <1>1, <1>2

\* The composition is a job platform: every behaviour of it is a behaviour of
\* JobPlatform, whatever the pool and the runners do.
THEOREM IsJobPlatform == Spec => BoardProofs!Spec
<1>1. Spec => []HeldIsJob
  BY BoardSimulated, HeldIsJobStep, PTL DEF Spec
<1> QED BY <1>1, BoardSimulated, PTL DEF Spec, BoardProofs!Spec

\* Hence what is proved of the job platform holds of the composition; this is what
\* is used below.
LEMMA BoardPromises ==
    Spec => [](HeldIsJob /\ BoardProofs!TypeOK /\ BoardProofs!OneTicketPerJob)
<1> USE BoardConstants, DispatchAssumption
<1>1. Spec => []HeldIsJob
  BY BoardSimulated, HeldIsJobStep, PTL DEF Spec
<1>2. BoardProofs!Spec => []BoardProofs!TypeOK
  BY BoardProofs!TypeCorrect, PTL
<1>3. BoardProofs!Spec => []BoardProofs!OneTicketPerJob
  BY BoardProofs!OneTicket, PTL
<1> QED BY <1>1, <1>2, <1>3, IsJobPlatform, PTL

-------------------------------------------------------------------------------
(* The fleet is well typed. *)

Fleet ==
    /\ HeldIsJob
    /\ Pool!PoolTypeOK
    /\ unwell \subseteq Workers

\* The active workers are finitely many.
LEMMA ActiveIsFinite ==
    Fleet => Pool!Active \subseteq Workers /\ Pool!Cardinality(Pool!Active) \in Nat
<1> SUFFICES ASSUME Fleet
             PROVE  Pool!Active \subseteq Workers /\ Pool!Cardinality(Pool!Active) \in Nat
  OBVIOUS
<1>1. registered \subseteq 1..MaxWorkers
  BY DispatchAssumption DEF Fleet, Pool!PoolTypeOK
<1>2. Pool!Active \subseteq 1..MaxWorkers
  BY <1>1 DEF Pool!Active
<1>3. Cardinality(Pool!Active) \in Nat
  <2>1. IsFiniteSet(1..MaxWorkers)
    BY DispatchAssumption, FS_Interval
  <2> QED BY <1>2, <2>1, FS_Subset, FS_CardinalityType
<1>4. Pool!Cardinality(Pool!Active) = Cardinality(Pool!Active)
  BY DEF Pool!Cardinality, Cardinality, Pool!IsFiniteSet, IsFiniteSet
<1> QED BY <1>2, <1>3, <1>4 DEF Workers

\* Every step keeps it so.
LEMMA FleetStep == Fleet /\ [Next]_vars => Fleet'
<1> SUFFICES ASSUME Fleet, [Next]_vars PROVE Fleet'
  OBVIOUS
<1> HeldIsJob'
  BY HeldIsJobStep DEF Fleet
<1> InHand' \in [Workers -> SUBSET Jobs]
  BY DEF InHand, HeldIsJob
<1> USE DispatchAssumption
    DEF Fleet, Pool!PoolTypeOK, Pool!Workers, Workers, Jobs, Pool!WorkerStatus
<1>1. ASSUME NEW n \in 0..MaxWorkers, Pool!Enlist(n), UNCHANGED unwell PROVE Fleet'
  BY <1>1 DEF Pool!Enlist
<1>2. ASSUME NEW S \in SUBSET Workers, Pool!DrainAll(S), UNCHANGED <<registered, used, current, stale, unwell>>
      PROVE  Fleet'
  BY <1>2 DEF Pool!DrainAll, Pool!Drained
<1>3. Pool!Active \subseteq Workers /\ Pool!Cardinality(Pool!Active) \in Nat
  BY ActiveIsFinite
<1>4. ASSUME NEW w \in Workers, Runner(w) PROVE Fleet'
  <2>1. CASE ClaimJob(w) \/ MarkBusyRaises(w) \/ Work(w)
    BY <2>1 DEF ClaimJob, MarkBusyRaises, Work, WorkSucceeds, WorkFails, fleet
  <2>2. CASE MarkBusy(w)
    BY <2>2 DEF MarkBusy, Pool!MarkBusy, HeldIsJob, Goes
  <2>3. CASE MarkIdle(w)
    BY <2>3 DEF MarkIdle, Pool!Finish, Pool!AfterJob
  <2> QED BY <1>4, <2>1, <2>2, <2>3 DEF Runner
<1>5. CASE Users \/ UNCHANGED vars
  BY <1>5 DEF Users, fleet, vars, board, runner
<1>6. CASE Operators
  <2>1. CASE Pool!Register
    <3>1. MaxWorkers >= 1
      BY <2>1 DEF Pool!Register, Pool!Enlist
    <3> QED BY <1>1, <1>6, <2>1, <3>1 DEF Pool!Register, Operators
  <2>2. ASSUME NEW w \in Workers, Pool!Drain(w) PROVE Fleet'
    BY <1>2, <1>6, <2>2 DEF Pool!Drain, Operators
  <2>3. ASSUME NEW w \in Workers, Pool!Heartbeat(w) \/ Pool!MissHeartbeat(w) \/ Pool!Deregister(w)
        PROVE Fleet'
    BY <1>6, <2>3
    DEF Operators, Pool!Heartbeat, Pool!MissHeartbeat, Pool!Deregister, Pool!Revived
  <2> QED BY <1>6, <2>1, <2>2, <2>3 DEF Operators
<1>7. CASE Scale
  <2>1. ASSUME NEW size \in 0..MaxWorkers, Pool!ScaleUp(size) PROVE Fleet'
    <3>1. size - Pool!Cardinality(Pool!Active) \in 0..MaxWorkers
      BY <1>3, <2>1 DEF Pool!ScaleUp
    <3> QED BY <1>1, <1>7, <2>1, <3>1 DEF Pool!ScaleUp, Scale
  <2>2. ASSUME NEW size \in 0..MaxWorkers, Pool!ScaleDown(size) PROVE Fleet'
    <3> DEFINE S == Pool!Last(Pool!Cardinality(Pool!Active) - size, Pool!Active)
    <3>1. S \in SUBSET Workers
      BY <1>3 DEF Pool!Last
    <3>2. Pool!DrainAll(S) /\ UNCHANGED <<registered, used, current, stale, unwell>>
      BY <1>7, <2>2 DEF Pool!ScaleDown, Scale
    <3> HIDE DEF S
    <3> QED BY <1>2, <3>1, <3>2
  <2> QED BY <1>7, <2>1, <2>2 DEF Scale
<1>8. CASE HealthPoll
  BY <1>8 DEF HealthPoll, Pool!CheckHealth
<1> QED BY <1>4, <1>5, <1>6, <1>7, <1>8 DEF Next

\* The types of the composition.
THEOREM TypeCorrect == Spec => []TypeOK
<1>1. Init => Fleet
  BY DispatchAssumption, BoardSimulated
  DEF Init, Fleet, Pool!PoolInit, Pool!PoolTypeOK, Pool!Workers, Workers, Pool!WorkerStatus, InHand
<1>2. BoardProofs!TypeOK => Board!TypeOK
  <2>1. \A S : Board!Cardinality(S) = BoardProofs!Cardinality(S)
    BY DEF Board!Cardinality, BoardProofs!Cardinality, Board!IsFiniteSet, BoardProofs!IsFiniteSet
  <2> QED
    BY <2>1, SameValues
    DEF Board!TypeOK, BoardProofs!TypeOK, Board!JobStatus, BoardProofs!JobStatus,
        Board!QueueEntry, BoardProofs!QueueEntry
<1> QED BY <1>1, <1>2, FleetStep, BoardPromises, PTL DEF Spec, Fleet, TypeOK, HeldIsJob

-------------------------------------------------------------------------------
(* The runners and the two managers. *)

\* The runner and the job platform: who is past claim() and not yet done holds a
\* job that was claimed and not reported; every claim that was not reported has a
\* runner that holds it, or had one that was turned away.
Claims ==
    /\ \A w \in Workers : at[w] \in {"mark_busy", "work"} =>
         <<w, held[w]>> \in executing /\ status[held[w]] \in {"RUNNING", "CANCELLED"}
    /\ \A w \in Workers, j \in Jobs : <<w, j>> \in executing =>
         /\ held[w] = j
         /\ at[w] \in {"mark_busy", "work", "ended"}
         /\ at[w] = "ended" => w \notin GoodStanding
    /\ \A j \in Jobs : status[j] = "RUNNING" => \E w \in Workers : <<w, j>> \in executing

\* The runner and the pool.
Standing ==
    \A w \in GoodStanding :
        /\ at[w] \in {"claim", "mark_busy"} => standing[w] = "IDLE" /\ current[w] = NoJob
        /\ at[w] \in {"work", "mark_idle"} => standing[w] = "BUSY" /\ current[w] = held[w]

\* A worker that is yet to register has no past.
Unborn == \A w \in Workers : w > used => at[w] = "claim" /\ current[w] = NoJob

Facts == Fleet /\ BoardProofs!TypeOK /\ BoardProofs!OneTicketPerJob

Together == Claims /\ Standing /\ Unborn

\* A call that no runner makes leaves running and cancelled jobs what they are,
\* and makes no job run.
LEMMA UsersSpareRunners ==
    ASSUME Facts, Users
    PROVE  /\ executing' = executing
           /\ \A k \in Jobs : /\ status[k] \in {"RUNNING", "CANCELLED"}
                                   => status'[k] \in {"RUNNING", "CANCELLED"}
                              /\ status'[k] = "RUNNING" => status[k] = "RUNNING"
<1> USE DEF Facts, Board!Jobs, Jobs
<1>0. status \in [Jobs -> BoardProofs!JobStatus \cup {"ABSENT"}]
  BY DEF BoardProofs!TypeOK, BoardProofs!Jobs
<1>1. ASSUME NEW j \in Jobs, NEW s \in Board!Submission, Board!Submit(j, s)
      PROVE  /\ executing' = executing
             /\ status[j] = "ABSENT"
             /\ \E st \in {"SCHEDULED", "BLOCKED", "QUEUED", "PENDING"} :
                  status' = [status EXCEPT ![j] = st]
  BY <1>1 DEF Board!Submit, Board!SubmitScheduled, Board!SubmitBlocked, Board!SubmitQueued,
              Board!SubmitOverflow, Board!Create, Board!IsFresh, Board!Repository
<1>2. ASSUME NEW due \in SUBSET schedule, Board!Promote(due)
      PROVE  /\ executing' = executing
             /\ \A k \in Jobs : status'[k] # status[k]
                  => status[k] = "SCHEDULED" /\ status'[k] \in {"QUEUED", "BLOCKED"}
  BY <1>2 DEF Board!Promote, Board!FirstThatFit
<1>3. ASSUME NEW j \in Jobs, Board!Cancel(j)
      PROVE  /\ executing' = executing
             /\ status' = [status EXCEPT ![j] = "CANCELLED"]
  BY <1>3 DEF Board!Cancel
<1> QED BY <1>0, <1>1, <1>2, <1>3 DEF Users

\* A report ends the execution it is about, leaves no job of its own running, and
\* touches no other job that is running or was cancelled.
LEMMA ReportEnds ==
    ASSUME Facts, NEW w \in Workers, NEW j \in Jobs,
           Board!Complete(w, j) \/ Board!Fail(w, j)
    PROVE  /\ <<w, j>> \in executing
           /\ executing' = executing \ {<<w, j>>}
           /\ status'[j] # "RUNNING"
           /\ \A k \in Jobs \ {j} : /\ status[k] \in {"RUNNING", "CANCELLED"} => status'[k] = status[k]
                                    /\ status'[k] = "RUNNING" => status[k] = "RUNNING"
<1> USE DEF Facts, Board!Jobs, Jobs, Board!Reported
<1>0. status \in [Jobs -> BoardProofs!JobStatus \cup {"ABSENT"}]
  BY DEF BoardProofs!TypeOK, BoardProofs!Jobs
<1>1. CASE Board!Complete(w, j)
  <2> DEFINE done == [status EXCEPT ![j] = "SUCCEEDED"]
             fit  == Board!FirstThatFit(Board!Freed(done, j))
  <2>1. \A k \in fit : done[k] = "BLOCKED"
    BY DEF Board!FirstThatFit, Board!Freed
  <2>2. status' = [k \in Jobs |-> IF k \in fit THEN "QUEUED" ELSE done[k]]
    BY <1>1 DEF Board!Complete
  <2> HIDE DEF fit
  <2> QED BY <1>0, <1>1, <2>1, <2>2 DEF Board!Complete
<1>2. CASE Board!Fail(w, j)
  BY <1>0, <1>2
  DEF Board!Fail, Board!FailRetry, Board!FailRetryOverflow, Board!FailForGood
<1> QED BY <1>1, <1>2

\* A step of a runner keeps the managers together.
LEMMA RunnerKeepsTogether ==
    ASSUME Facts, Facts', Together, NEW w \in Workers, Runner(w)
    PROVE  Together'
<1> USE DEF Goes
<1> Claims /\ Standing /\ Unborn
  BY DEF Together
<1>0. /\ at \in [Workers -> Steps] /\ held \in [Workers -> Jobs \cup {NoJob}]
      /\ status \in [Jobs -> BoardProofs!JobStatus \cup {"ABSENT"}]
      /\ executing \subseteq Workers \X Jobs
      /\ standing \in [Workers -> Pool!WorkerStatus]
      /\ current \in [Workers -> Jobs \cup {NoJob}]
      /\ registered \subseteq Workers
      /\ used \in Nat
  <2>1. at \in [Workers -> Steps] /\ held \in [Workers -> Jobs \cup {NoJob}]
    BY DEF Facts, Fleet, HeldIsJob
  <2>2. /\ status \in [Jobs -> BoardProofs!JobStatus \cup {"ABSENT"}]
        /\ executing \subseteq Workers \X Jobs
    BY DEF Facts, BoardProofs!TypeOK, BoardProofs!Jobs, Jobs
  <2>3. /\ standing \in [Workers -> Pool!WorkerStatus]
        /\ current \in [Workers -> Jobs \cup {NoJob}]
        /\ registered \subseteq 1..used /\ used \in 0..MaxWorkers
    BY DEF Facts, Fleet, Pool!PoolTypeOK, Pool!Workers, Workers
  <2> QED BY <2>1, <2>2, <2>3, DispatchAssumption DEF Workers
<1>1. CASE ClaimJob(w)
  <2> PICK j \in Jobs : /\ w <= used
                        /\ Goes(w, "claim", "mark_busy")
                        /\ Board!Claim(w)
                        /\ executing' = executing \cup {<<w, j>>}
                        /\ held' = [held EXCEPT ![w] = j]
                        /\ UNCHANGED <<fleet, unwell>>
    BY <1>1 DEF ClaimJob
  <2>1. PICK e \in queue : /\ status' = [status EXCEPT ![e.job] = "RUNNING"]
                           /\ executing' = executing \cup {<<w, e.job>>}
    BY DEF Board!Claim, Board!Visible
  <2>2. \A k \in Jobs : <<w, k>> \notin executing
    BY DEF Claims
  <2>3. e.job = j
    <3>1. <<w, j>> \in executing \cup {<<w, e.job>>}
      BY <2>1
    <3>2. <<w, j>> \notin executing
      BY <2>2
    <3> QED BY <3>1, <3>2
  <2>4. GoodStanding' = GoodStanding
    BY DEF GoodStanding, fleet
  <2>5. status' = [status EXCEPT ![j] = "RUNNING"]
    BY <2>1, <2>3
  <2>6. Claims'
    <3>1. ASSUME NEW v \in Workers, at'[v] \in {"mark_busy", "work"}
          PROVE  <<v, held'[v]>> \in executing' /\ status'[held'[v]] \in {"RUNNING", "CANCELLED"}
      BY <1>0, <2>5, <3>1 DEF Claims
    <3>2. ASSUME NEW v \in Workers, NEW k \in Jobs, <<v, k>> \in executing'
          PROVE  /\ held'[v] = k
                 /\ at'[v] \in {"mark_busy", "work", "ended"}
                 /\ at'[v] = "ended" => v \notin GoodStanding
      <4>1. CASE v = w
        <5>1. k = j
          BY <2>2, <3>2, <4>1
        <5>2. held'[w] = j /\ at'[w] = "mark_busy"
          BY <1>0
        <5> QED BY <4>1, <5>1, <5>2
      <4>2. CASE v # w
        <5>1. <<v, k>> \in executing
          BY <3>2, <4>2
        <5>2. held'[v] = held[v] /\ at'[v] = at[v]
          BY <1>0, <4>2
        <5> QED BY <5>1, <5>2 DEF Claims
      <4> QED BY <4>1, <4>2
    <3>3. ASSUME NEW k \in Jobs, status'[k] = "RUNNING"
          PROVE  \E v \in Workers : <<v, k>> \in executing'
      <4>1. CASE k = j
        BY <4>1
      <4>2. CASE k # j
        <5>1. status[k] = "RUNNING"
          BY <1>0, <2>5, <3>3, <4>2
        <5> QED BY <5>1 DEF Claims
      <4> QED BY <4>1, <4>2
    <3> QED BY ONLY <2>4, <3>1, <3>2, <3>3 DEF Claims
  <2>7. Standing'
    <3>1. \A v \in Workers : /\ at'[v] = at[v] \/ (at[v] = "claim" /\ at'[v] = "mark_busy")
                             /\ v # w => held'[v] = held[v]
      BY <1>0
    <3>2. UNCHANGED <<standing, current>> /\ GoodStanding \subseteq Workers
      BY <1>0 DEF fleet, GoodStanding
    <3> QED BY <1>0, <2>4, <3>1, <3>2 DEF Standing
  <2>8. Unborn'
    BY <1>0 DEF Unborn, fleet, Workers
  <2> QED BY <2>6, <2>7, <2>8 DEF Together
<1>2. CASE MarkBusy(w)
  <2> UNCHANGED <<executing, status, held>> /\ GoodStanding' = GoodStanding
    BY <1>2 DEF MarkBusy, Pool!MarkBusy, GoodStanding, board
  <2>1. Claims'
    <3>1. at' = [at EXCEPT ![w] = "work"] /\ at[w] = "mark_busy"
      BY <1>2 DEF MarkBusy, Pool!MarkBusy
    <3>2. \A v \in Workers :
            /\ at'[v] \in {"mark_busy", "work"} <=> at[v] \in {"mark_busy", "work"}
            /\ at'[v] = "ended" <=> at[v] = "ended"
      BY <1>0, <3>1
    <3> QED BY <3>2 DEF Claims
  <2>2. Standing'
    BY <1>0, <1>2 DEF MarkBusy, Pool!MarkBusy, Standing, GoodStanding
  <2>3. Unborn'
    BY <1>0, <1>2 DEF MarkBusy, Pool!MarkBusy, Unborn
  <2> QED BY <2>1, <2>2, <2>3 DEF Together
<1>3. CASE MarkBusyRaises(w)
  <2> /\ UNCHANGED <<executing, status, held, fleet>>
      /\ GoodStanding' = GoodStanding
    BY <1>3 DEF MarkBusyRaises, GoodStanding, board, fleet
  <2>1. w \notin GoodStanding
    BY <1>3 DEF MarkBusyRaises, Pool!CanTake, Pool!IsAvailable, Standing, GoodStanding
  <2>2. Claims'
    <3>1. at' = [at EXCEPT ![w] = "ended"] /\ at[w] = "mark_busy"
      BY <1>3 DEF MarkBusyRaises
    <3>2. \A v \in Workers : at'[v] = IF v = w THEN "ended" ELSE at[v]
      BY <1>0, <3>1
    <3> QED BY <2>1, <3>1, <3>2 DEF Claims
  <2>3. Standing' /\ Unborn'
    BY <1>3 DEF MarkBusyRaises, Standing, Unborn, fleet
  <2> QED BY <2>2, <2>3 DEF Together
<1>4. CASE Work(w)
  <2> DEFINE j == held[w]
  <2>1. at[w] = "work" /\ j \in Jobs
    BY <1>4 DEF Work, WorkSucceeds, WorkFails, Facts, Fleet, HeldIsJob
  <2>2. at' \in {[at EXCEPT ![w] = "mark_idle"], [at EXCEPT ![w] = "ended"]}
    BY <1>4 DEF Work, WorkSucceeds, WorkFails
  <2>3. Board!Complete(w, j) \/ Board!Fail(w, j)
    BY <1>4 DEF Work, WorkSucceeds, WorkFails
  <2>4. UNCHANGED <<fleet, held, unwell>> /\ GoodStanding' = GoodStanding
    BY <1>4 DEF Work, WorkSucceeds, WorkFails, GoodStanding, fleet
  <2>5. /\ <<w, j>> \in executing
        /\ executing' = executing \ {<<w, j>>}
        /\ status'[j] # "RUNNING"
        /\ \A k \in Jobs \ {j} : /\ status[k] \in {"RUNNING", "CANCELLED"} => status'[k] = status[k]
                                 /\ status'[k] = "RUNNING" => status[k] = "RUNNING"
    BY <2>1, <2>3, ReportEnds
  <2>6. ASSUME NEW v \in Workers \ {w}, at[v] \in {"mark_busy", "work"} PROVE held[v] # j
    <3>1. <<v, held[v]>> \in executing
      BY <2>6 DEF Claims
    <3>2. <<v, held[v]>>[2] = <<w, j>>[2] => <<v, held[v]>> = <<w, j>>
      BY <2>5, <3>1 DEF BoardProofs!OneTicketPerJob, Facts
    <3> QED BY <3>2
  <2>7. Claims'
    <3>1. ASSUME NEW v \in Workers, at'[v] \in {"mark_busy", "work"}
          PROVE  <<v, held'[v]>> \in executing' /\ status'[held'[v]] \in {"RUNNING", "CANCELLED"}
      <4>1. v # w /\ at[v] = at'[v]
        BY <1>0, <2>2, <3>1
      <4>2. <<v, held[v]>> \in executing /\ status[held[v]] \in {"RUNNING", "CANCELLED"}
        BY <3>1, <4>1 DEF Claims
      <4>3. held[v] # j /\ held[v] \in Jobs
        BY <1>0, <2>6, <3>1, <4>1, <4>2
      <4> HIDE DEF j
      <4> QED BY <2>4, <2>5, <4>1, <4>2, <4>3
    <3>2. ASSUME NEW v \in Workers, NEW k \in Jobs, <<v, k>> \in executing'
          PROVE  /\ held'[v] = k
                 /\ at'[v] \in {"mark_busy", "work", "ended"}
                 /\ at'[v] = "ended" => v \notin GoodStanding
      <4>1. <<v, k>> \in executing /\ held[v] = k
        BY <2>5, <3>2 DEF Claims
      <4>2. v # w
        BY <2>5, <3>2, <4>1
      <4> QED BY <1>0, <2>2, <2>4, <4>1, <4>2 DEF Claims
    <3>3. ASSUME NEW k \in Jobs, status'[k] = "RUNNING"
          PROVE  \E v \in Workers : <<v, k>> \in executing'
      <4>1. k # j /\ status[k] = "RUNNING"
        BY <2>5, <3>3
      <4> QED BY <2>5, <4>1 DEF Claims
    <3> QED BY ONLY <2>4, <3>1, <3>2, <3>3 DEF Claims
  <2>8. Standing'
    <3>1. \A v \in Workers : at'[v] = at[v] \/ (v = w /\ at'[v] \in {"mark_idle", "ended"})
      BY <1>0, <2>2
    <3>2. UNCHANGED <<standing, current, held>> /\ GoodStanding \subseteq Workers
      BY <1>0, <2>4 DEF fleet, GoodStanding
    <3> QED BY <2>1, <2>4, <3>1, <3>2 DEF Standing
  <2>9. Unborn'
    <3>1. \A v \in Workers : at[v] = "claim" => at'[v] = "claim"
      BY <1>0, <2>1, <2>2
    <3> QED BY <2>4, <3>1 DEF Unborn, fleet
  <2> QED BY <2>7, <2>8, <2>9 DEF Together
<1>5. CASE MarkIdle(w)
  <2> /\ UNCHANGED <<executing, status, registered, used, retired, unwell>>
      /\ GoodStanding' = GoodStanding
    BY <1>5 DEF MarkIdle, GoodStanding, board, Pool!Finish
  <2>0. at[w] = "mark_idle" /\ at' = [at EXCEPT ![w] = NextTurn(w)]
          /\ held' = [held EXCEPT ![w] = NoJob]
    BY <1>5 DEF MarkIdle
  <2>1. Claims'
    BY <2>0 DEF NextTurn, Claims
  <2>2. ASSUME NEW v \in GoodStanding
        PROVE  /\ at'[v] \in {"claim", "mark_busy"} => standing'[v] = "IDLE" /\ current'[v] = NoJob
               /\ at'[v] \in {"work", "mark_idle"} => standing'[v] = "BUSY" /\ current'[v] = held'[v]
    <3>1. v \in Workers /\ v \in registered
      BY <1>0, DispatchAssumption DEF GoodStanding, Pool!PoolTypeOK, Workers
    <3>2. CASE v = w
      <4>1. standing[w] = "BUSY"
        BY <2>0, <3>2 DEF Standing
      <4>2. /\ current' = [current EXCEPT ![w] = NoJob]
            /\ standing' = [standing EXCEPT ![w] = "IDLE"]
        BY <1>5, <3>1, <3>2, <4>1 DEF MarkIdle, Pool!Finish, Pool!AfterJob
      <4> QED BY <1>0, <2>0, <3>1, <3>2, <4>2 DEF NextTurn
    <3>3. CASE v # w
      <4>1. at'[v] = at[v] /\ held'[v] = held[v]
        BY <2>0, <3>1, <3>3
      <4>2. standing'[v] = standing[v] /\ current'[v] = current[v]
        BY <1>0, <1>5, <3>1, <3>3 DEF MarkIdle, Pool!Finish
      <4> QED BY <4>1, <4>2 DEF Standing
    <3> QED BY <3>2, <3>3
  <2>3. Unborn'
    <3>1. w <= used
      BY <1>0, <2>0 DEF Unborn, Workers
    <3>2. \A v \in Workers \ {w} : at'[v] = at[v] /\ current'[v] = current[v]
      BY <1>0, <1>5, <2>0 DEF MarkIdle, Pool!Finish
    <3> QED BY <1>0, <3>1, <3>2 DEF Unborn, Workers
  <2> QED BY <2>1, <2>2, <2>3 DEF Standing, Together
<1> QED BY <1>1, <1>2, <1>3, <1>4, <1>5 DEF Runner, Together

\* So do the users of the job platform.
LEMMA UsersKeepTogether ==
    ASSUME Facts, Together, Users
    PROVE  Together'
<1>1. UNCHANGED <<fleet, runner, unwell, GoodStanding>>
  BY DEF Users, fleet, GoodStanding
<1>2. /\ executing' = executing
      /\ \A k \in Jobs : /\ status[k] \in {"RUNNING", "CANCELLED"}
                              => status'[k] \in {"RUNNING", "CANCELLED"}
                         /\ status'[k] = "RUNNING" => status[k] = "RUNNING"
  BY UsersSpareRunners
<1>3. \A w \in Workers : at[w] \in {"mark_busy", "work"} => held[w] \in Jobs
  BY DEF Facts, Fleet, HeldIsJob
<1>4. Claims'
  BY <1>1, <1>2, <1>3 DEF Together, Claims, runner
<1>5. Standing' /\ Unborn'
  BY <1>1 DEF Together, Standing, Unborn, runner, fleet
<1> QED BY <1>4, <1>5 DEF Together

\* What happens to the fleet alone keeps the managers together if the workers that
\* remain in good standing keep their status, and those that come to it are new.
LEMMA FleetKeepsTogether ==
    ASSUME Facts, Together, UNCHANGED <<board, runner, current>>, used' \in Nat, used' >= used,
           \A w \in GoodStanding' : \/ /\ w \in GoodStanding
                                       /\ at[w] # "ended" => standing'[w] = standing[w]
                                    \/ w \in Workers /\ w > used /\ standing'[w] = "IDLE"
    PROVE  Together'
<1> USE DEF Together, runner, board
<1>0. used \in Nat /\ GoodStanding \subseteq Workers
  BY DispatchAssumption DEF Facts, Fleet, Pool!PoolTypeOK, Pool!Workers, Workers, GoodStanding
<1>1. ASSUME NEW w \in Workers, NEW j \in Jobs, <<w, j>> \in executing, at[w] = "ended"
      PROVE  w \notin GoodStanding'
  <2>1. w \notin GoodStanding
    BY <1>1 DEF Claims
  <2>2. ~(w > used)
    BY <1>1 DEF Unborn
  <2> QED BY <2>1, <2>2
<1>2. Claims'
  BY <1>1 DEF Claims
<1>3. Standing'
  BY DEF Standing, Unborn
<1>4. Unborn'
  BY <1>0 DEF Unborn, Workers
<1> QED BY <1>2, <1>3, <1>4

\* Registering workers is such a step.
LEMMA EnlistKeepsTogether ==
    ASSUME Facts, Together, UNCHANGED <<board, runner, unwell>>, NEW n \in Nat, Pool!Enlist(n)
    PROVE  Together'
<1>0. /\ used \in Nat /\ MaxWorkers \in Nat
      /\ registered \subseteq Workers
      /\ standing \in [Workers -> Pool!WorkerStatus]
  BY DispatchAssumption DEF Facts, Fleet, Pool!PoolTypeOK, Pool!Workers, Workers
<1>1. ASSUME NEW w \in GoodStanding'
      PROVE  \/ w \in GoodStanding /\ standing'[w] = standing[w]
             \/ w \in Workers /\ w > used /\ standing'[w] = "IDLE"
  <2>1. CASE w \in (used + 1)..(used + n)
    BY <1>0, <2>1 DEF Pool!Enlist, Pool!Workers, Workers
  <2>2. CASE w \notin (used + 1)..(used + n)
    BY <1>0, <1>1, <2>2 DEF GoodStanding, Pool!Enlist, Pool!Workers, Workers
  <2> QED BY <2>1, <2>2
<1>2. used' \in Nat /\ used' >= used /\ UNCHANGED current
  BY <1>0 DEF Pool!Enlist
<1> QED BY <1>1, <1>2, FleetKeepsTogether

\* So is telling workers to leave.
LEMMA DrainKeepsTogether ==
    ASSUME Facts, Together, NEW S \in SUBSET Workers, Pool!DrainAll(S),
           UNCHANGED <<board, runner, unwell, registered, used, current>>
    PROVE  Together'
<1>0. used \in Nat /\ standing \in [Workers -> Pool!WorkerStatus] /\ registered \subseteq Workers
  BY DispatchAssumption DEF Facts, Fleet, Pool!PoolTypeOK, Pool!Workers, Workers
<1>1. ASSUME NEW w \in GoodStanding' PROVE w \in GoodStanding /\ standing'[w] = standing[w]
  BY <1>0, <1>1 DEF GoodStanding, Pool!DrainAll, Pool!Workers, Workers
<1> QED BY <1>0, <1>1, FleetKeepsTogether

\* Every step keeps the managers together.
LEMMA TogetherStep == Facts /\ Facts' /\ Together /\ [Next]_vars => Together'
<1> SUFFICES ASSUME Facts, Facts', Together, [Next]_vars PROVE Together'
  OBVIOUS
<1>0. /\ used \in Nat
      /\ standing \in [Workers -> Pool!WorkerStatus]
      /\ registered \subseteq Workers
      /\ Pool!Workers = Workers
  BY DispatchAssumption DEF Facts, Fleet, Pool!PoolTypeOK, Pool!Workers, Workers
<1>1. CASE Operators
  <2>1. CASE Pool!Register
    BY <1>1, <2>1, EnlistKeepsTogether DEF Operators, Pool!Register
  <2>2. ASSUME NEW w \in Workers, Pool!Drain(w) PROVE Together'
    BY <1>1, <2>2, DrainKeepsTogether DEF Operators, Pool!Drain
  <2>3. ASSUME NEW w \in Workers, Pool!Deregister(w) \/ Pool!MissHeartbeat(w) PROVE Together'
    <3>1. UNCHANGED <<used, current, standing>> /\ GoodStanding' \subseteq GoodStanding
      BY <1>1, <2>3 DEF Operators, GoodStanding, Pool!Deregister, Pool!MissHeartbeat
    <3> QED BY <1>0, <1>1, <3>1, FleetKeepsTogether DEF Operators
  <2>4. ASSUME NEW w \in Workers, Pool!Heartbeat(w) PROVE Together'
    <3>1. UNCHANGED <<used, current>> /\ GoodStanding' = GoodStanding
      BY <1>1, <2>4 DEF Operators, GoodStanding, Pool!Heartbeat
    <3>2. ASSUME NEW v \in GoodStanding, at[v] # "ended" PROVE standing'[v] = standing[v]
      <4>1. v \in Workers /\ at[v] \in Steps
        BY <1>0 DEF GoodStanding, Facts, Fleet, HeldIsJob
      <4>2. standing[v] \in {"IDLE", "BUSY"}
        BY <3>2, <4>1 DEF Steps, Together, Standing
      <4> QED BY <1>0, <2>4, <4>1, <4>2 DEF Pool!Heartbeat, Pool!Revived
    <3> QED BY <1>0, <1>1, <3>1, <3>2, FleetKeepsTogether DEF Operators
  <2> QED
    BY <1>1, <2>1, <2>2, <2>3, <2>4, DispatchAssumption DEF Operators, Workers
<1>2. CASE Scale
  <2>1. ASSUME NEW size \in 0..MaxWorkers, Pool!ScaleUp(size) PROVE Together'
    <3>1. size - Pool!Cardinality(Pool!Active) \in Nat
      BY <2>1, ActiveIsFinite DEF Pool!ScaleUp, Facts
    <3> QED BY <1>2, <2>1, <3>1, EnlistKeepsTogether DEF Scale, Pool!ScaleUp
  <2>2. ASSUME NEW size \in 0..MaxWorkers, Pool!ScaleDown(size) PROVE Together'
    <3> DEFINE S == Pool!Last(Pool!Cardinality(Pool!Active) - size, Pool!Active)
    <3>1. S \in SUBSET Workers
      BY ActiveIsFinite DEF Pool!Last, Facts
    <3>2. /\ Pool!DrainAll(S)
          /\ UNCHANGED <<board, runner, unwell, registered, used, current>>
      BY <1>2, <2>2 DEF Scale, Pool!ScaleDown
    <3> HIDE DEF S
    <3> QED BY <3>1, <3>2, DrainKeepsTogether
  <2> QED BY <1>2, <2>1, <2>2 DEF Scale
<1>3. CASE HealthPoll
  <2>1. UNCHANGED <<board, runner, current, used>>
    BY <1>3 DEF HealthPoll, Pool!CheckHealth
  <2>2. ASSUME NEW w \in GoodStanding' PROVE w \in GoodStanding /\ standing'[w] = standing[w]
    BY <1>0, <1>3, <2>2 DEF HealthPoll, Pool!CheckHealth, GoodStanding
  <2> QED BY <1>0, <2>1, <2>2, FleetKeepsTogether
<1>4. CASE UNCHANGED vars
  <2>1. UNCHANGED <<board, runner, current, used, standing, GoodStanding>>
    BY <1>4 DEF vars, fleet, GoodStanding
  <2> QED BY <1>0, <2>1, FleetKeepsTogether
<1> QED
  BY <1>1, <1>2, <1>3, <1>4, RunnerKeepsTogether, UsersKeepTogether DEF Next

\* Facts and Together hold of every state.
LEMMA TogetherAlways == Spec => [](Facts /\ Together)
<1>1. Init => Fleet /\ Together
  <2>1. Init => Claims /\ Standing /\ Unborn
    BY DEF Init, Board!Init, Pool!PoolInit, Claims, Standing, Unborn, GoodStanding, Pool!Workers,
           Workers, Board!Jobs, Jobs
  <2>2. Init => Fleet
    BY DispatchAssumption, BoardSimulated
    DEF Init, Fleet, Pool!PoolInit, Pool!PoolTypeOK, Pool!Workers, Workers, Pool!WorkerStatus, InHand
  <2> QED BY <2>1, <2>2 DEF Together
<1>2. Spec => []Facts
  BY <1>1, FleetStep, BoardPromises, PTL DEF Spec, Facts
<1> QED BY <1>1, <1>2, TogetherStep, PTL DEF Spec

\* The pool's word about a worker in good standing, the runner's and the job
\* platform's agree, for any number of jobs and workers.
THEOREM TheyAgree == Spec => []ManagersAgree
<1>1. Facts /\ Together => ManagersAgree
  BY DispatchAssumption
  DEF Together, Claims, Standing, ManagersAgree, Facts, Fleet, Pool!PoolTypeOK, GoodStanding, Workers
<1> QED BY <1>1, TogetherAlways, PTL

\* A job is RUNNING only if a runner will report it, or the pool turned its worker
\* away, for any number of jobs and workers.
THEOREM NoJobRunsAlone == Spec => []RunningMeansHeld
<1>1. Together => RunningMeansHeld
  BY DEF Together, Claims, RunningMeansHeld
<1> QED BY <1>1, TogetherAlways, PTL
================================================================================
