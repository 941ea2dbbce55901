--------------------------- MODULE WorkerPool_proofs ---------------------------
(***************************************************************************)
(* What the pool guarantees of its workers: it knows what each of them     *)
(* does, except for the jobs it has lost sight of, and a worker that has   *)
(* stopped comes back only by the report of a job it was still at.         *)
(***************************************************************************)
EXTENDS WorkerPool, FiniteSetTheorems, TLAPS

\* The active workers are finitely many.
LEMMA ActiveIsFinite ==
    ASSUME PoolAssumption, PoolTypeOK
    PROVE  Active \subseteq Workers /\ Cardinality(Active) \in Nat
<1>1. registered \subseteq 1..MaxWorkers
  BY DEF PoolAssumption, PoolTypeOK
<1>2. Active \subseteq 1..MaxWorkers
  BY <1>1 DEF Active
<1>3. IsFiniteSet(1..MaxWorkers)
  BY FS_Interval DEF PoolAssumption
<1> QED BY <1>2, <1>3, FS_Subset, FS_CardinalityType DEF Workers

\* Every step keeps the types.
LEMMA TypeStep == ASSUME PoolAssumption PROVE PoolTypeOK /\ [PoolNext]_poolVars => PoolTypeOK'
<1> SUFFICES ASSUME PoolTypeOK, [PoolNext]_poolVars PROVE PoolTypeOK'
  OBVIOUS
<1> USE DEF PoolAssumption, PoolTypeOK, Workers, WorkerStatus
<1>1. ASSUME NEW n \in 0..MaxWorkers, Enlist(n) PROVE PoolTypeOK'
  BY <1>1 DEF Enlist
<1>2. CASE Register
  <2>1. MaxWorkers >= 1
    BY <1>2 DEF Register, Enlist
  <2> QED BY <1>1, <1>2, <2>1 DEF Register
<1>3. ASSUME NEW w \in Workers, Deregister(w) PROVE PoolTypeOK'
  BY <1>3 DEF Deregister
<1>4. ASSUME NEW w \in Workers, Heartbeat(w) PROVE PoolTypeOK'
  BY <1>4 DEF Heartbeat, Revived
<1>5. ASSUME NEW d \in Dispatchers, NEW j \in Jobs, Assign(d, j) PROVE PoolTypeOK'
  <2> DEFINE w == found[d]
  <2>1. w \in Workers
    BY <1>5 DEF Assign, NoWorker
  <2>2. found' \in [Dispatchers -> {NoWorker} \cup 1..used] /\ UNCHANGED <<registered, used, stale, retired>>
    BY <1>5 DEF Assign, MarkBusy, NoWorker
  <2>3. CASE MarkBusy(w, j) /\ tasks' = [tasks EXCEPT ![w] = @ \cup {j}]
    BY <2>1, <2>2, <2>3 DEF MarkBusy
  <2>4. CASE UNCHANGED <<status, current, tasks, misjudged>>
    BY <2>2, <2>4
  <2> QED BY <1>5, <2>3, <2>4 DEF Assign
<1>13. ASSUME NEW d \in Dispatchers, Find(d) PROVE PoolTypeOK'
  <2>1. PICK w \in Workers : /\ w \in registered
                             /\ found' = [found EXCEPT ![d] = w]
                             /\ UNCHANGED <<registered, used, status, current, stale, tasks, retired, misjudged>>
    BY <1>13 DEF Find, IsAvailable
  <2> QED BY <2>1
<1>6. ASSUME NEW w \in Workers, NEW j \in Jobs, Finish(w, j) PROVE PoolTypeOK'
  BY <1>6 DEF Finish, AfterJob
<1>7. ASSUME NEW w \in Workers, Drain(w) PROVE PoolTypeOK'
  BY <1>7 DEF Drain, DrainAll, Drained
<1>8. ASSUME NEW w \in Workers, MissHeartbeat(w) PROVE PoolTypeOK'
  BY <1>8 DEF MissHeartbeat
<1>9. CASE CheckHealth
  BY <1>9 DEF CheckHealth
<1>10. ASSUME NEW size \in 0..MaxWorkers, ScaleDown(size) PROVE PoolTypeOK'
  <2> DEFINE S == Last(Cardinality(Active) - size, Active)
  <2>1. S \subseteq Workers
    BY ActiveIsFinite DEF Last
  <2>2. DrainAll(S) /\ UNCHANGED <<registered, used, current, stale, found, tasks>>
    BY <1>10 DEF ScaleDown
  <2> HIDE DEF S
  <2> QED BY <2>1, <2>2 DEF DrainAll, Drained
<1>11. ASSUME NEW size \in 0..MaxWorkers, ScaleUp(size) PROVE PoolTypeOK'
  <2> DEFINE n == size - Cardinality(Active)
  <2>1. Enlist(n)
    BY <1>11 DEF ScaleUp
  <2>2. n \in Nat
    BY <1>11, ActiveIsFinite DEF ScaleUp
  <2> HIDE DEF n
  <2>3. n \in 0..MaxWorkers
    BY <2>1, <2>2 DEF Enlist
  <2> QED BY <2>1, <2>3, <1>1
<1>12. CASE UNCHANGED poolVars
  BY <1>12 DEF poolVars
<1> QED
  BY <1>2, <1>3, <1>4, <1>5, <1>6, <1>7, <1>8, <1>9, <1>10, <1>11, <1>12, <1>13
     DEF PoolNext

\* The type invariant.
THEOREM TypeCorrect == ASSUME PoolAssumption PROVE PoolSpec => []PoolTypeOK
<1>1. PoolInit => PoolTypeOK
  BY DEF PoolAssumption, PoolInit, PoolTypeOK, Workers, WorkerStatus, NoWorker
<1> QED BY <1>1, TypeStep, PTL DEF PoolSpec

-------------------------------------------------------------------------------
(* The pool's picture of its workers. *)

\* A worker that is yet to register has no past.
Fresh == \A w \in Workers : w > used => tasks[w] = {} /\ w \notin misjudged

\* BeliefMatchesWork, of one worker.
Known(w) ==
    /\ status[w] \in {"BUSY", "DRAINING"} => current[w] \in tasks[w]
    /\ w \notin misjudged =>
         tasks[w] \subseteq (IF status[w] \in {"BUSY", "DRAINING"} THEN {current[w]} ELSE {})

Exact == PoolTypeOK /\ Fresh /\ BeliefMatchesWork

\* Retiring any set of workers keeps the picture right.
LEMMA DrainingKeepsExact ==
    ASSUME PoolAssumption, Exact, NEW S \in SUBSET registered, PoolTypeOK', DrainAll(S),
           UNCHANGED <<registered, used, current, stale, found, tasks>>
    PROVE  Exact'
<1> USE DEF Exact, DrainAll, Workers
<1> registered \subseteq Workers
  BY DEF PoolAssumption, PoolTypeOK
<1>1. \A w \in S : status'[w] = IF status[w] = "BUSY" THEN "DRAINING" ELSE "STOPPED"
  BY DEF Drained
<1>2. \A w \in Workers : w \notin S => status'[w] = status[w]
  OBVIOUS
<1>3. \A w \in S : w \notin misjudged' => status[w] # "DRAINING" /\ w \notin misjudged
  OBVIOUS
<1>4. \A w \in S : w <= used
  BY DEF PoolTypeOK
<1>5. Fresh'
  BY <1>4 DEF Fresh, PoolTypeOK
<1>6. BeliefMatchesWork'
  <2> SUFFICES ASSUME NEW w \in registered PROVE Known(w)'
    BY DEF BeliefMatchesWork, Known
  <2>1. Known(w)
    BY DEF BeliefMatchesWork, Known
  <2>2. CASE w \in S
    BY <1>1, <1>3, <2>1, <2>2 DEF Known
  <2>3. CASE w \notin S
    BY <1>2, <2>1, <2>3 DEF Known
  <2> QED BY <2>2, <2>3
<1> QED BY <1>5, <1>6

\* Registering any number of workers keeps the picture right.
LEMMA EnlistingKeepsExact ==
    ASSUME PoolAssumption, Exact, NEW n \in Nat, Enlist(n), PoolTypeOK'
    PROVE  Exact'
<1> USE DEF Exact, Enlist, Workers
<1> DEFINE new == (used + 1)..(used + n)
<1>1. new \subseteq Workers /\ registered \cap new = {}
  BY DEF PoolAssumption, PoolTypeOK
<1>2. \A w \in Workers : status'[w] = IF w \in new THEN "IDLE" ELSE status[w]
  OBVIOUS
<1>3. \A w \in new : tasks[w] = {}
  BY <1>1 DEF Fresh, PoolTypeOK
<1>4. registered' = registered \cup new /\ registered \subseteq Workers
  BY DEF PoolAssumption, PoolTypeOK
<1> HIDE DEF new
<1>5. Fresh'
  BY DEF Fresh, PoolTypeOK
<1>6. BeliefMatchesWork'
  BY <1>1, <1>2, <1>3, <1>4 DEF BeliefMatchesWork
<1> QED BY <1>5, <1>6

\* A job for a worker, idle or not, keeps the picture right.
LEMMA AssigningKeepsExact ==
    ASSUME PoolAssumption, Exact, PoolTypeOK', NEW w \in registered, NEW j \in Jobs, MarkBusy(w, j),
           tasks' = [tasks EXCEPT ![w] = @ \cup {j}]
    PROVE  Exact'
<1> USE DEF Exact
<1> w \in Workers /\ registered \subseteq Workers /\ w <= used
  BY DEF PoolAssumption, PoolTypeOK, Workers
<1>1. /\ status'[w] = "BUSY" /\ current'[w] = j /\ tasks'[w] = tasks[w] \cup {j}
      /\ \A v \in Workers \ {w} : status'[v] = status[v] /\ current'[v] = current[v] /\ tasks'[v] = tasks[v]
      /\ registered' = registered /\ used' = used
      /\ misjudged' = IF tasks[w] = {} THEN misjudged ELSE misjudged \cup {w}
  BY DEF MarkBusy, PoolTypeOK
<1>2. Fresh'
  BY <1>1 DEF Fresh, PoolTypeOK, Workers
<1>3. BeliefMatchesWork'
  <2> SUFFICES ASSUME NEW v \in registered PROVE Known(v)'
    BY <1>1 DEF BeliefMatchesWork, Known
  <2>1. CASE v = w
    BY <1>1, <2>1 DEF Known
  <2>2. CASE v # w
    BY <1>1, <2>2 DEF BeliefMatchesWork, Known
  <2> QED BY <2>1, <2>2
<1> QED BY <1>2, <1>3

\* Every step keeps the picture right.
LEMMA ExactStep == ASSUME PoolAssumption PROVE Exact /\ [PoolNext]_poolVars => Exact'
<1> SUFFICES ASSUME Exact, [PoolNext]_poolVars PROVE Exact'
  OBVIOUS
<1> PoolTypeOK'
  BY TypeStep DEF Exact
<1> registered \subseteq Workers /\ Active \subseteq registered
  BY DEF PoolAssumption, Exact, PoolTypeOK, Workers, Active
<1>1. CASE Register
  BY <1>1, EnlistingKeepsExact DEF Register
<1>2. ASSUME NEW size \in 0..MaxWorkers, ScaleUp(size) PROVE Exact'
  <2>1. size - Cardinality(Active) \in Nat
    BY <1>2, ActiveIsFinite DEF ScaleUp, Exact
  <2> QED BY <1>2, <2>1, EnlistingKeepsExact DEF ScaleUp
<1>3. ASSUME NEW size \in 0..MaxWorkers, ScaleDown(size) PROVE Exact'
  <2> DEFINE S == Last(Cardinality(Active) - size, Active)
  <2>1. S \in SUBSET registered
    BY DEF Last
  <2>2. DrainAll(S) /\ UNCHANGED <<registered, used, current, stale, found, tasks>>
    BY <1>3 DEF ScaleDown
  <2> HIDE DEF S
  <2> QED BY <2>1, <2>2, DrainingKeepsExact
<1>4. ASSUME NEW w \in Workers, Drain(w) PROVE Exact'
  BY <1>4, DrainingKeepsExact DEF Drain
<1>5. ASSUME NEW w \in Workers, Deregister(w) PROVE Exact'
  BY <1>5 DEF Deregister, Exact, Fresh, BeliefMatchesWork
<1>6. ASSUME NEW w \in Workers, Heartbeat(w) PROVE Exact'
  <2> USE DEF Exact
  <2>1. /\ UNCHANGED <<registered, used, current, tasks, misjudged>>
        /\ \A v \in Workers \ {w} : status'[v] = status[v]
        /\ status'[w] = IF status[w] = "UNHEALTHY" THEN "IDLE" ELSE status[w]
    BY <1>6 DEF Heartbeat, Revived, PoolTypeOK
  <2>2. Fresh'
    BY <2>1 DEF Fresh
  <2>3. BeliefMatchesWork'
    BY <2>1 DEF BeliefMatchesWork
  <2> QED BY <2>2, <2>3
<1>7. ASSUME NEW d \in Dispatchers, NEW j \in Jobs, Assign(d, j) PROVE Exact'
  <2>1. CASE MarkBusy(found[d], j) /\ tasks' = [tasks EXCEPT ![found[d]] = @ \cup {j}]
    <3>1. found[d] \in registered
      BY <2>1 DEF MarkBusy, CanTake, IsAvailable
    <3> QED BY <2>1, <3>1, AssigningKeepsExact
  <2>2. CASE UNCHANGED <<registered, used, status, current, stale, tasks, retired, misjudged>>
    BY <2>2 DEF Exact, Fresh, BeliefMatchesWork
  <2> QED BY <1>7, <2>1, <2>2 DEF Assign
<1>8. ASSUME NEW w \in Workers, NEW j \in Jobs, Finish(w, j) PROVE Exact'
  <2> USE DEF Exact
  <2>1. /\ tasks'[w] = tasks[w] \ {j}
        /\ \A v \in Workers \ {w} : tasks'[v] = tasks[v]
        /\ UNCHANGED <<registered, used>>
        /\ misjudged' = IF tasks'[w] = {} THEN misjudged \ {w} ELSE misjudged
    BY <1>8 DEF Finish, PoolTypeOK
  <2>2. \A v \in Workers \ {w} : status'[v] = status[v] /\ current'[v] = current[v]
    BY <1>8 DEF Finish, PoolTypeOK
  <2>3. Fresh'
    BY <2>1 DEF Fresh, Workers
  <2>4. ASSUME w \in registered PROVE Known(w)'
    <3>1. status'[w] \in {"STOPPED", "IDLE"}
      BY <1>8, <2>4 DEF Finish, AfterJob, PoolTypeOK
    <3>2. w \notin misjudged => tasks'[w] = {}
      BY <1>8, <2>1, <2>4 DEF Finish, BeliefMatchesWork
    <3>3. w \notin misjudged' => tasks'[w] = {}
      BY <2>1, <3>2
    <3> QED BY <3>1, <3>3 DEF Known
  <2>5. BeliefMatchesWork'
    <3> SUFFICES ASSUME NEW v \in registered PROVE Known(v)'
      BY <2>1 DEF BeliefMatchesWork, Known
    <3>1. CASE v = w
      BY <2>4, <3>1
    <3>2. CASE v # w
      BY <2>1, <2>2, <3>2 DEF BeliefMatchesWork, Known
    <3> QED BY <3>1, <3>2
  <2> QED BY <2>3, <2>5
<1>9. ASSUME NEW w \in Workers, MissHeartbeat(w) PROVE Exact'
  BY <1>9 DEF MissHeartbeat, Exact, Fresh, BeliefMatchesWork
<1>10. CASE CheckHealth
  <2> USE DEF Exact
  <2> DEFINE late == Active \cap stale
  <2>1. /\ \A w \in Workers : status'[w] = IF w \in late THEN "UNHEALTHY" ELSE status[w]
        /\ misjudged' = misjudged \cup {w \in late : tasks[w] # {}}
        /\ UNCHANGED <<registered, used, current, tasks>>
    BY <1>10 DEF CheckHealth
  <2>2. \A w \in late : w <= used
    BY DEF Active, PoolTypeOK
  <2> HIDE DEF late
  <2>3. Fresh'
    BY <2>1, <2>2 DEF Fresh, PoolTypeOK, Workers
  <2>4. BeliefMatchesWork'
    BY <2>1 DEF BeliefMatchesWork
  <2> QED BY <2>3, <2>4
<1>11. CASE UNCHANGED poolVars
  BY <1>11 DEF poolVars, Exact, Fresh, BeliefMatchesWork
<1>12. ASSUME NEW d \in Dispatchers, Find(d) PROVE Exact'
  BY <1>12 DEF Find, Exact, Fresh, BeliefMatchesWork
<1> QED
  BY <1>1, <1>2, <1>3, <1>4, <1>5, <1>6, <1>7, <1>8, <1>9, <1>10, <1>11, <1>12 DEF PoolNext

\* The pool says what each worker does: a worker that is BUSY or DRAINING is at
\* current_job_id, whatever overwrote its status, and nothing else is going on but
\* what the pool has lost sight of; for any number of workers, dispatchers and jobs.
THEOREM BeliefIsExact == ASSUME PoolAssumption PROVE PoolSpec => []BeliefMatchesWork
<1>1. PoolInit => Exact
  <2> SUFFICES ASSUME PoolInit PROVE Exact
    OBVIOUS
  <2>1. PoolTypeOK
    BY DEF PoolAssumption, PoolInit, PoolTypeOK, Workers, WorkerStatus, NoWorker
  <2> QED
    BY <2>1 DEF PoolInit, Exact, Fresh, BeliefMatchesWork
<1>2. Exact => BeliefMatchesWork
  BY DEF Exact
<1> QED BY <1>1, <1>2, ExactStep, PTL DEF PoolSpec

\* A worker that has stopped comes back only by the report of a job it was still
\* at, with no exception.
THEOREM StoppedStays == ASSUME PoolAssumption PROVE PoolSpec => StoppedForGood
<1> DEFINE Stays == \A w \in registered :
                      status[w] = "STOPPED" /\ status'[w] # "STOPPED"
                          => \E j \in tasks[w] : j \notin tasks'[w]
<1>1. PoolTypeOK /\ [PoolNext]_poolVars => [Stays]_poolVars
  <2> SUFFICES ASSUME PoolTypeOK, PoolNext,
                      NEW v \in registered, status[v] = "STOPPED", status'[v] # "STOPPED"
               PROVE  \E j \in tasks[v] : j \notin tasks'[v]
    BY DEF poolVars
  <2> v \in Workers /\ v <= used /\ v \notin Active
    BY DEF PoolAssumption, PoolTypeOK, Workers, Active
  <2>1. ASSUME NEW w \in Workers, NEW j \in Jobs, Finish(w, j)
        PROVE  \E k \in tasks[v] : k \notin tasks'[v]
    <3>1. v = w
      BY <2>1 DEF Finish, PoolTypeOK
    <3> QED BY <2>1, <3>1 DEF Finish, PoolTypeOK
  <2>2. ASSUME NEW d \in Dispatchers, NEW j \in Jobs, Assign(d, j) PROVE FALSE
    <3>1. CASE MarkBusy(found[d], j)
      BY <3>1 DEF MarkBusy, CanTake, IsAvailable, PoolTypeOK
    <3>2. CASE UNCHANGED status
      BY <3>2
    <3> QED BY <2>2, <3>1, <3>2 DEF Assign
  <2>3. ASSUME NEW n \in Int, Enlist(n) PROVE FALSE
    BY <2>3 DEF Enlist, PoolTypeOK, Workers
  <2>4. CASE \E size \in 0..MaxWorkers : ScaleUp(size)
    <3>1. PICK size \in 0..MaxWorkers : Enlist(size - Cardinality(Active))
      BY <2>4 DEF ScaleUp
    <3>2. size - Cardinality(Active) \in Int
      BY ActiveIsFinite
    <3> QED BY <2>3, <3>1, <3>2
  <2>5. CASE Register
    BY <2>3, <2>5 DEF Register
  <2>6. ASSUME NEW S, DrainAll(S) PROVE FALSE
    BY <2>6 DEF DrainAll, Drained, PoolTypeOK
  <2>7. CASE \E size \in 0..MaxWorkers : ScaleDown(size)
    BY <2>6, <2>7 DEF ScaleDown
  <2>8. CASE \E w \in Workers : Drain(w)
    BY <2>6, <2>8 DEF Drain
  <2>9. CASE \E w \in Workers : Heartbeat(w)
    BY <2>9 DEF Heartbeat, Revived, PoolTypeOK
  <2>10. CASE CheckHealth
    BY <2>10 DEF CheckHealth
  <2>11. CASE UNCHANGED status
    BY <2>11
  <2> QED
    BY <2>1, <2>2, <2>4, <2>5, <2>7, <2>8, <2>9, <2>10, <2>11
       DEF PoolNext, Deregister, Find, MissHeartbeat
<1> QED BY <1>1, TypeCorrect, PTL DEF PoolSpec, StoppedForGood
================================================================================
