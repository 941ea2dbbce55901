-------------------------- MODULE JobPlatform_proofs ---------------------------
(***************************************************************************)
(* Proofs about JobPlatform, for every number of jobs, tenants and         *)
(* executors and every queue capacity.                                     *)
(*                                                                         *)
(* The invariants are proved in layers, each from the ones before it:      *)
(* types and capacity (Typed), what the repository remembers of a          *)
(* submission (Recorded), tickets (Ticketed), dependencies (Ordered) and   *)
(* retries (Counted).                                                      *)
(***************************************************************************)
EXTENDS JobPlatform, FiniteSetTheorems, WellFoundedInduction, TLAPS

-------------------------------------------------------------------------------
(* What a loop of enqueue calls does to the queue *)

\* Job identifiers are an interval, so a set of jobs has at most MaxJobs members.
LEMMA JobsFinite == IsFiniteSet(Jobs) /\ Cardinality(Jobs) = MaxJobs
BY FS_Interval, MaxJobsAssumption DEF Jobs

\* Two jobs of one loop have different ranks.
LEMMA RankInjective ==
    ASSUME NEW S, S \subseteq Jobs, NEW a \in S, NEW b \in S, a # b
    PROVE  Rank(S, a) # Rank(S, b)
<1> DEFINE UpTo(x) == {k \in S : k <= x}
<1>1. \A x \in S : x \in Int
  BY MaxJobsAssumption DEF Jobs
<1>2. \A x \in S : UpTo(x) \subseteq S /\ IsFiniteSet(UpTo(x))
  BY JobsFinite, FS_Subset
<1>3. ASSUME NEW x \in S, NEW y \in S, x < y
      PROVE  Rank(S, x) # Rank(S, y)
  <2>1. UpTo(x) \in SUBSET UpTo(y)
    BY <1>1, <1>3
  <2>2. y \in UpTo(y) /\ y \notin UpTo(x)
    BY <1>1, <1>3
  <2>3. Cardinality(UpTo(y)) # Cardinality(UpTo(x))
    BY <2>1, <2>2, <1>2, FS_Subset
  <2> QED
    BY <2>3 DEF Rank
<1> QED
  BY <1>1, <1>3

\* Ranks count from one.
LEMMA RankType ==
    ASSUME NEW S, S \subseteq Jobs, NEW a \in S
    PROVE  Rank(S, a) \in Nat /\ Rank(S, a) >= 1
<1> DEFINE U == {k \in S : k <= a}
<1>1. IsFiniteSet(U) /\ a \in U
  <2>1. U \in SUBSET Jobs
    OBVIOUS
  <2>2. a \in Int
    BY MaxJobsAssumption DEF Jobs
  <2> QED
    BY <2>1, <2>2, JobsFinite, FS_Subset
<1>2. Cardinality(U) \in Nat /\ Cardinality(U) # 0
  BY <1>1, FS_CardinalityType, FS_EmptySet
<1> QED
  BY <1>2 DEF Rank

QueueOK == queue \subseteq QueueEntry /\ IsFiniteSet(queue)
             /\ Cardinality(queue) \in Nat /\ Cardinality(queue) <= Capacity

\* The jobs that fit are as many as there are free places.
LEMMA FitWithinCapacity ==
    ASSUME QueueOK, NEW S, S \subseteq Jobs
    PROVE  /\ FirstThatFit(S) \subseteq S
           /\ IsFiniteSet(FirstThatFit(S))
           /\ Cardinality(FirstThatFit(S)) \in Nat
           /\ Cardinality(queue) + Cardinality(FirstThatFit(S)) <= Capacity
<1> DEFINE A    == FirstThatFit(S)
           room == Capacity - Cardinality(queue)
           rank == [a \in A |-> Rank(S, a)]
<1>1. A \subseteq S /\ IsFiniteSet(A)
  BY JobsFinite, FS_Subset DEF FirstThatFit
<1>2. room \in Nat
  BY CapacityAssumption DEF QueueOK
<1>3. ASSUME NEW a \in A PROVE Rank(S, a) \in 1..room
  BY <1>1, <1>2, <1>3, RankType, CapacityAssumption DEF FirstThatFit, QueueOK
<1>4. rank \in Injection(A, 1..room)
  <2>1. rank \in [A -> 1..room]
    BY <1>3
  <2>2. \A a, b \in A : rank[a] = rank[b] => a = b
    BY <1>1, RankInjective
  <2> QED
    BY <2>1, <2>2 DEF Injection, IsInjective
<1>5. IsFiniteSet(1..room) /\ Cardinality(1..room) = room
  BY <1>2, FS_Interval
<1>6. Cardinality(A) <= room
  BY <1>4, <1>5, FS_Injection
<1>7. Cardinality(A) \in Nat
  BY <1>1, FS_CardinalityType
<1> QED
  BY <1>1, <1>2, <1>6, <1>7, CapacityAssumption DEF QueueOK

\* Queueing jobs that fit keeps the queue well formed and within its capacity.
LEMMA EnqueueAllKeepsQueueOK ==
    ASSUME QueueOK, sequence \in Nat,
           NEW A, A \subseteq Jobs, \A j \in A : job[j] \in Submission,
           Cardinality(queue) + Cardinality(A) <= Capacity,
           EnqueueAll(A)
    PROVE  QueueOK' /\ sequence' \in Nat
<1> DEFINE New == {Entry(job[j], j, sequence + Rank(A, j)) : j \in A}
<1>1. IsFiniteSet(A) /\ Cardinality(A) \in Nat
  BY JobsFinite, FS_Subset, FS_CardinalityType
<1>2. ASSUME NEW j \in A PROVE Entry(job[j], j, sequence + Rank(A, j)) \in QueueEntry
  <2>1. job[j].prio \in Nat /\ job[j].tenant \in Tenants
    BY PrioritiesAssumption DEF Submission
  <2>2. sequence + Rank(A, j) \in Nat
    BY RankType
  <2> QED
    BY <2>1, <2>2 DEF Entry, QueueEntry
<1>3. IsFiniteSet(New) /\ Cardinality(New) <= Cardinality(A)
  <2> DEFINE f == [j \in A |-> Entry(job[j], j, sequence + Rank(A, j))]
  <2>1. f \in Surjection(A, New)
    BY DEF Surjection
  <2> QED
    BY <1>1, <2>1, FS_Surjection
<1>4. Cardinality(New) \in Nat
  BY <1>3, FS_CardinalityType
<1>5. IsFiniteSet(queue \cup New)
        /\ Cardinality(queue \cup New) \in Nat
        /\ Cardinality(queue \cup New) <= Cardinality(queue) + Cardinality(New)
  <2>1. Cardinality(queue \cap New) \in Nat
    BY FS_Intersection, FS_CardinalityType DEF QueueOK
  <2>2. IsFiniteSet(queue) /\ Cardinality(queue) \in Nat
    BY DEF QueueOK
  <2>3. /\ IsFiniteSet(queue \cup New)
        /\ Cardinality(queue \cup New)
             = Cardinality(queue) + Cardinality(New) - Cardinality(queue \cap New)
    BY <1>3, <2>2, FS_Union
  <2>4. Cardinality(queue \cup New) \in Nat
    BY <2>3, FS_CardinalityType
  <2> HIDE DEF New
  <2> QED
    BY <1>4, <2>1, <2>2, <2>3, <2>4
<1> QED
  BY <1>1, <1>2, <1>3, <1>4, <1>5, CapacityAssumption DEF QueueOK, EnqueueAll

-------------------------------------------------------------------------------
(* Types, records and tickets: one inductive invariant, because what enters   *)
(* the queue is well typed only if it was submitted, and stays submitted only *)
(* if tickets are only issued for jobs of the repository.                     *)

Typed ==
    /\ job \in [Jobs -> Submission \cup {NoSubmission}]
    /\ status \in [Jobs -> JobStatus \cup {"ABSENT"}]
    /\ attempts \in [Jobs -> Nat]
    /\ QueueOK
    /\ sequence \in Nat
    /\ schedule \subseteq Jobs
    /\ executing \subseteq Workers \X Jobs

Recorded ==
    \A j \in Jobs :
        /\ status[j] # "ABSENT" => job[j] \in Submission
        /\ status[j] = "ABSENT" => job[j] = NoSubmission /\ attempts[j] = 0
        /\ \A d \in job[j].deps : d \in Repository /\ job[d].tenant = job[j].tenant

QueueTickets ==
    /\ QueueMirrorsStatus
    /\ \A e, f \in queue : e.job = f.job => e = f

ExecutorTickets ==
    /\ \A x \in executing : status[x[2]] \in {"RUNNING", "CANCELLED"}
    /\ \A x, y \in executing : x[2] = y[2] => x = y

Books == Typed /\ Recorded /\ QueueTickets /\ ExecutorTickets

\* An empty repository, queue and scheduler are consistent.
LEMMA InitBooks == Init => Books
<1> SUFFICES ASSUME Init PROVE Books
  OBVIOUS
<1>1. IsFiniteSet({}) /\ Cardinality({}) = 0
  BY FS_EmptySet
<1>2. Typed
  BY <1>1, CapacityAssumption DEF Init, Typed, QueueOK
<1>3. Recorded /\ QueueTickets /\ ExecutorTickets
  BY DEF Init, Recorded, NoSubmission, QueueTickets, QueueMirrorsStatus, ExecutorTickets
<1> QED
  BY <1>2, <1>3 DEF Books

\* A loop of enqueue calls for jobs that were not queued issues one ticket each.
LEMMA EnqueueAllIssuesTickets ==
    ASSUME Books, NEW A, A \subseteq Jobs, EnqueueAll(A), job' = job,
           \A j \in A : status[j] # "QUEUED",
           \A j \in Jobs : status'[j] = "QUEUED" <=> (j \in A \/ status[j] = "QUEUED")
    PROVE  QueueTickets'
<1> DEFINE New == {Entry(job[j], j, sequence + Rank(A, j)) : j \in A}
<1>1. queue' = queue \cup New
  BY DEF EnqueueAll
<1>2. \A e \in queue : /\ e.job \in Jobs
                       /\ status[e.job] = "QUEUED"
                       /\ e.tenant = job[e.job].tenant
                       /\ e.prio = job[e.job].prio
  BY DEF Books, Typed, QueueOK, QueueEntry, QueueTickets, QueueMirrorsStatus
<1>3. \A e \in New : /\ e.job \in A
                     /\ e.tenant = job[e.job].tenant
                     /\ e.prio = job[e.job].prio
  BY DEF Entry
<1>4. \A e, f \in New : e.job = f.job => e = f
  BY DEF Entry
<1>5. ASSUME NEW j \in A PROVE \E e \in New : e.job = j
  <2>1. Entry(job[j], j, sequence + Rank(A, j)) \in New
    OBVIOUS
  <2> QED
    BY <2>1 DEF Entry
<1> HIDE DEF New
<1>6. \A e, f \in queue' : e.job = f.job => e = f
  BY <1>1, <1>2, <1>3, <1>4 DEF Books, QueueTickets
<1>7. \A j \in Jobs : status'[j] = "QUEUED" <=> \E e \in queue' : e.job = j
  BY <1>1, <1>2, <1>3, <1>5 DEF Books, QueueTickets, QueueMirrorsStatus
<1>8. \A e \in queue' : e.tenant = job'[e.job].tenant /\ e.prio = job'[e.job].prio
  BY <1>1, <1>2, <1>3
<1> QED
  BY <1>6, <1>7, <1>8 DEF QueueTickets, QueueMirrorsStatus

\* Tickets depend on nothing but the queue, the submissions and who is QUEUED.
LEMMA SameQueueSameTickets ==
    ASSUME Books, queue' = queue, 
           \A e \in queue : job'[e.job] = job[e.job],
           \A j \in Jobs : status'[j] = "QUEUED" <=> status[j] = "QUEUED"
    PROVE  QueueTickets'
BY DEF Books, QueueTickets, QueueMirrorsStatus

-------------------------------------------------------------------------------
(* One lemma per operation *)

\* submit() keeps the books, whether the job is scheduled, blocked, queued or lost to a full queue.
LEMMA SubmitKeepsBooks ==
    ASSUME Books, NEW j \in Jobs, NEW s \in Submission, Submit(j, s)
    PROVE  Books'
<1> USE DEF Books
<1>1. /\ j \in Jobs /\ status[j] = "ABSENT"
      /\ \A d \in s.deps : d \in Repository /\ job[d].tenant = s.tenant
      /\ job' = [job EXCEPT ![j] = s]
      /\ \E st \in {"SCHEDULED", "BLOCKED", "QUEUED", "PENDING"} :
            status' = [status EXCEPT ![j] = st]
      /\ attempts' = attempts /\ executing' = executing
  BY DEF Submit, SubmitScheduled, SubmitBlocked, SubmitQueued, SubmitOverflow,
         Create, IsFresh, Repository
<1>2. status'[j] # "ABSENT" /\ \A k \in Jobs \ {j} : status'[k] = status[k] /\ job'[k] = job[k]
  BY <1>1 DEF Typed
<1>3. job'[j] = s
  BY <1>1 DEF Typed
<1>4. \A e \in queue : e.job \in Jobs /\ e.job # j
  BY <1>1 DEF Typed, QueueOK, QueueEntry, QueueTickets, QueueMirrorsStatus
<1>5. CASE SubmitQueued(j, s)
  <2> DEFINE new == Entry(s, j, sequence + 1)
  <2>1. queue' = queue \cup {new} /\ sequence' = sequence + 1 /\ schedule' = schedule
        /\ status' = [status EXCEPT ![j] = "QUEUED"] /\ Cardinality(queue) < Capacity
    BY <1>5, CapacityAssumption DEF SubmitQueued, Create, QueueIsFull, Typed, QueueOK
  <2>2. new \in QueueEntry /\ new.job = j /\ new.tenant = s.tenant /\ new.prio = s.prio
    <3>1. s.prio \in Priorities /\ s.tenant \in Tenants
      BY DEF Submission
    <3>2. s.prio \in Nat
      BY <3>1, PrioritiesAssumption
    <3>3. sequence + 1 \in Nat
      BY DEF Typed
    <3> QED
      BY <3>1, <3>2, <3>3 DEF Entry, QueueEntry
  <2> HIDE DEF new
  <2>3. QueueOK'
    <3>1. IsFiniteSet(queue) /\ Cardinality(queue) \in Nat
      BY DEF Typed, QueueOK
    <3>2. new \notin queue
      BY <2>2, <1>4
    <3>3. IsFiniteSet(queue') /\ Cardinality(queue') = Cardinality(queue) + 1
      BY <2>1, <3>1, <3>2, FS_AddElement
    <3> QED
      BY <2>1, <2>2, <3>1, <3>3, CapacityAssumption DEF Typed, QueueOK
  <2>4. Typed'
    BY <1>1, <2>1, <2>3 DEF Typed, JobStatus
  <2>5. QueueTickets'
    <3>1. \A e, f \in queue' : e.job = f.job => e = f
      BY <1>4, <2>1, <2>2 DEF QueueTickets
    <3>2. \A k \in Jobs : status'[k] = "QUEUED" <=> \E e \in queue' : e.job = k
      BY <1>1, <1>2, <1>4, <2>1, <2>2 DEF QueueTickets, QueueMirrorsStatus, Typed
    <3>3. \A e \in queue' : e.tenant = job'[e.job].tenant /\ e.prio = job'[e.job].prio
      BY <1>2, <1>3, <1>4, <2>1, <2>2 DEF QueueTickets, QueueMirrorsStatus
    <3> QED
      BY <3>1, <3>2, <3>3 DEF QueueTickets, QueueMirrorsStatus
  <2>6. Recorded'
    BY <1>1, <1>2, <1>3 DEF Recorded, Repository
  <2>7. ExecutorTickets'
    BY <1>1, <1>2 DEF ExecutorTickets, Typed
  <2> QED
    BY <2>4, <2>5, <2>6, <2>7
<1>6. CASE ~SubmitQueued(j, s)
  <2>1. /\ queue' = queue /\ sequence' = sequence /\ schedule' \subseteq Jobs
        /\ \E st \in {"SCHEDULED", "BLOCKED", "PENDING"} : status' = [status EXCEPT ![j] = st]
    BY <1>6 DEF Submit, SubmitScheduled, SubmitBlocked, SubmitOverflow, Create, Typed
  <2>2. Typed'
    <3>1. QueueOK'
      BY <2>1 DEF Typed, QueueOK
    <3> QED
      BY <1>1, <2>1, <3>1 DEF Typed, JobStatus
  <2>3. QueueTickets'
    <3>1. \A k \in Jobs : status'[k] = "QUEUED" <=> status[k] = "QUEUED"
      BY <1>1, <1>2, <2>1 DEF Typed
    <3> QED
      BY <1>2, <1>4, <2>1, <3>1, SameQueueSameTickets
  <2>4. Recorded'
    BY <1>1, <1>2, <1>3 DEF Recorded, Repository
  <2>5. ExecutorTickets'
    BY <1>1, <1>2 DEF ExecutorTickets, Typed
  <2> QED
    BY <2>2, <2>3, <2>4, <2>5
<1> QED
  BY <1>5, <1>6

\* Promoting due jobs keeps the books, also when the queue overflows halfway.
LEMMA PromoteKeepsBooks ==
    ASSUME Books, NEW due \in SUBSET schedule, Promote(due)
    PROVE  Books'
<1> DEFINE live     == {j \in due : status[j] = "SCHEDULED"}
           runnable == {j \in live : ~HasPending(status, job[j].deps)}
           fit      == FirstThatFit(runnable)
           reached  == {j \in live : \A o \in runnable \ fit : j < o}
<1> USE DEF Books
<1>1. /\ schedule' = schedule \ due /\ job' = job /\ attempts' = attempts
      /\ executing' = executing /\ EnqueueAll(fit)
      /\ status' = [j \in Jobs |-> IF j \in fit THEN "QUEUED"
                                   ELSE IF j \in reached THEN "BLOCKED" ELSE status[j]]
  BY DEF Promote
<1>2. due \subseteq Jobs /\ runnable \subseteq Jobs
  BY DEF Typed
<1>3. /\ fit \subseteq runnable
      /\ Cardinality(queue) + Cardinality(fit) <= Capacity
  BY <1>2, FitWithinCapacity DEF Typed
<1>4. \A j \in live : status[j] = "SCHEDULED" /\ j \in Jobs
  BY <1>2
<1>5. fit \subseteq live /\ reached \subseteq live /\ fit \subseteq Jobs
  BY <1>2, <1>3
<1> HIDE DEF live, runnable, fit, reached
<1>6. \A j \in fit : job[j] \in Submission
  BY <1>4, <1>5 DEF Recorded
<1>7. QueueOK' /\ sequence' \in Nat
  BY <1>1, <1>3, <1>5, <1>6, EnqueueAllKeepsQueueOK DEF Typed
<1>8. Typed'
  BY <1>1, <1>7 DEF Typed, JobStatus
<1>9. QueueTickets'
  <2>1. \A j \in Jobs : status'[j] = "QUEUED" <=> (j \in fit \/ status[j] = "QUEUED")
    BY <1>1, <1>4, <1>5 DEF Typed
  <2> QED
    BY <1>1, <1>4, <1>5, <2>1, EnqueueAllIssuesTickets
<1>10. \A j \in Jobs : (status'[j] = "ABSENT" <=> status[j] = "ABSENT")
                      /\ (status[j] # "SCHEDULED" => status'[j] = status[j])
  BY <1>1, <1>4, <1>5
<1>11. Recorded'
  BY <1>1, <1>10 DEF Recorded, Repository
<1>12. ExecutorTickets'
  BY <1>1, <1>10 DEF ExecutorTickets, Typed
<1> QED
  BY <1>8, <1>9, <1>11, <1>12

\* claim() turns one queue entry into one ticket of an executor.
LEMMA ClaimKeepsBooks ==
    ASSUME Books, NEW w \in Workers, Claim(w)
    PROVE  Books'
<1> USE DEF Books
<1>1. PICK e \in queue :
        /\ queue' = queue \ {e}
        /\ attempts' = [attempts EXCEPT ![e.job] = @ + 1]
        /\ status' = [status EXCEPT ![e.job] = "RUNNING"]
        /\ executing' = executing \cup {<<w, e.job>>}
        /\ job' = job /\ sequence' = sequence /\ schedule' = schedule
  BY DEF Claim, Visible
<1>2. e.job \in Jobs /\ status[e.job] = "QUEUED"
  BY DEF Typed, QueueOK, QueueEntry, QueueTickets, QueueMirrorsStatus
<1>3. QueueOK'
  <2>1. IsFiniteSet(queue) /\ Cardinality(queue) \in Nat
    BY DEF Typed, QueueOK
  <2>2. IsFiniteSet(queue') /\ Cardinality(queue') = Cardinality(queue) - 1
    BY <1>1, <2>1, FS_RemoveElement
  <2>3. Cardinality(queue') \in Nat
    BY <2>2, FS_CardinalityType
  <2> QED
    BY <1>1, <2>1, <2>2, <2>3, CapacityAssumption DEF Typed, QueueOK
<1>4. Typed'
  BY <1>1, <1>2, <1>3 DEF Typed, JobStatus
<1>5. Recorded'
  BY <1>1, <1>2 DEF Recorded, Repository, Typed
<1>6. QueueTickets'
  <2>1. \A f \in queue : f.job \in Jobs /\ (f.job = e.job => f = e)
    BY DEF Typed, QueueOK, QueueEntry, QueueTickets
  <2>2. \A j \in Jobs : status'[j] = "QUEUED" <=> \E f \in queue' : f.job = j
    BY <1>1, <1>2, <2>1 DEF QueueTickets, QueueMirrorsStatus, Typed
  <2> QED
    BY <1>1, <2>2 DEF QueueTickets, QueueMirrorsStatus
<1>7. ExecutorTickets'
  <2>1. \A x \in executing : x[2] \in Jobs /\ x[2] # e.job
    BY <1>2 DEF Typed, ExecutorTickets
  <2>2. \A x \in executing' : status'[x[2]] \in {"RUNNING", "CANCELLED"}
    BY <1>1, <1>2, <2>1 DEF Typed, ExecutorTickets
  <2>3. \A x, y \in executing' : x[2] = y[2] => x = y
    BY <1>1, <2>1 DEF ExecutorTickets
  <2> QED
    BY <2>2, <2>3 DEF ExecutorTickets
<1> QED
  BY <1>4, <1>5, <1>6, <1>7

\* What holds of a job when its executor reports.
LEMMA ReportFacts ==
    ASSUME Books, NEW w \in Workers, NEW j \in Jobs, Reported(w, j)
    PROVE  /\ status[j] \in {"RUNNING", "CANCELLED"}
           /\ job[j] \in Submission
           /\ \A x \in executing' : x \in executing /\ x[2] # j
           /\ executing' \subseteq executing
<1>1. <<w, j>> \in executing /\ executing' = executing \ {<<w, j>>}
  BY DEF Reported
<1>2. status[<<w, j>>[2]] \in {"RUNNING", "CANCELLED"}
  BY <1>1 DEF Books, ExecutorTickets
<1>3. \A x \in executing : x[2] = <<w, j>>[2] => x = <<w, j>>
  BY <1>1 DEF Books, ExecutorTickets
<1> QED
  BY <1>1, <1>2, <1>3 DEF Books, Recorded

\* complete() gives the ticket back and queues only dependants that were BLOCKED.
LEMMA CompleteKeepsBooks ==
    ASSUME Books, NEW w \in Workers, NEW j \in Jobs, Complete(w, j)
    PROVE  Books'
<1> DEFINE done == [status EXCEPT ![j] = "SUCCEEDED"]
           fit  == FirstThatFit(Freed(done, j))
<1> USE DEF Books
<1>1. /\ Reported(w, j) /\ EnqueueAll(fit)
      /\ status' = [k \in Jobs |-> IF k \in fit THEN "QUEUED" ELSE done[k]]
      /\ job' = job /\ attempts' = attempts /\ schedule' = schedule
  BY DEF Complete
<1>2. /\ status[j] \in {"RUNNING", "CANCELLED"}
      /\ \A x \in executing' : x \in executing /\ x[2] # j
      /\ executing' \subseteq executing
  BY <1>1, ReportFacts
<1>3. /\ \A k \in Freed(done, j) : k \in Jobs /\ status[k] = "BLOCKED"
      /\ \A k \in Jobs : done[k] = IF k = j THEN "SUCCEEDED" ELSE status[k]
  BY DEF Freed, Typed
<1>4. /\ fit \subseteq Freed(done, j)
      /\ Cardinality(queue) + Cardinality(fit) <= Capacity
  BY <1>3, FitWithinCapacity DEF Typed
<1> HIDE DEF done, fit
<1>5. \A k \in fit : k \in Jobs /\ status[k] = "BLOCKED" /\ job[k] \in Submission
  BY <1>3, <1>4 DEF Recorded
<1>6. QueueOK' /\ sequence' \in Nat
  BY <1>1, <1>4, <1>5, EnqueueAllKeepsQueueOK DEF Typed
<1>7. \A k \in Jobs : /\ k \in fit => status'[k] = "QUEUED"
                      /\ k \notin fit => status'[k] = done[k]
  BY <1>1
<1>8. Typed'
  BY <1>1, <1>2, <1>3, <1>6 DEF Typed, JobStatus, Terminal
<1>9. QueueTickets'
  <2>1. \A k \in Jobs : status'[k] = "QUEUED" <=> (k \in fit \/ status[k] = "QUEUED")
    BY <1>2, <1>3, <1>7
  <2> QED
    BY <1>1, <1>5, <2>1, EnqueueAllIssuesTickets
<1>10. Recorded'
  BY <1>1, <1>2, <1>3, <1>5, <1>7 DEF Recorded, Repository
<1>11. ExecutorTickets'
  BY <1>2, <1>3, <1>5, <1>7 DEF ExecutorTickets, Typed
<1> QED
  BY <1>8, <1>9, <1>10, <1>11

\* fail() gives the ticket back and queues the job again or fails its blocked dependants.
LEMMA FailKeepsBooks ==
    ASSUME Books, NEW w \in Workers, NEW j \in Jobs, Fail(w, j)
    PROVE  Books'
<1> USE DEF Books
<1>1. Reported(w, j) /\ job' = job /\ attempts' = attempts /\ schedule' = schedule
  BY DEF Fail, FailRetry, FailRetryOverflow, FailForGood
<1>2. /\ status[j] \in {"RUNNING", "CANCELLED"} /\ job[j] \in Submission
      /\ \A x \in executing' : x \in executing /\ x[2] # j
      /\ executing' \subseteq executing
  BY <1>1, ReportFacts
<1>3. CASE FailRetry(w, j)
  <2>1. /\ EnqueueAll({j}) /\ status' = [status EXCEPT ![j] = "QUEUED"]
        /\ Cardinality(queue) < Capacity
    BY <1>3, CapacityAssumption DEF FailRetry, QueueIsFull, Typed, QueueOK
  <2>2. Cardinality({j}) = 1
    BY FS_Singleton
  <2>3. QueueOK' /\ sequence' \in Nat
    BY <1>2, <2>1, <2>2, EnqueueAllKeepsQueueOK, CapacityAssumption DEF Typed, QueueOK
  <2>4. Typed'
    BY <1>1, <1>2, <2>1, <2>3 DEF Typed, JobStatus
  <2>5. QueueTickets'
    <3>1. \A k \in Jobs : status'[k] = "QUEUED" <=> (k \in {j} \/ status[k] = "QUEUED")
      BY <2>1 DEF Typed
    <3> QED
      BY <1>1, <1>2, <2>1, <3>1, EnqueueAllIssuesTickets
  <2>6. Recorded'
    BY <1>1, <1>2, <2>1 DEF Recorded, Repository, Typed
  <2>7. ExecutorTickets'
    BY <1>2, <2>1 DEF ExecutorTickets, Typed
  <2> QED
    BY <2>4, <2>5, <2>6, <2>7
<1>4. CASE FailRetryOverflow(w, j) \/ FailForGood(w, j)
  <2>1. /\ queue' = queue /\ sequence' = sequence
        /\ \A k \in Jobs : \/ status'[k] = status[k]
                           \/ /\ status'[k] \in {"RETRYING", "FAILED"}
                              /\ k = j \/ status[k] = "BLOCKED"
        /\ status' \in [Jobs -> JobStatus \cup {"ABSENT"}]
    BY <1>4 DEF FailRetryOverflow, FailForGood, Typed, JobStatus, Terminal
  <2>2. Typed'
    BY <1>1, <1>2, <2>1 DEF Typed, QueueOK
  <2>3. QueueTickets'
    <3>1. \A k \in Jobs : status'[k] = "QUEUED" <=> status[k] = "QUEUED"
      BY <1>2, <2>1
    <3> QED
      BY <1>1, <2>1, <3>1, SameQueueSameTickets
  <2>4. Recorded'
    BY <1>1, <1>2, <2>1 DEF Recorded, Repository
  <2>5. ExecutorTickets'
    BY <1>2, <2>1 DEF ExecutorTickets, Typed
  <2> QED
    BY <2>2, <2>3, <2>4, <2>5
<1> QED
  BY <1>3, <1>4 DEF Fail

\* cancel() withdraws the queue entry with the status.
LEMMA CancelKeepsBooks ==
    ASSUME Books, NEW j \in Jobs, Cancel(j)
    PROVE  Books'
<1> USE DEF Books
<1>1. /\ status[j] # "ABSENT"
      /\ queue' = queue \ Withdrawn(j) /\ schedule' = schedule \ {j}
      /\ status' = [status EXCEPT ![j] = "CANCELLED"]
      /\ job' = job /\ attempts' = attempts /\ sequence' = sequence /\ executing' = executing
  BY DEF Cancel, MayCancel, Repository
\* The job has at most one entry, so removing its first entry removes them all.
<1>2. Withdrawn(j) = {e \in queue : e.job = j}
  <2>1. \A e, f \in {g \in queue : g.job = j} : e = f
    BY DEF QueueTickets
  <2> QED
    BY <2>1 DEF Withdrawn, IsFirst
<1>3. queue' \in SUBSET queue /\ \A e \in queue : e \in queue' <=> e.job # j
  BY <1>1, <1>2
<1>4. QueueOK'
  <2>1. IsFiniteSet(queue) /\ Cardinality(queue) \in Nat
    BY DEF Typed, QueueOK
  <2>2. IsFiniteSet(queue') /\ Cardinality(queue') <= Cardinality(queue)
    BY <1>3, <2>1, FS_Subset
  <2>3. Cardinality(queue') \in Nat
    BY <2>2, FS_CardinalityType
  <2> QED
    BY <1>3, <2>1, <2>2, <2>3, CapacityAssumption DEF Typed, QueueOK
<1>5. Typed'
  BY <1>1, <1>4 DEF Typed, JobStatus, Terminal
<1>6. Recorded'
  BY <1>1 DEF Recorded, Repository, Typed
<1>7. QueueTickets'
  <2>1. \A e, f \in queue' : e.job = f.job => e = f
    BY <1>3 DEF QueueTickets
  <2>2. \A k \in Jobs : status'[k] = "QUEUED" <=> \E e \in queue' : e.job = k
    BY <1>1, <1>3 DEF QueueTickets, QueueMirrorsStatus, Typed
  <2> QED
    BY <1>1, <1>3, <2>1, <2>2 DEF QueueTickets, QueueMirrorsStatus
<1>8. ExecutorTickets'
  BY <1>1 DEF ExecutorTickets, Typed
<1> QED
  BY <1>5, <1>6, <1>7, <1>8

\* A step that changes nothing keeps the books.
LEMMA StutterKeepsBooks == Books /\ UNCHANGED vars => Books'
BY DEF vars, Books, Typed, QueueOK, Recorded, Repository, QueueTickets,
       QueueMirrorsStatus, ExecutorTickets

\* The inductive invariant: statuses, queue entries and executors' tickets are one set of books, whatever
\* order submissions, promotions, claims, reports, retries and cancellations of the job manager come in.
THEOREM BooksInvariant == Spec => []Books
<1>1. Books /\ [Next]_vars => Books'
  BY SubmitKeepsBooks, PromoteKeepsBooks, ClaimKeepsBooks, CompleteKeepsBooks,
     FailKeepsBooks, CancelKeepsBooks, StutterKeepsBooks DEF Next
<1> QED
  BY <1>1, InitBooks, PTL DEF Spec

\* The job repository, the priority queue and the schedule keep their types, and the queue never holds more
\* entries than its capacity, since every push of the job manager is guarded.
THEOREM TypeCorrect == Spec => []TypeOK
<1>1. Books => TypeOK
  BY DEF Books, Typed, QueueOK, TypeOK
<1> QED
  BY <1>1, BooksInvariant, PTL

\* A job is never queued twice, never worked on by two executors, and never queued while it is worked on:
\* retries and dependants enter the queue only from statuses that have no ticket.
THEOREM OneTicket == Spec => []OneTicketPerJob
<1>1. Books => OneTicketPerJob
  BY DEF Books, QueueTickets, QueueMirrorsStatus, ExecutorTickets, OneTicketPerJob,
         Typed, QueueOK, QueueEntry
<1> QED
  BY <1>1, BooksInvariant, PTL

\* The queue and the repository agree: exactly the jobs whose status is QUEUED have an entry, and a cancel
\* takes the entry of the job it cancels with it.
THEOREM QueueAndStatusAgree == Spec => []QueueMirrorsStatus
<1>1. Books => QueueMirrorsStatus
  BY DEF Books, QueueTickets
<1> QED
  BY <1>1, BooksInvariant, PTL

-------------------------------------------------------------------------------
(* Dependencies *)

\* Success is never taken back.
LEMMA SuccessIsStable ==
    ASSUME Books, [Next]_vars, NEW j \in Jobs, status[j] = "SUCCEEDED"
    PROVE  status'[j] = "SUCCEEDED"
<1>1. CASE \E k \in Jobs, s \in Submission : Submit(k, s)
  BY <1>1 DEF Submit, SubmitScheduled, SubmitBlocked, SubmitQueued, SubmitOverflow,
              Create, IsFresh, Repository, Books, Typed
<1>2. ASSUME NEW due \in SUBSET schedule, Promote(due) PROVE status'[j] = "SUCCEEDED"
  <2> DEFINE live     == {k \in due : status[k] = "SCHEDULED"}
             runnable == {k \in live : ~HasPending(status, job[k].deps)}
             fit      == FirstThatFit(runnable)
             reached  == {k \in live : \A o \in runnable \ fit : k < o}
  <2>1. j \notin fit /\ j \notin reached
    BY DEF FirstThatFit
  <2>2. status' = [k \in Jobs |-> IF k \in fit THEN "QUEUED"
                                 ELSE IF k \in reached THEN "BLOCKED" ELSE status[k]]
    BY <1>2 DEF Promote
  <2> QED
    BY <2>1, <2>2
<1>3. CASE \E w \in Workers : Claim(w)
  BY <1>3 DEF Claim, Visible, Books, Typed, QueueTickets, QueueMirrorsStatus, QueueOK, QueueEntry
<1>4. ASSUME NEW w \in Workers, NEW k \in Jobs, Complete(w, k) PROVE status'[j] = "SUCCEEDED"
  <2> DEFINE done == [status EXCEPT ![k] = "SUCCEEDED"]
             fit  == FirstThatFit(Freed(done, k))
  <2>1. done[j] = "SUCCEEDED" /\ j \notin fit
    BY DEF FirstThatFit, Freed, Books, Typed
  <2>2. status' = [i \in Jobs |-> IF i \in fit THEN "QUEUED" ELSE done[i]]
    BY <1>4 DEF Complete
  <2> QED
    BY <2>1, <2>2
<1>5. ASSUME NEW w \in Workers, NEW k \in Jobs, Fail(w, k) PROVE status'[j] = "SUCCEEDED"
  <2>1. status[k] \in {"RUNNING", "CANCELLED"}
    BY <1>5, ReportFacts DEF Fail, FailRetry, FailRetryOverflow, FailForGood
  <2> QED
    BY <1>5, <2>1 DEF Fail, FailRetry, FailRetryOverflow, FailForGood, Books, Typed
<1>6. CASE \E k \in Jobs : Cancel(k)
  BY <1>6 DEF Cancel, MayCancel, Terminal, Books, Typed
<1>7. CASE UNCHANGED vars
  BY <1>7 DEF vars
<1> QED
  BY <1>1, <1>2, <1>3, <1>4, <1>5, <1>6, <1>7 DEF Next

\* RunsAfterDependencies is not inductive: it says nothing of the job that is
\* about to be claimed, nor of one whose executor is about to have it requeued.
Ordered ==
    /\ \A j \in Jobs : status[j] = "QUEUED" \/ attempts[j] > 0
                         => ~HasPending(status, job[j].deps)
    /\ \A x \in executing : attempts[x[2]] > 0

\* What a step may add to the jobs that Ordered speaks of.
LEMMA NewlyOrdered ==
    ASSUME Books, Next, NEW j \in Jobs,
           ~(status[j] = "QUEUED" \/ attempts[j] > 0), ~(\E x \in executing : x[2] = j),
           status'[j] = "QUEUED" \/ attempts'[j] > 0
    PROVE  ~HasPending(status', job'[j].deps)
<1> USE DEF Books
<1>1. ASSUME NEW k \in Jobs, NEW s \in Submission, Submit(k, s)
      PROVE  ~HasPending(status', job'[j].deps)
  <2>1. k = j /\ SubmitQueued(j, s)
    BY <1>1 DEF Submit, SubmitScheduled, SubmitBlocked, SubmitQueued, SubmitOverflow,
                Create, Typed
  <2>2. /\ job'[j].deps = s.deps /\ status[j] = "ABSENT"
        /\ \A d \in s.deps : d \in Jobs /\ status[d] = "SUCCEEDED" /\ status'[d] = status[d]
    BY <2>1 DEF SubmitQueued, Create, IsFresh, Repository, HasPending, Typed
  <2> QED
    BY <2>2 DEF HasPending
<1>2. ASSUME NEW due \in SUBSET schedule, Promote(due)
      PROVE  ~HasPending(status', job'[j].deps)
  <2> DEFINE live     == {k \in due : status[k] = "SCHEDULED"}
             runnable == {k \in live : ~HasPending(status, job[k].deps)}
             fit      == FirstThatFit(runnable)
             reached  == {k \in live : \A o \in runnable \ fit : k < o}
  <2>1. /\ status' = [k \in Jobs |-> IF k \in fit THEN "QUEUED"
                                     ELSE IF k \in reached THEN "BLOCKED" ELSE status[k]]
        /\ job' = job /\ attempts' = attempts
    BY <1>2 DEF Promote
  <2>2. j \in fit
    BY <2>1
  <2>3. j \in runnable
    BY <2>2 DEF FirstThatFit
  <2>4. \A d \in job[j].deps : d \in Jobs /\ status[d] = "SUCCEEDED"
    BY <2>3 DEF HasPending, Recorded, Repository
  <2>5. \A d \in job[j].deps : status'[d] = "SUCCEEDED"
    BY <2>4, SuccessIsStable
  <2> QED
    BY <2>1, <2>5 DEF HasPending
<1>3. ASSUME NEW w \in Workers, Claim(w) PROVE FALSE
  BY <1>3 DEF Claim, Visible, Typed, QueueTickets, QueueMirrorsStatus, QueueOK, QueueEntry
<1>4. ASSUME NEW w \in Workers, NEW k \in Jobs, Complete(w, k)
      PROVE  ~HasPending(status', job'[j].deps)
  <2> DEFINE done == [status EXCEPT ![k] = "SUCCEEDED"]
             fit  == FirstThatFit(Freed(done, k))
  <2>1. /\ status' = [i \in Jobs |-> IF i \in fit THEN "QUEUED" ELSE done[i]]
        /\ job' = job /\ attempts' = attempts
    BY <1>4 DEF Complete
  <2>2. j \in fit
    BY <2>1 DEF Typed
  <2>3. ~HasPending(done, job[j].deps)
    BY <2>2 DEF FirstThatFit, Freed
  <2>4. \A d \in job[j].deps : d \in Jobs /\ done[d] = "SUCCEEDED"
    BY <2>3 DEF HasPending, Recorded, Repository
  <2>5. \A d \in job[j].deps : d \notin fit
    BY <2>4 DEF FirstThatFit, Freed
  <2>6. \A d \in job[j].deps : status'[d] = "SUCCEEDED"
    BY <2>1, <2>4, <2>5
  <2> QED
    BY <2>1, <2>6 DEF HasPending
<1>5. ASSUME NEW w \in Workers, NEW k \in Jobs, Fail(w, k) PROVE FALSE
  <2>1. <<w, k>> \in executing
    BY <1>5 DEF Fail, FailRetry, FailRetryOverflow, FailForGood, Reported
  <2>2. k # j
    BY <2>1
  <2> QED
    BY <1>5, <2>2 DEF Fail, FailRetry, FailRetryOverflow, FailForGood, Typed
<1>6. ASSUME NEW k \in Jobs, Cancel(k) PROVE FALSE
  BY <1>6 DEF Cancel, Typed
<1> QED
  BY <1>1, <1>2, <1>3, <1>4, <1>5, <1>6 DEF Next

\* A job that has a ticket keeps its submission.
LEMMA SubmissionIsStable ==
    ASSUME Books, [Next]_vars, NEW j \in Jobs, status[j] # "ABSENT"
    PROVE  job'[j] = job[j]
BY DEF Next, Submit, SubmitScheduled, SubmitBlocked, SubmitQueued, SubmitOverflow, Create,
       IsFresh, Repository, Promote, Claim, Complete, Fail, FailRetry, FailRetryOverflow,
       FailForGood, Cancel, vars, Books, Typed

\* An execution begins with a counted attempt, and attempts are never uncounted.
LEMMA ExecutionsAreCounted ==
    ASSUME Books, [Next]_vars, \A x \in executing : attempts[x[2]] > 0
    PROVE  /\ \A x \in executing' : attempts'[x[2]] > 0
           /\ \A j \in Jobs : attempts'[j] >= attempts[j]
<1> USE DEF Books
<1>1. CASE \E w \in Workers : Claim(w)
  <2>1. PICK w \in Workers, e \in queue :
          /\ executing' = executing \cup {<<w, e.job>>}
          /\ attempts' = [attempts EXCEPT ![e.job] = @ + 1]
    BY <1>1 DEF Claim, Visible
  <2>2. e.job \in Jobs /\ \A x \in executing : x[2] \in Jobs
    BY DEF Typed, QueueOK, QueueEntry
  <2>3. \A j \in Jobs : attempts[j] \in Nat /\ attempts'[j] \in Nat /\ attempts'[j] >= attempts[j]
    BY <2>1, <2>2 DEF Typed
  <2>4. attempts'[e.job] > 0
    BY <2>1, <2>2 DEF Typed
  <2> QED
    BY <2>1, <2>2, <2>3, <2>4
<1>2. CASE ~\E w \in Workers : Claim(w)
  <2>1. attempts' = attempts /\ executing' \subseteq executing
    BY <1>2 DEF Next, Submit, SubmitScheduled, SubmitBlocked, SubmitQueued, SubmitOverflow,
                Create, Promote, Complete, Fail, FailRetry, FailRetryOverflow, FailForGood,
                Reported, Cancel, vars
  <2> QED
    BY <2>1 DEF Typed
<1> QED
  BY <1>1, <1>2

\* No call releases a job whose dependencies have not succeeded.
LEMMA OrderedStep == ASSUME Books, Ordered, [Next]_vars PROVE Ordered'
<1> USE DEF Books
<1>1. \A x \in executing' : attempts'[x[2]] > 0
  BY ExecutionsAreCounted DEF Ordered
<1>2. ASSUME NEW j \in Jobs, status'[j] = "QUEUED" \/ attempts'[j] > 0
      PROVE  ~HasPending(status', job'[j].deps)
  <2>1. CASE status[j] = "QUEUED" \/ attempts[j] > 0 \/ \E x \in executing : x[2] = j
    <3>1. status[j] # "ABSENT" /\ (status[j] = "QUEUED" \/ attempts[j] > 0)
      BY <2>1 DEF Ordered, Recorded, ExecutorTickets
    <3>2. job'[j] = job[j] /\ ~HasPending(status, job[j].deps)
      BY <3>1, SubmissionIsStable DEF Ordered
    <3>3. \A d \in job[j].deps : d \in Jobs /\ status[d] = "SUCCEEDED"
      BY <3>2 DEF HasPending, Recorded, Repository
    <3>4. \A d \in job[j].deps : status'[d] = "SUCCEEDED"
      BY <3>3, SuccessIsStable
    <3> QED
      BY <3>2, <3>4 DEF HasPending
  <2>2. CASE ~(status[j] = "QUEUED" \/ attempts[j] > 0) /\ ~(\E x \in executing : x[2] = j)
    <3>1. CASE Next
      BY <1>2, <2>2, <3>1, NewlyOrdered
    <3>2. CASE UNCHANGED vars
      BY <1>2, <2>2, <3>2 DEF vars
    <3> QED
      BY <3>1, <3>2
  <2> QED
    BY <2>1, <2>2
<1> QED
  BY <1>1, <1>2 DEF Ordered

\* No job is ever executed before all the jobs it depends on have succeeded.
THEOREM DependenciesFirst == Spec => []RunsAfterDependencies
<1>1. Init => Ordered
  BY DEF Init, Ordered, NoSubmission, HasPending
<1>2. Books /\ Ordered /\ [Next]_vars => Ordered'
  BY OrderedStep
<1>3. Ordered => RunsAfterDependencies
  BY DEF Ordered, RunsAfterDependencies, HasPending
<1> QED
  BY <1>1, <1>2, <1>3, BooksInvariant, PTL DEF Spec

-------------------------------------------------------------------------------
(* Retries *)

\* The bound is kept because a job that may still be claimed has an attempt left.
Counted ==
    \A j \in Jobs :
        /\ attempts[j] <= job[j].maxAttempts
        /\ status[j] = "QUEUED" => attempts[j] < job[j].maxAttempts
        /\ status[j] \in {"SCHEDULED", "BLOCKED"} => attempts[j] = 0

\* The steps other than claim: no attempt is counted, and a job that becomes
\* QUEUED was submitted, scheduled, blocked or may be retried.
LEMMA UnclaimedCounts ==
    ASSUME Books, Next, ~(\E w \in Workers : Claim(w)), NEW j \in Jobs
    PROVE  /\ attempts'[j] = attempts[j]
           /\ status'[j] = "QUEUED" => \/ status[j] \in {"ABSENT", "QUEUED", "SCHEDULED", "BLOCKED"}
                                       \/ CanRetry(j)
           /\ status'[j] \in {"SCHEDULED", "BLOCKED"}
                => status[j] \in {"ABSENT", "SCHEDULED", "BLOCKED"}
<1> USE DEF Books
<1>1. ASSUME NEW k \in Jobs, NEW s \in Submission, Submit(k, s)
      PROVE  attempts' = attempts /\ status[k] = "ABSENT"
             /\ \A i \in Jobs \ {k} : status'[i] = status[i]
  BY <1>1 DEF Submit, SubmitScheduled, SubmitBlocked, SubmitQueued, SubmitOverflow,
              Create, IsFresh, Repository, Typed
<1>2. ASSUME NEW due \in SUBSET schedule, Promote(due)
      PROVE  attempts' = attempts
             /\ \A i \in Jobs : status'[i] = status[i] \/ status[i] = "SCHEDULED"
  BY <1>2 DEF Promote, FirstThatFit, Typed
<1>3. ASSUME NEW w \in Workers, NEW k \in Jobs, Complete(w, k)
      PROVE  attempts' = attempts
             /\ \A i \in Jobs : \/ status'[i] \in {status[i], "SUCCEEDED"}
                               \/ (status'[i] = "QUEUED" /\ status[i] = "BLOCKED")
  BY <1>3, ReportFacts DEF Complete, FirstThatFit, Freed, Typed
<1>4. ASSUME NEW w \in Workers, NEW k \in Jobs, Fail(w, k)
      PROVE  attempts' = attempts
             /\ \A i \in Jobs : \/ status'[i] \in {status[i], "RETRYING", "FAILED"}
                               \/ (status'[i] = "QUEUED" /\ i = k /\ CanRetry(k))
  BY <1>4 DEF Fail, FailRetry, FailRetryOverflow, FailForGood, Typed
<1>5. ASSUME NEW k \in Jobs, Cancel(k)
      PROVE  attempts' = attempts
             /\ \A i \in Jobs : status'[i] = status[i] \/ status'[i] = "CANCELLED"
  BY <1>5 DEF Cancel, Typed
<1> QED
  BY <1>1, <1>2, <1>3, <1>4, <1>5 DEF Next

\* No call leaves a job with more attempts behind it than its policy allows.
LEMMA CountedStep == ASSUME Books, Counted, [Next]_vars PROVE Counted'
<1> USE DEF Books
<1>1. \A j \in Jobs : attempts[j] \in Nat /\ (status[j] # "ABSENT" => job[j].maxAttempts \in Nat \ {0})
  BY MaxAttemptsAssumption DEF Typed, Recorded, Submission
<1>2. Books'
  BY SubmitKeepsBooks, PromoteKeepsBooks, ClaimKeepsBooks, CompleteKeepsBooks,
     FailKeepsBooks, CancelKeepsBooks, StutterKeepsBooks DEF Next
<1>3. \A j \in Jobs : status'[j] # "ABSENT" => job'[j].maxAttempts \in Nat \ {0}
  BY <1>2, MaxAttemptsAssumption DEF Recorded, Submission
<1>4. CASE \E w \in Workers : Claim(w)
  <2>1. PICK e \in queue :
          /\ attempts' = [attempts EXCEPT ![e.job] = @ + 1]
          /\ status' = [status EXCEPT ![e.job] = "RUNNING"]
          /\ job' = job
    BY <1>4 DEF Claim, Visible
  <2>2. e.job \in Jobs /\ status[e.job] = "QUEUED"
    BY DEF Typed, QueueOK, QueueEntry, QueueTickets, QueueMirrorsStatus
  <2>3. attempts[e.job] + 1 <= job[e.job].maxAttempts
    BY <1>1, <2>2 DEF Counted
  <2> QED
    BY <2>1, <2>2, <2>3 DEF Counted, Typed
<1>5. CASE Next /\ ~\E w \in Workers : Claim(w)
  <2>1. ASSUME NEW j \in Jobs, status[j] = "ABSENT", status'[j] # "ABSENT"
        PROVE  attempts'[j] = 0 /\ attempts'[j] < job'[j].maxAttempts
    BY <1>3, <1>5, <2>1, UnclaimedCounts DEF Recorded
  <2>2. ASSUME NEW j \in Jobs, status[j] = "ABSENT", status'[j] = "ABSENT"
        PROVE  attempts'[j] = 0 /\ job'[j].maxAttempts = 0
    BY <1>2, <2>2 DEF Recorded, NoSubmission
  <2>3. ASSUME NEW j \in Jobs, status[j] # "ABSENT"
        PROVE  /\ attempts'[j] <= job'[j].maxAttempts
               /\ status'[j] = "QUEUED" => attempts'[j] < job'[j].maxAttempts
               /\ status'[j] \in {"SCHEDULED", "BLOCKED"} => attempts'[j] = 0
    <3>1. job'[j] = job[j] /\ attempts'[j] = attempts[j]
      BY <1>5, <2>3, SubmissionIsStable, UnclaimedCounts
    <3>2. status'[j] = "QUEUED" => status[j] \in {"QUEUED", "SCHEDULED", "BLOCKED"} \/ CanRetry(j)
      BY <1>5, <2>3, UnclaimedCounts
    <3>3. status'[j] \in {"SCHEDULED", "BLOCKED"} => status[j] \in {"SCHEDULED", "BLOCKED"}
      BY <1>5, <2>3, UnclaimedCounts
    <3> QED
      BY <1>1, <2>3, <3>1, <3>2, <3>3 DEF Counted, CanRetry
  <2> QED
    BY <1>3, <2>1, <2>2, <2>3 DEF Counted
<1>6. CASE UNCHANGED vars
  BY <1>6 DEF vars, Counted
<1> QED
  BY <1>4, <1>5, <1>6

\* No interleaving of failures, cancellations and late reports executes a job
\* more often than its retry policy allows.
THEOREM RetriesBounded == Spec => []AttemptsBounded
<1>1. Init => Counted
  BY DEF Init, Counted, NoSubmission
<1>2. Books /\ Counted /\ [Next]_vars => Counted'
  BY CountedStep
<1>3. Counted => AttemptsBounded
  BY DEF Counted, AttemptsBounded, Repository
<1> QED
  BY <1>1, <1>2, <1>3, BooksInvariant, PTL DEF Spec

-------------------------------------------------------------------------------
(* Dispatch order and entitlement *)

\* Claims respect priority and waiting time within a tenant: the entry that
\* leaves the queue stands before every entry of its tenant that stays.
THEOREM NobodyOvertakes == Spec => NoOvertaking
<1> DEFINE Fair(e, f) == \/ job[f.job].prio < job[e.job].prio
                         \/ (job[f.job].prio = job[e.job].prio /\ e.seq < f.seq)
           Took(e)    == e \notin queue' /\ status'[e.job] = "RUNNING"
<1>1. ASSUME Books, [Next]_vars, NEW e \in queue, NEW f \in queue, Took(e),
             f \in queue', f.tenant = e.tenant
      PROVE  Fair(e, f)
  <2> USE DEF Books
  <2>1. PICK w \in Workers : Claim(w)
    <3>1. ASSUME NEW k \in Jobs, Cancel(k) PROVE FALSE
      <4>1. queue' = queue \ Withdrawn(k) /\ status' = [status EXCEPT ![k] = "CANCELLED"]
        BY <3>1 DEF Cancel
      <4>2. e.job = k
        BY <1>1, <4>1 DEF Withdrawn
      <4> QED
        BY <1>1, <4>1, <4>2, <3>1 DEF Typed
    <3>2. CASE Next /\ ~(\E w \in Workers : Claim(w)) /\ ~(\E k \in Jobs : Cancel(k))
      BY <1>1, <3>2 DEF Next, Submit, SubmitScheduled, SubmitBlocked, SubmitQueued, SubmitOverflow,
           Promote, Complete, Fail, FailRetry, FailRetryOverflow, FailForGood, EnqueueAll
    <3> QED
      BY <1>1, <3>1, <3>2 DEF vars
  <2>2. PICK g \in Visible(w) : IsFirst(g, Visible(w)) /\ queue' = queue \ {g}
    BY <2>1 DEF Claim
  <2>3. g = e
    BY <1>1, <2>2
  <2>4. f \in Visible(w) /\ f # e
    BY <1>1, <2>2, <2>3 DEF Visible
  <2>5. Before(e, f)
    BY <2>2, <2>3, <2>4 DEF IsFirst
  <2>6. e.prio = job[e.job].prio /\ f.prio = job[f.job].prio
    BY <1>1 DEF QueueTickets, QueueMirrorsStatus
  <2> QED
    BY <1>1, <2>5, <2>6 DEF Before, Typed, QueueOK, QueueEntry
<1>2. Books /\ [Next]_vars
        => [\A e, f \in queue : Took(e) /\ f \in queue' /\ f.tenant = e.tenant => Fair(e, f)]_vars
  BY <1>1
<1> QED
  BY <1>2, BooksInvariant, PTL DEF Spec, NoOvertaking

\* Executors never work for a tenant they were not bound to.
THEOREM Entitled == Spec => []EntitledExecutions
<1>1. Init => EntitledExecutions
  BY DEF Init, EntitledExecutions
<1>2. ASSUME Books, EntitledExecutions, [Next]_vars PROVE EntitledExecutions'
  <2> USE DEF Books
  <2>1. \A x \in executing : x[2] \in Jobs /\ status[x[2]] # "ABSENT"
    BY <1>2 DEF Typed, ExecutorTickets
  <2>2. \A x \in executing : job'[x[2]] = job[x[2]]
    BY <1>2, <2>1, SubmissionIsStable
  <2>3. CASE \E w \in Workers : Claim(w)
    <3>0. PICK w \in Workers : Claim(w)
      BY <2>3
    <3>1. PICK e \in Visible(w) : executing' = executing \cup {<<w, e.job>>} /\ job' = job
      BY <3>0 DEF Claim
    <3>2. e.tenant = job[e.job].tenant /\ Serves[w] \in {NoTenant, e.tenant}
      BY <1>2 DEF Visible, QueueTickets, QueueMirrorsStatus
    <3> QED
      BY <1>2, <3>1, <3>2 DEF EntitledExecutions
  <2>4. CASE ~\E w \in Workers : Claim(w)
    <3>1. executing' \subseteq executing
      BY <1>2, <2>4 DEF Next, Submit, SubmitScheduled, SubmitBlocked, SubmitQueued, SubmitOverflow,
           Create, Promote, Complete, Fail, FailRetry, FailRetryOverflow, FailForGood, Reported, Cancel, vars
    <3> QED
      BY <1>2, <2>2, <3>1 DEF EntitledExecutions
  <2> QED
    BY <2>3, <2>4
<1> QED
  BY <1>1, <1>2, BooksInvariant, PTL DEF Spec

\* Queue, statuses, attempts and executors tell one story, for any number of jobs,
\* tenants and executors and every capacity of the queue.
THEOREM JobsAreSound == Spec => []JobsSound
<1>1. OneTicketPerJob /\ QueueMirrorsStatus /\ RunsAfterDependencies /\ AttemptsBounded
        /\ EntitledExecutions => JobsSound
  BY DEF JobsSound
<1> QED
  BY <1>1, OneTicket, QueueAndStatusAgree, DependenciesFirst, RetriesBounded, Entitled, PTL

-------------------------------------------------------------------------------
(* Terminal statuses *)

\* A finished job stays as it is unless its executor still has to report on it.
LEMMA SettledStep ==
    ASSUME Books, [Next]_vars, NEW j \in Jobs, status[j] \in Terminal, status'[j] # status[j]
    PROVE  status[j] = "CANCELLED" /\ \E w \in Workers : <<w, j>> \in executing
<1> USE DEF Books
<1>1. status[j] \notin {"ABSENT", "SCHEDULED", "QUEUED", "BLOCKED", "RUNNING"}
  BY DEF Terminal
<1>2. ASSUME NEW k \in Jobs, NEW s \in Submission, Submit(k, s) PROVE FALSE
  BY <1>1, <1>2 DEF Submit, SubmitScheduled, SubmitBlocked, SubmitQueued, SubmitOverflow,
                    Create, IsFresh, Repository, Typed
<1>3. ASSUME NEW due \in SUBSET schedule, Promote(due) PROVE FALSE
  BY <1>1, <1>3 DEF Promote, FirstThatFit, Typed
<1>4. ASSUME NEW w \in Workers, Claim(w) PROVE FALSE
  <2>1. PICK e \in queue : status' = [status EXCEPT ![e.job] = "RUNNING"]
    BY <1>4 DEF Claim, Visible
  <2>2. status[e.job] = "QUEUED"
    BY <2>1 DEF Typed, QueueTickets, QueueMirrorsStatus, QueueOK, QueueEntry
  <2> QED
    BY <1>1, <2>1, <2>2 DEF Typed
<1>5. ASSUME NEW w \in Workers, NEW k \in Jobs, Complete(w, k) \/ Fail(w, k)
      PROVE  status[j] = "CANCELLED" /\ <<w, j>> \in executing
  <2>1. Reported(w, k)
    BY <1>5 DEF Complete, Fail, FailRetry, FailRetryOverflow, FailForGood
  <2>2. \A i \in Jobs \ {k} : status'[i] = status[i] \/ status[i] = "BLOCKED"
    BY <1>5 DEF Complete, FirstThatFit, Freed, Fail, FailRetry, FailRetryOverflow, FailForGood, Typed
  <2>3. j = k
    BY <1>1, <2>2
  <2>4. status[k] \in {"RUNNING", "CANCELLED"}
    BY <2>1, ReportFacts
  <2> QED
    BY <1>1, <2>1, <2>3, <2>4 DEF Reported
<1>6. ASSUME NEW k \in Jobs, Cancel(k) PROVE FALSE
  BY <1>6 DEF Cancel, MayCancel, Typed
<1>7. CASE UNCHANGED vars
  BY <1>7 DEF vars
<1>8. CASE Next
  BY <1>2, <1>3, <1>4, <1>5, <1>6, <1>8 DEF Next
<1> QED
  BY <1>7, <1>8

\* A job that has finished never changes its status again, with one exception: the
\* report of an executor on a job that was cancelled under it.
THEOREM FinishedForGood == Spec => SettledIsFinal
<1>1. Books /\ [Next]_vars
        => [\A j \in Jobs :
              status[j] \in Terminal /\ status'[j] # status[j]
                 => status[j] = "CANCELLED" /\ \E w \in Workers : <<w, j>> \in executing]_vars
  BY SettledStep
<1> QED
  BY <1>1, BooksInvariant, PTL DEF Spec, SettledIsFinal

-------------------------------------------------------------------------------
(* Jobs are left behind by overflows only *)

\* If a job does not fit, those that do take all the places that were free.
LEMMA WhoeverFitsFills ==
    ASSUME QueueOK, NEW S, S \subseteq Jobs, FirstThatFit(S) # S
    PROVE  Cardinality(queue) + Cardinality(FirstThatFit(S)) >= Capacity
<1> DEFINE fit     == FirstThatFit(S)
           UpTo(x) == {k \in S : k <= x}
           Late    == {U \in SUBSET S : \E x \in S \ fit : U = UpTo(x)}
<1>1. IsFiniteSet(S) /\ fit \subseteq S /\ \A k \in S : k \in Int
  <2>1. \A k \in S : k \in Int
    BY MaxJobsAssumption DEF Jobs
  <2>2. IsFiniteSet(S)
    BY JobsFinite, FS_Subset
  <2>3. fit \subseteq S
    BY DEF FirstThatFit
  <2> QED
    BY <2>1, <2>2, <2>3
<1>2. IsFiniteSet(fit) /\ Cardinality(fit) \in Nat
  BY FitWithinCapacity
<1>3. Late \subseteq FiniteSubsetsOf(S) /\ Late # {}
  <2>1. PICK x \in S : x \notin fit
    BY <1>1
  <2>2. UpTo(x) \in Late
    BY <2>1
  <2>3. Late \subseteq FiniteSubsetsOf(S)
    BY <1>1, FS_FiniteSubsetsOfFinite
  <2> QED
    BY <2>2, <2>3
<1>4. PICK U \in Late : \A V \in Late : ~(<<V, U>> \in StrictSubsetOrdering(S))
  <2> HIDE DEF Late
  <2> QED
    BY <1>3, FS_StrictSubsetOrderingWellFounded, WFMin
<1>5. PICK m \in S \ fit : U = UpTo(m)
  OBVIOUS
\* m is the first that does not fit.
<1>6. ASSUME NEW k \in UpTo(m), k # m PROVE k \in fit
  <2> SUFFICES ASSUME k \notin fit PROVE FALSE
    OBVIOUS
  <2>1. k < m /\ k \in S
    BY <1>1, <1>6
  <2>2. UpTo(k) \in Late
    BY <2>1
  <2>3. UpTo(k) \subseteq UpTo(m) /\ m \in UpTo(m) /\ m \notin UpTo(k)
    BY <1>1, <2>1
  <2>4. <<UpTo(k), U>> \in StrictSubsetOrdering(S)
    BY <1>5, <2>3 DEF StrictSubsetOrdering
  <2> QED
    BY <1>4, <2>2, <2>4
<1>7. m \in UpTo(m) /\ IsFiniteSet(UpTo(m)) /\ Cardinality(UpTo(m)) \in Nat
  BY <1>1, FS_Subset, FS_CardinalityType
<1>8. Cardinality(UpTo(m) \ {m}) = Cardinality(UpTo(m)) - 1
  BY <1>7, FS_RemoveElement
<1>9. Cardinality(UpTo(m) \ {m}) <= Cardinality(fit)
  <2>1. UpTo(m) \ {m} \in SUBSET fit
    BY <1>6
  <2> HIDE DEF UpTo, fit
  <2> QED
    BY <1>2, <2>1, FS_Subset
<1>10. Cardinality(queue) + Cardinality(UpTo(m)) > Capacity
  <2>1. ~(Cardinality(queue) + Rank(S, m) <= Capacity)
    BY <1>5 DEF FirstThatFit
  <2>2. Rank(S, m) = Cardinality(UpTo(m))
    BY DEF Rank
  <2> QED
    BY <1>7, <2>1, <2>2, CapacityAssumption DEF QueueOK
<1> HIDE DEF UpTo, fit
<1>11. Cardinality(queue) + Cardinality(fit) >= Capacity
  BY <1>2, <1>7, <1>8, <1>9, <1>10, CapacityAssumption DEF QueueOK
<1> QED
  BY <1>11 DEF fit

\* A loop of enqueue calls that does not get through leaves the queue full.
LEMMA OverflowLeavesFull ==
    ASSUME Books, QueueOK', NEW S, S \subseteq Jobs, \A j \in S : status[j] # "QUEUED",
           FirstThatFit(S) # S, EnqueueAll(FirstThatFit(S))
    PROVE  Cardinality(queue') = Capacity
<1> DEFINE A   == FirstThatFit(S)
           New == {Entry(job[j], j, sequence + Rank(A, j)) : j \in A}
           f   == [j \in A |-> Entry(job[j], j, sequence + Rank(A, j))]
<1> USE DEF Books, Typed
<1>1. A \subseteq S /\ IsFiniteSet(A) /\ Cardinality(A) \in Nat
  BY FitWithinCapacity
<1>2. Cardinality(queue) + Cardinality(A) >= Capacity
  BY WhoeverFitsFills
<1>3. queue' = queue \cup New
  BY DEF EnqueueAll
<1>4. IsFiniteSet(New) /\ IsFiniteSet(queue) /\ Cardinality(queue) \in Nat
  <2>1. New \in SUBSET queue'
    BY <1>3
  <2> QED
    BY <2>1, FS_Subset DEF QueueOK
<1>5. Cardinality(A) <= Cardinality(New)
  <2>1. f \in [A -> New]
    OBVIOUS
  <2>2. \A a, b \in A : f[a] = f[b] => a = b
    BY DEF Entry
  <2>3. f \in Injection(A, New)
    BY <2>1, <2>2 DEF Injection, IsInjective
  <2> HIDE DEF f, New, A
  <2> QED
    BY <1>4, <2>3, FS_Injection
<1>6. queue \cap New = {}
  <2>1. \A e \in queue : e.job \in Jobs /\ status[e.job] = "QUEUED"
    BY DEF QueueOK, QueueEntry, QueueTickets, QueueMirrorsStatus
  <2>2. \A e \in New : e.job \in S
    BY <1>1 DEF Entry
  <2> QED
    BY <2>1, <2>2
<1> HIDE DEF New, A, f
<1>7. Cardinality(queue \cup New) = Cardinality(queue) + Cardinality(New)
  <2>1. Cardinality(queue \cup New) = Cardinality(queue) + Cardinality(New) - Cardinality(queue \cap New)
    BY <1>4, FS_Union
  <2>2. Cardinality(queue \cap New) = 0
    BY <1>6, FS_EmptySet
  <2>3. Cardinality(New) \in Nat
    BY <1>4, FS_CardinalityType
  <2> QED
    BY <1>4, <2>1, <2>2, <2>3
<1>8. Cardinality(New) \in Nat
  BY <1>4, FS_CardinalityType
<1> QED
  BY <1>1, <1>2, <1>3, <1>4, <1>5, <1>7, <1>8, CapacityAssumption DEF QueueOK

\* A call that leaves a job behind leaves a full queue behind as well.
LEMMA LeftStep ==
    ASSUME Books, Books', [Next]_vars, NEW i \in Jobs, ~Left(i), Left(i)'
    PROVE  Cardinality(queue') = Capacity
<1> USE DEF Books
<1> QueueOK /\ QueueOK'
  BY DEF Typed
<1>0. QueueIsFull /\ queue' = queue => Cardinality(queue') = Capacity
  BY CapacityAssumption DEF QueueIsFull, QueueOK
\* What left i waiting for a dependency still does if no dependency was done.
<1>w. ASSUME job'[i] = job[i], status'[i] = status[i], schedule \subseteq schedule' \cup {k \in Jobs : k # i},
             \A d \in job[i].deps : status[d] # "SUCCEEDED" => status'[d] # "SUCCEEDED"
      PROVE  FALSE
  BY <1>w DEF Left, HasPending
<1>1. ASSUME NEW k \in Jobs, NEW s \in Submission, Submit(k, s) PROVE Cardinality(queue') = Capacity
  <2>1. /\ status[k] = "ABSENT" /\ schedule \subseteq schedule'
        /\ job' = [job EXCEPT ![k] = s]
        /\ \A d \in s.deps : d \in Jobs /\ status[d] # "ABSENT"
        /\ \E st \in {"SCHEDULED", "BLOCKED", "QUEUED", "PENDING"} :
              status' = [status EXCEPT ![k] = st]
    BY <1>1 DEF Submit, SubmitScheduled, SubmitBlocked, SubmitQueued, SubmitOverflow,
                Create, IsFresh, Repository
  <2>2. \A j \in Jobs \ {k} : status'[j] = status[j] /\ job'[j] = job[j]
    BY <2>1 DEF Typed
  <2>3. CASE i # k
    <3>1. \A d \in job[i].deps : d \in Jobs /\ d # k
      BY <2>1 DEF Recorded, Repository
    <3> QED
      BY <1>w, <2>1, <2>2, <2>3, <3>1
  <2>4. CASE i = k
    <3>1. job'[k] = s /\ \A d \in s.deps : d \in Jobs \ {k}
      BY <2>1 DEF Typed
    <3>2. HasPending(status', s.deps) <=> HasPending(status, s.deps)
      BY <2>2, <3>1 DEF HasPending
    <3>3. status'[k] # "PENDING" => FALSE
      BY <1>1, <2>4, <3>1, <3>2
         DEF Submit, SubmitScheduled, SubmitBlocked, SubmitQueued, SubmitOverflow, Create, Typed, Left
    <3>4. QueueIsFull /\ queue' = queue
      BY <1>1, <3>3
         DEF Submit, SubmitScheduled, SubmitBlocked, SubmitQueued, SubmitOverflow, Create, Typed
    <3> QED
      BY <1>0, <3>4
  <2> QED
    BY <2>3, <2>4
<1>2. ASSUME NEW due \in SUBSET schedule, Promote(due) PROVE Cardinality(queue') = Capacity
  <2> DEFINE live     == {k \in due : status[k] = "SCHEDULED"}
             runnable == {k \in live : ~HasPending(status, job[k].deps)}
             fit      == FirstThatFit(runnable)
             reached  == {k \in live : \A o \in runnable \ fit : k < o}
  <2>1. /\ status' = [k \in Jobs |-> IF k \in fit THEN "QUEUED"
                                     ELSE IF k \in reached THEN "BLOCKED" ELSE status[k]]
        /\ job' = job /\ schedule' = schedule \ due
        /\ EnqueueAll(fit)
    BY <1>2 DEF Promote
  <2>2. runnable \subseteq Jobs /\ \A k \in runnable : status[k] # "QUEUED"
    BY DEF Typed
  <2>3. ASSUME fit = runnable PROVE FALSE
    <3>1. \A d \in Jobs : status'[d] = "SUCCEEDED" <=> status[d] = "SUCCEEDED"
      BY <2>1, <2>3
    <3>2. HasPending(status, job[i].deps) => HasPending(status', job'[i].deps)
      BY <2>1, <3>1 DEF HasPending, Recorded, Repository
    <3> QED
      BY <2>1, <2>3, <3>2 DEF Left
  <2> HIDE DEF live, runnable
  <2> QED
    BY <2>1, <2>2, <2>3, OverflowLeavesFull
<1>3. ASSUME NEW w \in Workers, NEW j \in Jobs, Complete(w, j) PROVE Cardinality(queue') = Capacity
  <2> DEFINE done == [status EXCEPT ![j] = "SUCCEEDED"]
             free == Freed(done, j)
  <2>1. free \subseteq Jobs /\ \A k \in free : status[k] = "BLOCKED"
    BY DEF Freed, Typed
  <2>2. /\ status' = [k \in Jobs |-> IF k \in FirstThatFit(free) THEN "QUEUED" ELSE done[k]]
        /\ job' = job /\ schedule' = schedule
        /\ EnqueueAll(FirstThatFit(free))
    BY <1>3 DEF Complete
  <2>3. \A k \in Jobs : done[k] = IF k = j THEN "SUCCEEDED" ELSE status[k]
    BY DEF Typed
  <2>4. ASSUME FirstThatFit(free) = free PROVE FALSE
    <3>1. status'[i] = "BLOCKED"
      BY <2>2, <2>3, <2>4 DEF Left
    <3>2. i \notin free /\ status[i] = "BLOCKED" /\ done[i] = "BLOCKED"
      BY <2>2, <2>3, <2>4, <3>1
    <3>3. \A d \in job[i].deps : d \in Jobs /\ job[d].tenant = job[i].tenant
      BY DEF Recorded, Repository
    <3>4. HasPending(status, job[i].deps)
      BY <3>2 DEF Left
    <3>5. HasPending(done, job[i].deps)
      <4>1. CASE job[i].tenant = job[j].tenant
        BY <3>2, <4>1 DEF Freed
      <4>2. CASE job[i].tenant # job[j].tenant
        BY <2>3, <3>3, <3>4, <4>2 DEF HasPending
      <4> QED
        BY <4>1, <4>2
    <3> HIDE DEF done, free
    <3>6. HasPending(status', job'[i].deps)
      BY <2>2, <3>3, <3>5 DEF HasPending
    <3> QED
      BY <3>1, <3>6 DEF Left
  <2> HIDE DEF done, free
  <2> QED
    BY <2>1, <2>2, <2>4, OverflowLeavesFull
<1>4. ASSUME NEW w \in Workers, NEW j \in Jobs, Fail(w, j) PROVE Cardinality(queue') = Capacity
  <2>1. CASE FailRetryOverflow(w, j)
    BY <1>0, <2>1 DEF FailRetryOverflow
  <2>2. ASSUME FailRetry(w, j) \/ FailForGood(w, j) PROVE FALSE
    <3>1. /\ job' = job /\ schedule' = schedule
          /\ status'[i] \in {status[i], "QUEUED", "FAILED"}
          /\ \A k \in Jobs : status[k] # "SUCCEEDED" => status'[k] # "SUCCEEDED"
      BY <2>2 DEF FailRetry, FailForGood, Typed
    <3>2. \A d \in job[i].deps : d \in Jobs
      BY DEF Recorded, Repository
    <3>3. status'[i] = status[i]
      BY <3>1 DEF Left
    <3> QED
      BY <1>w, <3>1, <3>2, <3>3
  <2> QED
    BY <1>4, <2>1, <2>2 DEF Fail
<1>5. ASSUME NEW k \in Jobs,
             /\ \A j \in Jobs : j # k => status'[j] = status[j]
             /\ status'[k] \in {"RUNNING", "CANCELLED"}
             /\ job' = job
             /\ schedule \ {k} \subseteq schedule'
      PROVE  FALSE
  <2>1. i # k
    BY <1>5 DEF Left
  <2>2. \A d \in job[i].deps : d \in Jobs
    BY DEF Recorded, Repository
  <2>3. schedule \subseteq schedule' \cup {j \in Jobs : j # i}
    BY <1>5, <2>1
  <2> QED
    BY <1>w, <1>5, <2>1, <2>2, <2>3
<1>6. ASSUME NEW j \in Jobs, Cancel(j) PROVE FALSE
  <2>1. /\ \A k \in Jobs : k # j => status'[k] = status[k]
        /\ status'[j] \in {"RUNNING", "CANCELLED"}
        /\ job' = job
        /\ schedule \ {j} \subseteq schedule'
    BY <1>6 DEF Cancel, Typed
  <2> QED
    BY <1>5, <2>1
<1>7. ASSUME NEW w \in Workers, Claim(w) PROVE FALSE
  <2>1. PICK e \in queue : /\ status' = [status EXCEPT ![e.job] = "RUNNING"]
                          /\ job' = job /\ schedule' = schedule
    BY <1>7 DEF Claim, Visible
  <2>2. e.job \in Jobs
    BY DEF Typed, QueueOK, QueueEntry
  <2>3. /\ \A k \in Jobs : k # e.job => status'[k] = status[k]
        /\ status'[e.job] \in {"RUNNING", "CANCELLED"}
        /\ schedule \ {e.job} \subseteq schedule'
    BY <2>1, <2>2 DEF Typed
  <2> QED
    BY <1>5, <2>1, <2>2, <2>3
<1>8. CASE UNCHANGED vars
  BY <1>w, <1>8 DEF vars
<1> QED
  BY <1>1, <1>2, <1>3, <1>4, <1>6, <1>7, <1>8 DEF Next

\* Whatever the capacity of the queue, a call that leaves a job where nothing is at
\* work on it has filled the queue: no other way of losing a job is left in the code.
THEOREM OverflowAlone == Spec => LeftOnlyByOverflow
<1> DEFINE OnlyFull == \A j \in Jobs : ~Left(j) /\ Left(j)' => Cardinality(queue') = Capacity
<1>1. Books /\ Books' /\ [Next]_vars => [OnlyFull]_vars
  BY LeftStep
<1> QED
  BY <1>1, BooksInvariant, PTL DEF Spec, LeftOnlyByOverflow

-------------------------------------------------------------------------------
(* Refinement: every step of the manager is a step of the task graph or       *)
(* changes nothing the task graph can see.                                    *)

needsBar     == [j \in Jobs |-> job[j].deps]
limitBar     == [j \in Jobs |-> job[j].maxAttempts]
activeBar    == {x[2] : x \in executing}
succeededBar == {j \in Jobs : status[j] = "SUCCEEDED"}

\* The initial states of the platform are initial states of the task graph.
LEMMA InitRefines == Init => Graph!Init
BY DEF Init, Graph!Init, NoSubmission, Repository

\* Submitting is submitting in the task graph, or a stutter when nothing is created.
LEMMA SubmitRefines ==
    ASSUME Books, NEW j \in Jobs, NEW s \in Submission, Submit(j, s)
    PROVE  Graph!Add(j, s.deps, s.maxAttempts)
<1> USE DEF Books
<1>1. /\ status[j] = "ABSENT" /\ s.deps \subseteq Repository
      /\ job' = [job EXCEPT ![j] = s]
      /\ attempts' = attempts /\ executing' = executing
      /\ \E st \in {"SCHEDULED", "BLOCKED", "QUEUED", "PENDING"} :
            status' = [status EXCEPT ![j] = st]
  BY DEF Submit, SubmitScheduled, SubmitBlocked, SubmitQueued, SubmitOverflow,
         Create, IsFresh, Repository
<1>2. j \notin Repository /\ Repository' = Repository \cup {j} /\ succeededBar' = succeededBar
  BY <1>1 DEF Typed, Repository, succeededBar
<1>3. /\ needsBar' = [needsBar EXCEPT ![j] = s.deps]
      /\ limitBar' = [limitBar EXCEPT ![j] = s.maxAttempts]
      /\ activeBar' = activeBar
  BY <1>1 DEF Typed, needsBar, limitBar, activeBar
<1> QED
  BY <1>1, <1>2, <1>3 DEF Graph!Add, needsBar, limitBar, activeBar, succeededBar

\* Claiming begins a task whose dependencies are done.
LEMMA ClaimRefines ==
    ASSUME Books, Ordered, Counted, NEW w \in Workers, Claim(w)
    PROVE  \E j \in Jobs : Graph!Start(j)
<1> USE DEF Books
<1>1. PICK e \in queue :
        /\ attempts' = [attempts EXCEPT ![e.job] = @ + 1]
        /\ status' = [status EXCEPT ![e.job] = "RUNNING"]
        /\ executing' = executing \cup {<<w, e.job>>}
        /\ job' = job
  BY DEF Claim, Visible
<1>2. e.job \in Jobs /\ status[e.job] = "QUEUED"
  BY DEF Typed, QueueOK, QueueEntry, QueueTickets, QueueMirrorsStatus
<1>3. e.job \in Repository \ (activeBar \cup succeededBar)
  BY <1>2 DEF Repository, activeBar, succeededBar, ExecutorTickets
<1>4. needsBar[e.job] \subseteq succeededBar
  BY <1>2 DEF needsBar, succeededBar, Ordered, HasPending, Recorded, Repository
<1>5. attempts[e.job] < limitBar[e.job]
  BY <1>2 DEF limitBar, Counted
<1>6. activeBar' = activeBar \cup {e.job}
  <2>1. activeBar' = {x[2] : x \in executing'}
    BY DEF activeBar
  <2>2. {x[2] : x \in executing \cup {<<w, e.job>>}} = {x[2] : x \in executing} \cup {e.job}
    <3>1. <<w, e.job>>[2] = e.job
      OBVIOUS
    <3> HIDE DEF Books
    <3> QED
      BY <3>1, Zenon
  <2> QED
    BY <1>1, <2>1, <2>2 DEF activeBar
<1>7. /\ Repository' = Repository /\ succeededBar' = succeededBar
      /\ needsBar' = needsBar /\ limitBar' = limitBar
  BY <1>1, <1>2 DEF Typed, Repository, succeededBar, needsBar, limitBar
<1>8. Graph!Start(e.job)
  BY <1>1, <1>3, <1>4, <1>5, <1>6, <1>7
     DEF Graph!Start, needsBar, limitBar, activeBar, succeededBar
<1> QED
  BY <1>2, <1>8

\* A report takes the job, and nothing else, off the executors' hands.
LEMMA ReportDeactivates ==
    ASSUME Books, NEW w \in Workers, NEW j \in Jobs, Reported(w, j)
    PROVE  j \in activeBar /\ activeBar' = activeBar \ {j}
<1>1. <<w, j>> \in executing /\ executing' = executing \ {<<w, j>>}
  BY DEF Reported
<1>2. \A x \in executing : x[2] = j <=> x = <<w, j>>
  BY <1>1 DEF Books, ExecutorTickets
<1>3. \A x \in executing : x \in executing' <=> x[2] # j
  BY <1>1, <1>2
<1>4. j \in activeBar
  BY <1>1, <1>2 DEF activeBar
<1> QED
  BY <1>1, <1>3, <1>4 DEF activeBar

\* Completing finishes a task that was begun.
LEMMA CompleteRefines ==
    ASSUME Books, NEW w \in Workers, NEW j \in Jobs, Complete(w, j)
    PROVE  Graph!Succeed(j)
<1> DEFINE done == [status EXCEPT ![j] = "SUCCEEDED"]
           fit  == FirstThatFit(Freed(done, j))
<1> USE DEF Books
<1>1. /\ Reported(w, j) /\ job' = job /\ attempts' = attempts
      /\ status' = [k \in Jobs |-> IF k \in fit THEN "QUEUED" ELSE done[k]]
  BY DEF Complete
<1>2. j \in activeBar /\ activeBar' = activeBar \ {j}
  BY <1>1, ReportDeactivates
<1>3. \A k \in fit : status[k] = "BLOCKED" /\ k # j
  BY DEF FirstThatFit, Freed, Typed
<1>4. \A k \in Jobs : done[k] = IF k = j THEN "SUCCEEDED" ELSE status[k]
  BY DEF Typed
<1>5. status[j] \in {"RUNNING", "CANCELLED"}
  BY <1>1, ReportFacts
<1> HIDE DEF done, fit
<1>6. succeededBar' = succeededBar \cup {j}
  BY <1>1, <1>3, <1>4 DEF succeededBar
<1>7. Repository' = Repository /\ needsBar' = needsBar /\ limitBar' = limitBar
  BY <1>1, <1>3, <1>4, <1>5 DEF Repository, needsBar, limitBar
<1> QED
  BY <1>1, <1>2, <1>6, <1>7
     DEF Graph!Succeed, needsBar, limitBar, activeBar, succeededBar

\* Failing ends an attempt, whether the job is queued again or not.
LEMMA FailRefines ==
    ASSUME Books, NEW w \in Workers, NEW j \in Jobs, Fail(w, j)
    PROVE  Graph!GiveUp(j)
<1> USE DEF Books
<1>1. Reported(w, j) /\ job' = job /\ attempts' = attempts
  BY DEF Fail, FailRetry, FailRetryOverflow, FailForGood
<1>2. j \in activeBar /\ activeBar' = activeBar \ {j}
  BY <1>1, ReportDeactivates
<1>3. status[j] \in {"RUNNING", "CANCELLED"}
  BY <1>1, ReportFacts
<1>4. \A k \in Jobs : \/ status'[k] = status[k]
                      \/ (/\ k = j \/ status[k] = "BLOCKED"
                          /\ status'[k] \in {"QUEUED", "RETRYING", "FAILED"})
  BY DEF Fail, FailRetry, FailRetryOverflow, FailForGood, Typed
<1>5. succeededBar' = succeededBar /\ Repository' = Repository
  BY <1>3, <1>4 DEF succeededBar, Repository
<1>6. needsBar' = needsBar /\ limitBar' = limitBar
  BY <1>1 DEF needsBar, limitBar
<1> QED
  BY <1>1, <1>2, <1>5, <1>6
     DEF Graph!GiveUp, needsBar, limitBar, activeBar, succeededBar

\* Promotion and cancellation are invisible in the task graph.
LEMMA OthersStutter ==
    ASSUME Books,
           (\E due \in SUBSET schedule : Promote(due)) \/ (\E j \in Jobs : Cancel(j)) \/ UNCHANGED vars
    PROVE  UNCHANGED Graph!taskVars
<1> USE DEF Books
<1>1. /\ job' = job /\ attempts' = attempts /\ executing' = executing
      /\ \A k \in Jobs : (status'[k] = "SUCCEEDED" <=> status[k] = "SUCCEEDED")
                        /\ (status'[k] = "ABSENT" <=> status[k] = "ABSENT")
  <2>1. CASE \E due \in SUBSET schedule : Promote(due)
    BY <2>1 DEF Promote, FirstThatFit, Typed
  <2>2. CASE \E j \in Jobs : Cancel(j)
    BY <2>2 DEF Cancel, MayCancel, Repository, Terminal, Typed
  <2>3. CASE UNCHANGED vars
    BY <2>3 DEF vars
  <2> QED
    BY <2>1, <2>2, <2>3
<1>2. succeededBar' = succeededBar /\ Repository' = Repository
  BY <1>1 DEF succeededBar, Repository
<1> QED
  BY <1>1, <1>2 DEF Graph!taskVars, succeededBar

\* The job platform implements the task graph: dependency order, one executor at
\* a time, no work after success, and bounded retries, for any number of jobs.
THEOREM JobsRefineTaskGraph == Spec => ImplementsTaskGraph
<1>1. Init => Ordered /\ Counted
  BY DEF Init, Ordered, Counted, NoSubmission, HasPending
<1>2. Books /\ Ordered /\ Counted /\ [Next]_vars => Ordered' /\ Counted'
  BY OrderedStep, CountedStep
<1>3. ASSUME Books, Ordered, Counted, [Next]_vars
      PROVE  [Graph!Next]_(Graph!taskVars)
  <2>1. ASSUME NEW j \in Jobs, NEW s \in Submission, Submit(j, s) PROVE Graph!Next
    <3>1. s.deps \in SUBSET Jobs /\ s.maxAttempts \in MaxAttempts
      BY DEF Submission
    <3>2. Graph!Add(j, s.deps, s.maxAttempts)
      BY <1>3, <2>1, SubmitRefines
    <3> QED
      BY <3>1, <3>2 DEF Graph!Next
  <2>2. CASE \E w \in Workers : Claim(w)
    BY <1>3, <2>2, ClaimRefines DEF Graph!Next
  <2>3. CASE \E w \in Workers, j \in Jobs : Complete(w, j)
    BY <1>3, <2>3, CompleteRefines DEF Graph!Next
  <2>4. CASE \E w \in Workers, j \in Jobs : Fail(w, j)
    BY <1>3, <2>4, FailRefines DEF Graph!Next
  <2>5. CASE (\E due \in SUBSET schedule : Promote(due)) \/ (\E j \in Jobs : Cancel(j)) \/ UNCHANGED vars
    BY <1>3, <2>5, OthersStutter
  <2> QED
    BY <1>3, <2>1, <2>2, <2>3, <2>4, <2>5 DEF Next
<1> QED
  BY <1>1, <1>2, <1>3, InitRefines, BooksInvariant, PTL DEF Spec, ImplementsTaskGraph, Graph!Spec
================================================================================
