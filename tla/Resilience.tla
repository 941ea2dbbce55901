------------------------------ MODULE Resilience -------------------------------
(***************************************************************************)
(* ResilienceEngine.execute() (src/src/platform/runtime/resilience) and    *)
(* the one CircuitBreaker that a set of callers shares.  A call is a loop  *)
(* of attempts: guard, run fn, account for the time, record the outcome,   *)
(* and retry, recover or raise.  fn runs for any time, so the attempts of  *)
(* several callers overlap.                                                *)
(*                                                                         *)
(* Times are kept as ages, capped where the code cannot tell them apart:   *)
(* age is now - _opened_at, elapsed is now - start.                        *)
(***************************************************************************)
EXTENDS Integers, FiniteSets

CONSTANTS
    Callers,
    MaxAttempts,  \* RetryPolicy.max_attempts
    Threshold,    \* failure_threshold
    Recovery,     \* recovery_timeout_seconds
    Timeout       \* TimeoutPolicy.seconds

\* What the limits are; assumed wherever the module is instantiated.
LimitsAssumption ==
    /\ MaxAttempts \in Nat \ {0}
    /\ Threshold \in Nat \ {0}
    /\ Recovery \in Nat \ {0}
    /\ Timeout \in Nat

CircuitState == {"CLOSED", "OPEN", "HALF_OPEN"}
Strategies == {"raise", "fallback", "degrade"}
Outcomes == {"none", "success", "recovered", "fallback", "failed", "circuit_open"}

VARIABLES
    state,       \* CircuitBreaker._state
    failures,    \* _consecutive_failures, counted up to Threshold
    age,         \* time since _opened_at, up to Recovery
    phase,       \* where each caller is in the loop
    attempt,     \* the caller's attempt, from 1
    elapsed,     \* time since the attempt's start, up to Timeout + 1
    recovery,    \* the caller's RecoveryStrategy
    outcome,     \* how its last call ended
    broken,      \* is the guarded dependency out of order?
    quiet,       \* history: time since the last failure, up to Recovery
    trials       \* history: callers whose running attempt began in HALF_OPEN

circuit == <<state, failures, age>>
circuitVars ==
    <<state, failures, age, phase, attempt, elapsed, recovery, outcome, broken, quiet, trials>>

CircuitInit ==
    /\ state = "CLOSED" /\ failures = 0 /\ age = 0
    /\ phase = [c \in Callers |-> "idle"]
    /\ attempt = [c \in Callers |-> 0]
    /\ elapsed = [c \in Callers |-> 0]
    /\ recovery = [c \in Callers |-> "raise"]
    /\ outcome = [c \in Callers |-> "none"]
    /\ broken = TRUE
    /\ quiet = Recovery
    /\ trials = {}

UpTo(bound, n) == IF n > bound THEN bound ELSE n

-------------------------------------------------------------------------------
(* The circuit breaker *)

\* Mutated form: the recovery time is not awaited.
Seen_Eager == IF state = "OPEN" THEN "HALF_OPEN" ELSE state

\* Mutated form: the circuit stays open.
Seen_Never == state

\* The property "state": OPEN becomes HALF_OPEN when it is read late enough.
Seen == IF state = "OPEN" /\ age >= Recovery THEN "HALF_OPEN" ELSE state

\* Mutated form: one failure too many is let through.
Trips_Late == Seen = "HALF_OPEN" \/ failures >= Threshold

Trips == Seen = "HALF_OPEN" \/ failures + 1 >= Threshold

RecordSuccess ==
    /\ state' = "CLOSED"
    /\ failures' = 0
    /\ age' = 0

RecordFailure ==
    /\ failures' = UpTo(Threshold, failures + 1)
    /\ IF Trips THEN state' = "OPEN" /\ age' = 0
                ELSE state' = Seen /\ age' = age

-------------------------------------------------------------------------------
(* The engine *)

\* execute() is called with some recovery strategy.
Execute(c, r) ==
    /\ phase[c] = "idle"
    /\ phase' = [phase EXCEPT ![c] = "ready"]
    /\ attempt' = [attempt EXCEPT ![c] = 1]
    /\ recovery' = [recovery EXCEPT ![c] = r]
    /\ outcome' = [outcome EXCEPT ![c] = "none"]
    /\ UNCHANGED <<circuit, elapsed, broken, quiet, trials>>

\* Mutated form: only the first attempt of a call is guarded.
Allowed_First(c) == attempt[c] > 1 \/ Seen # "OPEN"

Allowed(c) == Seen # "OPEN"

\* guard() lets the attempt pass.
Begin(c) ==
    /\ phase[c] = "ready"
    /\ Allowed(c)
    /\ state' = Seen
    /\ phase' = [phase EXCEPT ![c] = "running"]
    /\ elapsed' = [elapsed EXCEPT ![c] = 0]
    /\ trials' = IF Seen = "HALF_OPEN" THEN trials \cup {c} ELSE trials
    /\ UNCHANGED <<failures, age, attempt, recovery, outcome, broken, quiet>>

\* guard() raises CircuitOpenError, outside the try: the call ends, whatever
\* its recovery strategy and its remaining attempts.
Refuse(c) ==
    /\ phase[c] = "ready"
    /\ ~Allowed(c)
    /\ phase' = [phase EXCEPT ![c] = "idle"]
    /\ outcome' = [outcome EXCEPT ![c] = "circuit_open"]
    /\ UNCHANGED <<circuit, attempt, elapsed, recovery, broken, quiet, trials>>

\* fn returns within the budget.
Succeed(c) ==
    /\ phase[c] = "running"
    /\ elapsed[c] <= Timeout
    /\ RecordSuccess
    /\ phase' = [phase EXCEPT ![c] = "idle"]
    /\ outcome' = [outcome EXCEPT ![c] = IF attempt[c] > 1 THEN "recovered" ELSE "success"]
    /\ trials' = trials \ {c}
    /\ UNCHANGED <<attempt, elapsed, recovery, broken, quiet>>

\* fn raises, or returns after the budget (TIMEOUT, which is retried).
Fails(c, retryable) ==
    /\ phase[c] = "running"
    /\ \/ broken
       \/ elapsed[c] > Timeout /\ retryable
    /\ RecordFailure
    /\ quiet' = 0
    /\ trials' = trials \ {c}
    /\ UNCHANGED <<elapsed, recovery, broken>>

NextAttempt(c) == attempt[c] + 1

AttemptsLeft(c) == attempt[c] < MaxAttempts

Retry(c) ==
    /\ AttemptsLeft(c)
    /\ Fails(c, TRUE)
    /\ phase' = [phase EXCEPT ![c] = "ready"]
    /\ attempt' = [attempt EXCEPT ![c] = NextAttempt(c)]
    /\ UNCHANGED outcome

GiveUp(c) ==
    /\ \E retryable \in BOOLEAN :
          /\ retryable => ~AttemptsLeft(c)
          /\ Fails(c, retryable)
    /\ phase' = [phase EXCEPT ![c] = "idle"]
    /\ outcome' = [outcome EXCEPT ![c] = IF recovery[c] = "raise" THEN "failed" ELSE "fallback"]
    /\ UNCHANGED attempt

Attempt(c) == Begin(c) \/ Refuse(c)
Conclude(c) == Succeed(c) \/ Retry(c) \/ GiveUp(c)

-------------------------------------------------------------------------------
(* The surroundings *)

\* Time passes; a dependency that is in order answers within the budget.
Tick ==
    /\ broken \/ \A c \in Callers : ~(phase[c] = "running" /\ elapsed[c] = Timeout)
    /\ age' = UpTo(Recovery, age + 1)
    /\ quiet' = UpTo(Recovery, quiet + 1)
    /\ elapsed' = [c \in Callers |-> UpTo(Timeout + 1, elapsed[c] + 1)]
    /\ UNCHANGED <<state, failures, phase, attempt, recovery, outcome, broken, trials>>

\* The dependency is repaired, for good.
Repair ==
    /\ broken
    /\ broken' = FALSE
    /\ UNCHANGED <<circuit, phase, attempt, elapsed, recovery, outcome, quiet, trials>>

-------------------------------------------------------------------------------
CircuitNext ==
    \/ \E c \in Callers, r \in Strategies : Execute(c, r)
    \/ \E c \in Callers : Begin(c)
    \/ \E c \in Callers : Refuse(c)
    \/ \E c \in Callers : Succeed(c)
    \/ \E c \in Callers : Retry(c)
    \/ \E c \in Callers : GiveUp(c)
    \/ Tick
    \/ Repair

CircuitSpec == CircuitInit /\ [][CircuitNext]_circuitVars

\* A call in progress goes on: execute() is one loop, and fn returns or raises.
Progress == \A c \in Callers : WF_circuitVars(Attempt(c)) /\ WF_circuitVars(Conclude(c))

\* The clock runs and callers keep calling.
Traffic ==
    /\ WF_circuitVars(Tick)
    /\ \A c \in Callers : WF_circuitVars(\E r \in Strategies : Execute(c, r))

CircuitFairSpec == CircuitSpec /\ Progress /\ Traffic

-------------------------------------------------------------------------------
(* Properties *)

\* Types; no caller makes more attempts than its retry policy allows.
CircuitTypeOK ==
    /\ state \in CircuitState
    /\ failures \in 0..Threshold
    /\ age \in 0..Recovery
    /\ phase \in [Callers -> {"idle", "ready", "running"}]
    /\ attempt \in [Callers -> 0..MaxAttempts]
    /\ elapsed \in [Callers -> 0..(Timeout + 1)]
    /\ recovery \in [Callers -> Strategies]
    /\ outcome \in [Callers -> Outcomes]
    /\ broken \in BOOLEAN
    /\ quiet \in 0..Recovery
    /\ trials \subseteq Callers

\* "Opens after failure_threshold consecutive failures": whatever calls overlap,
\* the circuit is closed exactly while fewer failures than the threshold have
\* been recorded in a row.
ClosedBelowThreshold == state = "CLOSED" <=> failures < Threshold

\* "after recovery_timeout_seconds it moves to HALF_OPEN": once the threshold is
\* reached, no attempt begins until that time has passed since the LAST failure,
\* including the failures of attempts that were under way when it opened.
BacksOff ==
    [][\A c \in Callers :
          phase[c] = "ready" /\ phase'[c] = "running" /\ failures = Threshold
             => quiet >= Recovery]_circuitVars

\* "OPEN: calls are short-circuited": before its recovery time is over, an open
\* circuit is closed by nothing but the late success of an attempt that was under
\* way when it opened.
OpenServesItsTime ==
    [][state = "OPEN" /\ state' = "CLOSED" =>
          \/ age >= Recovery
          \/ \E c \in Callers :
                phase[c] = "running" /\ phase'[c] = "idle" /\ elapsed[c] >= age]_circuitVars

\* "allows a single trial call": at most one attempt at a time that began while
\* the circuit was half open.  It does not hold: allow() lets every caller pass.
SingleTrial == Cardinality(trials) <= 1

\* Once the dependency is in order again, a circuit that callers keep using
\* closes, whatever trial calls and late failures came before.
CircuitRecovers == ~broken ~> state = "CLOSED"
================================================================================
