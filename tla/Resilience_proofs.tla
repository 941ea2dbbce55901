--------------------------- MODULE Resilience_proofs ---------------------------
(***************************************************************************)
(* The circuit breaker for any number of callers, any threshold, recovery  *)
(* time, timeout and retry policy within the LimitsAssumption.             *)
(***************************************************************************)
EXTENDS Resilience, TLAPS

\* Types hold initially and are kept by every step.
LEMMA TypeInit == ASSUME LimitsAssumption PROVE CircuitInit => CircuitTypeOK
  BY DEF LimitsAssumption, CircuitInit, CircuitTypeOK, CircuitState, Strategies, Outcomes

\* Every step keeps the types; only the failure counter and the clocks need arithmetic.
LEMMA TypeStep ==
    ASSUME LimitsAssumption PROVE CircuitTypeOK /\ [CircuitNext]_circuitVars => CircuitTypeOK'
<1> SUFFICES ASSUME CircuitTypeOK, [CircuitNext]_circuitVars PROVE CircuitTypeOK'
  OBVIOUS
<1> USE DEF LimitsAssumption, CircuitTypeOK, CircuitState, Strategies, Outcomes, circuit
<1>1. ASSUME NEW c \in Callers, NEW r \in Strategies, Execute(c, r) PROVE CircuitTypeOK'
  BY <1>1 DEF Execute
<1>2. ASSUME NEW c \in Callers, Begin(c) PROVE CircuitTypeOK'
  BY <1>2 DEF Begin, Seen
<1>3. ASSUME NEW c \in Callers, Refuse(c) PROVE CircuitTypeOK'
  BY <1>3 DEF Refuse
<1>4. ASSUME NEW c \in Callers, Succeed(c) PROVE CircuitTypeOK'
  BY <1>4 DEF Succeed, RecordSuccess
<1>5. ASSUME NEW c \in Callers, NEW retryable \in BOOLEAN, Fails(c, retryable)
      PROVE  /\ state' \in CircuitState /\ failures' \in 0..Threshold /\ age' \in 0..Recovery
             /\ quiet' \in 0..Recovery /\ trials' \subseteq Callers
             /\ UNCHANGED <<elapsed, recovery, broken>>
  BY <1>5 DEF Fails, RecordFailure, UpTo, Seen
<1>6. ASSUME NEW c \in Callers, Retry(c) PROVE CircuitTypeOK'
  <2>1. /\ phase' \in [Callers -> {"idle", "ready", "running"}]
        /\ attempt' \in [Callers -> 0..MaxAttempts]
        /\ outcome' = outcome
    BY <1>6 DEF Retry, AttemptsLeft, NextAttempt
  <2>2. Fails(c, TRUE)
    BY <1>6 DEF Retry
  <2> QED BY <1>5, <2>1, <2>2
<1>7. ASSUME NEW c \in Callers, GiveUp(c) PROVE CircuitTypeOK'
  <2>1. /\ phase' \in [Callers -> {"idle", "ready", "running"}]
        /\ outcome' \in [Callers -> Outcomes]
        /\ attempt' = attempt
    BY <1>7 DEF GiveUp
  <2>2. PICK retryable \in BOOLEAN : Fails(c, retryable)
    BY <1>7 DEF GiveUp
  <2> QED BY <1>5, <2>1, <2>2
<1>8. CASE Tick
  BY <1>8 DEF Tick, UpTo
<1>9. CASE Repair
  BY <1>9 DEF Repair
<1>10. CASE UNCHANGED circuitVars
  BY <1>10 DEF circuitVars
<1> QED BY <1>1, <1>2, <1>3, <1>4, <1>6, <1>7, <1>8, <1>9, <1>10 DEF CircuitNext

\* The type invariant: in particular no caller exceeds its retry policy.
THEOREM TypeCorrect == ASSUME LimitsAssumption PROVE CircuitSpec => []CircuitTypeOK
  BY TypeInit, TypeStep, PTL DEF CircuitSpec

-------------------------------------------------------------------------------
(* The clock of the circuit *)

\* While the circuit is not closed, _opened_at is the time of the last failure.
ClockAgrees ==
    /\ state # "CLOSED" => age = quiet
    /\ state = "HALF_OPEN" => age = Recovery

Circuit == CircuitTypeOK /\ ClosedBelowThreshold /\ ClockAgrees

\* Whoever reports it, a failure keeps the circuit consistent.
LEMMA FailureKeepsCircuit ==
    ASSUME LimitsAssumption, Circuit,
           NEW c \in Callers, NEW retryable \in BOOLEAN, Fails(c, retryable)
    PROVE  ClosedBelowThreshold' /\ ClockAgrees'
<1> USE DEF LimitsAssumption, Circuit, CircuitTypeOK, ClosedBelowThreshold, ClockAgrees, CircuitState
<1>1. RecordFailure /\ quiet' = 0
  BY DEF Fails
<1>2. CASE Trips
  <2>1. state' = "OPEN" /\ age' = 0 /\ failures' = UpTo(Threshold, failures + 1)
    BY <1>1, <1>2 DEF RecordFailure
  <2>2. failures' = Threshold
    <3>1. CASE Seen = "HALF_OPEN"
      <4>1. failures = Threshold
        BY <3>1 DEF Seen
      <4> QED BY <2>1, <4>1 DEF UpTo
    <3>2. CASE failures + 1 >= Threshold
      BY <2>1, <3>2 DEF UpTo
    <3> QED BY <1>2, <3>1, <3>2 DEF Trips
  <2> QED BY <1>1, <2>1, <2>2
<1>3. CASE ~Trips
  <2>1. failures + 1 < Threshold /\ state = "CLOSED"
    BY <1>3 DEF Trips, Seen
  <2>2. state' = "CLOSED" /\ failures' = failures + 1
    BY <1>1, <1>3, <2>1 DEF RecordFailure, UpTo, Seen
  <2> QED BY <2>1, <2>2
<1> QED BY <1>2, <1>3

\* Every recorded outcome keeps the state of the circuit and its failure count in step.
LEMMA CircuitStep == ASSUME LimitsAssumption PROVE Circuit /\ [CircuitNext]_circuitVars => Circuit'
<1> SUFFICES ASSUME Circuit, [CircuitNext]_circuitVars PROVE ClosedBelowThreshold' /\ ClockAgrees'
  BY TypeStep DEF Circuit
<1> USE DEF LimitsAssumption, Circuit, CircuitTypeOK, ClosedBelowThreshold, ClockAgrees, CircuitState,
            circuit
<1>1. ASSUME NEW c \in Callers, NEW r \in Strategies, Execute(c, r)
      PROVE  ClosedBelowThreshold' /\ ClockAgrees'
  BY <1>1 DEF Execute
<1>2. ASSUME NEW c \in Callers, Begin(c) PROVE ClosedBelowThreshold' /\ ClockAgrees'
  BY <1>2 DEF Begin, Seen
<1>3. ASSUME NEW c \in Callers, Refuse(c) PROVE ClosedBelowThreshold' /\ ClockAgrees'
  BY <1>3 DEF Refuse
<1>4. ASSUME NEW c \in Callers, Succeed(c) PROVE ClosedBelowThreshold' /\ ClockAgrees'
  BY <1>4 DEF Succeed, RecordSuccess
<1>5. ASSUME NEW c \in Callers, Retry(c) PROVE ClosedBelowThreshold' /\ ClockAgrees'
  BY <1>5, FailureKeepsCircuit DEF Retry
<1>6. ASSUME NEW c \in Callers, GiveUp(c) PROVE ClosedBelowThreshold' /\ ClockAgrees'
  BY <1>6, FailureKeepsCircuit DEF GiveUp
<1>7. CASE Tick
  BY <1>7 DEF Tick, UpTo
<1>8. CASE Repair
  BY <1>8 DEF Repair
<1>9. CASE UNCHANGED circuitVars
  BY <1>9 DEF circuitVars
<1> QED BY <1>1, <1>2, <1>3, <1>4, <1>5, <1>6, <1>7, <1>8, <1>9 DEF CircuitNext

\* The invariant the next two theorems rest on.
LEMMA CircuitAlways == ASSUME LimitsAssumption PROVE CircuitSpec => []Circuit
<1>1. CircuitInit => Circuit
  <2>1. CircuitInit => ClosedBelowThreshold /\ ClockAgrees
    BY DEF LimitsAssumption, CircuitInit, ClosedBelowThreshold, ClockAgrees
  <2> QED BY <2>1, TypeInit DEF Circuit
<1> QED BY <1>1, CircuitStep, PTL DEF CircuitSpec

\* The circuit is closed exactly while fewer failures than the threshold have
\* been recorded in a row, however many calls overlap.
THEOREM OpensAtThreshold == ASSUME LimitsAssumption PROVE CircuitSpec => []ClosedBelowThreshold
<1>1. Circuit => ClosedBelowThreshold
  BY DEF Circuit
<1> QED BY <1>1, CircuitAlways, PTL

\* After the threshold no attempt begins within the recovery time of the last
\* failure, however many calls overlap.
THEOREM BacksOffAfterFailure == ASSUME LimitsAssumption PROVE CircuitSpec => BacksOff
<1> DEFINE Waits == \A c \in Callers :
                       phase[c] = "ready" /\ phase'[c] = "running" /\ failures = Threshold
                          => quiet >= Recovery
<1>1. Circuit /\ [CircuitNext]_circuitVars => [Waits]_circuitVars
  <2> SUFFICES ASSUME Circuit, CircuitNext, NEW c \in Callers, phase[c] = "ready",
                      phase'[c] = "running", failures = Threshold
               PROVE  quiet >= Recovery
    BY DEF circuitVars
  <2> USE DEF Circuit, CircuitTypeOK
  <2>1. Begin(c)
    <3>1. ASSUME NEW d \in Callers, Begin(d) PROVE Begin(c)
      <4>1. d = c
        BY <3>1 DEF Begin
      <4> QED BY <3>1, <4>1
    <3>2. ASSUME NEW d \in Callers, NEW r \in Strategies, Execute(d, r) PROVE FALSE
      BY <3>2 DEF Execute
    <3>3. ASSUME NEW d \in Callers, Refuse(d) \/ Succeed(d) \/ Retry(d) \/ GiveUp(d) PROVE FALSE
      BY <3>3 DEF Refuse, Succeed, Retry, GiveUp
    <3>4. ~Tick /\ ~Repair
      BY DEF Tick, Repair
    <3> QED BY <3>1, <3>2, <3>3, <3>4 DEF CircuitNext
  <2>2. state # "CLOSED" /\ Seen # "OPEN"
    BY <2>1 DEF LimitsAssumption, Begin, Allowed, ClosedBelowThreshold
  <2>3. age = quiet /\ age >= Recovery
    BY <2>2 DEF LimitsAssumption, Seen, ClockAgrees, CircuitState
  <2> QED BY <2>3
<1> QED BY <1>1, CircuitAlways, PTL DEF CircuitSpec, BacksOff

-------------------------------------------------------------------------------
(* Attempts that are under way while the circuit is open *)

\* An attempt that runs while the circuit is open began before it opened.
Elders ==
    /\ Circuit
    /\ state = "OPEN" /\ age < Recovery =>
         \A c \in Callers : phase[c] = "running" /\ elapsed[c] <= Timeout => elapsed[c] >= age

\* No attempt begins while the circuit is open, and all clocks run alike.
LEMMA EldersStep == ASSUME LimitsAssumption PROVE Elders /\ [CircuitNext]_circuitVars => Elders'
<1> DEFINE Older(c) == phase[c] = "running" /\ elapsed[c] <= Timeout => elapsed[c] >= age
<1> SUFFICES ASSUME Elders, [CircuitNext]_circuitVars, state' = "OPEN", age' < Recovery,
                    NEW c \in Callers
             PROVE  Older(c)'
  BY CircuitStep DEF Elders
<1> USE DEF LimitsAssumption, Elders, Circuit, CircuitTypeOK, circuit
<1>1. ASSUME NEW d \in Callers, NEW r \in Strategies, Execute(d, r) PROVE Older(c)'
  BY <1>1 DEF Execute
<1>2. ASSUME NEW d \in Callers, Begin(d) PROVE Older(c)'
  BY <1>2 DEF Begin, Allowed
<1>3. ASSUME NEW d \in Callers, Refuse(d) PROVE Older(c)'
  BY <1>3 DEF Refuse
<1>4. ASSUME NEW d \in Callers, Succeed(d) PROVE Older(c)'
  BY <1>4 DEF Succeed, RecordSuccess
<1>5. ASSUME NEW d \in Callers, NEW retryable \in BOOLEAN, Fails(d, retryable)
      PROVE  elapsed' = elapsed /\ age' = 0
  <2>1. RecordFailure /\ elapsed' = elapsed
    BY <1>5 DEF Fails
  <2>2. CASE Trips
    BY <2>1, <2>2 DEF RecordFailure
  <2>3. CASE ~Trips
    BY <2>1, <2>3 DEF RecordFailure, Trips, Seen, ClosedBelowThreshold
  <2> QED BY <2>1, <2>2, <2>3
<1>6. ASSUME NEW d \in Callers, Retry(d) \/ GiveUp(d) PROVE Older(c)'
  <2>1. elapsed' = elapsed /\ age' = 0
    BY <1>5, <1>6 DEF Retry, GiveUp
  <2> QED BY <2>1
<1>7. CASE Tick
  <2>1. age' = age + 1 /\ phase' = phase /\ state' = state
    BY <1>7 DEF Tick, UpTo
  <2>2. elapsed'[c] = UpTo(Timeout + 1, elapsed[c] + 1)
    BY <1>7 DEF Tick
  <2> QED BY <2>1, <2>2 DEF UpTo
<1>8. CASE Repair
  BY <1>8 DEF Repair
<1>9. CASE UNCHANGED circuitVars
  BY <1>9 DEF circuitVars
<1> QED BY <1>1, <1>2, <1>3, <1>4, <1>6, <1>7, <1>8, <1>9 DEF CircuitNext

\* Before its recovery time an open circuit is closed only by the late success of
\* an attempt that was under way when it opened.
THEOREM OpenUntilRecovered == ASSUME LimitsAssumption PROVE CircuitSpec => OpenServesItsTime
<1> DEFINE Serves == state = "OPEN" /\ state' = "CLOSED" =>
                       \/ age >= Recovery
                       \/ \E c \in Callers :
                             phase[c] = "running" /\ phase'[c] = "idle" /\ elapsed[c] >= age
<1>1. Circuit /\ CircuitInit => Elders
  BY DEF CircuitInit, Elders
<1>2. Elders /\ [CircuitNext]_circuitVars => [Serves]_circuitVars
  <2> SUFFICES ASSUME Elders, CircuitNext, state = "OPEN", state' = "CLOSED", ~(age >= Recovery)
               PROVE  \E c \in Callers :
                        phase[c] = "running" /\ phase'[c] = "idle" /\ elapsed[c] >= age
    BY DEF circuitVars
  <2> USE DEF LimitsAssumption, Elders, Circuit, CircuitTypeOK
  <2>1. ASSUME NEW c \in Callers, Succeed(c)
        PROVE  phase[c] = "running" /\ phase'[c] = "idle" /\ elapsed[c] >= age
    BY <2>1 DEF Succeed
  <2>2. ASSUME NEW c \in Callers, Retry(c) \/ GiveUp(c) PROVE FALSE
    BY <2>2 DEF Retry, GiveUp, Fails, RecordFailure, Seen
  <2>3. ASSUME NEW c \in Callers, Begin(c) PROVE FALSE
    BY <2>3 DEF Begin, Seen
  <2> QED
    BY <2>1, <2>2, <2>3 DEF CircuitNext, Execute, Refuse, Tick, Repair, circuit
<1> QED BY <1>1, <1>2, EldersStep, CircuitAlways, PTL DEF CircuitSpec, OpenServesItsTime
================================================================================
