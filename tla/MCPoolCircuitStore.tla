--------------------------- MODULE MCPoolCircuitStore ---------------------------
(* Small instances of WorkerPool, Resilience and PipelineStore, three parts      *)
(* that share no state: a behaviour shows one of them, and the others stand      *)
(* still.                                                                        *)
EXTENDS WorkerPool, Resilience, PipelineStore

VARIABLE chosen     \* the part that moves

ASSUME InstanceAssumption == PoolAssumption /\ LimitsAssumption

MCInit ==
    /\ chosen \in {"pool", "circuit", "store"}
    /\ PoolInit /\ CircuitInit /\ Init

MCNext ==
    /\ UNCHANGED chosen
    /\ IF chosen = "pool"    THEN PoolNext    ELSE UNCHANGED poolVars
    /\ IF chosen = "circuit" THEN CircuitNext ELSE UNCHANGED circuitVars
    /\ IF chosen = "store"   THEN Next        ELSE UNCHANGED vars

\* The fairness that the modules state, of the part that was chosen.
MCFairness ==
    /\ \A w \in Workers :
        /\ WF_poolVars(chosen = "pool" /\ Heartbeat(w))
        /\ \A j \in Jobs : WF_poolVars(chosen = "pool" /\ Finish(w, j))
    /\ WF_circuitVars(chosen = "circuit" /\ Tick)
    /\ \A c \in Callers :
        /\ WF_circuitVars(chosen = "circuit" /\ Attempt(c))
        /\ WF_circuitVars(chosen = "circuit" /\ Conclude(c))
        /\ WF_circuitVars(chosen = "circuit" /\ \E r \in Strategies : Execute(c, r))

MCSpec == MCInit /\ [][MCNext]_<<chosen, poolVars, circuitVars, vars>> /\ MCFairness
================================================================================
