SPECIFICATION MCSpec
CONSTANTS
    MaxWorkers = 2
    Dispatchers = {"d1", "d2"}
    Jobs = {"a", "b"}
    NoJob = "none"
    Callers = {"a", "b"}
    MaxAttempts = 2
    Threshold = 2
    Recovery = 2
    Timeout = 1
    Sessions = {"s"}
    Candidates = {"a", "b"}
    Targets = {"Shortlisted", "Offer", "Hold"}
    Tags = {"tag"}
    Notes = {"note"}
    NoRecord = NoRecord
    Unreadable = Unreadable
    MaxCalls = 4
CHECK_DEADLOCK FALSE
INVARIANTS BeliefMatchesWork ClosedBelowThreshold FileIsReadable
PROPERTIES StoppedForGood FleetComesBack BacksOff OpenServesItsTime CircuitRecovers ImplementsFunnel
