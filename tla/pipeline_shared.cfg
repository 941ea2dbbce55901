SPECIFICATION Spec
CONSTANTS
    Sessions = {"s", "t"}
    Candidates = {"a", "b"}
    Targets = {"Shortlisted", "Offer"}
    Tags = {"tag"}
    Notes = {"note"}
    NoRecord = NoRecord
    Unreadable = Unreadable
    MaxCalls = 3
CHECK_DEADLOCK FALSE
INVARIANTS HistoriesAreLegal
