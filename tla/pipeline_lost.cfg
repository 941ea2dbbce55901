SPECIFICATION Spec
CONSTANTS
    Sessions = {"s", "t"}
    Candidates = {"a", "b"}
    Targets = {"Shortlisted"}
    Tags = {"tag"}
    Notes = {"note"}
    NoRecord = NoRecord
    Unreadable = Unreadable
    MaxCalls = 2
CHECK_DEADLOCK FALSE
PROPERTIES HistoriesOnlyGrow
