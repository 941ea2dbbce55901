SPECIFICATION PoolSpec
CONSTANTS
    MaxWorkers = 2
    Dispatchers = {"d1"}
    Jobs = {"a", "b"}
    NoJob = "none"
CHECK_DEADLOCK FALSE
PROPERTIES DrainedTakesNoWork
