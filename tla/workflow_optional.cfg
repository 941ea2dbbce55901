SPECIFICATION Spec
CONSTANTS
    MaxTasks = 3
    MaxExecutions = 4
    Graphs <- MCGraphs
    Policies <- MCPolicies
    MaxAgents = 2
    MaxRuns = 2
    NoCap = "none"
    NoTask = 0
    NoWork = NoWork
    NoOutput = NoOutput
CHECK_DEADLOCK FALSE
INVARIANTS OptionalDoesNotGate
