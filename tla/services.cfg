SPECIFICATION Spec
CONSTANTS
    Partitions = {"a", "b"}
    DefaultLimit = 2
    Limits = {0, 1, 2}
    MinLimit = 1
    MaxLimit = 3
    FirstLimit = 2
    MaxHeld = 4
    Keys = {"k"}
    Rate = 2
    Window = 3
    Costs = {1, 2}
    MaxSeconds = 4
    MaxSetBack = 2
    CacheKeys = {"x"}
    Readers = {"p", "q", "r"}
    TimeToLive = 2
    MaxChanges = 3
    Names = {"cleanup", "health"}
    Interval <- MCInterval
    Flaky = {"health"}
    Switched = {"cleanup"}
    Tickers = {"scheduler", "dashboard"}
    MaxLag = 1
    ConfigKeys = {"free", "checked"}
    Values = {1, 2}
    Valid <- MCValid
    RequireApproval = {"free"}
    MaxRequests = 3
    MaxVersions = 3
    Types = {"short", "long"}
    Policies <- MCPolicies
    NoPolicy = NoPolicy
    MaxEntries = 4
    MaxAge = 2
    Accounts = {"u"}
    Nobody = "nobody"
    Passwords = {1, 2, 3}
    FirstPassword = 1
    DefaultTTL = 1
    RememberTTL = 2
    RefreshTTL = 2
    RecoveryTTL = 1
    HistorySize = 1
    MaxPairs = 3
    MaxRecoveries = 1
    MaxCredentials = 2
    MaxNow = 2
    Subscriber <- MCSubscriber
    Topics = {"t", "u"}
    Wanted <- MCWanted
    MaxEvents = 2
    MaxDepth = 2
    MaxRedeliveries = 1
    Bodies = {"b", "c"}
    MaxRetries = 1
    Tolerance = 1
    MaxDeliveries = 2
    MaxCalls = 3
    MaxClock = 3
    Callers = {"dashboard", "scheduler"}
    Records = 2
    MaxAttempts = 2
    MaxRuns = 3
    Installations = {"ats", "hris"}
    MaxRefs = 3
CHECK_DEADLOCK FALSE
INVARIANTS TypeOK SlotsAccountedFor RateHeld PendingMeansAwaiting CarriedOutOnce FailsExactlyAtGaps OneWayIn NoneOutlivesItsPassword NothingLost DeliveredOnce CredentialsAccounted
PROPERTIES EventuallyFresh DueTasksRun EndedForGood FailedJobsRecover
