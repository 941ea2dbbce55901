SPECIFICATION FairSpec
CONSTANTS
    Tenant = "acme"
    NoTenant = "none"
    Priorities = {10}
    MaxAttempts = {2}
    Capacity = 1
    MaxJobs = 2
    MaxWorkers = 2
    NoJob = 0
    Frail = {1}
INVARIANTS ManagersAgree RunningMeansHeld
PROPERTIES JobsSettle
