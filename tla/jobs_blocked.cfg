SPECIFICATION MCSpec
CONSTANTS
    Tenants = {"acme", "globex"}
    NoTenant = "none"
    Workers = {"any", "acme"}
    Serves <- AnyServes
    Priorities = {10, 20}
    MaxAttempts = {2}
    Capacity = 2
    MaxJobs = 3
CHECK_DEADLOCK FALSE
INVARIANTS BlockedIsWaiting
