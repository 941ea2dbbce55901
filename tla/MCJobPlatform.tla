----------------------------- MODULE MCJobPlatform -----------------------------
(* Two small instances of JobPlatform, of which a behaviour shows one: the two *)
(* executors and one tenant, with a queue that overflows, and the two tenants  *)
(* and one executor, which serves acme only, with room for every job.          *)
(* Executor "any" claims for every tenant, executor "acme" for acme only.      *)
EXTENDS JobPlatform

VARIABLE scene

AnyServes == [w \in Workers |-> IF w = "any" THEN NoTenant ELSE w]

Executors == INSTANCE JobPlatform WITH Tenants <- {"acme"}
TwoTenants == INSTANCE JobPlatform WITH
    Workers <- {"acme"}, Serves <- [w \in {"acme"} |-> "acme"], Capacity <- MaxJobs

MCInit == scene \in {"executors", "tenants"} /\ Init

MCNext ==
    /\ UNCHANGED scene
    /\ IF scene = "executors" THEN Executors!Next ELSE TwoTenants!Next

MCSpec ==
    /\ MCInit
    /\ [][MCNext]_<<vars, scene>>
    /\ WF_vars(scene = "tenants" /\ TwoTenants!Claim("acme"))
    /\ \A j \in Jobs :
        WF_vars(scene = "tenants" /\ (TwoTenants!Complete("acme", j) \/ TwoTenants!Fail("acme", j)))

\* A queued job of the tenant that the executor serves is eventually finished,
\* whatever the other tenant queues at whatever priority.
TenantsJobsSettle == scene = "tenants" => TwoTenants!QueuedJobsSettle
================================================================================
