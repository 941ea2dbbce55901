-------------------------------- MODULE Services --------------------------------
(***************************************************************************)
(* The small services of a deployment beside the runtime: slots and        *)
(* throttle, rate limiter, cache, maintenance, configuration, audit log    *)
(* and sessions, and those of the integration platform: event bus,         *)
(* webhooks, synchronisation and installed integrations.  They share no    *)
(* state and do not call one another, so a behaviour of all of them shows  *)
(* nothing that the behaviours of each alone do not: one is chosen, which  *)
(* moves, and the others stand still.                                      *)
(***************************************************************************)
EXTENDS Integers, Sequences, FiniteSets

CONSTANTS
    Partitions, DefaultLimit, Limits, MinLimit, MaxLimit, FirstLimit, MaxHeld,
    Keys, Rate, Window, Costs, MaxSeconds, MaxSetBack,
    CacheKeys, Readers, TimeToLive, MaxChanges,
    Names, Interval, Flaky, Switched, Tickers, MaxLag,
    ConfigKeys, Values, Valid(_, _), RequireApproval, MaxRequests, MaxVersions,
    Types, Policies, NoPolicy, MaxEntries, MaxAge,
    Accounts, Nobody, Passwords, FirstPassword, DefaultTTL, RememberTTL, RefreshTTL,
    RecoveryTTL, HistorySize, MaxPairs, MaxRecoveries, MaxCredentials, MaxNow,
    Subscriber, Topics, Wanted, MaxEvents, MaxDepth, MaxRedeliveries,
    Bodies, MaxRetries, Tolerance, MaxDeliveries, MaxCalls, MaxClock,
    Callers, Records, MaxAttempts, MaxRuns,
    Installations, MaxRefs

VARIABLES
    chosen,                                                  \* the service that moves
    slots, holders, displaced, throttle,                     \* LoadManager
    buckets, clock, seconds, spent,                          \* RateLimiter
    store, source, outdated, reader,                         \* CacheAside
    order, removed, disabled, age, tick,                            \* Maintenance
    entries, requests,                                       \* ConfigGovernance
    log, sequence, policy,                                   \* AuditChain
    now, password, epoch, minted, session, refresh, recovery,\* Sessions
    topics, lists, dead, calls, handled, audience, redelivered,             \* EventBus
    time, deliveries, sending, signings, called, sent, seen, receipts,      \* Webhooks
    state, attempts, cursor, moved, running, runs, excused,  \* SyncJobs
    installed, vault, issued, abandoned                      \* Integrations

Load     == INSTANCE LoadManager
Limiter  == INSTANCE RateLimiter
Cache    == INSTANCE CacheAside
Tasks    == INSTANCE Maintenance
Config   == INSTANCE ConfigGovernance
Audit    == INSTANCE AuditChain
Auth     == INSTANCE Sessions
Bus      == INSTANCE EventBus
Hooks    == INSTANCE Webhooks
Sync     == INSTANCE SyncJobs
Intg     == INSTANCE Integrations

ASSUME ServicesAssumption ==
    /\ Load!LoadAssumption /\ Limiter!RateAssumption
    /\ Cache!CacheAssumption /\ Tasks!TaskAssumption
    /\ Config!ConfigAssumption /\ Audit!AuditAssumption /\ Auth!AuthAssumption
    /\ Bus!BusAssumption /\ Hooks!HookAssumption
    /\ Sync!SyncAssumption /\ Intg!IntgAssumption

loadVars   == <<slots, holders, displaced, throttle>>
rateVars   == <<buckets, clock, seconds, spent>>
cacheVars  == <<store, source, outdated, reader>>
taskVars   == <<order, removed, disabled, age, tick>>
configVars == <<entries, requests>>
auditVars  == <<log, sequence, policy>>
authVars   == <<now, password, epoch, minted, session, refresh, recovery>>
busVars    == <<topics, lists, dead, calls, handled, audience, redelivered>>
hookVars   == <<time, deliveries, sending, signings, called, sent, seen, receipts>>
syncVars   == <<state, attempts, cursor, moved, running, runs, excused>>
intgVars   == <<installed, vault, issued, abandoned>>
vars == <<chosen, loadVars, rateVars, cacheVars, taskVars, configVars, auditVars, authVars,
          busVars, hookVars, syncVars, intgVars>>

Init ==
    /\ chosen \in {"load", "rate", "cache", "tasks", "config", "audit", "auth",
                  "bus", "hooks", "sync", "integrations"}
    /\ Load!LoadInit /\ Limiter!RateInit /\ Cache!CacheInit /\ Tasks!TaskInit
    /\ Config!ConfigInit /\ Audit!AuditInit /\ Auth!AuthInit
    /\ Bus!BusInit /\ Hooks!HookInit /\ Sync!SyncInit /\ Intg!IntgInit

TypeOK ==
    /\ Load!LoadTypeOK /\ Limiter!RateTypeOK /\ Cache!CacheTypeOK /\ Tasks!TaskTypeOK
    /\ Config!ConfigTypeOK /\ Audit!AuditTypeOK /\ Auth!AuthTypeOK
    /\ Bus!BusTypeOK /\ Hooks!HookTypeOK /\ Sync!SyncTypeOK /\ Intg!IntgTypeOK

Next ==
    /\ UNCHANGED chosen
    /\ IF chosen = "load"   THEN Load!LoadNext     ELSE UNCHANGED loadVars
    /\ IF chosen = "rate"   THEN Limiter!RateNext  ELSE UNCHANGED rateVars
    /\ IF chosen = "cache"  THEN Cache!CacheNext   ELSE UNCHANGED cacheVars
    /\ IF chosen = "tasks"  THEN Tasks!TaskNext    ELSE UNCHANGED taskVars
    /\ IF chosen = "config" THEN Config!ConfigNext ELSE UNCHANGED configVars
    /\ IF chosen = "audit"  THEN Audit!AuditNext   ELSE UNCHANGED auditVars
    /\ IF chosen = "auth"   THEN Auth!AuthNext     ELSE UNCHANGED authVars
    /\ IF chosen = "bus"    THEN Bus!BusNext       ELSE UNCHANGED busVars
    /\ IF chosen = "hooks"  THEN Hooks!HookNext    ELSE UNCHANGED hookVars
    /\ IF chosen = "sync"   THEN Sync!SyncNext     ELSE UNCHANGED syncVars
    /\ IF chosen = "integrations" THEN Intg!IntgNext ELSE UNCHANGED intgVars

\* The fairness that the modules state, of the service that was chosen.
Fairness ==
    /\ WF_cacheVars(chosen = "cache" /\ Cache!TimePasses)
    /\ \A t \in Tickers :
        /\ WF_taskVars(chosen = "tasks" /\ Tasks!BeginTick(t))
        /\ WF_taskVars(chosen = "tasks" /\ Tasks!Tick(t))
    /\ WF_syncVars(chosen = "sync" /\ \E c \in Callers : Sync!Recover(c))
    /\ \A c \in Callers :
        /\ WF_syncVars(chosen = "sync" /\ Sync!RunnerReturns(c))
        /\ SF_syncVars(chosen = "sync" /\ Sync!Succeeds(c))

Spec == Init /\ [][Next]_vars /\ Fairness

--------------------------------------------------------------------------------
(* Properties, as the modules state them                                       *)

\* No slot leaks, and only a reconfiguration overfills a partition.
SlotsAccountedFor == Load!SlotsAccountedFor

\* No key is allowed more than its bucket and the time that has passed.
RateHeld == Limiter!RateHeld

\* The cache comes to rest with the sources.
EventuallyFresh == chosen = "cache" => Cache!EventuallyFresh

\* A task that is due is run.
DueTasksRun == chosen = "tasks" => Tasks!DueTasksRun

\* An entry waits for approval only while a request of it does.
PendingMeansAwaiting == Config!PendingMeansAwaiting

\* A change request is carried out once at the most.
CarriedOutOnce == Config!CarriedOutOnce

\* verify_chain() fails exactly where retention cut the chain.
FailsExactlyAtGaps == Audit!FailsExactlyAtGaps

\* One refresh token prolongs an active session, none a revoked one.
OneWayIn == Auth!OneWayIn

\* No usable session is older than its user's password.
NoneOutlivesItsPassword == Auth!NoneOutlivesItsPassword

\* Sessions that were seen to have ended stay so.
EndedForGood == Auth!EndedForGood

\* Every event reaches its subscriptions or the dead letters.
NothingLost == Bus!NothingLost

\* What is delivered was accepted, and nothing was accepted twice.
DeliveredOnce == Hooks!DeliveredOnce

\* A job that failed is recovered.
FailedJobsRecover == chosen = "sync" => Sync!FailedJobsRecover

\* The vault holds the credentials of the installed integrations.
CredentialsAccounted == Intg!CredentialsAccounted

================================================================================
