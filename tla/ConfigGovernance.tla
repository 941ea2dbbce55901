---------------------------- MODULE ConfigGovernance ----------------------------
(***************************************************************************)
(* Versioned configuration with change requests, from                      *)
(* src/src/platform/security/configuration/service.py.                     *)
(*                                                                         *)
(* A change to a configuration entry is proposed, then approved or         *)
(* rejected; several may be open for one entry at a time.  One tenant: the *)
(* others have entries and changes of their own.                           *)
(***************************************************************************)
EXTENDS Integers, Sequences, SequencesExt

CONSTANTS
    ConfigKeys,
    Values,
    Valid(_, _),         \* the validator of each key
    RequireApproval,     \* the keys of services with require_approval
    MaxRequests,         \* bound of the model: change requests
    MaxVersions          \* bound of the model: versions of an entry

VARIABLES
    entries,     \* the entry of each key, with its versions
    requests     \* changes: the change requests in the order they were made

configVars == <<entries, requests>>

ConfigAssumption == MaxRequests \in Nat

\* A version remembers the request it came from; 0 is none.
Version(value, from) == [value |-> value, from |-> from]
Missing == [status |-> "missing", versions |-> <<>>]

ConfigTypeOK ==
    /\ entries \in [ConfigKeys ->
           [status : {"missing", "active", "pending_approval", "rolled_back"},
            versions : Seq([value : Values, from : 0..MaxRequests])]]
    /\ requests \in Seq([key : ConfigKeys, value : Values,
                         status : {"pending", "applied", "rejected"}])

ConfigInit ==
    /\ entries = [k \in ConfigKeys |-> Missing]
    /\ requests = <<>>

--------------------------------------------------------------------------------

Exists(k) == entries[k] # Missing

\* The entry once it has a further version, which is the current one.
WithVersion(k, value, from, status) ==
    [status |-> status, versions |-> Append(entries[k].versions, Version(value, from))]

HasRoom(k) == Len(entries[k].versions) < MaxVersions

SetInitial(k, v) ==
    /\ ~Exists(k)
    /\ Valid(k, v)
    /\ entries' = [entries EXCEPT ![k] = WithVersion(k, v, 0, "active")]
    /\ UNCHANGED requests

Propose(k, v) ==
    /\ Exists(k)
    /\ Valid(k, v)
    /\ Len(requests) < MaxRequests
    /\ IF k \in RequireApproval
         THEN /\ requests' = Append(requests, [key |-> k, value |-> v, status |-> "pending"])
              /\ entries' = [entries EXCEPT ![k].status = "pending_approval"]
         ELSE /\ HasRoom(k)
              /\ requests' = Append(requests, [key |-> k, value |-> v, status |-> "applied"])
              /\ entries' = [entries EXCEPT ![k] =
                     WithVersion(k, v, Len(requests) + 1, "active")]

\* Mutated form: like reject(), approve() does not ask for the status.
Approvable_Any(c) == c \in DOMAIN requests

\* approve() raises for a request that is not pending.
Approvable(c) == requests[c].status = "pending"

Approve(c) ==
    LET k == requests[c].key IN
    /\ Approvable(c)
    /\ HasRoom(k)
    /\ entries' = [entries EXCEPT ![k] = WithVersion(k, requests[c].value, c, "active")]
    /\ requests' = [requests EXCEPT ![c].status = "applied"]

\* Mutated form: a rejection leaves the entry as it is.
Settled_Untouched(entry) == entry

\* What a rejection makes of the entry.
Settled(entry) == [entry EXCEPT !.status = "active"]

\* reject() takes a request of any status, one that was applied among them.
Reject(c) ==
    /\ entries' = [entries EXCEPT ![requests[c].key] = Settled(@)]
    /\ requests' = [requests EXCEPT ![c].status = "rejected"]

\* The version rolled back to becomes the value of a new version.
Rollback(k, version) ==
    /\ version \in DOMAIN entries[k].versions
    /\ HasRoom(k)
    /\ entries' = [entries EXCEPT ![k] =
           WithVersion(k, entries[k].versions[version].value, 0, "rolled_back")]
    /\ UNCHANGED requests

ConfigNext ==
    \/ \E k \in ConfigKeys, v \in Values : SetInitial(k, v) \/ Propose(k, v)
    \/ \E c \in DOMAIN requests : Approve(c) \/ Reject(c)
    \/ \E k \in ConfigKeys, version \in 1..MaxVersions : Rollback(k, version)

ConfigSpec == ConfigInit /\ [][ConfigNext]_configVars

--------------------------------------------------------------------------------
(* Properties                                                                  *)

\* An entry waits for approval only while one of its requests can still be
\* approved or rejected, in whatever order requests are made, settled, settled
\* again and rolled back around it.  (The converse does not hold: the first
\* request that is settled makes the entry active, others pending or not.)
PendingMeansAwaiting ==
    \A k \in ConfigKeys :
        entries[k].status = "pending_approval" =>
            \E c \in DOMAIN requests : requests[c].key = k /\ requests[c].status = "pending"

\* A request is carried out once at the most, and with the value that was
\* validated when it was made, although requests that were settled can be
\* rejected and the others approved in any order.
CarriedOutOnce ==
    \A k \in ConfigKeys : \A i \in DOMAIN entries[k].versions :
        LET v == entries[k].versions[i] IN
        v.from # 0 =>
            /\ v.from \in DOMAIN requests
            /\ requests[v.from].key = k /\ requests[v.from].value = v.value
            /\ requests[v.from].status # "pending"
            /\ \A j \in DOMAIN entries[k].versions :
                   entries[k].versions[j].from = v.from => j = i

================================================================================
