------------------------------- MODULE CacheAside -------------------------------
(***************************************************************************)
(* A cache namespace and what it caches: CacheNamespace.get_or_set() over  *)
(* the in-memory provider, from src/src/platform/runtime/cache/manager.py  *)
(* and providers.py.                                                       *)
(*                                                                         *)
(* Readers call get_or_set(): they look, and on a miss compute the value   *)
(* and store it, three steps with nothing around them.  A writer changes   *)
(* the source of a value and then invalidates its key.  A value is stored  *)
(* with a time to live, after which it is dropped when it is next read, or *)
(* without one, the default, and then never expires.  A value is the       *)
(* number of the change it was computed from.  Namespaces and tenants only *)
(* prefix the keys.                                                        *)
(***************************************************************************)
EXTENDS Integers

CONSTANTS
    CacheKeys,
    Readers,
    TimeToLive,      \* ttl_seconds, where a caller gives one
    MaxChanges       \* bound of the model: changes of one source

VARIABLES
    store,       \* _store: the value and the time left of each key, or Absent
    source,      \* the latest change of what each key is computed from
    outdated,    \* keys whose source was changed and that are yet to be invalidated
    reader       \* the get_or_set() call of each reader

CacheAssumption == TimeToLive \in Nat /\ MaxChanges \in Nat

cacheVars == <<store, source, outdated, reader>>

\* What is left to an entry that was stored without ttl_seconds.
Forever == -1

Absent  == [value |-> -1, left |-> 0]
Changes == 0..MaxChanges

\* "look", "compute" and "store" are the steps of get_or_set() still to come.
Calls == [at : {"look"}] \cup [at : {"compute"}, key : CacheKeys]
            \cup [at : {"store"}, key : CacheKeys, value : Changes]

CacheTypeOK ==
    /\ store \in [CacheKeys -> [value : Changes, left : 0..TimeToLive \cup {Forever}] \cup {Absent}]
    /\ source \in [CacheKeys -> Changes]
    /\ outdated \subseteq CacheKeys
    /\ reader \in [Readers -> Calls]

CacheInit ==
    /\ store = [k \in CacheKeys |-> Absent]
    /\ source = [k \in CacheKeys |-> 0]
    /\ outdated = {}
    /\ reader = [r \in Readers |-> [at |-> "look"]]

--------------------------------------------------------------------------------
(* Readers                                                                     *)

\* Mutated form: get() returns an entry whatever its time to live.
Live_ForEver(entry) == entry # Absent

\* What get() returns: an entry that is there and has not expired.
Live(entry) == entry # Absent /\ entry.left # 0

\* get() drops an entry that it finds expired.  A hit changes nothing.
Miss(r, k) ==
    /\ reader[r].at = "look"
    /\ ~Live(store[k])
    /\ store' = [store EXCEPT ![k] = Absent]
    /\ reader' = [reader EXCEPT ![r] = [at |-> "compute", key |-> k]]
    /\ UNCHANGED <<source, outdated>>

\* factory()
Compute(r) ==
    /\ reader[r].at = "compute"
    /\ reader' = [reader EXCEPT ![r] =
           [at |-> "store", key |-> @.key, value |-> source[@.key]]]
    /\ UNCHANGED <<store, source, outdated>>

Store(r) ==
    /\ reader[r].at = "store"
    /\ \E ttl \in {TimeToLive, Forever} :
          store' = [store EXCEPT ![reader[r].key] = [value |-> reader[r].value, left |-> ttl]]
    /\ reader' = [reader EXCEPT ![r] = [at |-> "look"]]
    /\ UNCHANGED <<source, outdated>>

--------------------------------------------------------------------------------
(* Writers, invalidation, time                                                 *)

ChangeSource(k) ==
    /\ source[k] < MaxChanges
    /\ source' = [source EXCEPT ![k] = @ + 1]
    /\ outdated' = outdated \cup {k}
    /\ UNCHANGED <<store, reader>>

\* delete(), invalidate_for()
Invalidate(k) ==
    /\ k \in outdated
    /\ store' = [store EXCEPT ![k] = Absent]
    /\ outdated' = outdated \ {k}
    /\ UNCHANGED <<source, reader>>

\* invalidate_all()
Clear ==
    /\ store' = [k \in CacheKeys |-> Absent]
    /\ UNCHANGED <<source, outdated, reader>>

\* Time brings the entries that have an end nearer to it.
TimePasses ==
    /\ \E k \in CacheKeys : store[k].left > 0
    /\ store' = [k \in CacheKeys |->
           [store[k] EXCEPT !.left = IF @ > 0 THEN @ - 1 ELSE @]]
    /\ UNCHANGED <<source, outdated, reader>>

CacheNext ==
    \/ \E r \in Readers : (\E k \in CacheKeys : Miss(r, k)) \/ Compute(r) \/ Store(r)
    \/ \E k \in CacheKeys : ChangeSource(k) \/ Invalidate(k)
    \/ Clear
    \/ TimePasses

CacheSpec == CacheInit /\ [][CacheNext]_cacheVars

\* Time passes, whatever the readers and writers do or leave undone.
CacheFairness == WF_cacheVars(TimePasses)

--------------------------------------------------------------------------------
(* Properties                                                                  *)

\* A read of the key would be answered with a value that is out of date.
Misleading(k) == Live(store[k]) /\ store[k].value # source[k]

\* A value that a reader computed before a change may be stored after the
\* invalidation that the change brought, and may be stored again by the next
\* reader that was late; but once the sources have come to rest, what is still
\* answered with a value that is out of date was stored without a time to live:
\* every other key is fresh in the end, even if a writer never invalidates or a
\* reader never stores.  A late value without a time to live is served until
\* the next invalidation of its key.
EventuallyFresh ==
    <>[](\A k \in CacheKeys : Misleading(k) => store[k].left = Forever)

================================================================================
