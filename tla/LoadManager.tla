------------------------------ MODULE LoadManager ------------------------------
(***************************************************************************)
(* The slots that bound how much runs at once (ConcurrencyManager), their  *)
(* partitions (Bulkhead) and the adaptive throttle, from                   *)
(* src/src/platform/runtime/load/manager.py.                               *)
(*                                                                         *)
(* A user of a partition acquires a slot, works and releases it.  An       *)
(* operator may configure a partition at any time: configure() puts a new  *)
(* counter in the place of the old one, whoever holds slots of it.         *)
(* The token bucket is module RateLimiter, the circuit breaker Resilience. *)
(***************************************************************************)
EXTENDS Integers

CONSTANTS
    Partitions,
    DefaultLimit,            \* default_limit
    Limits,                  \* the limits an operator may ask for, 0 among them
    MinLimit, MaxLimit,      \* min_limit and max_limit of the throttle
    FirstLimit,              \* initial limit of the throttle
    MaxHeld                  \* bound of the model: users of one partition

VARIABLES
    slots,      \* _partitions: each a counter with its limit and the slots it counts
    holders,    \* how many users really hold a slot of each partition
    displaced,  \* the holders of each partition when its counter was last replaced
    throttle    \* _limit of the throttle

loadVars == <<slots, holders, displaced, throttle>>

LoadAssumption ==
    /\ DefaultLimit \in Int
    /\ Limits \subseteq Int
    /\ MinLimit \in Nat /\ MaxLimit \in Nat /\ MinLimit <= MaxLimit
    /\ FirstLimit \in MinLimit..MaxLimit

\* ConcurrencyManager(limit).
Counter(limit) == [limit |-> IF limit < 1 THEN 1 ELSE limit, active |-> 0]

LoadTypeOK ==
    /\ slots \in [Partitions -> [limit : Nat \ {0}, active : Nat]]
    /\ holders \in [Partitions -> Nat]
    /\ displaced \in [Partitions -> Nat]
    /\ throttle \in MinLimit..MaxLimit

\* A partition that is used before it is configured gets the default limit.
LoadInit ==
    /\ slots = [p \in Partitions |-> Counter(DefaultLimit)]
    /\ holders = [p \in Partitions |-> 0]
    /\ displaced = [p \in Partitions |-> 0]
    /\ throttle = FirstLimit

--------------------------------------------------------------------------------
(* Bulkhead                                                                    *)

\* acquire() of a full partition raises and changes nothing.
Acquire(p) ==
    /\ holders[p] < MaxHeld
    /\ slots[p].active < slots[p].limit
    /\ slots' = [slots EXCEPT ![p].active = @ + 1]
    /\ holders' = [holders EXCEPT ![p] = @ + 1]
    /\ UNCHANGED <<displaced, throttle>>

\* Mutated form: a slot that is given back is not counted as free.
Remaining_Leaks(active) == IF active > 1 THEN active - 1 ELSE active

\* Mutated form: the count may fall below zero.
Remaining_BelowZero(active) == active - 1

\* The slots that are counted once a holder has let go of one.
Remaining(active) == IF active > 0 THEN active - 1 ELSE 0

Release(p) ==
    /\ holders[p] > 0
    /\ slots' = [slots EXCEPT ![p].active = Remaining(@)]
    /\ holders' = [holders EXCEPT ![p] = @ - 1]
    /\ UNCHANGED <<displaced, throttle>>

Configure(p, limit) ==
    /\ slots' = [slots EXCEPT ![p] = Counter(limit)]
    /\ displaced' = [displaced EXCEPT ![p] = holders[p]]
    /\ UNCHANGED <<holders, throttle>>

--------------------------------------------------------------------------------
(* AdaptiveThrottle                                                            *)

RecordSuccess ==
    /\ throttle' = IF throttle < MaxLimit THEN throttle + 1 ELSE MaxLimit
    /\ UNCHANGED <<slots, holders, displaced>>

RecordError ==
    /\ throttle' = IF throttle \div 2 > MinLimit THEN throttle \div 2 ELSE MinLimit
    /\ UNCHANGED <<slots, holders, displaced>>

LoadNext ==
    \/ \E p \in Partitions : Acquire(p) \/ Release(p)
    \/ \E p \in Partitions, limit \in Limits : Configure(p, limit)
    \/ RecordSuccess
    \/ RecordError

LoadSpec == LoadInit /\ [][LoadNext]_loadVars

--------------------------------------------------------------------------------
(* Properties                                                                  *)

\* No slot leaks: every slot a counter takes for used is held by somebody, so
\* that a partition whose users have all left is empty again, however often it
\* was configured and whoever released first.  And a partition is overfilled by
\* no more than the users whose slots its last configuration forgot.
SlotsAccountedFor ==
    \A p \in Partitions :
        /\ slots[p].active <= holders[p]
        /\ holders[p] <= slots[p].limit + displaced[p]

================================================================================
