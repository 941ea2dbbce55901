------------------------------- MODULE AuditChain -------------------------------
(***************************************************************************)
(* The hash-chained audit log of a tenant with its retention, from         *)
(* src/src/platform/security/audit/service.py and models.py.               *)
(*                                                                         *)
(* An entry's hash covers its sequence number, which no two entries share, *)
(* so that the number stands for the hash.  Nobody tampers with the log in *)
(* this model: only the operations of the service change it.               *)
(***************************************************************************)
EXTENDS Integers, FiniteSets

CONSTANTS
    Types,           \* AuditEventType
    Policies,        \* retention policies: the days entries of each type are kept
    NoPolicy,
    MaxEntries,      \* bound of the model: entries recorded
    MaxAge           \* bound of the model: beyond it age makes no difference

VARIABLES
    log,         \* repo: the entries that are kept
    sequence,    \* _sequence
    policy       \* _retention, or NoPolicy

AuditAssumption == MaxEntries \in Nat /\ MaxAge \in Nat

auditVars == <<log, sequence, policy>>

Entry == [number : 1..MaxEntries, type : Types, prev : 0..MaxEntries, age : 0..MaxAge]

AuditTypeOK ==
    /\ log \subseteq Entry
    /\ sequence \in 0..MaxEntries
    /\ policy \in Policies \cup {NoPolicy}

AuditInit ==
    /\ log = {}
    /\ sequence = 0
    /\ policy = NoPolicy

--------------------------------------------------------------------------------

\* The number of the entry of a set that comes last, or 0 if there is none.
LastOf(entries) ==
    IF entries = {} THEN 0
    ELSE CHOOSE n \in {e.number : e \in entries} : \A e \in entries : e.number <= n

Record(type) ==
    /\ sequence < MaxEntries
    /\ sequence' = sequence + 1
    /\ log' = log \cup {[number |-> sequence + 1, type |-> type, prev |-> LastOf(log), age |-> 0]}
    /\ UNCHANGED policy

SetRetention(p) ==
    /\ policy' = p
    /\ UNCHANGED <<log, sequence>>

\* Every entry is judged by the window of its own type.
ApplyRetention ==
    /\ policy # NoPolicy
    /\ log' = {e \in log : e.age <= policy[e.type]}
    /\ UNCHANGED <<sequence, policy>>

DayPasses ==
    /\ log' = {[e EXCEPT !.age = IF @ < MaxAge THEN @ + 1 ELSE @] : e \in log}
    /\ UNCHANGED <<sequence, policy>>

AuditNext ==
    \/ \E type \in Types : Record(type)
    \/ \E p \in Policies : SetRetention(p)
    \/ ApplyRetention
    \/ DayPasses

AuditSpec == AuditInit /\ [][AuditNext]_auditVars

\* Mutated form: the walk starts at the first entry that is kept.
VerifyChain_FromFirst ==
    \A e \in log : LET before == {d \in log : d.number < e.number} IN
        before # {} => e.prev = LastOf(before)

\* verify_chain(): every entry is linked to the one that is kept before it.
VerifyChain ==
    \A e \in log : e.prev = LastOf({d \in log : d.number < e.number})

--------------------------------------------------------------------------------
(* Properties                                                                  *)

\* The entries that were linked to an entry retention has deleted.
Orphans == {e \in log : e.prev # 0 /\ \A d \in log : d.number # e.prev}

\* verify_chain() answers no exactly when an entry that is kept was linked to
\* one that retention has deleted: gaps at the end of the log and logs that
\* were emptied are mended by the next entry, no others are, and nothing else
\* makes it fail.  (docs/OPERATIONS.md:100 says "A `False` result indicates
\* tampering"; nobody tampers here.)
FailsExactlyAtGaps == VerifyChain <=> Orphans = {}

================================================================================
