------------------------------ MODULE RateLimiter ------------------------------
(***************************************************************************)
(* The token bucket of src/src/platform/api/ratelimit.py, which the load   *)
(* manager (RateControl) and the execution engine use.                     *)
(*                                                                         *)
(* A bucket refills by what the wall clock says has elapsed since it was   *)
(* last looked at, and a wall clock is sometimes set back.  The source     *)
(* counts tokens in fractions of which a whole bucket comes back in 60     *)
(* seconds; here a token is Window units, and every second of the clock    *)
(* is worth Rate units: the same arithmetic in whole numbers.              *)
(***************************************************************************)
EXTENDS Integers

CONSTANTS
    Keys,        \* the keys callers are limited by
    Rate,        \* requests_per_minute
    Window,      \* the seconds in which an empty bucket is full again (60)
    Costs,       \* the costs callers ask for
    MaxSeconds,  \* bound of the model: the time that passes
    MaxSetBack   \* bound of the model: how far the clock is set back

VARIABLES
    buckets,     \* _buckets: [tokens, last] of each key, or none yet
    clock,       \* what the wall clock shows
    seconds,     \* the time that has really passed
    spent        \* what each key was allowed so far, and since when: [units, since]

rateVars == <<buckets, clock, seconds, spent>>

RateAssumption ==
    /\ Rate \in Nat \ {0}
    /\ Window \in Nat \ {0}
    /\ Costs \subseteq Nat

Capacity == Rate * Window
Buckets  == [tokens : 0..Capacity, last : Int]
None     == [tokens |-> -1, last |-> 0]

RateTypeOK ==
    /\ buckets \in [Keys -> Buckets \cup {None}]
    /\ clock \in Int
    /\ seconds \in Nat
    /\ spent \in [Keys -> [units : Nat, since : Nat]]

RateInit ==
    /\ buckets = [k \in Keys |-> None]
    /\ clock = 0
    /\ seconds = 0
    /\ spent = [k \in Keys |-> [units |-> 0, since |-> 0]]

--------------------------------------------------------------------------------

\* The bucket check() starts from: a key that is new has a full one.
Bucket(k) == IF buckets[k] = None THEN [tokens |-> Capacity, last |-> clock]
                                  ELSE buckets[k]

\* What the time since the last look is worth: nothing if the clock went back.
Gained(b) == IF clock > b.last THEN (clock - b.last) * Rate ELSE 0

AtMost(units) == IF units > Capacity THEN Capacity ELSE units

\* Mutated form: the distance between the two looks, whichever way the clock went.
Refilled_AnyWay(b) ==
    AtMost(b.tokens + (IF clock > b.last THEN clock - b.last ELSE b.last - clock) * Rate)

\* The tokens after the refill.
Refilled(b) == AtMost(b.tokens + Gained(b))

Left(k, cost) == Refilled(Bucket(k)) - cost * Window

\* check(): the time of the look is stored whether it was allowed or not.
Check(k, cost) ==
    LET allowed == Left(k, cost) >= 0 IN
    /\ buckets' = [buckets EXCEPT ![k] =
           [tokens |-> IF allowed THEN Left(k, cost) ELSE Refilled(Bucket(k)),
            last |-> clock]]
    /\ spent' = [spent EXCEPT ![k] =
           [units |-> @.units + (IF allowed THEN cost * Window ELSE 0),
            since |-> IF buckets[k] = None THEN seconds ELSE @.since]]
    /\ UNCHANGED <<clock, seconds>>

SecondPasses ==
    /\ seconds < MaxSeconds
    /\ seconds' = seconds + 1
    /\ clock' = clock + 1
    /\ UNCHANGED <<buckets, spent>>

ClockSetBack ==
    /\ clock > -MaxSetBack
    /\ clock' = clock - 1
    /\ UNCHANGED <<buckets, seconds, spent>>

RateNext ==
    \/ \E k \in Keys, cost \in Costs : Check(k, cost)
    \/ SecondPasses
    \/ ClockSetBack

RateSpec == RateInit /\ [][RateNext]_rateVars

--------------------------------------------------------------------------------
(* Properties                                                                  *)

\* Since its first request a key was never allowed more than one full bucket and
\* what the time that really passed is worth, however the clock was set back
\* and however the requests fell around it.
RateHeld ==
    \A k \in Keys :
        spent[k].units <= Capacity + (seconds - spent[k].since) * Rate

================================================================================
