-------------------------------- MODULE EventBus --------------------------------
(***************************************************************************)
(* The in-process event bus of the integration platform, from              *)
(* src/src/platform/integrations/events/bus.py.                            *)
(*                                                                         *)
(* publish() runs the handlers before it returns, and a handler may itself *)
(* publish, subscribe, unsubscribe or redeliver: the state of the bus is a *)
(* stack of calls, of which the last is the one at work.  subscribe()      *)
(* extends the list that running calls iterate over; unsubscribe() puts a  *)
(* new list in its place, and running calls keep the old one.              *)
(***************************************************************************)
EXTENDS Integers, Sequences, SequencesExt

CONSTANTS
    Subscriber,      \* the subscriber name of each subscription, by its number
    Topics,
    Wanted,          \* the topics that the pattern of each subscription matches
    MaxEvents,       \* bounds of the model: events published,
    MaxDepth,        \* calls within calls,
    MaxRedeliveries  \* and calls of redeliver_dead_letters

VARIABLES
    topics,      \* _log: the topic of each event, by sequence number
    lists,       \* the lists _subscriptions has been, the last being the current one
    dead,        \* _dead_letters: [event, subscriber]
    calls,       \* the stack
    handled,     \* the events each subscription has handled without an exception
    audience,    \* the subscriptions there were when each event was published
    redelivered  \* how often redeliver_dead_letters was called

BusAssumption == MaxEvents \in Nat /\ MaxDepth \in Nat /\ MaxRedeliveries \in Nat

busVars == <<topics, lists, dead, calls, handled, audience, redelivered>>

Subscriptions == DOMAIN Subscriber
Current == lists[Len(lists)]
DeadLetter == [event : 1..MaxEvents, subscriber : ToSet(Subscriber)]

\* A call delivers its first letter to the subscriptions of its list, from "at"
\* on, and "inside" while a handler runs; the other letters are still to come.
\* publish() has one letter, which is addressed to all.
All == "*"
Frame == [letters : Seq(DeadLetter \cup [event : 1..MaxEvents, subscriber : {All}]),
          list : Nat, at : Nat, inside : BOOLEAN, delivered : BOOLEAN]

BusTypeOK ==
    /\ topics \in Seq(Topics)
    /\ lists \in Seq(Seq(Subscriptions))
    /\ dead \in Seq(DeadLetter)
    /\ calls \in Seq(Frame)
    /\ handled \in [Subscriptions -> SUBSET (1..MaxEvents)]
    /\ audience \in Seq(SUBSET Subscriptions)
    /\ redelivered \in 0..MaxRedeliveries

BusInit ==
    /\ topics = <<>>
    /\ lists = <<<<>>>>
    /\ dead = <<>>
    /\ calls = <<>>
    /\ handled = [i \in Subscriptions |-> {}]
    /\ audience = <<>>
    /\ redelivered = 0

--------------------------------------------------------------------------------
(* Calls of the bus, from outside or from a handler                            *)

Depth == Len(calls)
Call  == calls[Depth]
Callable == Depth > 0 => Call.inside

Begin(letters) ==
    calls' = Append(calls, [letters |-> letters, list |-> Len(lists), at |-> 1,
                            inside |-> FALSE, delivered |-> TRUE])

Publish(topic) ==
    /\ Callable /\ Depth < MaxDepth
    /\ Len(topics) < MaxEvents
    /\ topics' = Append(topics, topic)
    /\ audience' = Append(audience, ToSet(Current))
    /\ Begin(<<[event |-> Len(topics) + 1, subscriber |-> All]>>)
    /\ UNCHANGED <<lists, dead, handled, redelivered>>

Redeliver ==
    /\ Callable /\ Depth < MaxDepth
    /\ redelivered < MaxRedeliveries
    /\ dead # <<>>
    /\ redelivered' = redelivered + 1
    /\ dead' = <<>>
    /\ Begin(dead)
    /\ UNCHANGED <<topics, lists, handled, audience>>

Subscribe(i) ==
    /\ Callable
    /\ \A n \in DOMAIN lists : ~Contains(lists[n], i)
    /\ lists' = [lists EXCEPT ![Len(lists)] = Append(@, i)]
    /\ UNCHANGED <<topics, dead, calls, handled, audience, redelivered>>

Unsubscribe(i) ==
    /\ Callable
    /\ \E n \in DOMAIN Current :
        /\ Current[n] = i
        /\ lists' = Append(lists, RemoveAt(Current, n))
    /\ UNCHANGED <<topics, dead, calls, handled, audience, redelivered>>

--------------------------------------------------------------------------------
(* The call at work                                                            *)

Letter == Call.letters[1]
Target == lists[Call.list][Call.at]
AtEnd  == Call.at > Len(lists[Call.list])
Working == Depth > 0 /\ ~Call.inside

\* The subscriptions a letter is delivered to: those of the subscriber's name.
Meant(i, letter) ==
    /\ letter.subscriber \in {All, Subscriber[i]}
    /\ topics[letter.event] \in Wanted[i]

Skip ==
    /\ Working /\ ~AtEnd
    /\ ~Meant(Target, Letter)
    /\ calls' = [calls EXCEPT ![Depth].at = @ + 1]
    /\ UNCHANGED <<topics, lists, dead, handled, audience, redelivered>>

Handle ==
    /\ Working /\ ~AtEnd
    /\ Meant(Target, Letter)
    /\ calls' = [calls EXCEPT ![Depth].inside = TRUE]
    /\ UNCHANGED <<topics, lists, dead, handled, audience, redelivered>>

HandlerReturns ==
    /\ Depth > 0 /\ Call.inside
    /\ handled' = [handled EXCEPT ![Target] = @ \cup {Letter.event}]
    /\ calls' = [calls EXCEPT ![Depth].inside = FALSE, ![Depth].at = @ + 1]
    /\ UNCHANGED <<topics, lists, dead, audience, redelivered>>

\* publish() writes a dead letter at once, a redelivery remembers the failure.
HandlerRaises ==
    /\ Depth > 0 /\ Call.inside
    /\ calls' = [calls EXCEPT ![Depth].inside = FALSE, ![Depth].at = @ + 1,
                              ![Depth].delivered = Letter.subscriber = All]
    /\ dead' = IF Letter.subscriber = All
                 THEN Append(dead, [event |-> Letter.event, subscriber |-> Subscriber[Target]])
                 ELSE dead
    /\ UNCHANGED <<topics, lists, handled, audience, redelivered>>

\* Mutated form: a letter that failed again is forgotten.
Kept_Never(call) == <<>>

\* What goes back to the dead letters when a letter has been to everybody.
Kept(call) == IF call.delivered THEN <<>> ELSE <<call.letters[1]>>

\* The next letter is delivered by the list there is by then.
LetterDone ==
    /\ Working /\ AtEnd
    /\ dead' = dead \o Kept(Call)
    /\ calls' = IF Len(Call.letters) = 1 THEN Front(calls)
                ELSE [calls EXCEPT ![Depth] =
                         [letters |-> Tail(@.letters), list |-> Len(lists), at |-> 1,
                          inside |-> FALSE, delivered |-> TRUE]]
    /\ UNCHANGED <<topics, lists, handled, audience, redelivered>>

BusNext ==
    \/ \E topic \in Topics : Publish(topic)
    \/ Redeliver
    \/ \E i \in Subscriptions : Subscribe(i) \/ Unsubscribe(i)
    \/ Skip \/ Handle \/ HandlerReturns \/ HandlerRaises \/ LetterDone

BusSpec == BusInit /\ [][BusNext]_busVars

--------------------------------------------------------------------------------
(* Properties                                                                  *)

\* A call has the letter still before it, or will put it back.
UnderWay(i, e) ==
    \E d \in DOMAIN calls : \E n \in DOMAIN calls[d].letters :
        LET c == calls[d] IN
        /\ c.letters[n].event = e
        /\ c.letters[n].subscriber \in {All, Subscriber[i]}
        /\ n = 1 => \/ ~c.delivered
                    \/ \E p \in c.at..Len(lists[c.list]) : lists[c.list][p] = i

\* No event is lost: every subscription that was there when an event it wants
\* was published, and still is, has handled it, is going to be called, or finds
\* it among the dead letters, whatever handlers publish, subscribe, unsubscribe
\* and redeliver in the middle of a delivery.
NothingLost ==
    \A e \in DOMAIN topics : \A i \in audience[e] :
        (Contains(Current, i) /\ topics[e] \in Wanted[i]) =>
            \/ e \in handled[i]
            \/ UnderWay(i, e)
            \/ Contains(dead, [event |-> e, subscriber |-> Subscriber[i]])

================================================================================
