-------------------------------- MODULE Webhooks --------------------------------
(***************************************************************************)
(* Webhooks from the service that sends them to one that receives them,    *)
(* both src/src/platform/integrations/webhooks/service.py with signing.py, *)
(* over a network that may lose a request or its answer and may deliver a  *)
(* request again at any later time.                                        *)
(*                                                                         *)
(* A signature is what it is computed from: the second of its time stamp   *)
(* and the body.  Sender and receiver share a secret and a clock.  The     *)
(* sender is inside one call of dispatch() or retry() at a time, which     *)
(* takes its time: every attempt waits for the transport.                  *)
(***************************************************************************)
EXTENDS Integers

CONSTANTS
    Bodies,          \* the payloads of events
    MaxRetries,      \* max_retries of the subscription
    Tolerance,       \* tolerance_seconds of the signer
    MaxDeliveries,   \* bounds of the model: deliveries,
    MaxCalls,        \* calls of dispatch() and retry(),
    MaxClock         \* and seconds

VARIABLES
    time,
    deliveries,  \* deliveries_repo: [body, status] by number
    sending,     \* the call of the sender: [delivery, signature, left], or Idle
    signings,    \* the signatures that were made for each delivery
    called,      \* how often dispatch() and retry() were called
    sent,        \* requests that were sent, and may be delivered again
    seen,        \* _seen of the receiver's signer
    receipts     \* receipts_repo of the receiver: how often each signature was accepted

hookVars == <<time, deliveries, sending, signings, called, sent, seen, receipts>>

HookAssumption ==
    /\ MaxRetries \in Nat
    /\ MaxCalls \in Nat
    /\ MaxClock \in Nat

Ids        == 1..MaxDeliveries
Signatures == [stamp : 0..MaxClock, body : Bodies]
Idle       == [delivery |-> 0, left |-> 0]
Unused     == [body |-> "none", status |-> "none"]

HookTypeOK ==
    /\ time \in 0..MaxClock
    /\ deliveries \in [Ids -> {Unused} \cup
           [body : Bodies, status : {"pending", "delivered", "failed", "dead_lettered"}]]
    /\ sending \in {Idle} \cup [delivery : Ids, signature : Signatures, left : 0..MaxRetries + 1]
    /\ signings \in [Ids -> SUBSET Signatures]
    /\ called \in 0..MaxCalls
    /\ sent \subseteq Signatures /\ seen \subseteq Signatures
    /\ receipts \in [Signatures -> Nat]

HookInit ==
    /\ time = 0
    /\ deliveries = [d \in Ids |-> Unused]
    /\ sending = Idle
    /\ signings = [d \in Ids |-> {}]
    /\ called = 0
    /\ sent = {} /\ seen = {}
    /\ receipts = [s \in Signatures |-> 0]

--------------------------------------------------------------------------------
(* The receiver                                                                *)

\* verify(): fresh enough, and not accepted before.
Fresh(s) == time - s.stamp <= Tolerance
Accepts(s) == Fresh(s) /\ s \notin seen

\* Mutated form: the signature is looked up but not noted.
Noted_Not(s) == seen

\* The signatures that are noted once this one was accepted.
Noted(s) == seen \cup {s}

\* receive() raises, or records a receipt.
Receive(s) ==
    IF Accepts(s)
      THEN /\ seen' = Noted(s)
           /\ receipts' = [receipts EXCEPT ![s] = @ + 1]
      ELSE UNCHANGED <<seen, receipts>>

\* The network delivers once more what was sent before; nobody waits for an answer.
DeliveredAgain(s) ==
    /\ s \in sent
    /\ Receive(s)
    /\ UNCHANGED <<time, deliveries, sending, signings, called, sent>>

--------------------------------------------------------------------------------
(* The sender                                                                  *)

Sign(body) == [stamp |-> time, body |-> body]

\* A call signs the body and starts its attempts.
Start(d, body) ==
    /\ sending = Idle
    /\ called < MaxCalls
    /\ called' = called + 1
    /\ sending' = [delivery |-> d, signature |-> Sign(body), left |-> MaxRetries + 1]
    /\ signings' = [signings EXCEPT ![d] = @ \cup {Sign(body)}]

\* dispatch() to a subscription that wants the event.
Dispatch(body) ==
    \E d \in Ids :
        /\ deliveries[d] = Unused
        /\ \A e \in Ids : e < d => deliveries[e] # Unused
        /\ deliveries' = [deliveries EXCEPT ![d] = [body |-> body, status |-> "pending"]]
        /\ Start(d, body)
        /\ UNCHANGED <<time, sent, seen, receipts>>

\* retry() of a delivery, whatever its status.
Retry(d) ==
    /\ deliveries[d] # Unused
    /\ Start(d, deliveries[d].body)
    /\ UNCHANGED <<time, deliveries, sent, seen, receipts>>

Sending == sending # Idle

SetStatus(status) ==
    deliveries' = [deliveries EXCEPT ![sending.delivery].status = status]

\* The transport says that the request was accepted.
AttemptSucceeds ==
    /\ Sending /\ sending.left > 0
    /\ Accepts(sending.signature)
    /\ Receive(sending.signature)
    /\ sent' = sent \cup {sending.signature}
    /\ SetStatus("delivered")
    /\ sending' = Idle
    /\ UNCHANGED <<time, signings, called>>

\* What the sender takes a failed attempt for.
Failed == /\ SetStatus(IF sending.left = 1 THEN "dead_lettered" ELSE "failed")
          /\ sending' = IF sending.left = 1 THEN Idle ELSE [sending EXCEPT !.left = @ - 1]

\* The receiver refuses it; or the request is lost.
AttemptFails ==
    /\ Sending /\ sending.left > 0
    /\ \/ ~Accepts(sending.signature) /\ sent' = sent \cup {sending.signature}
       \/ sent' \in {sent, sent \cup {sending.signature}}
    /\ Failed
    /\ UNCHANGED <<time, signings, called, seen, receipts>>

\* The receiver accepts it and the answer is lost.
AnswerLost ==
    /\ Sending /\ sending.left > 0
    /\ Accepts(sending.signature)
    /\ Receive(sending.signature)
    /\ sent' = sent \cup {sending.signature}
    /\ Failed
    /\ UNCHANGED <<time, signings, called>>

SecondPasses ==
    /\ time < MaxClock
    /\ time' = time + 1
    /\ UNCHANGED <<deliveries, sending, signings, called, sent, seen, receipts>>

HookNext ==
    \/ \E s \in Signatures : DeliveredAgain(s)
    \/ \E body \in Bodies : Dispatch(body)
    \/ \E d \in Ids : Retry(d)
    \/ AttemptSucceeds \/ AttemptFails \/ AnswerLost
    \/ SecondPasses

HookSpec == HookInit /\ [][HookNext]_hookVars

--------------------------------------------------------------------------------
(* Properties                                                                  *)

\* What is DELIVERED was accepted by the receiver, and no signature was accepted
\* twice, although attempts and calls repeat what was already delivered, the
\* network repeats it again, and the status of a delivery is overwritten by
\* every further call.  (The converse does not hold: when an answer is lost, or
\* two deliveries of one body fall into one second, the receiver takes the next
\* attempt for a replay, and what it accepted ends as a dead letter.)
DeliveredOnce ==
    /\ \A s \in Signatures : receipts[s] <= 1
    /\ \A d \in Ids : deliveries[d].status = "delivered" =>
           \E s \in signings[d] : receipts[s] = 1

================================================================================
