----------------------------- MODULE Services_proofs -----------------------------
(***************************************************************************)
(* Proofs about Services: the types of all of them; slots, rate limits,    *)
(* change requests, webhooks, credentials, sessions, audit log and event   *)
(* bus, for any number of partitions, keys, requests and so on.  The other *)
(* services stand still while one moves, so that a step of the composition *)
(* is a step of each service or leaves it alone.                           *)
(***************************************************************************)
EXTENDS Services, SequenceTheorems, FiniteSetTheorems, WellFoundedInduction, TLAPS

--------------------------------------------------------------------------------
(* Slots                                                                       *)

\* SlotsAccountedFor is not inductive: that a partition is overfilled by no more
\* than the displaced users follows from what its counter counts.
SlotBooks ==
    /\ Load!LoadTypeOK
    /\ \A p \in Partitions :
          /\ slots[p].active <= holders[p]
          /\ slots[p].active <= slots[p].limit
          /\ holders[p] <= slots[p].active + displaced[p]

\* Every step of the load manager keeps the books of its slots.
LEMMA SlotStep == ASSUME SlotBooks, [Load!LoadNext]_loadVars PROVE SlotBooks'
<1> USE ServicesAssumption DEF Load!LoadAssumption, Load!LoadTypeOK
<1>0. \A limit \in Int : /\ Load!Counter(limit) \in [limit : Nat \ {0}, active : Nat]
                         /\ Load!Counter(limit).active = 0 /\ Load!Counter(limit).limit > 0
  BY DEF Load!Counter
<1>1. ASSUME NEW p \in Partitions, Load!Acquire(p) PROVE SlotBooks'
  BY <1>1 DEF Load!Acquire, SlotBooks
<1>2. ASSUME NEW p \in Partitions, Load!Release(p) PROVE SlotBooks'
  BY <1>2 DEF Load!Release, Load!Remaining, SlotBooks
<1>3. ASSUME NEW p \in Partitions, NEW limit \in Limits, Load!Configure(p, limit)
      PROVE  SlotBooks'
  BY <1>0, <1>3 DEF Load!Configure, SlotBooks
<1>4. CASE Load!RecordSuccess \/ Load!RecordError
  BY <1>4 DEF Load!RecordSuccess, Load!RecordError, SlotBooks
<1>5. CASE UNCHANGED loadVars
  BY <1>5 DEF loadVars, SlotBooks
<1> QED
  BY <1>1, <1>2, <1>3, <1>4, <1>5 DEF Load!LoadNext

\* The books hold at the start and at every step.
LEMMA SlotBooksKept == Spec => []SlotBooks
<1>1. Init => SlotBooks
  BY ServicesAssumption
     DEF Init, Load!LoadInit, SlotBooks, Load!LoadTypeOK, Load!Counter, Load!LoadAssumption
<1>2. SlotBooks /\ [Next]_vars => SlotBooks'
  <2>1. [Next]_vars => [Load!LoadNext]_loadVars
    BY DEF Next, vars, loadVars
  <2> QED
    BY <2>1, SlotStep
<1> QED
  BY <1>1, <1>2, PTL DEF Spec

\* No slot leaks, and only a reconfiguration overfills a partition, for any
\* number of partitions and users and all limits.
THEOREM NoSlotLeaks == Spec => []SlotsAccountedFor
<1>1. SlotBooks => SlotsAccountedFor
  BY DEF SlotBooks, SlotsAccountedFor, Load!SlotsAccountedFor, Load!LoadTypeOK
<1> QED
  BY <1>1, SlotBooksKept, PTL

--------------------------------------------------------------------------------
(* Webhooks                                                                    *)

\* What the receiver noted is what it accepted, and the call of the sender works
\* with a signature of its delivery.
HookBooks ==
    /\ Hooks!HookTypeOK
    /\ \A s \in Hooks!Signatures : receipts[s] = IF s \in seen THEN 1 ELSE 0
    /\ \A d \in Hooks!Ids :
          deliveries[d].status = "delivered" => \E s \in signings[d] : s \in seen
    /\ Hooks!Sending => /\ sending.signature \in signings[sending.delivery]
                        /\ deliveries[sending.delivery] # Hooks!Unused

\* The receiver notes what it accepts, once, and forgets nothing.
LEMMA ReceiveEffect ==
  ASSUME HookBooks, NEW s \in Hooks!Signatures, Hooks!Receive(s)
  PROVE  /\ seen \subseteq seen' /\ seen' \subseteq Hooks!Signatures
         /\ receipts' \in [Hooks!Signatures -> Nat]
         /\ \A r \in Hooks!Signatures : receipts'[r] = IF r \in seen' THEN 1 ELSE 0
         /\ Hooks!Accepts(s) => s \in seen'
  BY DEF HookBooks, Hooks!HookTypeOK, Hooks!Receive, Hooks!Accepts, Hooks!Noted

\* A call that starts works with a signature it has made for its delivery.
LEMMA StartEffect ==
  ASSUME HookBooks, NEW d \in Hooks!Ids, NEW body \in Bodies, Hooks!Start(d, body)
  PROVE  /\ called' \in 0..MaxCalls
         /\ sending' \in [delivery : Hooks!Ids, signature : Hooks!Signatures,
                          left : 0..MaxRetries + 1]
         /\ sending'.delivery = d
         /\ sending'.signature \in signings'[d]
         /\ signings' \in [Hooks!Ids -> SUBSET Hooks!Signatures]
         /\ \A e \in Hooks!Ids : signings[e] \subseteq signings'[e]
<1>1. Hooks!Sign(body) \in Hooks!Signatures
  BY DEF HookBooks, Hooks!HookTypeOK, Hooks!Sign, Hooks!Signatures
<1>2. called' \in 0..MaxCalls
  BY ServicesAssumption DEF HookBooks, Hooks!HookTypeOK, Hooks!Start, Hooks!HookAssumption
<1> QED
  BY <1>1, <1>2, ServicesAssumption
     DEF HookBooks, Hooks!HookTypeOK, Hooks!HookAssumption, Hooks!Start

\* The status of the delivery at work is all that an attempt writes to it.
LEMMA StatusEffect ==
  ASSUME HookBooks, Hooks!Sending,
         NEW status \in {"pending", "delivered", "failed", "dead_lettered"},
         Hooks!SetStatus(status)
  PROVE  /\ deliveries' \in [Hooks!Ids -> {Hooks!Unused} \cup
                [body : Bodies, status : {"pending", "delivered", "failed", "dead_lettered"}]]
         /\ \A d \in Hooks!Ids :
              /\ deliveries'[d].status = IF d = sending.delivery THEN status
                                                                 ELSE deliveries[d].status
              /\ deliveries'[d] = Hooks!Unused => deliveries[d] = Hooks!Unused
<1> DEFINE D == [body : Bodies, status : {"pending", "delivered", "failed", "dead_lettered"}]
<1>1. PICK n \in Hooks!Ids : n = sending.delivery
  BY DEF HookBooks, Hooks!HookTypeOK, Hooks!Sending
<1>2. deliveries' = [deliveries EXCEPT ![n] = [deliveries[n] EXCEPT !.status = status]]
  BY <1>1 DEF Hooks!SetStatus
<1>3. deliveries \in [Hooks!Ids -> {Hooks!Unused} \cup D]
  BY DEF HookBooks, Hooks!HookTypeOK
<1>4. \A r \in D : LET w == [r EXCEPT !.status = status] IN
                      w \in D /\ w.status = status /\ w # Hooks!Unused
  BY DEF Hooks!Unused
<1>5. deliveries[n] \in D
  BY <1>1, <1>3 DEF HookBooks
<1>6. PICK w \in D : /\ deliveries' = [deliveries EXCEPT ![n] = w]
                     /\ w.status = status /\ w # Hooks!Unused
  BY <1>2, <1>4, <1>5
<1> HIDE DEF D
<1>7. /\ deliveries' \in [Hooks!Ids -> {Hooks!Unused} \cup D]
      /\ \A d \in Hooks!Ids :
           /\ deliveries'[d].status = IF d = n THEN status ELSE deliveries[d].status
           /\ deliveries'[d] = Hooks!Unused => deliveries[d] = Hooks!Unused
  BY <1>3, <1>6
<1> QED
  BY <1>1, <1>7 DEF D

\* Every step of sender, receiver and network keeps their books.
LEMMA HookStep == ASSUME HookBooks, [Hooks!HookNext]_hookVars PROVE HookBooks'
<1> USE DEF Hooks!Sending, Hooks!Idle
<1>1. ASSUME NEW s \in Hooks!Signatures, Hooks!DeliveredAgain(s) PROVE HookBooks'
  BY <1>1, ReceiveEffect DEF HookBooks, Hooks!HookTypeOK, Hooks!DeliveredAgain
<1>2. ASSUME NEW body \in Bodies, Hooks!Dispatch(body) PROVE HookBooks'
  <2>1. PICK d \in Hooks!Ids :
          /\ deliveries[d] = Hooks!Unused
          /\ deliveries' = [deliveries EXCEPT ![d] = [body |-> body, status |-> "pending"]]
          /\ Hooks!Start(d, body)
          /\ UNCHANGED <<time, sent, seen, receipts>>
    BY <1>2 DEF Hooks!Dispatch
  <2>2. PICK new \in [body : Bodies,
                      status : {"pending", "delivered", "failed", "dead_lettered"}] :
          /\ new.status = "pending" /\ new # Hooks!Unused
          /\ deliveries' = [deliveries EXCEPT ![d] = new]
    BY <2>1 DEF Hooks!Unused
  <2>3. Hooks!HookTypeOK'
    BY <2>1, <2>2, StartEffect DEF HookBooks, Hooks!HookTypeOK
  <2>4. \A e \in Hooks!Ids :
           deliveries'[e].status = "delivered" => deliveries[e].status = "delivered"
    BY <2>2 DEF HookBooks, Hooks!HookTypeOK
  <2> QED
    BY <2>1, <2>2, <2>3, <2>4, StartEffect DEF HookBooks, Hooks!HookTypeOK
<1>3. ASSUME NEW d \in Hooks!Ids, Hooks!Retry(d) PROVE HookBooks'
  <2>1. deliveries[d].body \in Bodies
    BY <1>3 DEF HookBooks, Hooks!HookTypeOK, Hooks!Retry
  <2> QED
    BY <1>3, <2>1, StartEffect DEF HookBooks, Hooks!HookTypeOK, Hooks!Retry
<1>4. ASSUME Hooks!Sending
      PROVE  /\ sending \in [delivery : Hooks!Ids, signature : Hooks!Signatures,
                             left : 0..MaxRetries + 1]
             /\ sending.delivery \in Hooks!Ids
             /\ sending.signature \in Hooks!Signatures
             /\ sending.signature \in signings[sending.delivery]
             /\ deliveries[sending.delivery] # Hooks!Unused
  BY <1>4 DEF HookBooks, Hooks!HookTypeOK
<1>5. ASSUME Hooks!AttemptSucceeds PROVE HookBooks'
  <2>1. /\ Hooks!Sending /\ Hooks!Accepts(sending.signature)
        /\ Hooks!Receive(sending.signature) /\ Hooks!SetStatus("delivered")
        /\ sent' = sent \cup {sending.signature} /\ sending' = Hooks!Idle
        /\ UNCHANGED <<time, signings, called>>
    BY <1>5 DEF Hooks!AttemptSucceeds
  <2>2. /\ seen \subseteq seen' /\ seen' \subseteq Hooks!Signatures
        /\ receipts' \in [Hooks!Signatures -> Nat]
        /\ \A r \in Hooks!Signatures : receipts'[r] = IF r \in seen' THEN 1 ELSE 0
        /\ sending.signature \in seen'
    BY <1>4, <2>1, ReceiveEffect
  <2>3. /\ deliveries' \in [Hooks!Ids -> {Hooks!Unused} \cup
                [body : Bodies, status : {"pending", "delivered", "failed", "dead_lettered"}]]
        /\ \A d \in Hooks!Ids :
              /\ deliveries'[d].status = IF d = sending.delivery THEN "delivered"
                                                                 ELSE deliveries[d].status
              /\ deliveries'[d] = Hooks!Unused => deliveries[d] = Hooks!Unused
    BY <2>1, StatusEffect
  <2> QED
    BY <1>4, <2>1, <2>2, <2>3 DEF HookBooks, Hooks!HookTypeOK
<1>6. ASSUME Hooks!Sending, sending.left > 0, Hooks!Failed
      PROVE  /\ sending' = Hooks!Idle \/
                  /\ sending' \in [delivery : Hooks!Ids, signature : Hooks!Signatures,
                                   left : 0..MaxRetries + 1]
                  /\ sending'.delivery = sending.delivery
                  /\ sending'.signature = sending.signature
             /\ deliveries' \in [Hooks!Ids -> {Hooks!Unused} \cup
                    [body : Bodies,
                     status : {"pending", "delivered", "failed", "dead_lettered"}]]
             /\ \A d \in Hooks!Ids :
                  /\ deliveries'[d].status = "delivered" => deliveries[d].status = "delivered"
                  /\ deliveries'[d] = Hooks!Unused => deliveries[d] = Hooks!Unused
  <2>0. sending.left - 1 \in 0..MaxRetries + 1
    BY <1>4, <1>6, ServicesAssumption DEF Hooks!HookAssumption
  <2>1. sending' = Hooks!Idle \/
          /\ sending' \in [delivery : Hooks!Ids, signature : Hooks!Signatures,
                           left : 0..MaxRetries + 1]
          /\ sending'.delivery = sending.delivery
          /\ sending'.signature = sending.signature
    BY <1>4, <2>0, <1>6, ServicesAssumption DEF Hooks!Failed, Hooks!HookAssumption
  <2>2. PICK status \in {"failed", "dead_lettered"} : Hooks!SetStatus(status)
    BY <1>6 DEF Hooks!Failed
  <2> QED
    BY <1>6, <2>1, <2>2, StatusEffect
<1>7. ASSUME Hooks!AttemptFails PROVE HookBooks'
  <2>1. /\ Hooks!Sending /\ sending.left > 0 /\ Hooks!Failed
        /\ sent' \in {sent, sent \cup {sending.signature}}
        /\ UNCHANGED <<time, signings, called, seen, receipts>>
    BY <1>7 DEF Hooks!AttemptFails
  <2> QED
    BY <1>4, <1>6, <2>1 DEF HookBooks, Hooks!HookTypeOK
<1>8. ASSUME Hooks!AnswerLost PROVE HookBooks'
  <2>1. /\ Hooks!Sending /\ sending.left > 0 /\ Hooks!Failed
        /\ Hooks!Receive(sending.signature)
        /\ sent' = sent \cup {sending.signature}
        /\ UNCHANGED <<time, signings, called>>
    BY <1>8 DEF Hooks!AnswerLost
  <2>2. /\ seen \subseteq seen' /\ seen' \subseteq Hooks!Signatures
        /\ receipts' \in [Hooks!Signatures -> Nat]
        /\ \A r \in Hooks!Signatures : receipts'[r] = IF r \in seen' THEN 1 ELSE 0
    BY <1>4, <2>1, ReceiveEffect
  <2> QED
    BY <1>4, <1>6, <2>1, <2>2 DEF HookBooks, Hooks!HookTypeOK
<1>9. CASE Hooks!SecondPasses
  BY <1>9, ServicesAssumption
     DEF HookBooks, Hooks!HookTypeOK, Hooks!SecondPasses, Hooks!HookAssumption
<1>10. CASE UNCHANGED hookVars
  BY <1>10 DEF HookBooks, hookVars, Hooks!HookTypeOK
<1> QED
  BY <1>1, <1>2, <1>3, <1>5, <1>7, <1>8, <1>9, <1>10 DEF Hooks!HookNext

\* The books hold at the start and at every step.
LEMMA HookBooksKept == Spec => []HookBooks
<1>1. Init => HookBooks
  <2> SUFFICES ASSUME Hooks!HookInit PROVE HookBooks
    BY DEF Init
  <2>1. Hooks!HookTypeOK
    BY ServicesAssumption DEF Hooks!HookInit, Hooks!HookTypeOK, Hooks!HookAssumption
  <2> QED
    BY <2>1 DEF Hooks!HookInit, HookBooks, Hooks!Sending, Hooks!Unused
<1>2. HookBooks /\ [Next]_vars => HookBooks'
  <2>1. [Next]_vars => [Hooks!HookNext]_hookVars
    BY DEF Next, vars, hookVars
  <2> QED
    BY <2>1, HookStep
<1> QED
  BY <1>1, <1>2, PTL DEF Spec

\* What is DELIVERED was accepted, and nothing was accepted twice, for any number
\* of deliveries, calls, retries and repetitions by the network.
THEOREM NothingDeliveredTwice == Spec => []DeliveredOnce
<1>1. HookBooks => DeliveredOnce
  BY DEF HookBooks, DeliveredOnce, Hooks!DeliveredOnce, Hooks!HookTypeOK
<1> QED
  BY <1>1, HookBooksKept, PTL

--------------------------------------------------------------------------------
(* Credentials                                                                 *)

\* References are given out in order, and which credentials there are is known
\* from the installations and the refused ones.
IntgBooks ==
    /\ Intg!IntgTypeOK
    /\ \A i \in Installations : installed[i].ref <= issued
    /\ \A r \in abandoned : r <= issued
    /\ \A r \in Intg!Refs : vault[r] # "absent" <=>
          r \in abandoned \/ \E i \in Installations : installed[i].ref = r
    /\ \A i, j \in Installations :
          i # j /\ installed[i].ref # 0 => installed[i].ref # installed[j].ref
    /\ \A i \in Installations : installed[i].ref \notin abandoned

\* A credential that is issued has a reference nobody ever had.
LEMMA IssueEffect ==
  ASSUME IntgBooks, NEW given \in BOOLEAN, Intg!Issue(given),
         NEW ref, ref = Intg!RefOf(given)
  PROVE  /\ issued' \in 0..MaxRefs /\ issued <= issued' /\ ref <= issued'
         /\ ref \in Intg!Refs \cup {0}
         /\ ref # 0 => ref > issued
         /\ vault' \in [Intg!Refs -> Intg!Secrets]
         /\ \A r \in Intg!Refs : vault'[r] # "absent" <=> vault[r] # "absent" \/ r = ref
  BY ServicesAssumption
     DEF IntgBooks, Intg!IntgTypeOK, Intg!IntgAssumption, Intg!Issue, Intg!RefOf, Intg!Refs,
         Intg!Secrets, Intg!NoRef

\* Every step of the integration manager keeps the books of its credentials.
LEMMA IntgStep == ASSUME IntgBooks, [Intg!IntgNext]_intgVars PROVE IntgBooks'
<1> DEFINE Rec == {Intg!Absent} \cup [status : Intg!Statuses, valid : BOOLEAN,
                                      ref : Intg!Refs \cup {Intg!NoRef}]
<1>1. ASSUME NEW i \in Installations, NEW given \in BOOLEAN, Intg!Install(i, given)
      PROVE  IntgBooks'
  <2>1. PICK ref : ref = Intg!RefOf(given)
    OBVIOUS
  <2>2. /\ issued' \in 0..MaxRefs /\ issued <= issued' /\ ref <= issued'
        /\ ref \in Intg!Refs \cup {0}
        /\ ref # 0 => ref > issued
        /\ vault' \in [Intg!Refs -> Intg!Secrets]
        /\ \A r \in Intg!Refs : vault'[r] # "absent" <=> vault[r] # "absent" \/ r = ref
    BY <1>1, <2>1, IssueEffect DEF Intg!Install
  <2>3. PICK new \in Rec :
          /\ new.ref = ref
          /\ installed' = [installed EXCEPT ![i] = new]
          /\ installed[i].ref = 0
          /\ abandoned' = abandoned
    <3> DEFINE new == [status |-> "not_connected", valid |-> TRUE, ref |-> ref]
    <3>1. new \in Rec /\ new.ref = ref
      BY <2>2 DEF Intg!Statuses, Intg!NoRef
    <3>2. installed' = [installed EXCEPT ![i] = new] /\ abandoned' = abandoned
      BY <1>1, <2>1 DEF Intg!Install
    <3>3. installed[i].ref = 0
      BY <1>1 DEF Intg!Install, Intg!IsInstalled, Intg!Absent, Intg!NoRef
    <3> QED
      BY <3>1, <3>2, <3>3
  <2>4. Intg!IntgTypeOK'
    BY <2>2, <2>3 DEF IntgBooks, Intg!IntgTypeOK
  <2>5. /\ installed \in [Installations -> Rec]
        /\ \A j \in Installations :
             installed'[j].ref = IF j = i THEN ref ELSE installed[j].ref
        /\ \A j \in Installations : installed[j].ref \in Int
        /\ abandoned \subseteq Intg!Refs
        /\ issued \in Int
    BY <2>3 DEF IntgBooks, Intg!IntgTypeOK, Intg!Refs, Intg!NoRef, Intg!Absent
  <2> HIDE DEF Rec
  <2>6. /\ \A j \in Installations : installed'[j].ref <= issued'
        /\ \A r \in abandoned' : r <= issued'
        /\ \A j \in Installations : installed'[j].ref \notin abandoned'
    BY <2>2, <2>3, <2>5 DEF IntgBooks, Intg!Refs
  <2>7. \A r \in Intg!Refs : vault'[r] # "absent" <=>
          r \in abandoned' \/ \E j \in Installations : installed'[j].ref = r
    BY <2>2, <2>3, <2>5 DEF IntgBooks, Intg!Refs
  <2>8. \A j, k \in Installations :
          j # k /\ installed'[j].ref # 0 => installed'[j].ref # installed'[k].ref
    BY <2>2, <2>5 DEF IntgBooks, Intg!Refs
  <2> QED
    BY <2>4, <2>6, <2>7, <2>8 DEF IntgBooks
<1>2. ASSUME NEW given \in BOOLEAN, Intg!InstallRefused(given) PROVE IntgBooks'
  <2>1. PICK ref : ref = Intg!RefOf(given)
    OBVIOUS
  <2>2. /\ issued' \in 0..MaxRefs /\ issued <= issued' /\ ref <= issued'
        /\ ref \in Intg!Refs \cup {0}
        /\ ref # 0 => ref > issued
        /\ vault' \in [Intg!Refs -> Intg!Secrets]
        /\ \A r \in Intg!Refs : vault'[r] # "absent" <=> vault[r] # "absent" \/ r = ref
    BY <1>2, <2>1, IssueEffect DEF Intg!InstallRefused
  <2>3. abandoned' = abandoned \cup ({ref} \ {0}) /\ installed' = installed
    BY <1>2, <2>1 DEF Intg!InstallRefused, Intg!NoRef
  <2>4. Intg!IntgTypeOK'
    BY <2>2, <2>3 DEF IntgBooks, Intg!IntgTypeOK
  <2>5. /\ \A j \in Installations : installed[j].ref \in Int
        /\ abandoned \subseteq Intg!Refs
        /\ issued \in Int
    BY DEF IntgBooks, Intg!IntgTypeOK, Intg!Refs, Intg!NoRef, Intg!Absent
  <2>6. /\ \A j \in Installations : installed'[j].ref <= issued'
        /\ \A r \in abandoned' : r <= issued'
        /\ \A j \in Installations : installed'[j].ref \notin abandoned'
    BY <2>2, <2>3, <2>5 DEF IntgBooks, Intg!Refs
  <2>7. \A r \in Intg!Refs : vault'[r] # "absent" <=>
          r \in abandoned' \/ \E j \in Installations : installed'[j].ref = r
    BY <2>2, <2>3, <2>5 DEF IntgBooks, Intg!Refs
  <2> QED
    BY <2>3, <2>4, <2>6, <2>7 DEF IntgBooks
<1>3. ASSUME NEW i \in Installations, NEW new \in Rec,
             installed[i] # Intg!Absent, new.ref = installed[i].ref,
             installed' = [installed EXCEPT ![i] = new],
             UNCHANGED <<vault, issued, abandoned>>
      PROVE  IntgBooks'
  <2>1. Intg!IntgTypeOK'
    BY <1>3 DEF IntgBooks, Intg!IntgTypeOK
  <2>2. \A j \in Installations : installed'[j].ref = installed[j].ref
    BY <1>3 DEF IntgBooks, Intg!IntgTypeOK
  <2> QED
    BY <1>3, <2>1, <2>2 DEF IntgBooks
<1>4. ASSUME NEW i \in Installations, installed[i] # Intg!Absent
      PROVE  /\ \A valid \in BOOLEAN : LET new == [installed[i] EXCEPT !.valid = valid] IN
                   new \in Rec /\ new.ref = installed[i].ref
             /\ \A status \in Intg!Statuses :
                   LET new == [installed[i] EXCEPT !.status = status] IN
                   new \in Rec /\ new.ref = installed[i].ref
  BY <1>4 DEF IntgBooks, Intg!IntgTypeOK
<1>5. ASSUME NEW i \in Installations, NEW valid \in BOOLEAN, Intg!Configure(i, valid)
      PROVE  IntgBooks'
  <2> DEFINE new == [installed[i] EXCEPT !.valid = valid]
  <2>1. installed' = [installed EXCEPT ![i] = new]
    BY <1>5 DEF Intg!Configure
  <2> QED
    BY <1>3, <1>4, <1>5, <2>1 DEF Intg!Configure, Intg!IsInstalled
<1>6. ASSUME NEW i \in Installations, NEW status \in Intg!Statuses,
             Intg!IsInstalled(i), Intg!SetStatus(i, status),
             UNCHANGED <<vault, issued, abandoned>>
      PROVE  IntgBooks'
  <2> DEFINE new == [installed[i] EXCEPT !.status = status]
  <2>1. installed' = [installed EXCEPT ![i] = new]
    BY <1>6 DEF Intg!SetStatus
  <2> QED
    BY <1>3, <1>4, <1>6, <2>1 DEF Intg!IsInstalled
<1>7. ASSUME NEW i \in Installations,
             Intg!Connect(i) \/ Intg!Disconnect(i) \/ Intg!Disable(i)
      PROVE  IntgBooks'
  BY <1>6, <1>7 DEF Intg!Connect, Intg!Disconnect, Intg!Disable, Intg!Statuses
<1>8. ASSUME NEW i \in Installations, Intg!Uninstall(i) PROVE IntgBooks'
  <2>1. /\ installed' = [installed EXCEPT ![i] = Intg!Absent]
        /\ UNCHANGED <<issued, abandoned>>
        /\ vault' = [s \in Intg!Refs |-> IF s = installed[i].ref THEN "absent" ELSE vault[s]]
    BY <1>8 DEF Intg!Uninstall, Intg!Revoked
  <2>2. Intg!IntgTypeOK'
    BY <2>1 DEF IntgBooks, Intg!IntgTypeOK, Intg!Secrets
  <2>3. /\ \A j \in Installations :
             installed'[j].ref = IF j = i THEN 0 ELSE installed[j].ref
        /\ \A j \in Installations : installed[j].ref \in Nat
        /\ 0 \notin Intg!Refs /\ abandoned \subseteq Intg!Refs
        /\ issued \in Nat
    BY <2>1 DEF IntgBooks, Intg!IntgTypeOK, Intg!Absent, Intg!NoRef, Intg!Refs
  <2>4. \A r \in Intg!Refs : vault'[r] # "absent" <=>
          r \in abandoned' \/ \E j \in Installations : installed'[j].ref = r
    BY <2>1, <2>3 DEF IntgBooks
  <2>5. /\ \A j \in Installations : installed'[j].ref <= issued'
        /\ \A r \in abandoned' : r <= issued'
        /\ \A j \in Installations : installed'[j].ref \notin abandoned'
        /\ \A j, k \in Installations :
             j # k /\ installed'[j].ref # 0 => installed'[j].ref # installed'[k].ref
    BY <2>1, <2>3 DEF IntgBooks
  <2> QED
    BY <2>2, <2>4, <2>5 DEF IntgBooks
<1>9. ASSUME NEW r \in Intg!Refs, Intg!Rotate(r) PROVE IntgBooks'
  <2>1. /\ vault[r] # "absent" /\ vault' = [vault EXCEPT ![r] = "rotated"]
        /\ UNCHANGED <<installed, issued, abandoned>>
    BY <1>9 DEF Intg!Rotate
  <2>2. \A s \in Intg!Refs : vault'[s] # "absent" <=> vault[s] # "absent"
    BY <2>1 DEF IntgBooks, Intg!IntgTypeOK
  <2>3. Intg!IntgTypeOK'
    BY <2>1 DEF IntgBooks, Intg!IntgTypeOK, Intg!Secrets
  <2> QED
    BY <2>1, <2>2, <2>3 DEF IntgBooks
<1>10. CASE UNCHANGED intgVars
  BY <1>10 DEF IntgBooks, intgVars, Intg!IntgTypeOK
<1> QED
  BY <1>1, <1>2, <1>5, <1>7, <1>8, <1>9, <1>10 DEF Intg!IntgNext

\* The books hold at the start and at every step.
LEMMA IntgBooksKept == Spec => []IntgBooks
<1>1. Init => IntgBooks
  <2> SUFFICES ASSUME Intg!IntgInit PROVE IntgBooks
    BY DEF Init
  <2>1. Intg!IntgTypeOK
    BY ServicesAssumption
       DEF Intg!IntgInit, Intg!IntgTypeOK, Intg!IntgAssumption, Intg!Secrets
  <2>2. \A i \in Installations : installed[i].ref = 0
    BY DEF Intg!IntgInit, Intg!Absent, Intg!NoRef
  <2> QED
    BY <2>1, <2>2 DEF Intg!IntgInit, IntgBooks, Intg!Refs
<1>2. IntgBooks /\ [Next]_vars => IntgBooks'
  <2>1. [Next]_vars => [Intg!IntgNext]_intgVars
    BY DEF Next, vars, intgVars
  <2> QED
    BY <2>1, IntgStep
<1> QED
  BY <1>1, <1>2, PTL DEF Spec

\* The vault holds the credentials of the installed integrations, each its own,
\* and those of refused installations, for any number of them.
THEOREM CredentialsKept == Spec => []CredentialsAccounted
<1>1. IntgBooks => CredentialsAccounted
  <2> SUFFICES ASSUME IntgBooks PROVE CredentialsAccounted
    OBVIOUS
  <2>1. \A i \in Installations : installed[i].ref \in Intg!Refs \cup {0}
    BY DEF IntgBooks, Intg!IntgTypeOK, Intg!Absent, Intg!NoRef
  <2>2. 0 \notin Intg!Refs /\ abandoned \subseteq Intg!Refs
    BY DEF IntgBooks, Intg!IntgTypeOK, Intg!Refs
  <2> QED
    BY <2>1, <2>2 DEF IntgBooks, CredentialsAccounted, Intg!CredentialsAccounted, Intg!NoRef
<1> QED
  BY <1>1, IntgBooksKept, PTL

--------------------------------------------------------------------------------
(* Rate limits                                                                 *)

\* What a key has spent, what is in its bucket and what the clock owes it never
\* exceed one bucket and what the time that passed is worth.
RateBooks ==
    /\ Limiter!RateTypeOK
    /\ \A k \in Keys : spent[k].since <= seconds
    /\ \A k \in Keys :
          IF buckets[k] = Limiter!None
            THEN spent[k].units = 0
            ELSE spent[k].units + buckets[k].tokens + Limiter!Gained(buckets[k])
                   <= Limiter!Capacity + (seconds - spent[k].since) * Rate

\* Products of natural numbers are natural numbers.
LEMMA Products == \A a, b \in Nat : a * b \in Nat
  OBVIOUS

\* Capacity and window are natural numbers of units, and so is every gain.
LEMMA UnitsAreNat ==
  ASSUME RateBooks
  PROVE  /\ Limiter!Capacity \in Nat /\ Rate \in Nat /\ clock \in Int /\ seconds \in Nat
         /\ \A b \in Limiter!Buckets : Limiter!Gained(b) \in Nat
  BY ServicesAssumption, Products
     DEF RateBooks, Limiter!RateTypeOK, Limiter!RateAssumption, Limiter!Capacity,
         Limiter!Gained, Limiter!Buckets

\* A look at the bucket moves units from it to what was spent, and adds no more
\* than the clock owed.
LEMMA CheckStep ==
  ASSUME RateBooks, NEW k \in Keys, NEW cost \in Costs, Limiter!Check(k, cost)
  PROVE  RateBooks'
<1> DEFINE b == Limiter!Bucket(k)
           filled == Limiter!Refilled(b)
           allowed == filled - cost * Window >= 0
           gain == IF allowed THEN cost * Window ELSE 0
<1> USE UnitsAreNat
<1>1. cost * Window \in Nat
  BY ServicesAssumption, Products DEF Limiter!RateAssumption
<1>2. b \in Limiter!Buckets
  BY DEF Limiter!Bucket, Limiter!Buckets, RateBooks, Limiter!RateTypeOK
<1>3. filled \in 0..Limiter!Capacity /\ filled <= b.tokens + Limiter!Gained(b)
  BY <1>2 DEF Limiter!Refilled, Limiter!AtMost, Limiter!Buckets
<1>4. PICK t \in 0..Limiter!Capacity :
        /\ t = filled - gain
        /\ buckets' = [buckets EXCEPT ![k] = [tokens |-> t, last |-> clock]]
        /\ spent' = [spent EXCEPT ![k] =
               [units |-> spent[k].units + gain,
                since |-> IF buckets[k] = Limiter!None THEN seconds ELSE spent[k].since]]
        /\ UNCHANGED <<clock, seconds>>
  <2>1. filled - gain \in 0..Limiter!Capacity
    BY <1>1, <1>3
  <2>2. Limiter!Left(k, cost) = filled - cost * Window
    BY DEF Limiter!Left
  <2>3. filled - gain = IF allowed THEN Limiter!Left(k, cost) ELSE filled
    BY <1>1, <1>3, <2>2
  <2>4. /\ buckets' = [buckets EXCEPT ![k] = [tokens |-> filled - gain, last |-> clock]]
        /\ spent' = [spent EXCEPT ![k] =
               [units |-> spent[k].units + gain,
                since |-> IF buckets[k] = Limiter!None THEN seconds ELSE spent[k].since]]
        /\ UNCHANGED <<clock, seconds>>
    BY <2>2, <2>3 DEF Limiter!Check
  <2> HIDE DEF gain, filled
  <2> QED
    BY <2>1, <2>4
<1>5. gain \in Nat
  BY <1>1
<1>6. Limiter!RateTypeOK'
  BY <1>4, <1>5 DEF RateBooks, Limiter!RateTypeOK, Limiter!Buckets
<1>7. \A j \in Keys : spent'[j].since <= seconds'
  BY <1>4 DEF RateBooks, Limiter!RateTypeOK
<1>8. ASSUME NEW j \in Keys, j # k
      PROVE  buckets'[j] = buckets[j] /\ spent'[j] = spent[j]
  BY <1>4, <1>8 DEF RateBooks, Limiter!RateTypeOK
<1>9. /\ buckets'[k] = [tokens |-> t, last |-> clock]
      /\ spent'[k].units = spent[k].units + gain
      /\ spent'[k].since = IF buckets[k] = Limiter!None THEN seconds ELSE spent[k].since
  BY <1>4 DEF RateBooks, Limiter!RateTypeOK
<1>10. spent[k].units \in Nat /\ spent[k].since \in Nat
  BY DEF RateBooks, Limiter!RateTypeOK
<1>11. spent[k].units + filled <=
           Limiter!Capacity
             + (seconds - (IF buckets[k] = Limiter!None THEN seconds ELSE spent[k].since)) * Rate
  <2>1. CASE buckets[k] = Limiter!None
    BY <1>3, <1>10, <2>1 DEF RateBooks
  <2>2. CASE buckets[k] # Limiter!None
    <3>1. b = buckets[k] /\ b.tokens \in Nat
      BY <1>2, <2>2 DEF Limiter!Bucket, Limiter!Buckets
    <3>2. (seconds - spent[k].since) * Rate \in Int
      BY <1>10
    <3>3. spent[k].units + b.tokens + Limiter!Gained(b)
            <= Limiter!Capacity + (seconds - spent[k].since) * Rate
      BY <2>2, <3>1 DEF RateBooks
    <3>4. Limiter!Gained(b) \in Nat
      BY <1>2
    <3> HIDE DEF b, filled
    <3> QED
      BY <1>3, <1>10, <2>2, <3>1, <3>2, <3>3, <3>4
  <2> QED
    BY <2>1, <2>2
<1>12. (Limiter!Gained([tokens |-> t, last |-> clock]))' = 0
  BY <1>4 DEF Limiter!Gained
<1> HIDE DEF gain, filled
<1>13. spent'[k].units + buckets'[k].tokens + 0
         <= Limiter!Capacity + (seconds - spent'[k].since) * Rate
  BY <1>3, <1>4, <1>5, <1>9, <1>10, <1>11
<1>14. ASSUME NEW j \in Keys
       PROVE  IF buckets'[j] = Limiter!None
                THEN spent'[j].units = 0
                ELSE spent'[j].units + buckets'[j].tokens + (Limiter!Gained(buckets[j]))'
                       <= Limiter!Capacity + (seconds' - spent'[j].since) * Rate
  <2>1. CASE j = k
    <3>1. (Limiter!Gained(buckets[k]))' = 0
      BY <1>4, <1>9 DEF Limiter!Gained
    <3>2. buckets'[k] # Limiter!None
      BY <1>4, <1>9 DEF Limiter!None
    <3> QED
      BY <1>4, <1>13, <2>1, <3>1, <3>2
  <2>2. CASE j # k
    <3>1. (Limiter!Gained(buckets[j]))' = Limiter!Gained(buckets[j])
      BY <1>4, <1>8, <2>2 DEF Limiter!Gained
    <3> QED
      BY <1>4, <1>8, <2>2, <3>1 DEF RateBooks
  <2> QED
    BY <2>1, <2>2
<1> QED
  BY <1>6, <1>7, <1>14 DEF RateBooks, Limiter!Capacity

\* Time earns a key what a second is worth, and a clock set back earns nothing.
LEMMA ClockStep ==
  ASSUME RateBooks, Limiter!SecondPasses \/ Limiter!ClockSetBack
  PROVE  RateBooks'
<1> USE UnitsAreNat
<1>1. Limiter!RateTypeOK' /\ UNCHANGED <<buckets, spent>>
  BY DEF RateBooks, Limiter!RateTypeOK, Limiter!SecondPasses, Limiter!ClockSetBack
<1>2. \A k \in Keys : spent'[k].since <= seconds'
  BY DEF RateBooks, Limiter!RateTypeOK, Limiter!SecondPasses, Limiter!ClockSetBack
<1>3. ASSUME NEW k \in Keys, buckets[k] # Limiter!None
      PROVE  spent[k].units + buckets[k].tokens + (Limiter!Gained(buckets[k]))'
               <= Limiter!Capacity + (seconds' - spent[k].since) * Rate
  <2>1. PICK u, t, s, l \in Int :
          u = spent[k].units /\ t = buckets[k].tokens
          /\ s = spent[k].since /\ l = buckets[k].last
    BY <1>3 DEF RateBooks, Limiter!RateTypeOK, Limiter!Buckets
  <2>2. u + t + (IF clock > l THEN (clock - l) * Rate ELSE 0)
          <= Limiter!Capacity + (seconds - s) * Rate
    BY <1>3, <2>1 DEF RateBooks, Limiter!Gained
  <2>3. (Limiter!Gained(buckets[k]))' = IF clock' > l THEN (clock' - l) * Rate ELSE 0
    BY <1>1, <2>1 DEF Limiter!Gained
  <2>4. CASE Limiter!SecondPasses
    <3>1. clock' = clock + 1 /\ seconds' = seconds + 1
      BY <2>4 DEF Limiter!SecondPasses
    <3>2. /\ (clock + 1 - l) * Rate = (clock - l) * Rate + Rate
          /\ (seconds + 1 - s) * Rate = (seconds - s) * Rate + Rate
      BY <2>1
    <3>3. clock = l => (clock - l) * Rate = 0
      BY <2>1
    <3>4. (clock - l) * Rate \in Int /\ (seconds - s) * Rate \in Int
      BY <2>1
    <3>5. (Limiter!Gained(buckets[k]))'
             <= (IF clock > l THEN (clock - l) * Rate ELSE 0) + Rate
      BY <2>1, <2>3, <3>1, <3>2, <3>3, <3>4
    <3>6. (Limiter!Gained(buckets[k]))' \in Int
      BY <2>1, <2>3, <3>1, <3>2, <3>4
    <3>7. (seconds' - spent[k].since) * Rate = (seconds - s) * Rate + Rate
      <4>1. seconds' - spent[k].since = seconds + 1 - s
        BY <2>1, <3>1
      <4> QED
        BY <3>2, <4>1
    <3>8. PICK g, h, w \in Int :
            /\ g = (Limiter!Gained(buckets[k]))'
            /\ h = IF clock > l THEN (clock - l) * Rate ELSE 0
            /\ w = (seconds - s) * Rate
      BY <3>4, <3>6
    <3>9. u + t + h <= Limiter!Capacity + w /\ g <= h + Rate
      BY <2>2, <3>5, <3>8
    <3> QED
      BY <2>1, <3>7, <3>8, <3>9
  <2>5. CASE Limiter!ClockSetBack
    <3>1. clock' = clock - 1 /\ seconds' = seconds
      BY <2>5 DEF Limiter!ClockSetBack
    <3>2. (clock - 1 - l) * Rate = (clock - l) * Rate - Rate
      BY <2>1
    <3>4. /\ (clock - l) * Rate \in Int /\ (seconds - s) * Rate \in Int
          /\ clock > l => (clock - l) * Rate >= 0
      BY <2>1, Products
    <3> QED
      BY <2>1, <2>2, <2>3, <3>1, <3>2, <3>4
  <2> QED
    BY <2>4, <2>5
<1> QED
  BY <1>1, <1>2, <1>3 DEF RateBooks, Limiter!Capacity

\* The books hold at the start and at every step.
LEMMA RateBooksKept == Spec => []RateBooks
<1>1. Init => RateBooks
  BY ServicesAssumption
     DEF Init, Limiter!RateInit, RateBooks, Limiter!RateTypeOK, Limiter!Gained
<1>2. RateBooks /\ [Next]_vars => RateBooks'
  <2>1. [Next]_vars => [Limiter!RateNext]_rateVars
    BY DEF Next, vars, rateVars
  <2>2. RateBooks /\ UNCHANGED rateVars => RateBooks'
    BY DEF RateBooks, rateVars, Limiter!RateTypeOK, Limiter!Gained, Limiter!Capacity
  <2> QED
    BY <2>1, <2>2, CheckStep, ClockStep DEF Limiter!RateNext
<1> QED
  BY <1>1, <1>2, PTL DEF Spec

\* No key is ever allowed more than its bucket and the time that has passed, for
\* any number of keys, all costs and rates, and every clock.
THEOREM RatesHold == Spec => []RateHeld
<1>1. RateBooks => RateHeld
  <2> SUFFICES ASSUME RateBooks, NEW k \in Keys
               PROVE  spent[k].units <= Limiter!Capacity + (seconds - spent[k].since) * Rate
    BY DEF RateHeld, Limiter!RateHeld
  <2>1. /\ Limiter!Capacity \in Nat /\ spent[k].units \in Nat
        /\ seconds - spent[k].since \in Nat /\ Rate \in Nat
    BY UnitsAreNat DEF RateBooks, Limiter!RateTypeOK
  <2>2. (seconds - spent[k].since) * Rate \in Nat
    BY <2>1, Products
  <2>3. CASE buckets[k] = Limiter!None
    BY <2>1, <2>2, <2>3 DEF RateBooks
  <2>4. CASE buckets[k] # Limiter!None
    <3>1. buckets[k] \in Limiter!Buckets
      BY <2>4 DEF RateBooks, Limiter!RateTypeOK
    <3>2. buckets[k].tokens \in Nat /\ Limiter!Gained(buckets[k]) \in Nat
      BY <3>1, UnitsAreNat DEF Limiter!Buckets
    <3> QED
      BY <2>1, <2>2, <2>4, <3>2 DEF RateBooks
  <2> QED
    BY <2>3, <2>4
<1> QED
  BY <1>1, RateBooksKept, PTL

--------------------------------------------------------------------------------
(* Configuration                                                               *)

Statuses == {"missing", "active", "pending_approval", "rolled_back"}
Versions == [value : Values, from : 0..MaxRequests]
Requests == [key : ConfigKeys, value : Values, status : {"pending", "applied", "rejected"}]

\* Both properties of change requests are inductive with the types.
ConfigBooks ==
    /\ entries \in [ConfigKeys -> [status : Statuses, versions : Seq(Versions)]]
    /\ requests \in Seq(Requests) /\ Len(requests) <= MaxRequests
    /\ Config!PendingMeansAwaiting
    /\ Config!CarriedOutOnce

\* The requests that were there are there, for what they were made for, and what
\* was settled is settled.
RequestsKept ==
    \A c \in DOMAIN requests :
        /\ c \in DOMAIN requests'
        /\ requests'[c].key = requests[c].key
        /\ requests'[c].value = requests[c].value
        /\ requests[c].status # "pending" => requests'[c].status # "pending"

\* An entry that gets a version keeps those it had, and the others keep theirs.
LEMMA VersionEffect ==
  ASSUME ConfigBooks, NEW k \in ConfigKeys, NEW v \in Values, NEW from \in 0..MaxRequests,
         NEW status \in Statuses,
         entries' = [entries EXCEPT ![k] = Config!WithVersion(k, v, from, status)]
  PROVE  /\ entries' \in [ConfigKeys -> [status : Statuses, versions : Seq(Versions)]]
         /\ entries'[k].status = status
         /\ entries'[k].versions =
                Append(entries[k].versions, [value |-> v, from |-> from])
         /\ \A j \in ConfigKeys \ {k} : entries'[j] = entries[j]
<1>1. entries[k].versions \in Seq(Versions)
  BY DEF ConfigBooks
<1>2. [value |-> v, from |-> from] \in Versions
  BY DEF Versions
<1>3. Append(entries[k].versions, [value |-> v, from |-> from]) \in Seq(Versions)
  BY <1>1, <1>2, AppendProperties
<1> QED
  BY <1>3 DEF ConfigBooks, Config!WithVersion, Config!Version

\* A version that carries out a request for the first time, or none, leaves every
\* request carried out once at the most.
LEMMA CarriedOutStep ==
  ASSUME ConfigBooks, RequestsKept,
         NEW k \in ConfigKeys, NEW v \in Values, NEW from \in 0..MaxRequests,
         entries' \in [ConfigKeys -> [status : Statuses, versions : Seq(Versions)]],
         entries'[k].versions = Append(entries[k].versions, [value |-> v, from |-> from]),
         \A j \in ConfigKeys \ {k} : entries'[j] = entries[j],
         from # 0 =>
            /\ from \in DOMAIN requests'
            /\ requests'[from].key = k /\ requests'[from].value = v
            /\ requests'[from].status # "pending"
            /\ from \in DOMAIN requests => requests[from].status = "pending"
  PROVE  Config!CarriedOutOnce'
<1>1. ASSUME NEW j \in ConfigKeys, NEW i \in DOMAIN entries[j].versions,
             entries[j].versions[i].from # 0
      PROVE  /\ entries[j].versions[i].from \in DOMAIN requests
             /\ requests[entries[j].versions[i].from].key = j
             /\ requests[entries[j].versions[i].from].value = entries[j].versions[i].value
             /\ requests[entries[j].versions[i].from].status # "pending"
             /\ \A h \in DOMAIN entries[j].versions :
                    entries[j].versions[h].from = entries[j].versions[i].from => h = i
  BY <1>1 DEF ConfigBooks, Config!CarriedOutOnce
<1>2. entries[k].versions \in Seq(Versions)
  BY DEF ConfigBooks
<1>3. PICK last : last = Len(entries[k].versions) + 1
  OBVIOUS
<1>4. /\ DOMAIN entries'[k].versions = DOMAIN entries[k].versions \cup {last}
      /\ last \notin DOMAIN entries[k].versions
      /\ entries'[k].versions[last] = [value |-> v, from |-> from]
      /\ \A i \in DOMAIN entries[k].versions :
             entries'[k].versions[i] = entries[k].versions[i]
  <2>1. /\ Len(entries'[k].versions) = last
        /\ DOMAIN entries'[k].versions = 1..last
        /\ DOMAIN entries[k].versions = 1..last - 1
        /\ last \in Nat
    BY <1>2, <1>3, AppendProperties, LenProperties
  <2>2. /\ entries'[k].versions[last] = [value |-> v, from |-> from]
        /\ \A i \in 1..last - 1 : entries'[k].versions[i] = entries[k].versions[i]
    BY <1>2, <1>3, <2>1, AppendProperties
  <2> QED
    BY <2>1, <2>2
<1>5. ASSUME NEW j \in ConfigKeys, NEW i \in DOMAIN entries'[j].versions,
             NEW w, w = entries'[j].versions[i], w.from # 0
      PROVE  /\ w.from \in DOMAIN requests'
             /\ requests'[w.from].key = j /\ requests'[w.from].value = w.value
             /\ requests'[w.from].status # "pending"
             /\ \A h \in DOMAIN entries'[j].versions :
                    entries'[j].versions[h].from = w.from => h = i
  <2>1. CASE j # k
    <3>1. entries'[j] = entries[j]
      BY <2>1
    <3>2. i \in DOMAIN entries[j].versions /\ w = entries[j].versions[i]
      BY <1>5, <3>1
    <3>3. /\ w.from \in DOMAIN requests
          /\ requests[w.from].key = j /\ requests[w.from].value = w.value
          /\ requests[w.from].status # "pending"
          /\ \A h \in DOMAIN entries[j].versions :
                 entries[j].versions[h].from = w.from => h = i
      BY <1>1, <1>5, <3>2, SMTT(30)
    <3> QED
      BY <3>1, <3>3 DEF RequestsKept
  <2>2. CASE j = k /\ i = last
    <3>1. w.from = from /\ w.value = v
      BY <1>4, <1>5, <2>2
    <3>2. ASSUME NEW h \in DOMAIN entries[k].versions, entries[k].versions[h].from = from
          PROVE  FALSE
      <4>1. /\ entries[k].versions[h].from \in DOMAIN requests
            /\ requests[entries[k].versions[h].from].status # "pending"
        BY <1>1, <1>5, <3>1, <3>2
      <4> QED
        BY <1>5, <3>1, <3>2, <4>1
    <3>3. \A h \in DOMAIN entries'[k].versions :
              entries'[k].versions[h].from = from => h = last
      BY <1>4, <3>2
    <3> QED
      BY <1>5, <2>2, <3>1, <3>3
  <2>3. CASE j = k /\ i # last
    <3>1. i \in DOMAIN entries[k].versions /\ w = entries[k].versions[i]
      BY <1>4, <1>5, <2>3
    <3>2. /\ w.from \in DOMAIN requests
          /\ requests[w.from].key = k /\ requests[w.from].value = w.value
          /\ requests[w.from].status # "pending"
          /\ \A h \in DOMAIN entries[k].versions :
                 entries[k].versions[h].from = w.from => h = i
      BY <1>1, <1>5, <3>1, SMTT(30)
    <3>3. w.from # from
      BY <1>5, <3>2
    <3>4. \A h \in DOMAIN entries'[k].versions :
              entries'[k].versions[h].from = w.from => h = i
      BY <1>4, <3>2, <3>3
    <3> QED
      BY <2>3, <3>2, <3>4 DEF RequestsKept
  <2> QED
    BY <2>1, <2>2, <2>3
<1> QED
  BY <1>5 DEF Config!CarriedOutOnce

\* A version added for a request that is settled with it keeps all books.
LEMMA VersionStep ==
  ASSUME ConfigBooks, RequestsKept,
         requests' \in Seq(Requests), Len(requests') <= MaxRequests,
         NEW k \in ConfigKeys, NEW v \in Values, NEW from \in 0..MaxRequests,
         NEW status \in {"active", "rolled_back"},
         entries' = [entries EXCEPT ![k] = Config!WithVersion(k, v, from, status)],
         \A c \in DOMAIN requests :
             requests[c].key # k => requests'[c].status = requests[c].status,
         from # 0 =>
            /\ from \in DOMAIN requests'
            /\ requests'[from].key = k /\ requests'[from].value = v
            /\ requests'[from].status # "pending"
            /\ from \in DOMAIN requests => requests[from].status = "pending"
  PROVE  ConfigBooks'
<1>1. status \in Statuses
  BY DEF Statuses
<1>2. /\ entries' \in [ConfigKeys -> [status : Statuses, versions : Seq(Versions)]]
      /\ entries'[k].status = status
      /\ entries'[k].versions = Append(entries[k].versions, [value |-> v, from |-> from])
      /\ \A j \in ConfigKeys \ {k} : entries'[j] = entries[j]
  BY <1>1, VersionEffect
<1>3. Config!CarriedOutOnce'
  BY <1>2, CarriedOutStep
<1>4. ASSUME NEW j \in ConfigKeys, entries'[j].status = "pending_approval"
      PROVE  \E c \in DOMAIN requests' :
                 requests'[c].key = j /\ requests'[c].status = "pending"
  <2>1. j # k
    BY <1>2, <1>4
  <2>2. entries[j].status = "pending_approval"
    BY <1>2, <1>4, <2>1
  <2>3. PICK c \in DOMAIN requests : requests[c].key = j /\ requests[c].status = "pending"
    BY <2>2 DEF ConfigBooks, Config!PendingMeansAwaiting
  <2>4. c \in DOMAIN requests' /\ requests'[c].key = j /\ requests'[c].status = "pending"
    BY <2>1, <2>3 DEF RequestsKept
  <2> QED
    BY <2>4
<1>5. Config!PendingMeansAwaiting'
  BY <1>4 DEF Config!PendingMeansAwaiting
<1> QED
  BY <1>2, <1>3, <1>5 DEF ConfigBooks

\* Where no version is added, the requests stay as they were carried out.
LEMMA SameVersions ==
  ASSUME ConfigBooks, RequestsKept,
         entries' \in [ConfigKeys -> [status : Statuses, versions : Seq(Versions)]],
         \A j \in ConfigKeys : entries'[j].versions = entries[j].versions
  PROVE  Config!CarriedOutOnce'
<1>1. ASSUME NEW j \in ConfigKeys, NEW i \in DOMAIN entries'[j].versions
      PROVE  LET w == entries'[j].versions[i] IN
             w.from # 0 =>
                 /\ w.from \in DOMAIN requests'
                 /\ requests'[w.from].key = j /\ requests'[w.from].value = w.value
                 /\ requests'[w.from].status # "pending"
                 /\ \A h \in DOMAIN entries'[j].versions :
                        entries'[j].versions[h].from = w.from => h = i
  <2>1. entries'[j].versions = entries[j].versions
    OBVIOUS
  <2> QED
    BY <1>1, <2>1, SMTT(30) DEF ConfigBooks, RequestsKept, Config!CarriedOutOnce
<1> QED
  BY <1>1 DEF Config!CarriedOutOnce

\* A request that is made leaves the others as they are.
LEMMA RequestMade ==
  ASSUME ConfigBooks, NEW r \in Requests, requests' = Append(requests, r)
  PROVE  /\ requests' \in Seq(Requests) /\ Len(requests') = Len(requests) + 1
         /\ RequestsKept
         /\ \A c \in DOMAIN requests : c \in DOMAIN requests' /\ requests'[c] = requests[c]
         /\ Len(requests) + 1 \in DOMAIN requests'
         /\ Len(requests) + 1 \notin DOMAIN requests
         /\ requests'[Len(requests) + 1] = r
<1>1. requests \in Seq(Requests)
  BY DEF ConfigBooks
<1>2. /\ requests' \in Seq(Requests) /\ Len(requests') = Len(requests) + 1
      /\ \A c \in 1..Len(requests) : requests'[c] = requests[c]
      /\ requests'[Len(requests) + 1] = r
  BY <1>1, AppendProperties
<1>3. /\ DOMAIN requests = 1..Len(requests) /\ DOMAIN requests' = 1..Len(requests')
      /\ Len(requests) \in Nat
  BY <1>1, <1>2, LenProperties
<1> QED
  BY <1>2, <1>3 DEF RequestsKept

\* A request that is settled leaves the others as they are.
LEMMA RequestSettled ==
  ASSUME ConfigBooks, NEW c \in DOMAIN requests, NEW status \in {"applied", "rejected"},
         requests' = [requests EXCEPT ![c].status = status]
  PROVE  /\ requests' \in Seq(Requests) /\ Len(requests') = Len(requests)
         /\ RequestsKept
         /\ DOMAIN requests' = DOMAIN requests
         /\ requests'[c].key = requests[c].key /\ requests'[c].value = requests[c].value
         /\ requests'[c].status = status
         /\ \A d \in DOMAIN requests : d # c => requests'[d] = requests[d]
         /\ requests[c] \in Requests
<1>1. requests \in Seq(Requests) /\ DOMAIN requests = 1..Len(requests)
  BY LenProperties DEF ConfigBooks
<1>2. requests[c] \in Requests
  BY <1>1, ElementOfSeq
<1>3. PICK new \in Requests :
        /\ new.key = requests[c].key /\ new.value = requests[c].value
        /\ new.status = status
        /\ requests' = [requests EXCEPT ![c] = new]
  <2> DEFINE new == [requests[c] EXCEPT !.status = status]
  <2>1. new \in Requests /\ new.key = requests[c].key /\ new.value = requests[c].value
        /\ new.status = status
    BY <1>2 DEF Requests
  <2>2. requests' = [requests EXCEPT ![c] = new]
    OBVIOUS
  <2> QED
    BY <2>1, <2>2
<1>4. /\ requests' \in Seq(Requests) /\ Len(requests') = Len(requests)
      /\ \A d \in 1..Len(requests) : requests'[d] = IF d = c THEN new ELSE requests[d]
  BY <1>1, <1>3, ExceptSeq
<1>5. DOMAIN requests' = DOMAIN requests
  BY <1>1, <1>4, LenProperties
<1> QED
  BY <1>1, <1>2, <1>3, <1>4, <1>5 DEF RequestsKept

\* Every step of the configuration service keeps the books of its requests.
LEMMA ConfigStep == ASSUME ConfigBooks, [Config!ConfigNext]_configVars PROVE ConfigBooks'
<1>0. 0 \in 0..MaxRequests
  BY ServicesAssumption DEF Config!ConfigAssumption
<1>1. ASSUME NEW k \in ConfigKeys, NEW v \in Values, Config!SetInitial(k, v)
      PROVE  ConfigBooks'
  <2>1. /\ entries' = [entries EXCEPT ![k] = Config!WithVersion(k, v, 0, "active")]
        /\ requests' = requests
    BY <1>1 DEF Config!SetInitial
  <2>2. requests' \in Seq(Requests) /\ Len(requests') <= MaxRequests /\ RequestsKept
    BY <2>1 DEF ConfigBooks, RequestsKept
  <2> QED
    BY <1>0, <2>1, <2>2, VersionStep
<1>2. ASSUME NEW k \in ConfigKeys, NEW v \in Values, Config!Propose(k, v),
             k \in RequireApproval
      PROVE  ConfigBooks'
  <2>1. PICK r \in Requests :
          /\ r.key = k /\ r.status = "pending"
          /\ requests' = Append(requests, r)
          /\ entries' = [entries EXCEPT ![k].status = "pending_approval"]
    BY <1>2 DEF Config!Propose, Requests
  <2>2. /\ requests' \in Seq(Requests) /\ Len(requests') = Len(requests) + 1
        /\ RequestsKept
        /\ \A c \in DOMAIN requests : c \in DOMAIN requests' /\ requests'[c] = requests[c]
        /\ Len(requests) + 1 \in DOMAIN requests'
        /\ requests'[Len(requests) + 1] = r
    BY <2>1, RequestMade
  <2>3. /\ entries' \in [ConfigKeys -> [status : Statuses, versions : Seq(Versions)]]
        /\ \A j \in ConfigKeys : entries'[j].versions = entries[j].versions
        /\ \A j \in ConfigKeys \ {k} : entries'[j] = entries[j]
    BY <2>1 DEF ConfigBooks, Statuses
  <2>6. Len(requests') <= MaxRequests
    BY <1>2, <2>2, ServicesAssumption, LenProperties
       DEF Config!Propose, ConfigBooks, Config!ConfigAssumption
  <2>4. Config!CarriedOutOnce'
    BY <2>2, <2>3, SameVersions
  <2>5. Config!PendingMeansAwaiting'
    <3>1. ASSUME NEW j \in ConfigKeys, entries'[j].status = "pending_approval"
          PROVE  \E c \in DOMAIN requests' :
                     requests'[c].key = j /\ requests'[c].status = "pending"
      BY <2>1, <2>2, <2>3, <3>1 DEF ConfigBooks, Config!PendingMeansAwaiting
    <3> QED
      BY <3>1 DEF Config!PendingMeansAwaiting
  <2> QED
    BY <2>2, <2>3, <2>4, <2>5, <2>6 DEF ConfigBooks
<1>3. ASSUME NEW k \in ConfigKeys, NEW v \in Values, Config!Propose(k, v),
             k \notin RequireApproval
      PROVE  ConfigBooks'
  <2>1. PICK r \in Requests :
          /\ r.key = k /\ r.value = v /\ r.status = "applied"
          /\ requests' = Append(requests, r)
          /\ entries' = [entries EXCEPT ![k] =
                 Config!WithVersion(k, v, Len(requests) + 1, "active")]
    BY <1>3 DEF Config!Propose, Requests
  <2>2. /\ requests' \in Seq(Requests) /\ Len(requests') = Len(requests) + 1
        /\ RequestsKept
        /\ \A c \in DOMAIN requests : c \in DOMAIN requests' /\ requests'[c] = requests[c]
        /\ Len(requests) + 1 \in DOMAIN requests'
        /\ Len(requests) + 1 \notin DOMAIN requests
        /\ requests'[Len(requests) + 1] = r
    BY <2>1, RequestMade
  <2>3. Len(requests) + 1 \in 0..MaxRequests /\ Len(requests') <= MaxRequests
    BY <1>3, <2>2, ServicesAssumption, LenProperties
       DEF Config!Propose, ConfigBooks, Config!ConfigAssumption
  <2>4. Len(requests) + 1 # 0 => Len(requests) + 1 \notin DOMAIN requests
    BY <2>2
  <2> QED
    BY <2>1, <2>2, <2>3, <2>4, VersionStep
<1>4. ASSUME NEW c \in DOMAIN requests, Config!Approve(c) PROVE ConfigBooks'
  <2>1. PICK k, v : k = requests[c].key /\ v = requests[c].value
    OBVIOUS
  <2>2. /\ requests[c].status = "pending"
        /\ entries' = [entries EXCEPT ![k] = Config!WithVersion(k, v, c, "active")]
        /\ requests' = [requests EXCEPT ![c].status = "applied"]
    BY <1>4, <2>1 DEF Config!Approve, Config!Approvable
  <2>3. /\ requests' \in Seq(Requests) /\ Len(requests') <= MaxRequests
        /\ RequestsKept
        /\ DOMAIN requests' = DOMAIN requests
        /\ requests'[c].key = k /\ requests'[c].value = v
        /\ requests'[c].status = "applied"
        /\ \A d \in DOMAIN requests : d # c => requests'[d] = requests[d]
        /\ requests[c] \in Requests
    BY <2>1, <2>2, RequestSettled DEF ConfigBooks
  <2>4. k \in ConfigKeys /\ v \in Values
    BY <2>1, <2>3 DEF Requests
  <2>5. c \in 0..MaxRequests
    BY ServicesAssumption, LenProperties DEF ConfigBooks, Config!ConfigAssumption
  <2>6. \A d \in DOMAIN requests :
            requests[d].key # k => requests'[d].status = requests[d].status
    BY <2>1, <2>3
  <2> QED
    BY <2>1, <2>2, <2>3, <2>4, <2>5, <2>6, VersionStep
<1>5. ASSUME NEW c \in DOMAIN requests, Config!Reject(c) PROVE ConfigBooks'
  <2>1. PICK k : k = requests[c].key
    OBVIOUS
  <2>2. /\ entries' = [entries EXCEPT ![k] = [entries[k] EXCEPT !.status = "active"]]
        /\ requests' = [requests EXCEPT ![c].status = "rejected"]
    BY <1>5, <2>1 DEF Config!Reject, Config!Settled
  <2>3. /\ requests' \in Seq(Requests) /\ Len(requests') <= MaxRequests
        /\ RequestsKept
        /\ DOMAIN requests' = DOMAIN requests
        /\ requests'[c].key = k
        /\ \A d \in DOMAIN requests : d # c => requests'[d] = requests[d]
        /\ requests[c] \in Requests
    BY <2>1, <2>2, RequestSettled DEF ConfigBooks
  <2>4. k \in ConfigKeys
    BY <2>1, <2>3 DEF Requests
  <2>5. /\ entries' \in [ConfigKeys -> [status : Statuses, versions : Seq(Versions)]]
        /\ \A j \in ConfigKeys : entries'[j].versions = entries[j].versions
        /\ \A j \in ConfigKeys \ {k} : entries'[j] = entries[j]
        /\ entries'[k].status = "active"
    BY <2>2, <2>4 DEF ConfigBooks, Statuses
  <2>6. Config!CarriedOutOnce'
    BY <2>3, <2>5, SameVersions
  <2>7. Config!PendingMeansAwaiting'
    <3>1. ASSUME NEW j \in ConfigKeys, entries'[j].status = "pending_approval"
          PROVE  \E d \in DOMAIN requests' :
                     requests'[d].key = j /\ requests'[d].status = "pending"
      <4>1. j # k /\ entries[j].status = "pending_approval"
        BY <2>5, <3>1
      <4>2. PICK d \in DOMAIN requests :
              requests[d].key = j /\ requests[d].status = "pending"
        BY <4>1 DEF ConfigBooks, Config!PendingMeansAwaiting
      <4>3. d # c
        BY <2>1, <4>1, <4>2
      <4> QED
        BY <2>3, <4>2, <4>3
    <3> QED
      BY <3>1 DEF Config!PendingMeansAwaiting
  <2> QED
    BY <2>3, <2>5, <2>6, <2>7 DEF ConfigBooks
<1>6. ASSUME NEW k \in ConfigKeys, NEW version \in 1..MaxVersions, Config!Rollback(k, version)
      PROVE  ConfigBooks'
  <2>1. PICK v : v = entries[k].versions[version].value
    OBVIOUS
  <2>2. /\ version \in DOMAIN entries[k].versions
        /\ entries' = [entries EXCEPT ![k] = Config!WithVersion(k, v, 0, "rolled_back")]
        /\ requests' = requests
    BY <1>6, <2>1 DEF Config!Rollback
  <2>3. v \in Values
    <3>1. entries[k].versions \in Seq(Versions)
      BY DEF ConfigBooks
    <3>2. entries[k].versions[version] \in Versions
      BY <2>2, <3>1, ElementOfSeq, LenProperties
    <3> QED
      BY <2>1, <3>2 DEF Versions
  <2>4. requests' \in Seq(Requests) /\ Len(requests') <= MaxRequests /\ RequestsKept
    BY <2>2 DEF ConfigBooks, RequestsKept
  <2> QED
    BY <1>0, <2>2, <2>3, <2>4, VersionStep
<1>7. CASE UNCHANGED configVars
  BY <1>7 DEF ConfigBooks, configVars, Config!PendingMeansAwaiting, Config!CarriedOutOnce
<1> QED
  BY <1>1, <1>2, <1>3, <1>4, <1>5, <1>6, <1>7 DEF Config!ConfigNext

\* The books hold at the start and at every step.
LEMMA ConfigBooksKept == Spec => []ConfigBooks
<1>1. Init => ConfigBooks
  <2> SUFFICES ASSUME Config!ConfigInit PROVE ConfigBooks
    BY DEF Init
  <2>1. /\ requests = <<>> /\ \A k \in ConfigKeys : entries[k] = Config!Missing
        /\ Config!Missing \in [status : Statuses, versions : Seq(Versions)]
        /\ Config!Missing.status # "pending_approval"
        /\ DOMAIN Config!Missing.versions = {}
    BY EmptySeq DEF Config!ConfigInit, Config!Missing, Statuses
  <2>2. requests \in Seq(Requests) /\ Len(requests) <= MaxRequests
    BY <2>1, EmptySeq, ServicesAssumption DEF Config!ConfigAssumption
  <2>3. Config!PendingMeansAwaiting /\ Config!CarriedOutOnce
    BY <2>1 DEF Config!PendingMeansAwaiting, Config!CarriedOutOnce
  <2> QED
    BY <2>1, <2>2, <2>3 DEF Config!ConfigInit, ConfigBooks
<1>2. ConfigBooks /\ [Next]_vars => ConfigBooks'
  <2>1. [Next]_vars => [Config!ConfigNext]_configVars
    BY DEF Next, vars, configVars
  <2> QED
    BY <2>1, ConfigStep
<1> QED
  BY <1>1, <1>2, PTL DEF Spec

\* An entry waits for approval only while a request of it can be settled, for any
\* number of entries and requests and in whatever order they are settled.
THEOREM WaitingIsForSomething == Spec => []PendingMeansAwaiting
<1>1. ConfigBooks => PendingMeansAwaiting
  BY DEF ConfigBooks, PendingMeansAwaiting
<1> QED
  BY <1>1, ConfigBooksKept, PTL

\* No request is carried out twice, or for another value than was asked for.
THEOREM OneVersionEach == Spec => []CarriedOutOnce
<1>1. ConfigBooks => CarriedOutOnce
  BY DEF ConfigBooks, CarriedOutOnce
<1> QED
  BY <1>1, ConfigBooksKept, PTL

--------------------------------------------------------------------------------
(* Sessions: what Sessions_proofs proves, of the composition                   *)

AuthProofs == INSTANCE Sessions_proofs

\* The sessions of the composition are those of Sessions_proofs: the two
\* instances define the same values, helpers and properties ...
LEMMA SameSessions ==
    /\ authVars = AuthProofs!authVars
    /\ AuthProofs!AuthAssumption
    /\ AuthProofs!OneWayIn <=> OneWayIn
    /\ AuthProofs!NoneOutlivesItsPassword <=> NoneOutlivesItsPassword
    /\ Auth!AuthInit => AuthProofs!AuthInit
<1>1. Auth!Pairs = AuthProofs!Pairs /\ \A s : Auth!LiveTokens(s) = AuthProofs!LiveTokens(s)
  BY DEF Auth!Pairs, AuthProofs!Pairs, Auth!LiveTokens, AuthProofs!LiveTokens
<1>2. AuthProofs!AuthAssumption
  BY ServicesAssumption DEF Auth!AuthAssumption, AuthProofs!AuthAssumption
<1>3. AuthProofs!OneWayIn <=> OneWayIn
  BY <1>1 DEF OneWayIn, Auth!OneWayIn, AuthProofs!OneWayIn
<1>4. AuthProofs!NoneOutlivesItsPassword <=> NoneOutlivesItsPassword
  BY <1>1 DEF NoneOutlivesItsPassword, Auth!NoneOutlivesItsPassword,
              AuthProofs!NoneOutlivesItsPassword
<1>5. Auth!AuthInit => AuthProofs!AuthInit
  BY <1>1 DEF Auth!AuthInit, AuthProofs!AuthInit
<1> QED
  BY <1>2, <1>3, <1>4, <1>5 DEF authVars, AuthProofs!authVars

\* ... and the same steps.
LEMMA SameSessionSteps == Auth!AuthNext => AuthProofs!AuthNext
<1>1. /\ Auth!Pairs = AuthProofs!Pairs
      /\ \A r : Auth!TTL(r) = AuthProofs!TTL(r)
      /\ \A s : Auth!NewRefresh(s) = AuthProofs!NewRefresh(s)
      /\ \A s : Auth!RunOut(s) = AuthProofs!RunOut(s)
      /\ \A t : Auth!Spent(t) = AuthProofs!Spent(t)
      /\ \A u, p : Auth!Recent(u, p) = AuthProofs!Recent(u, p)
  BY DEF Auth!Pairs, AuthProofs!Pairs, Auth!TTL, AuthProofs!TTL, Auth!NewRefresh,
         AuthProofs!NewRefresh, Auth!RunOut, AuthProofs!RunOut, Auth!Spent,
         AuthProofs!Spent, Auth!Recent, AuthProofs!Recent
<1>2. \A u : Auth!ActiveOf(u) = AuthProofs!ActiveOf(u)
  BY <1>1 DEF Auth!ActiveOf, AuthProofs!ActiveOf
<1>3. \A sessions : Auth!RevokeAll(sessions) => AuthProofs!RevokeAll(sessions)
  BY <1>1 DEF Auth!RevokeAll, AuthProofs!RevokeAll
<1>4. \A u, p : Auth!NewCredential(u, p) => AuthProofs!NewCredential(u, p)
  BY <1>1, <1>2, <1>3 DEF Auth!NewCredential, AuthProofs!NewCredential
<1>5. \A r : Auth!Consume(r) => AuthProofs!Consume(r)
  BY DEF Auth!Consume, AuthProofs!Consume
<1>6. ASSUME NEW u \in Accounts, NEW p \in Passwords, NEW remember \in BOOLEAN,
             Auth!Login(u, p, remember)
      PROVE  AuthProofs!AuthNext
  BY <1>1, <1>6 DEF Auth!Login, AuthProofs!Login, AuthProofs!AuthNext
<1>7. ASSUME NEW n \in Auth!Pairs, Auth!ValidateFindsExpired(n) \/ Auth!Refresh(n) \/ Auth!Logout(n)
      PROVE  AuthProofs!AuthNext
  <2>1. CASE Auth!ValidateFindsExpired(n)
    BY <1>1, <2>1 DEF Auth!ValidateFindsExpired, AuthProofs!ValidateFindsExpired,
                      AuthProofs!AuthNext
  <2>2. CASE Auth!Refresh(n)
    BY <1>1, <2>2 DEF Auth!Refresh, AuthProofs!Refresh, AuthProofs!AuthNext
  <2>3. CASE Auth!Logout(n)
    BY <1>1, <1>3, <2>3 DEF Auth!Logout, AuthProofs!Logout, AuthProofs!AuthNext
  <2> QED
    BY <1>7, <2>1, <2>2, <2>3
<1>8. ASSUME NEW u \in Accounts, NEW current \in Passwords, NEW new \in Passwords,
             Auth!ChangePassword(u, current, new)
      PROVE  AuthProofs!AuthNext
  BY <1>4, <1>8 DEF Auth!ChangePassword, AuthProofs!ChangePassword, AuthProofs!AuthNext
<1>9. ASSUME NEW r \in DOMAIN recovery, NEW new \in Passwords,
             Auth!ResetPassword(r, new) \/ Auth!ResetRefused(r, new)
      PROVE  AuthProofs!AuthNext
  BY <1>1, <1>4, <1>5, <1>9 DEF Auth!ResetPassword, AuthProofs!ResetPassword,
     Auth!ResetRefused, AuthProofs!ResetRefused, AuthProofs!AuthNext
<1>10. ASSUME (\E u \in Accounts : Auth!InitiateRecovery(u)) \/ Auth!TimePasses
       PROVE  AuthProofs!AuthNext
  BY <1>10 DEF Auth!InitiateRecovery, AuthProofs!InitiateRecovery, Auth!TimePasses,
               AuthProofs!TimePasses, AuthProofs!AuthNext
<1> QED
  BY <1>6, <1>7, <1>8, <1>9, <1>10 DEF Auth!AuthNext

\* The composition takes steps of the sessions, or leaves them alone.
LEMMA IsSessions == Spec => AuthProofs!AuthSpec
<1>1. Init => AuthProofs!AuthInit
  BY SameSessions DEF Init
<1>2. [Next]_vars => [AuthProofs!AuthNext]_(AuthProofs!authVars)
  BY SameSessionSteps DEF Next, vars, authVars, AuthProofs!authVars
<1> QED
  BY <1>1, <1>2, PTL DEF Spec, AuthProofs!AuthSpec

\* One refresh token prolongs an active session, none a revoked one, for any
\* number of users and tokens and all lifetimes.
THEOREM OneTokenEach == Spec => []OneWayIn
<1>1. AuthProofs!AuthSpec => []AuthProofs!OneWayIn
  BY SameSessions, AuthProofs!OneTokenEach
<1>2. AuthProofs!OneWayIn => OneWayIn
  BY SameSessions
<1> QED
  BY <1>1, <1>2, IsSessions, PTL

\* No active session is older than its user's password, for any number of users
\* and through any changes and resets.
THEOREM PasswordsEndSessions == Spec => []NoneOutlivesItsPassword
<1>1. AuthProofs!AuthSpec => []AuthProofs!NoneOutlivesItsPassword
  BY SameSessions, AuthProofs!PasswordsEndSessions
<1>2. AuthProofs!NoneOutlivesItsPassword => NoneOutlivesItsPassword
  BY SameSessions
<1> QED
  BY <1>1, <1>2, IsSessions, PTL

\* No refresh, login or late validation brings back a session that was revoked
\* or found to have expired.
THEOREM EndsAreFinal == Spec => EndedForGood
<1>1. AuthProofs!AuthSpec => AuthProofs!EndedForGood
  BY SameSessions, AuthProofs!EndsAreFinal
<1>2. AuthProofs!Pairs = Auth!Pairs
  BY DEF Auth!Pairs, AuthProofs!Pairs
<1>3. [\A s \in AuthProofs!Pairs :
         /\ session[s].status \in {"expired", "revoked"} => session'[s].status # "active"
         /\ session[s].status = "revoked" => session'[s].status = "revoked"]_(AuthProofs!authVars)
      => [\A s \in Auth!Pairs :
            /\ session[s].status \in {"expired", "revoked"} => session'[s].status # "active"
            /\ session[s].status = "revoked" => session'[s].status = "revoked"]_(Auth!authVars)
  BY <1>2 DEF Auth!authVars, AuthProofs!authVars
<1> QED
  BY <1>1, <1>3, IsSessions, PTL DEF EndedForGood, Auth!EndedForGood, AuthProofs!EndedForGood

--------------------------------------------------------------------------------
(* The audit log                                                               *)

\* A set of numbers that is bounded and not empty has a highest one.
LEMMA HighestIsThere ==
  ASSUME NEW m \in Nat, NEW S \in SUBSET (1..m), S # {}
  PROVE  \E n \in S : \A k \in S : k <= n
<1> DEFINE HasHighest(T) == \E n \in T : \A k \in T : k <= n
           Bad == {T \in SUBSET S : T # {} /\ ~HasHighest(T)}
<1>1. Bad = {}
  <2> SUFFICES ASSUME Bad # {} PROVE FALSE
    OBVIOUS
  <2>1. IsFiniteSet(S)
    <3>1. IsFiniteSet(1..m)
      BY FS_Interval
    <3> QED BY <3>1, FS_Subset
  <2>2. Bad \subseteq FiniteSubsetsOf(S)
    BY <2>1, FS_FiniteSubsetsOfFinite
  <2> HIDE DEF Bad
  <2>3. PICK T \in Bad : \A U \in Bad : ~(<<U, T>> \in StrictSubsetOrdering(S))
    BY <2>2, FS_StrictSubsetOrderingWellFounded, WFMin
  <2> USE DEF Bad
  <2>4. PICK x \in T : TRUE
    OBVIOUS
  <2> DEFINE U == T \ {x}
  <2>5. U \in SUBSET S /\ <<U, T>> \in StrictSubsetOrdering(S)
    BY <2>4 DEF StrictSubsetOrdering
  <2>6. \A k \in T : k \in Int
    OBVIOUS
  <2>7. U = {} \/ HasHighest(U)
    BY <2>3, <2>5
  <2>8. CASE U = {}
    <3>1. \A k \in T : k = x
      BY <2>8
    <3> QED BY <2>4, <2>6, <3>1
  <2>9. CASE HasHighest(U)
    <3>1. PICK n \in U : \A k \in U : k <= n
      BY <2>9
    <3>2. n \in T /\ \A k \in T : k = x \/ k <= n
      BY <3>1
    <3>3. CASE x <= n
      BY <2>6, <3>2, <3>3
    <3>4. CASE ~(x <= n)
      <4>1. \A k \in T : k <= x
        BY <2>4, <2>6, <3>2, <3>4
      <4> QED BY <2>4, <4>1
    <3> QED BY <3>3, <3>4
  <2> QED BY <2>7, <2>8, <2>9
<1> QED BY <1>1

\* The last entry of a set of entries is one of them, and none is later.
LEMMA LastIsThere ==
  ASSUME NEW some, some \subseteq Audit!Entry, some # {}
  PROVE  /\ Audit!LastOf(some) \in {e.number : e \in some}
         /\ \A e \in some : e.number <= Audit!LastOf(some)
<1> DEFINE S == {e.number : e \in some}
<1>1. MaxEntries \in Nat /\ S \in SUBSET (1..MaxEntries) /\ S # {}
  BY ServicesAssumption DEF Audit!AuditAssumption, Audit!Entry
<1>2. PICK n \in S : \A k \in S : k <= n
  BY <1>1, HighestIsThere
<1>3. \A e \in some : e.number <= n
  BY <1>2
<1> QED
  BY <1>2, <1>3 DEF Audit!LastOf

\* FailsExactlyAtGaps rests on what a link says when retention has been at work:
\* whatever is kept before an entry is not later than the one it was linked to.
AuditBooks ==
    /\ Audit!AuditTypeOK
    /\ \A e \in log : e.number <= sequence /\ e.prev < e.number
    /\ \A d, e \in log : d.number < e.number => d.number <= e.prev

\* Every step of the audit service keeps the books of its log.
LEMMA AuditStep == ASSUME AuditBooks, [Audit!AuditNext]_auditVars PROVE AuditBooks'
<1> USE ServicesAssumption DEF Audit!AuditAssumption
<1>0. /\ \A e \in log : /\ e \in Audit!Entry /\ e.number \in Int /\ e.prev \in Int
                        /\ e.age \in 0..MaxAge
      /\ sequence \in 0..MaxEntries
  BY DEF AuditBooks, Audit!AuditTypeOK, Audit!Entry
<1>1. ASSUME NEW type \in Types, Audit!Record(type) PROVE AuditBooks'
  <2>1. PICK new : new = [number |-> sequence + 1, type |-> type,
                          prev |-> Audit!LastOf(log), age |-> 0]
    OBVIOUS
  <2>2. /\ sequence < MaxEntries /\ sequence' = sequence + 1
        /\ log' = log \cup {new} /\ policy' = policy
    BY <1>1, <2>1 DEF Audit!Record
  <2>3. /\ Audit!LastOf(log) \in 0..sequence
        /\ \A e \in log : e.number <= Audit!LastOf(log)
    <3>1. CASE log = {}
      BY <1>0, <3>1 DEF Audit!LastOf
    <3>2. CASE log # {}
      BY <1>0, <3>2, LastIsThere DEF AuditBooks, Audit!AuditTypeOK, Audit!Entry
    <3> QED BY <3>1, <3>2
  <2>4. new \in Audit!Entry /\ new.number = sequence + 1 /\ new.prev = Audit!LastOf(log)
    BY <1>0, <2>1, <2>2, <2>3 DEF Audit!Entry
  <2>5. Audit!AuditTypeOK'
    BY <1>0, <2>2, <2>4 DEF AuditBooks, Audit!AuditTypeOK
  <2> QED
    BY <1>0, <2>2, <2>3, <2>4, <2>5 DEF AuditBooks
<1>2. ASSUME NEW p \in Policies, Audit!SetRetention(p) PROVE AuditBooks'
  BY <1>2 DEF Audit!SetRetention, AuditBooks, Audit!AuditTypeOK
<1>3. CASE Audit!ApplyRetention
  <2>1. log' \subseteq log /\ sequence' = sequence /\ policy' = policy
    BY <1>3 DEF Audit!ApplyRetention
  <2> QED
    BY <2>1 DEF AuditBooks, Audit!AuditTypeOK
<1>4. CASE Audit!DayPasses
  <2>1. /\ sequence' = sequence /\ policy' = policy
        /\ \A f \in log' : \E e \in log :
             f = [e EXCEPT !.age = IF e.age < MaxAge THEN e.age + 1 ELSE e.age]
    BY <1>4 DEF Audit!DayPasses
  <2>2. \A f \in log' : /\ f \in Audit!Entry
                        /\ \E e \in log : f.number = e.number /\ f.prev = e.prev
    <3> SUFFICES ASSUME NEW f \in log'
                 PROVE  /\ f \in Audit!Entry
                        /\ \E e \in log : f.number = e.number /\ f.prev = e.prev
      OBVIOUS
    <3>1. PICK e \in log :
            f = [e EXCEPT !.age = IF e.age < MaxAge THEN e.age + 1 ELSE e.age]
      BY <2>1
    <3>2. PICK days \in 0..MaxAge : f = [e EXCEPT !.age = days]
      BY <1>0, <3>1
    <3> QED
      BY <1>0, <3>2 DEF Audit!Entry
  <2> QED
    BY <2>1, <2>2 DEF AuditBooks, Audit!AuditTypeOK
<1>5. CASE UNCHANGED auditVars
  BY <1>5 DEF auditVars, AuditBooks, Audit!AuditTypeOK
<1> QED
  BY <1>1, <1>2, <1>3, <1>4, <1>5 DEF Audit!AuditNext

\* The books hold at the start and at every step.
LEMMA AuditBooksKept == Spec => []AuditBooks
<1>1. Init => AuditBooks
  BY ServicesAssumption
     DEF Init, Audit!AuditInit, AuditBooks, Audit!AuditTypeOK, Audit!AuditAssumption
<1>2. AuditBooks /\ [Next]_vars => AuditBooks'
  <2>1. [Next]_vars => [Audit!AuditNext]_auditVars
    BY DEF Next, vars, auditVars
  <2> QED
    BY <2>1, AuditStep
<1> QED
  BY <1>1, <1>2, PTL DEF Spec

\* An entry is where verify_chain() finds the chain broken exactly when what it
\* was linked to is gone.
LEMMA BrokenAtOrphans ==
  ASSUME AuditBooks, NEW e \in log
  PROVE  e.prev = Audit!LastOf({d \in log : d.number < e.number}) <=> e \notin Audit!Orphans
<1>0. PICK before : before = {d \in log : d.number < e.number}
  OBVIOUS
<1>1. /\ before \subseteq Audit!Entry /\ before \subseteq log
      /\ \A d \in log : d.number \in Int /\ d.number >= 1
      /\ e.prev \in Int /\ e.prev >= 0 /\ e.prev < e.number
      /\ \A d \in before : d.number <= e.prev
  BY <1>0 DEF AuditBooks, Audit!AuditTypeOK, Audit!Entry
<1>2. \A d \in log : d.number = e.prev => d \in before
  BY <1>0, <1>1
<1>3. CASE before = {}
  BY <1>0, <1>1, <1>2, <1>3 DEF Audit!LastOf, Audit!Orphans
<1>4. CASE before # {}
  <2>1. PICK l \in before : l.number = Audit!LastOf(before)
    BY <1>1, <1>4, LastIsThere
  <2>2. \A d \in before : d.number <= Audit!LastOf(before)
    BY <1>1, <1>4, LastIsThere
  <2>3. l \in log /\ l.number <= e.prev /\ e.prev # 0
    BY <1>1, <2>1
  <2>4. e \in Audit!Orphans <=> \A d \in log : d.number # e.prev
    BY <2>3 DEF Audit!Orphans
  <2>5. (\E d \in log : d.number = e.prev) <=> l.number = e.prev
    BY <1>1, <1>2, <2>1, <2>2, <2>3
  <2>6. e.prev = Audit!LastOf(before) <=> e \notin Audit!Orphans
    BY <2>1, <2>4, <2>5
  <2> QED
    BY <1>0, <2>6
<1> QED
  BY <1>3, <1>4

\* verify_chain() answers no exactly when retention has deleted what a kept entry
\* was linked to, for any number of entries, types and policies.
THEOREM FailsOnlyAtGaps == Spec => []FailsExactlyAtGaps
<1>1. AuditBooks => FailsExactlyAtGaps
  BY BrokenAtOrphans
     DEF FailsExactlyAtGaps, Audit!FailsExactlyAtGaps, Audit!VerifyChain, Audit!Orphans
<1> QED
  BY <1>1, AuditBooksKept, PTL

--------------------------------------------------------------------------------
(* The event bus                                                               *)

Letters == Bus!DeadLetter \cup [event : 1..MaxEvents, subscriber : {Bus!All}]

\* A call has a letter at hand, one of the lists, and a place in it; while a
\* handler runs that place is a subscription; publish() keeps nothing back.
CallBooks(ls, c) ==
    /\ c.letters # <<>>
    /\ c.list \in 1..Len(ls)
    /\ c.at >= 1
    /\ c.inside => c.at <= Len(ls[c.list])
    /\ c.letters[1].subscriber = Bus!All => c.delivered

\* A call with these lists has the letter still before it, or will put it back.
Ahead(ls, c, i, e) ==
    \E n \in DOMAIN c.letters :
        /\ c.letters[n].event = e
        /\ c.letters[n].subscriber \in {Bus!All, Subscriber[i]}
        /\ n = 1 => \/ ~c.delivered
                    \/ \E p \in c.at..Len(ls[c.list]) : ls[c.list][p] = i

\* Nobody is in the audience of an event who never subscribed.
AudienceSubscribed ==
    \A e \in DOMAIN audience : \A i \in audience[e] :
        \E n \in DOMAIN lists : Bus!Contains(lists[n], i)

BusBooks ==
    /\ Bus!BusTypeOK
    /\ Len(audience) = Len(topics) /\ Len(topics) <= MaxEvents
    /\ lists # <<>>
    /\ AudienceSubscribed
    /\ \A d \in DOMAIN calls : CallBooks(lists, calls[d])
    /\ Bus!NothingLost

\* What is written about lists of subscriptions: an element is a member.
LEMMA MemberOf ==
  ASSUME NEW S, NEW s \in Seq(S), NEW x
  PROVE  /\ Bus!Contains(s, x) <=> \E n \in DOMAIN s : s[n] = x
         /\ x \in Bus!ToSet(s) <=> \E n \in DOMAIN s : s[n] = x
  BY LenProperties DEF Bus!Contains, Bus!ToSet

\* An append keeps all there was and adds one.
LEMMA AppendEffect ==
  ASSUME NEW S, NEW s \in Seq(S), NEW x \in S
  PROVE  LET t == Append(s, x) IN
         /\ t \in Seq(S) /\ t # <<>> /\ Len(t) = Len(s) + 1
         /\ DOMAIN t = DOMAIN s \cup {Len(s) + 1} /\ Len(s) + 1 \notin DOMAIN s
         /\ t[Len(s) + 1] = x
         /\ \A n \in DOMAIN s : t[n] = s[n]
  BY AppendProperties, LenProperties

\* The types of the bus, in words the provers do not have to look up.
LEMMA BusTypes ==
  ASSUME BusBooks
  PROVE  /\ topics \in Seq(Topics)
         /\ lists \in Seq(Seq(Bus!Subscriptions)) /\ Len(lists) \in DOMAIN lists
         /\ Bus!Current \in Seq(Bus!Subscriptions)
         /\ dead \in Seq(Bus!DeadLetter)
         /\ calls \in Seq(Bus!Frame) /\ Len(calls) \in Nat
         /\ \A d \in DOMAIN calls : calls[d] \in Bus!Frame /\ CallBooks(lists, calls[d])
         /\ Len(calls) > 0 => /\ Len(calls) \in DOMAIN calls
                              /\ Bus!Call \in Bus!Frame /\ CallBooks(lists, Bus!Call)
         /\ DOMAIN audience = DOMAIN topics
  BY LenProperties, ElementOfSeq, EmptySeq
     DEF BusBooks, Bus!BusTypeOK, Bus!Current, Bus!Call, Bus!Depth

\* Whether a letter is under way is a question of what each call has before it.
LEMMA UnderWayIs ==
  \A i, e : Bus!UnderWay(i, e) <=> \E d \in DOMAIN calls : Ahead(lists, calls[d], i, e)
  BY DEF Bus!UnderWay, Ahead

\* The subscription handled the event, is going to be called, or finds the event
\* among the dead letters.
Reached(i, e) ==
    \/ e \in handled[i]
    \/ \E d \in DOMAIN calls : Ahead(lists, calls[d], i, e)
    \/ \E n \in DOMAIN dead : dead[n] = [event |-> e, subscriber |-> Subscriber[i]]

\* The subscription is there, and its pattern matches the event.
Expects(i, e) ==
    /\ \E p \in DOMAIN Bus!Current : Bus!Current[p] = i
    /\ topics[e] \in Wanted[i]

\* NothingLost in these words, in a state and in the next one.
LEMMA NothingLostIs ==
  Bus!BusTypeOK /\ lists # <<>> =>
    (Bus!NothingLost <=>
       \A e \in DOMAIN topics : \A i \in audience[e] : Expects(i, e) => Reached(i, e))
<1> SUFFICES ASSUME Bus!BusTypeOK, lists # <<>>
             PROVE  Bus!NothingLost <=> \A e \in DOMAIN topics : \A i \in audience[e] :
                                          Expects(i, e) => Reached(i, e)
  OBVIOUS
<1>1. Bus!Current \in Seq(Bus!Subscriptions) /\ dead \in Seq(Bus!DeadLetter)
  BY LenProperties, ElementOfSeq, EmptySeq DEF Bus!BusTypeOK, Bus!Current
<1>2. \A i, e : /\ Bus!Contains(Bus!Current, i) <=>
                     \E p \in DOMAIN Bus!Current : Bus!Current[p] = i
                /\ Bus!Contains(dead, [event |-> e, subscriber |-> Subscriber[i]]) <=>
                     \E n \in DOMAIN dead : dead[n] = [event |-> e, subscriber |-> Subscriber[i]]
  BY <1>1, MemberOf
<1>3. \A i, e :
        /\ Bus!Contains(Bus!Current, i) /\ topics[e] \in Wanted[i] <=> Expects(i, e)
        /\ \/ e \in handled[i]
           \/ Bus!UnderWay(i, e)
           \/ Bus!Contains(dead, [event |-> e, subscriber |-> Subscriber[i]])
           <=> Reached(i, e)
  BY <1>2, UnderWayIs DEF Expects, Reached
<1> QED
  BY <1>3 DEF Bus!NothingLost

\* A list that goes on as it was, and perhaps further, changes no call that walks it.
LEMMA LongerLists ==
  ASSUME NEW old \in Seq(Seq(Bus!Subscriptions)), NEW new \in Seq(Seq(Bus!Subscriptions)),
         Len(old) <= Len(new),
         \A n \in DOMAIN old : /\ Len(old[n]) <= Len(new[n])
                               /\ \A p \in 1..Len(old[n]) : new[n][p] = old[n][p],
         NEW c \in Bus!Frame, CallBooks(old, c)
  PROVE  /\ CallBooks(new, c)
         /\ \A i, e : Ahead(old, c, i, e) => Ahead(new, c, i, e)
<1>1. /\ c.list \in DOMAIN old /\ c.list \in DOMAIN new
      /\ Len(old[c.list]) \in Nat /\ Len(new[c.list]) \in Nat
      /\ c.at \in Nat
  BY LenProperties, ElementOfSeq DEF CallBooks, Bus!Frame
<1>2. Len(old[c.list]) <= Len(new[c.list])
  BY <1>1
<1>3. CallBooks(new, c)
  BY <1>1, <1>2, LenProperties DEF CallBooks
<1>4. \A p \in c.at..Len(old[c.list]) :
         p \in c.at..Len(new[c.list]) /\ new[c.list][p] = old[c.list][p]
  BY <1>1, <1>2 DEF CallBooks
<1> QED
  BY <1>3, <1>4 DEF Ahead

\* A step of the call at work, of which the others know nothing: the call goes on
\* or returns, and whoever it had before it is reached.
LEMMA CallStep ==
  ASSUME BusBooks, Len(calls) > 0,
         UNCHANGED <<topics, lists, audience, redelivered>>,
         handled' \in [Bus!Subscriptions -> SUBSET (1..MaxEvents)],
         \A i \in Bus!Subscriptions : handled[i] \subseteq handled'[i],
         dead' \in Seq(Bus!DeadLetter),
         \A n \in DOMAIN dead : n \in DOMAIN dead' /\ dead'[n] = dead[n],
         calls' \in Seq(Bus!Frame),
         \A d \in DOMAIN calls : d # Len(calls) => d \in DOMAIN calls' /\ calls'[d] = calls[d],
         \A d \in DOMAIN calls' : \/ d \in DOMAIN calls /\ calls'[d] = calls[d]
                                  \/ CallBooks(lists, calls'[d]),
         \A e \in DOMAIN topics : \A i \in audience[e] :
            Expects(i, e) /\ Ahead(lists, Bus!Call, i, e) =>
              \/ e \in handled'[i]
              \/ \E d \in DOMAIN calls' : Ahead(lists, calls'[d], i, e)
              \/ \E n \in DOMAIN dead' : dead'[n] = [event |-> e, subscriber |-> Subscriber[i]]
  PROVE  BusBooks'
<1>1. Bus!BusTypeOK' /\ lists' # <<>>
  BY DEF BusBooks, Bus!BusTypeOK
<1>2. \A e : \A i : Expects(i, e)' <=> Expects(i, e)
  BY DEF Expects, Bus!Current
<1>3. \A e \in DOMAIN topics : \A i \in audience[e] : Expects(i, e) => Reached(i, e)
  BY NothingLostIs DEF BusBooks
<1>4. \A e \in DOMAIN topics : audience[e] \subseteq Bus!Subscriptions
  BY BusTypes, LenProperties DEF BusBooks, Bus!BusTypeOK
<1>5. \A e \in DOMAIN topics : \A i \in audience[e] : Expects(i, e) => Reached(i, e)'
  <2> SUFFICES ASSUME NEW e \in DOMAIN topics, NEW i \in audience[e], Expects(i, e)
               PROVE  Reached(i, e)'
    OBVIOUS
  <2>1. CASE e \in handled[i]
    BY <1>4, <2>1 DEF Reached
  <2>2. CASE \E n \in DOMAIN dead : dead[n] = [event |-> e, subscriber |-> Subscriber[i]]
    BY <2>2 DEF Reached
  <2>3. CASE \E d \in DOMAIN calls : Ahead(lists, calls[d], i, e)
    <3>1. PICK d \in DOMAIN calls : Ahead(lists, calls[d], i, e)
      BY <2>3
    <3>2. CASE d = Len(calls)
      BY <3>1, <3>2 DEF Reached, Bus!Call, Bus!Depth
    <3>3. CASE d # Len(calls)
      BY <3>1, <3>3 DEF Reached
    <3> QED BY <3>2, <3>3
  <2> QED
    BY <1>3, <2>1, <2>2, <2>3 DEF Reached
<1>6. Bus!NothingLost'
  <2>1. (\A e \in DOMAIN topics : \A i \in audience[e] : Expects(i, e) => Reached(i, e))'
    BY <1>2, <1>5
  <2>2. Bus!BusTypeOK' /\ (lists # <<>>)'
    BY <1>1
  <2> QED
    BY <2>1, <2>2, NothingLostIs, PTL
<1>7. AudienceSubscribed'
  BY DEF BusBooks, AudienceSubscribed
<1>8. \A d \in DOMAIN calls' : CallBooks(lists, calls'[d])
  BY DEF BusBooks
<1> QED
  BY <1>1, <1>6, <1>7, <1>8 DEF BusBooks, CallBooks

\* The call at work is put in place of itself, the others stay.
LEMMA CallReplaced ==
  ASSUME BusBooks, Len(calls) > 0, NEW f \in Bus!Frame,
         calls' = [calls EXCEPT ![Len(calls)] = f]
  PROVE  /\ calls' \in Seq(Bus!Frame) /\ DOMAIN calls' = DOMAIN calls
         /\ Len(calls) \in DOMAIN calls' /\ calls'[Len(calls)] = f
         /\ \A d \in DOMAIN calls : d # Len(calls) => calls'[d] = calls[d]
  BY BusTypes, ExceptSeq, LenProperties

\* What a call that is not at its end works on: a letter and a subscription.
LEMMA AtWork ==
  ASSUME BusBooks, Len(calls) > 0, Bus!Call.at <= Len(lists[Bus!Call.list])
  PROVE  /\ Bus!Target \in Bus!Subscriptions
         /\ Bus!Letter \in Letters /\ Bus!Letter = Bus!Call.letters[1]
         /\ 1 \in DOMAIN Bus!Call.letters
         /\ Bus!Call.at \in Nat /\ Bus!Call.at >= 1
         /\ Len(lists[Bus!Call.list]) \in Nat
         /\ Bus!Target = lists[Bus!Call.list][Bus!Call.at]
<1>1. Bus!Call \in Bus!Frame /\ CallBooks(lists, Bus!Call) /\ lists \in Seq(Seq(Bus!Subscriptions))
  BY BusTypes
<1>2. lists[Bus!Call.list] \in Seq(Bus!Subscriptions)
  BY <1>1, ElementOfSeq DEF CallBooks
<1>3. Bus!Call.at \in 1..Len(lists[Bus!Call.list])
  BY <1>1, <1>2, LenProperties DEF CallBooks, Bus!Frame
<1>4. Bus!Target \in Bus!Subscriptions
  BY <1>2, <1>3, ElementOfSeq DEF Bus!Target
<1>5. Bus!Call.letters \in Seq(Letters) /\ Bus!Call.letters # <<>>
  BY <1>1 DEF Bus!Frame, CallBooks, Letters
<1>6. Len(Bus!Call.letters) \in Nat \ {0}
  BY <1>5, EmptySeq
<1>7. 1 \in DOMAIN Bus!Call.letters /\ Bus!Call.letters[1] \in Letters
  BY <1>5, <1>6, LenProperties, ElementOfSeq
<1> QED
  BY <1>2, <1>3, <1>4, <1>7, LenProperties DEF Bus!Letter, Bus!Target

\* When its place moves on a call leaves one subscription behind, which was the
\* target of its letter.
LEMMA PlaceMovesOn ==
  ASSUME BusBooks, Len(calls) > 0, Bus!Call.at <= Len(lists[Bus!Call.list]),
         NEW f, f.letters = Bus!Call.letters, f.list = Bus!Call.list,
         f.at = Bus!Call.at + 1, f.delivered => Bus!Call.delivered,
         NEW i, NEW e, Ahead(lists, Bus!Call, i, e)
  PROVE  \/ Ahead(lists, f, i, e)
         \/ /\ Bus!Target = i /\ Bus!Letter.event = e
            /\ Bus!Letter.subscriber \in {Bus!All, Subscriber[i]}
<1>1. PICK n \in DOMAIN Bus!Call.letters :
        /\ Bus!Call.letters[n].event = e
        /\ Bus!Call.letters[n].subscriber \in {Bus!All, Subscriber[i]}
        /\ n = 1 => \/ ~Bus!Call.delivered
                    \/ \E p \in Bus!Call.at..Len(lists[Bus!Call.list]) :
                         lists[Bus!Call.list][p] = i
  BY DEF Ahead
<1>2. CASE n # 1 \/ ~Bus!Call.delivered
  BY <1>1, <1>2 DEF Ahead
<1>3. CASE n = 1 /\ \E p \in Bus!Call.at..Len(lists[Bus!Call.list]) :
                      lists[Bus!Call.list][p] = i
  <2>1. PICK p \in Bus!Call.at..Len(lists[Bus!Call.list]) : lists[Bus!Call.list][p] = i
    BY <1>3
  <2>2. CASE p = Bus!Call.at
    BY <1>1, <1>3, <2>1, <2>2, AtWork
  <2>3. CASE p # Bus!Call.at
    <3>1. p \in f.at..Len(lists[f.list])
      BY <2>1, <2>3, AtWork
    <3> QED
      BY <1>1, <2>1, <3>1 DEF Ahead
  <2> QED
    BY <2>2, <2>3
<1> QED
  BY <1>1, <1>2, <1>3

\* A subscription that the letter is not meant for is passed over.
LEMMA SkipStep == ASSUME BusBooks, Bus!Skip PROVE BusBooks'
<1>1. /\ Len(calls) > 0 /\ ~Bus!Call.inside /\ Bus!Call.at <= Len(lists[Bus!Call.list])
      /\ ~Bus!Meant(Bus!Target, Bus!Letter)
      /\ UNCHANGED <<topics, lists, dead, handled, audience, redelivered>>
  <2>1. Bus!Call \in Bus!Frame /\ CallBooks(lists, Bus!Call) /\ Len(calls) \in Nat
        /\ lists \in Seq(Seq(Bus!Subscriptions))
    BY BusTypes DEF Bus!Skip, Bus!Working, Bus!Depth
  <2>2. Len(lists[Bus!Call.list]) \in Nat /\ Bus!Call.at \in Nat
    BY <2>1, LenProperties, ElementOfSeq DEF CallBooks, Bus!Frame
  <2> QED
    BY <2>2 DEF Bus!Skip, Bus!Working, Bus!AtEnd, Bus!Depth
<1>2. Bus!Call \in Bus!Frame /\ CallBooks(lists, Bus!Call)
  BY <1>1, BusTypes
<1>3. PICK f : f = [Bus!Call EXCEPT !.at = Bus!Call.at + 1]
  OBVIOUS
<1>4. /\ f \in Bus!Frame /\ f.letters = Bus!Call.letters /\ f.list = Bus!Call.list
      /\ f.at = Bus!Call.at + 1 /\ f.inside = FALSE /\ f.delivered = Bus!Call.delivered
  BY <1>1, <1>2, <1>3 DEF Bus!Frame
<1>5. calls' = [calls EXCEPT ![Len(calls)] = f]
  BY <1>3 DEF Bus!Skip, Bus!Depth, Bus!Call
<1>6. CallBooks(lists, f)
  BY <1>1, <1>2, <1>4, AtWork DEF CallBooks
<1>7. \A e \in DOMAIN topics : \A i \in audience[e] :
         Expects(i, e) /\ Ahead(lists, Bus!Call, i, e) => Ahead(lists, f, i, e)
  BY <1>1, <1>4, PlaceMovesOn DEF Bus!Meant, Expects
<1>8. /\ handled' \in [Bus!Subscriptions -> SUBSET (1..MaxEvents)]
      /\ dead' \in Seq(Bus!DeadLetter) /\ handled' = handled /\ dead' = dead
  BY <1>1 DEF BusBooks, Bus!BusTypeOK
<1> QED
  BY <1>1, <1>4, <1>5, <1>6, <1>7, <1>8, CallReplaced, CallStep

\* A handler starts: nothing is behind the call yet.
LEMMA HandleStep == ASSUME BusBooks, Bus!Handle PROVE BusBooks'
<1>1. /\ Len(calls) > 0 /\ Bus!Call.at <= Len(lists[Bus!Call.list])
      /\ UNCHANGED <<topics, lists, dead, handled, audience, redelivered>>
  <2>1. Bus!Call \in Bus!Frame /\ CallBooks(lists, Bus!Call) /\ Len(calls) \in Nat
        /\ lists \in Seq(Seq(Bus!Subscriptions))
    BY BusTypes DEF Bus!Handle, Bus!Working, Bus!Depth
  <2>2. Len(lists[Bus!Call.list]) \in Nat /\ Bus!Call.at \in Nat
    BY <2>1, LenProperties, ElementOfSeq DEF CallBooks, Bus!Frame
  <2> QED
    BY <2>2 DEF Bus!Handle, Bus!Working, Bus!AtEnd, Bus!Depth
<1>2. Bus!Call \in Bus!Frame /\ CallBooks(lists, Bus!Call)
  BY <1>1, BusTypes
<1>3. PICK f : f = [Bus!Call EXCEPT !.inside = TRUE]
  OBVIOUS
<1>4. /\ f \in Bus!Frame /\ f.letters = Bus!Call.letters /\ f.list = Bus!Call.list
      /\ f.at = Bus!Call.at /\ f.delivered = Bus!Call.delivered
  BY <1>2, <1>3 DEF Bus!Frame
<1>5. calls' = [calls EXCEPT ![Len(calls)] = f]
  BY <1>3 DEF Bus!Handle, Bus!Depth, Bus!Call
<1>6. CallBooks(lists, f)
  BY <1>1, <1>2, <1>4 DEF CallBooks
<1>7. \A e, i : Ahead(lists, Bus!Call, i, e) => Ahead(lists, f, i, e)
  BY <1>4 DEF Ahead
<1>8. /\ handled' \in [Bus!Subscriptions -> SUBSET (1..MaxEvents)]
      /\ dead' \in Seq(Bus!DeadLetter) /\ handled' = handled /\ dead' = dead
  BY <1>1 DEF BusBooks, Bus!BusTypeOK
<1> QED
  BY <1>1, <1>4, <1>5, <1>6, <1>7, <1>8, CallReplaced, CallStep

\* What is left of a call when its handler has come back.
LEMMA BackFromHandler ==
  ASSUME NEW c \in Bus!Frame, NEW f, f = [c EXCEPT !.inside = FALSE, !.at = c.at + 1]
  PROVE  /\ f \in Bus!Frame /\ f.letters = c.letters /\ f.list = c.list
         /\ f.at = c.at + 1 /\ f.inside = FALSE /\ f.delivered = c.delivered
<1>1. PICK g : g = [c EXCEPT !.inside = FALSE]
  OBVIOUS
<1>2. /\ g \in Bus!Frame /\ g.letters = c.letters /\ g.list = c.list
      /\ g.at = c.at /\ g.inside = FALSE /\ g.delivered = c.delivered
  BY <1>1 DEF Bus!Frame
<1>3. f = [g EXCEPT !.at = c.at + 1]
  BY <1>1
<1> QED
  BY <1>2, <1>3 DEF Bus!Frame

\* A handler returns: its subscription has handled the event.
LEMMA ReturnsStep == ASSUME BusBooks, Bus!HandlerReturns PROVE BusBooks'
<1>1. /\ Len(calls) > 0 /\ Bus!Call.inside
      /\ UNCHANGED <<topics, lists, dead, audience, redelivered>>
  BY DEF Bus!HandlerReturns, Bus!Depth
<1>2. /\ Bus!Call \in Bus!Frame /\ CallBooks(lists, Bus!Call)
      /\ Bus!Call.at <= Len(lists[Bus!Call.list])
  BY <1>1, BusTypes DEF CallBooks
<1>3. PICK f : f = [Bus!Call EXCEPT !.inside = FALSE, !.at = Bus!Call.at + 1]
  OBVIOUS
<1>4. /\ f \in Bus!Frame /\ f.letters = Bus!Call.letters /\ f.list = Bus!Call.list
      /\ f.at = Bus!Call.at + 1 /\ f.inside = FALSE /\ f.delivered = Bus!Call.delivered
  BY <1>2, <1>3, BackFromHandler
<1>5. calls' = [calls EXCEPT ![Len(calls)] = f]
  <2>1. calls' = [calls EXCEPT ![Len(calls)].inside = FALSE, ![Len(calls)].at = @ + 1]
    BY DEF Bus!HandlerReturns, Bus!Depth
  <2>2. calls \in Seq(Bus!Frame) /\ Len(calls) \in DOMAIN calls /\ calls \in [1..Len(calls) -> Bus!Frame]
    BY <1>1, <1>2, BusTypes, LenProperties DEF Bus!Call, Bus!Depth
  <2> QED
    BY <1>3, <2>1, <2>2 DEF Bus!Call, Bus!Depth
<1>6. CallBooks(lists, f)
  BY <1>2, <1>4, AtWork, <1>1 DEF CallBooks
<1>7. PICK i : i = Bus!Target
  OBVIOUS
<1>8. PICK e : e = Bus!Letter.event
  OBVIOUS
<1>9. /\ i \in Bus!Subscriptions /\ e \in 1..MaxEvents
      /\ handled \in [Bus!Subscriptions -> SUBSET (1..MaxEvents)]
      /\ handled' = [handled EXCEPT ![i] = handled[i] \cup {e}]
  BY <1>1, <1>2, <1>7, <1>8, AtWork
     DEF Bus!HandlerReturns, Letters, Bus!DeadLetter, BusBooks, Bus!BusTypeOK
<1>10. /\ handled' \in [Bus!Subscriptions -> SUBSET (1..MaxEvents)]
       /\ \A j \in Bus!Subscriptions : handled[j] \subseteq handled'[j]
       /\ e \in handled'[i]
  BY <1>9
<1>11. \A j, d : Ahead(lists, Bus!Call, j, d) =>
                   Ahead(lists, f, j, d) \/ (j = i /\ d = e)
  BY <1>1, <1>2, <1>4, <1>7, <1>8, PlaceMovesOn
<1>12. dead' \in Seq(Bus!DeadLetter) /\ dead' = dead
  BY <1>1 DEF BusBooks, Bus!BusTypeOK
<1>13. \A d \in DOMAIN topics : \A j \in audience[d] :
          Ahead(lists, Bus!Call, j, d) =>
            d \in handled'[j] \/ \E n \in DOMAIN calls' : Ahead(lists, calls'[n], j, d)
  BY <1>1, <1>4, <1>5, <1>10, <1>11, CallReplaced
<1> QED
  BY <1>1, <1>4, <1>5, <1>6, <1>10, <1>12, <1>13, CallReplaced, CallStep

\* A handler raises: publish() writes a dead letter for its subscriber, a
\* redelivery will put the letter back.
LEMMA RaisesStep == ASSUME BusBooks, Bus!HandlerRaises PROVE BusBooks'
<1>1. /\ Len(calls) > 0 /\ Bus!Call.inside
      /\ UNCHANGED <<topics, lists, handled, audience, redelivered>>
  BY DEF Bus!HandlerRaises, Bus!Depth
<1>2. /\ Bus!Call \in Bus!Frame /\ CallBooks(lists, Bus!Call)
      /\ Bus!Call.at <= Len(lists[Bus!Call.list])
  BY <1>1, BusTypes DEF CallBooks
<1>3. PICK toAll \in BOOLEAN : toAll <=> Bus!Letter.subscriber = Bus!All
  OBVIOUS
<1>4. PICK g : g = [Bus!Call EXCEPT !.inside = FALSE, !.at = Bus!Call.at + 1]
  OBVIOUS
<1>0. PICK f : f = [g EXCEPT !.delivered = toAll]
  OBVIOUS
<1>5. /\ f \in Bus!Frame /\ f.letters = Bus!Call.letters /\ f.list = Bus!Call.list
      /\ f.at = Bus!Call.at + 1 /\ f.inside = FALSE /\ f.delivered = toAll
  <2>1. /\ g \in Bus!Frame /\ g.letters = Bus!Call.letters /\ g.list = Bus!Call.list
        /\ g.at = Bus!Call.at + 1 /\ g.inside = FALSE
    BY <1>2, <1>4, BackFromHandler
  <2> QED
    BY <1>0, <2>1 DEF Bus!Frame
<1>6. calls' = [calls EXCEPT ![Len(calls)] = f]
  <2>1. calls' = [calls EXCEPT ![Len(calls)].inside = FALSE, ![Len(calls)].at = @ + 1,
                               ![Len(calls)].delivered = toAll]
    BY <1>3 DEF Bus!HandlerRaises, Bus!Depth
  <2>2. calls \in Seq(Bus!Frame) /\ Len(calls) \in DOMAIN calls /\ calls \in [1..Len(calls) -> Bus!Frame]
    BY <1>1, <1>2, BusTypes, LenProperties DEF Bus!Call, Bus!Depth
  <2> QED
    BY <1>0, <1>4, <2>1, <2>2 DEF Bus!Call, Bus!Depth
<1>7. CallBooks(lists, f)
  BY <1>1, <1>2, <1>3, <1>5, AtWork DEF CallBooks
<1>8. f.delivered => Bus!Call.delivered
  BY <1>1, <1>2, <1>3, <1>5, AtWork DEF CallBooks
<1>9. PICK i : i = Bus!Target
  OBVIOUS
<1>10. PICK letter : letter = [event |-> Bus!Letter.event, subscriber |-> Subscriber[i]]
  OBVIOUS
<1>11. letter \in Bus!DeadLetter
  BY <1>1, <1>2, <1>9, <1>10, AtWork DEF Letters, Bus!DeadLetter, Bus!ToSet, Bus!Subscriptions
<1>12. /\ dead \in Seq(Bus!DeadLetter)
       /\ dead' = IF toAll THEN Append(dead, letter) ELSE dead
  BY <1>3, <1>9, <1>10 DEF Bus!HandlerRaises, BusBooks, Bus!BusTypeOK
<1>13. /\ dead' \in Seq(Bus!DeadLetter)
       /\ \A n \in DOMAIN dead : n \in DOMAIN dead' /\ dead'[n] = dead[n]
       /\ toAll => \E n \in DOMAIN dead' : dead'[n] = letter
  BY <1>11, <1>12, AppendEffect
<1>14. \A j, e : Ahead(lists, Bus!Call, j, e) =>
          \/ Ahead(lists, f, j, e)
          \/ toAll /\ letter = [event |-> e, subscriber |-> Subscriber[j]]
  <2> SUFFICES ASSUME NEW j, NEW e, Ahead(lists, Bus!Call, j, e), ~Ahead(lists, f, j, e)
               PROVE  toAll /\ letter = [event |-> e, subscriber |-> Subscriber[j]]
    OBVIOUS
  <2>1. /\ Bus!Target = j /\ Bus!Letter.event = e
        /\ Bus!Letter.subscriber \in {Bus!All, Subscriber[j]}
    BY <1>1, <1>2, <1>5, <1>8, PlaceMovesOn
  <2>2. toAll
    <3> SUFFICES ASSUME ~toAll PROVE FALSE
      OBVIOUS
    <3>1. PICK n \in DOMAIN Bus!Call.letters :
            /\ Bus!Call.letters[n].event = e
            /\ Bus!Call.letters[n].subscriber \in {Bus!All, Subscriber[j]}
      BY DEF Ahead
    <3> QED
      BY <1>5, <3>1 DEF Ahead
  <2> QED
    BY <1>9, <1>10, <2>1, <2>2
<1>15. handled' \in [Bus!Subscriptions -> SUBSET (1..MaxEvents)] /\ handled' = handled
  BY <1>1 DEF BusBooks, Bus!BusTypeOK
<1> QED
  BY <1>1, <1>5, <1>6, <1>7, <1>13, <1>14, <1>15, CallReplaced, CallStep

\* A call that is about to deliver its letters, from the first subscription on.
Starting(letters) == [letters |-> letters, list |-> Len(lists), at |-> 1,
                      inside |-> FALSE, delivered |-> TRUE]

\* A call that starts with letters has every subscription before it that there is,
\* with every one of them.
LEMMA StartingIsAhead ==
  ASSUME BusBooks, NEW letters \in Seq(Letters), letters # <<>>
  PROVE  /\ Starting(letters) \in Bus!Frame
         /\ CallBooks(lists, Starting(letters))
         /\ \A i, e : \A n \in DOMAIN letters :
              /\ \E p \in DOMAIN Bus!Current : Bus!Current[p] = i
              /\ letters[n].event = e
              /\ letters[n].subscriber \in {Bus!All, Subscriber[i]}
              => Ahead(lists, Starting(letters), i, e)
<1>1. /\ Bus!Current \in Seq(Bus!Subscriptions) /\ Bus!Current = lists[Len(lists)]
      /\ DOMAIN Bus!Current = 1..Len(lists[Len(lists)])
      /\ Len(lists) \in 1..Len(lists) /\ Len(lists) \in Nat
  BY BusTypes, LenProperties DEF Bus!Current
<1>2. Starting(letters) \in Bus!Frame
  BY <1>1 DEF Starting, Bus!Frame, Letters
<1> QED
  BY <1>1, <1>2 DEF Starting, CallBooks, Ahead

\* A letter has been to everybody: it goes back if it failed, the next one starts
\* or the call returns.
LEMMA DoneStep == ASSUME BusBooks, Bus!LetterDone PROVE BusBooks'
<1>1. /\ Len(calls) > 0 /\ UNCHANGED <<topics, lists, handled, audience, redelivered>>
  BY DEF Bus!LetterDone, Bus!Working, Bus!Depth
<1>2. /\ Bus!Call \in Bus!Frame /\ CallBooks(lists, Bus!Call)
      /\ Bus!Call.at > Len(lists[Bus!Call.list])
  BY <1>1, BusTypes DEF Bus!LetterDone, Bus!AtEnd
<1>3. PICK letters : letters = Bus!Call.letters
  OBVIOUS
<1>4. /\ letters \in Seq(Letters) /\ letters # <<>> /\ Len(letters) \in Nat \ {0}
      /\ DOMAIN letters = 1..Len(letters)
      /\ letters[1] \in Letters
      /\ letters[1].subscriber = Bus!All => Bus!Call.delivered
  <2>1. letters \in Seq(Letters) /\ letters # <<>>
    BY <1>2, <1>3 DEF Bus!Frame, Letters, CallBooks
  <2> QED
    BY <1>2, <1>3, <2>1, EmptySeq, LenProperties, ElementOfSeq DEF CallBooks
<1>5. /\ Bus!Kept(Bus!Call) = IF Bus!Call.delivered THEN <<>> ELSE <<letters[1]>>
      /\ dead' = dead \o Bus!Kept(Bus!Call)
      /\ dead \in Seq(Bus!DeadLetter)
  BY <1>3, BusTypes DEF Bus!LetterDone, Bus!Kept
<1>6. ~Bus!Call.delivered => /\ letters[1] \in Bus!DeadLetter
                             /\ dead' = Append(dead, letters[1])
  BY <1>4, <1>5, AppendIsConcat DEF Letters
<1>7. Bus!Call.delivered => dead' = dead
  BY <1>5, ConcatEmptySeq
<1>8. /\ dead' \in Seq(Bus!DeadLetter)
      /\ \A n \in DOMAIN dead : n \in DOMAIN dead' /\ dead'[n] = dead[n]
      /\ ~Bus!Call.delivered => \E n \in DOMAIN dead' : dead'[n] = letters[1]
  BY <1>5, <1>6, <1>7, AppendEffect
<1>9. handled' \in [Bus!Subscriptions -> SUBSET (1..MaxEvents)] /\ handled' = handled
  BY <1>1 DEF BusBooks, Bus!BusTypeOK
\* What the call had before it, it puts back or has in its other letters.
<1>10. \A i, e : Ahead(lists, Bus!Call, i, e) =>
          \/ \E n \in DOMAIN dead' : dead'[n] = [event |-> e, subscriber |-> Subscriber[i]]
          \/ \E n \in DOMAIN letters : /\ n # 1 /\ letters[n].event = e
                                       /\ letters[n].subscriber \in {Bus!All, Subscriber[i]}
  <2> SUFFICES ASSUME NEW i, NEW e, Ahead(lists, Bus!Call, i, e)
               PROVE  \/ \E n \in DOMAIN dead' :
                           dead'[n] = [event |-> e, subscriber |-> Subscriber[i]]
                      \/ \E n \in DOMAIN letters :
                           /\ n # 1 /\ letters[n].event = e
                           /\ letters[n].subscriber \in {Bus!All, Subscriber[i]}
    OBVIOUS
  <2>1. PICK n \in DOMAIN letters :
          /\ letters[n].event = e
          /\ letters[n].subscriber \in {Bus!All, Subscriber[i]}
          /\ n = 1 => \/ ~Bus!Call.delivered
                      \/ \E p \in Bus!Call.at..Len(lists[Bus!Call.list]) :
                           lists[Bus!Call.list][p] = i
    BY <1>3 DEF Ahead
  <2>2. CASE n # 1
    BY <2>1, <2>2
  <2>3. CASE n = 1
    <3>1. Bus!Call.at..Len(lists[Bus!Call.list]) = {}
      <4>1. Bus!Call.at \in Nat /\ Len(lists[Bus!Call.list]) \in Nat
        BY <1>2, BusTypes, ElementOfSeq, LenProperties DEF CallBooks, Bus!Frame
      <4> QED BY <1>2, <4>1
    <3>2. ~Bus!Call.delivered
      BY <2>1, <2>3, <3>1
    <3>3. letters[1] = [event |-> e, subscriber |-> Subscriber[i]]
      <4>1. letters[1] \in Bus!DeadLetter /\ letters[1].subscriber # Bus!All
        BY <1>4, <1>6, <3>2
      <4> QED
        BY <2>1, <2>3, <4>1 DEF Bus!DeadLetter
    <3> QED
      BY <1>8, <3>2, <3>3
  <2> QED
    BY <2>2, <2>3
<1>11. CASE Len(letters) = 1
  <2>1. calls' = SubSeq(calls, 1, Len(calls) - 1)
    BY <1>3, <1>11 DEF Bus!LetterDone, Bus!Front
  <2>2. calls \in Seq(Bus!Frame) /\ Len(calls) \in Nat /\ DOMAIN calls = 1..Len(calls)
        /\ \A d \in 1..Len(calls) : calls[d] \in Bus!Frame
    BY BusTypes, LenProperties, ElementOfSeq
  <2>3. /\ calls' \in Seq(Bus!Frame) /\ Len(calls') = Len(calls) - 1
        /\ \A d \in 1..Len(calls) - 1 : calls'[d] = calls[d]
    <3>1. /\ calls' \in Seq(Bus!Frame)
          /\ Len(calls') = IF 1 <= Len(calls) - 1 THEN (Len(calls) - 1) - 1 + 1 ELSE 0
          /\ \A d \in 1..(Len(calls) - 1) - 1 + 1 : calls'[d] = calls[1 + d - 1]
      BY <2>1, <2>2, SubSeqProperties
    <3>2. /\ (IF 1 <= Len(calls) - 1 THEN (Len(calls) - 1) - 1 + 1 ELSE 0) = Len(calls) - 1
          /\ \A d \in 1..Len(calls) - 1 :
                d \in 1..(Len(calls) - 1) - 1 + 1 /\ 1 + d - 1 = d
      BY <1>1, <2>2
    <3>3. \A d \in 1..Len(calls) - 1 : calls'[d] = calls[d]
      <4> SUFFICES ASSUME NEW d \in 1..Len(calls) - 1 PROVE calls'[d] = calls[d]
        OBVIOUS
      <4>1. calls'[d] = calls[1 + d - 1] /\ 1 + d - 1 = d
        BY <3>1, <3>2
      <4> QED BY <4>1
    <3> QED BY <3>1, <3>2, <3>3
  <2>4. /\ DOMAIN calls' = 1..Len(calls) - 1
        /\ \A d \in DOMAIN calls : d # Len(calls) => d \in DOMAIN calls' /\ calls'[d] = calls[d]
        /\ \A d \in DOMAIN calls' : d \in DOMAIN calls /\ calls'[d] = calls[d]
    BY <2>2, <2>3, LenProperties
  <2>5. \A i, e : Ahead(lists, Bus!Call, i, e) =>
          \E n \in DOMAIN dead' : dead'[n] = [event |-> e, subscriber |-> Subscriber[i]]
    BY <1>4, <1>10, <1>11
  <2> QED
    BY <1>1, <1>8, <1>9, <2>3, <2>4, <2>5, CallStep
<1>12. CASE Len(letters) # 1
  <2>1. /\ Tail(letters) \in Seq(Letters) /\ Tail(letters) # <<>>
        /\ \A n \in DOMAIN letters : n # 1 =>
             n - 1 \in DOMAIN Tail(letters) /\ Tail(letters)[n - 1] = letters[n]
    <3>1. /\ Tail(letters) \in Seq(Letters) /\ Len(Tail(letters)) = Len(letters) - 1
          /\ \A n \in 1..Len(Tail(letters)) : Tail(letters)[n] = letters[n + 1]
      BY <1>4, HeadTailProperties
    <3>2. Len(Tail(letters)) \in Nat \ {0} /\ DOMAIN Tail(letters) = 1..Len(letters) - 1
      BY <1>4, <1>12, <3>1, LenProperties
    <3>3. \A n \in DOMAIN letters : n # 1 =>
             /\ n - 1 \in 1..Len(Tail(letters)) /\ (n - 1) + 1 = n
      BY <1>4, <3>1
    <3> QED BY <3>1, <3>2, <3>3, EmptySeq
  <2>2. PICK f : f = Starting(Tail(letters))
    OBVIOUS
  <2>3. calls' = [calls EXCEPT ![Len(calls)] = f]
    BY <1>3, <1>12, <2>2 DEF Bus!LetterDone, Bus!Depth, Bus!Call, Starting
  <2>4. f \in Bus!Frame /\ CallBooks(lists, f)
    BY <2>1, <2>2, StartingIsAhead
  <2>5. \A i, e : Expects(i, e) /\ Ahead(lists, Bus!Call, i, e) =>
          \/ \E n \in DOMAIN dead' : dead'[n] = [event |-> e, subscriber |-> Subscriber[i]]
          \/ Ahead(lists, f, i, e)
    <3> SUFFICES ASSUME NEW i, NEW e, Expects(i, e), NEW n \in DOMAIN letters, n # 1,
                        letters[n].event = e,
                        letters[n].subscriber \in {Bus!All, Subscriber[i]}
                 PROVE  Ahead(lists, f, i, e)
      BY <1>10
    <3> QED
      BY <2>1, <2>2, StartingIsAhead DEF Expects
  <2> QED
    BY <1>1, <1>8, <1>9, <2>3, <2>4, <2>5, CallReplaced, CallStep
<1> QED
  BY <1>11, <1>12

\* A call that begins has an event or dead letters before it, the calls within
\* which it begins go on when it has returned.
LEMMA BeginStep ==
  ASSUME BusBooks, NEW letters \in Seq(Letters), letters # <<>>, Bus!Begin(letters)
  PROVE  /\ calls' \in Seq(Bus!Frame)
         /\ \A d \in DOMAIN calls' : CallBooks(lists, calls'[d])
         /\ Len(calls) + 1 \in DOMAIN calls'
         /\ calls'[Len(calls) + 1] = Starting(letters)
         /\ \A d \in DOMAIN calls : d \in DOMAIN calls' /\ calls'[d] = calls[d]
<1>1. calls' = Append(calls, Starting(letters))
  BY DEF Bus!Begin, Starting
<1>2. Starting(letters) \in Bus!Frame /\ CallBooks(lists, Starting(letters))
  BY StartingIsAhead
<1> QED
  BY <1>1, <1>2, BusTypes, AppendEffect

\* What is published goes to everybody who is in its audience.
LEMMA PublishStep ==
  ASSUME BusBooks, NEW topic \in Topics, Bus!Publish(topic) PROVE BusBooks'
<1>0. PICK new, letter : /\ new = Len(topics) + 1
                         /\ letter = [event |-> new, subscriber |-> Bus!All]
  OBVIOUS
<1>1. /\ Len(topics) < MaxEvents
      /\ topics' = Append(topics, topic) /\ audience' = Append(audience, Bus!ToSet(Bus!Current))
      /\ Bus!Begin(<<letter>>)
      /\ UNCHANGED <<lists, dead, handled, redelivered>>
  BY <1>0 DEF Bus!Publish
<1>2. /\ topics \in Seq(Topics) /\ audience \in Seq(SUBSET Bus!Subscriptions)
      /\ Len(audience) = Len(topics) /\ Len(topics) \in Nat
      /\ DOMAIN audience = DOMAIN topics
      /\ Bus!Current \in Seq(Bus!Subscriptions) /\ Len(lists) \in DOMAIN lists
  BY BusTypes, LenProperties DEF BusBooks, Bus!BusTypeOK
<1>3. /\ \A i : i \in Bus!ToSet(Bus!Current) <=>
                  \E p \in DOMAIN Bus!Current : Bus!Current[p] = i
      /\ \A i : Bus!Contains(Bus!Current, i) <=>
                  \E p \in DOMAIN Bus!Current : Bus!Current[p] = i
      /\ Bus!ToSet(Bus!Current) \subseteq Bus!Subscriptions
  BY <1>2, MemberOf, LenProperties DEF Bus!ToSet
<1>4. /\ topics' \in Seq(Topics) /\ Len(topics') = new
      /\ DOMAIN topics' = DOMAIN topics \cup {new} /\ new \notin DOMAIN topics
      /\ \A e \in DOMAIN topics : topics'[e] = topics[e]
  BY <1>0, <1>1, <1>2, AppendEffect
<1>5. /\ audience' \in Seq(SUBSET Bus!Subscriptions) /\ Len(audience') = new
      /\ DOMAIN audience' = DOMAIN audience \cup {new}
      /\ audience'[new] = Bus!ToSet(Bus!Current)
      /\ \A e \in DOMAIN audience : audience'[e] = audience[e]
  BY <1>0, <1>1, <1>2, <1>3, AppendEffect
<1>6. new \in 1..MaxEvents /\ letter \in Letters
  BY <1>0, <1>1, <1>2, ServicesAssumption DEF Bus!BusAssumption, Letters
<1>7. <<letter>> \in Seq(Letters) /\ <<letter>> # <<>> /\ 1 \in DOMAIN <<letter>>
      /\ <<letter>>[1] = letter
  BY <1>6
<1>8. /\ calls' \in Seq(Bus!Frame)
      /\ \A d \in DOMAIN calls' : CallBooks(lists, calls'[d])
      /\ Len(calls) + 1 \in DOMAIN calls'
      /\ calls'[Len(calls) + 1] = Starting(<<letter>>)
      /\ \A d \in DOMAIN calls : d \in DOMAIN calls' /\ calls'[d] = calls[d]
  BY <1>1, <1>7, BeginStep
<1>9. Bus!BusTypeOK' /\ lists' # <<>>
  BY <1>1, <1>4, <1>5, <1>8 DEF BusBooks, Bus!BusTypeOK
<1>10. AudienceSubscribed'
  <2>1. \A i \in audience'[new] : Bus!Contains(lists[Len(lists)], i)
    BY <1>3, <1>5 DEF Bus!Current
  <2> QED
    BY <1>1, <1>2, <1>5, <2>1 DEF BusBooks, AudienceSubscribed
<1>11. (\A e \in DOMAIN topics : \A i \in audience[e] : Expects(i, e) => Reached(i, e))'
  <2>1. ASSUME NEW e \in DOMAIN topics, NEW i \in audience[e], Expects(i, e)'
        PROVE  Reached(i, e)'
    <3>1. Expects(i, e)
      BY <1>1, <1>4, <2>1 DEF Expects, Bus!Current
    <3>2. Reached(i, e)
      BY <3>1, <2>1, NothingLostIs DEF BusBooks
    <3> QED
      BY <1>1, <1>8, <3>2 DEF Reached
  <2>2. ASSUME NEW i \in audience'[new] PROVE Reached(i, new)'
    <3>1. \E p \in DOMAIN Bus!Current : Bus!Current[p] = i
      BY <1>3, <1>5, <2>2
    <3>2. Ahead(lists, Starting(<<letter>>), i, new)
      <4>1. letter.event = new /\ letter.subscriber = Bus!All
        BY <1>0
      <4> QED
        BY <1>7, <3>1, <4>1, StartingIsAhead
    <3> QED
      BY <1>1, <1>8, <3>2 DEF Reached
  <2> QED
    BY <1>2, <1>4, <1>5, <2>1, <2>2
<1>12. Bus!NothingLost'
  <2>1. Bus!BusTypeOK' /\ (lists # <<>>)'
    BY <1>9
  <2> QED
    BY <1>11, <2>1, NothingLostIs, PTL
<1>13. (\A d \in DOMAIN calls : CallBooks(lists, calls[d]))'
  BY <1>1, <1>8 DEF CallBooks
<1>14. Len(audience') = Len(topics') /\ Len(topics') <= MaxEvents
  BY <1>4, <1>5, <1>6, ServicesAssumption DEF Bus!BusAssumption
<1> QED
  BY <1>9, <1>10, <1>12, <1>13, <1>14 DEF BusBooks

\* The dead letters are delivered again, to whoever is there by then.
LEMMA RedeliverStep == ASSUME BusBooks, Bus!Redeliver PROVE BusBooks'
<1>1. /\ redelivered < MaxRedeliveries /\ redelivered' = redelivered + 1
      /\ dead # <<>> /\ dead' = <<>> /\ Bus!Begin(dead)
      /\ UNCHANGED <<topics, lists, handled, audience>>
  BY DEF Bus!Redeliver
<1>2. /\ dead \in Seq(Bus!DeadLetter) /\ dead \in Seq(Letters)
      /\ \A n \in DOMAIN dead : dead[n] \in Bus!DeadLetter
  <2>1. dead \in Seq(Bus!DeadLetter)
    BY BusTypes
  <2> QED
    BY <2>1, LenProperties, ElementOfSeq DEF Letters
<1>3. /\ calls' \in Seq(Bus!Frame)
      /\ \A d \in DOMAIN calls' : CallBooks(lists, calls'[d])
      /\ Len(calls) + 1 \in DOMAIN calls'
      /\ calls'[Len(calls) + 1] = Starting(dead)
      /\ \A d \in DOMAIN calls : d \in DOMAIN calls' /\ calls'[d] = calls[d]
  BY <1>1, <1>2, BeginStep
<1>4. Bus!BusTypeOK' /\ lists' # <<>>
  <2>1. redelivered' \in 0..MaxRedeliveries
    BY <1>1, ServicesAssumption DEF BusBooks, Bus!BusTypeOK, Bus!BusAssumption
  <2>2. dead' \in Seq(Bus!DeadLetter)
    BY <1>1, EmptySeq
  <2> QED
    BY <1>1, <1>3, <2>1, <2>2 DEF BusBooks, Bus!BusTypeOK
<1>5. (\A e \in DOMAIN topics : \A i \in audience[e] : Expects(i, e) => Reached(i, e))'
  <2>1. ASSUME NEW e \in DOMAIN topics, NEW i \in audience[e], Expects(i, e)'
        PROVE  Reached(i, e)'
    <3>1. Expects(i, e)
      BY <1>1, <2>1 DEF Expects, Bus!Current
    <3>2. Reached(i, e)
      BY <3>1, <2>1, NothingLostIs DEF BusBooks
    <3>3. ASSUME NEW n \in DOMAIN dead,
                 dead[n] = [event |-> e, subscriber |-> Subscriber[i]]
          PROVE  Ahead(lists, Starting(dead), i, e)
      <4>1. dead[n].event = e /\ dead[n].subscriber \in {Bus!All, Subscriber[i]}
        BY <3>3
      <4> QED
        BY <1>1, <1>2, <3>1, <4>1, StartingIsAhead DEF Expects
    <3> QED
      BY <1>1, <1>3, <3>2, <3>3 DEF Reached
  <2> QED
    BY <1>1, <2>1
<1>6. Bus!NothingLost'
  <2>1. Bus!BusTypeOK' /\ (lists # <<>>)'
    BY <1>4
  <2> QED
    BY <1>5, <2>1, NothingLostIs, PTL
<1>7. (\A d \in DOMAIN calls : CallBooks(lists, calls[d]))'
  BY <1>1, <1>3 DEF CallBooks
<1>8. AudienceSubscribed'
  BY <1>1 DEF BusBooks, AudienceSubscribed
<1> QED
  BY <1>1, <1>4, <1>6, <1>7, <1>8 DEF BusBooks

\* What the lists become, no call is disturbed and nobody is added to an audience:
\* whoever was there and still is, is reached as before.
LEMMA ListsStep ==
  ASSUME BusBooks, UNCHANGED <<topics, dead, calls, handled, audience, redelivered>>,
         lists' \in Seq(Seq(Bus!Subscriptions)), lists' # <<>>, Len(lists) <= Len(lists'),
         \A n \in DOMAIN lists : /\ Len(lists[n]) <= Len(lists'[n])
                                 /\ \A p \in 1..Len(lists[n]) : lists'[n][p] = lists[n][p],
         \A e \in DOMAIN topics : \A i \in audience[e] : Expects(i, e)' => Expects(i, e)
  PROVE  BusBooks'
<1>1. Bus!BusTypeOK'
  BY DEF BusBooks, Bus!BusTypeOK
<1>2. /\ lists \in Seq(Seq(Bus!Subscriptions))
      /\ \A d \in DOMAIN calls : calls[d] \in Bus!Frame /\ CallBooks(lists, calls[d])
  BY BusTypes
<1>3. \A d \in DOMAIN calls :
         /\ CallBooks(lists', calls[d])
         /\ \A i, e : Ahead(lists, calls[d], i, e) => Ahead(lists', calls[d], i, e)
  BY <1>2, LongerLists
<1>4. (\A e \in DOMAIN topics : \A i \in audience[e] : Expects(i, e) => Reached(i, e))'
  <2>1. ASSUME NEW e \in DOMAIN topics, NEW i \in audience[e], Expects(i, e)'
        PROVE  Reached(i, e)'
    <3>1. Reached(i, e)
      BY <2>1, NothingLostIs DEF BusBooks
    <3> QED
      BY <1>3, <3>1 DEF Reached
  <2> QED
    BY <2>1
<1>5. Bus!NothingLost'
  <2>1. Bus!BusTypeOK' /\ (lists # <<>>)'
    BY <1>1
  <2> QED
    BY <1>4, <2>1, NothingLostIs, PTL
<1>6. AudienceSubscribed'
  <2>1. \A n \in DOMAIN lists : \A i : /\ n \in DOMAIN lists'
                                       /\ Bus!Contains(lists[n], i) => Bus!Contains(lists'[n], i)
    <3> SUFFICES ASSUME NEW n \in DOMAIN lists, NEW i
                 PROVE  /\ n \in DOMAIN lists'
                        /\ Bus!Contains(lists[n], i) => Bus!Contains(lists'[n], i)
      OBVIOUS
    <3>1. n \in DOMAIN lists'
      BY <1>2, LenProperties
    <3>2. Len(lists[n]) \in Nat /\ Len(lists'[n]) \in Nat
      BY <1>2, <3>1, LenProperties, ElementOfSeq
    <3>3. Len(lists[n]) <= Len(lists'[n])
          /\ \A p \in 1..Len(lists[n]) : lists'[n][p] = lists[n][p]
      OBVIOUS
    <3>4. \A p \in 1..Len(lists[n]) : p \in 1..Len(lists'[n])
      BY <3>2, <3>3
    <3> QED
      BY <3>1, <3>3, <3>4 DEF Bus!Contains
  <2> QED
    BY <2>1 DEF BusBooks, AudienceSubscribed
<1> QED
  BY <1>1, <1>3, <1>5, <1>6 DEF BusBooks, CallBooks

\* A subscription that is new is in no audience.
LEMMA SubscribeStep ==
  ASSUME BusBooks, NEW i \in Bus!Subscriptions, Bus!Subscribe(i) PROVE BusBooks'
<1>1. /\ \A n \in DOMAIN lists : ~Bus!Contains(lists[n], i)
      /\ lists' = [lists EXCEPT ![Len(lists)] = Append(Bus!Current, i)]
      /\ UNCHANGED <<topics, dead, calls, handled, audience, redelivered>>
  BY DEF Bus!Subscribe, Bus!Current
<1>2. /\ lists \in Seq(Seq(Bus!Subscriptions)) /\ Len(lists) \in 1..Len(lists)
      /\ DOMAIN lists = 1..Len(lists) /\ Len(lists) \in Nat
      /\ Bus!Current \in Seq(Bus!Subscriptions) /\ Bus!Current = lists[Len(lists)]
      /\ \A n \in DOMAIN lists : Len(lists[n]) \in Nat
  BY BusTypes, LenProperties, ElementOfSeq DEF Bus!Current
<1>0. PICK new : new = Append(Bus!Current, i)
  OBVIOUS
<1>3. /\ new \in Seq(Bus!Subscriptions) /\ Len(new) = Len(Bus!Current) + 1
      /\ DOMAIN new = DOMAIN Bus!Current \cup {Len(Bus!Current) + 1}
      /\ new[Len(Bus!Current) + 1] = i
      /\ \A p \in DOMAIN Bus!Current : new[p] = Bus!Current[p]
  BY <1>0, <1>2, AppendEffect
<1>4. /\ lists' \in Seq(Seq(Bus!Subscriptions)) /\ Len(lists') = Len(lists)
      /\ \A n \in 1..Len(lists) : lists'[n] = IF n = Len(lists) THEN new ELSE lists[n]
  BY <1>0, <1>1, <1>2, <1>3, ExceptSeq
<1>5. /\ lists' # <<>>
      /\ \A n \in DOMAIN lists : /\ Len(lists[n]) <= Len(lists'[n])
                                 /\ \A p \in 1..Len(lists[n]) : lists'[n][p] = lists[n][p]
  <2>1. Len(lists) \in Nat \ {0}
    BY <1>2, LenProperties
  <2>2. lists' # <<>>
    BY <1>4, <2>1, EmptySeq
  <2>3. \A p \in 1..Len(Bus!Current) : new[p] = Bus!Current[p]
    BY <1>2, <1>3, LenProperties
  <2>4. \A n \in 1..Len(lists) : n # Len(lists) => lists'[n] = lists[n]
    BY <1>4
  <2>5. lists'[Len(lists)] = new /\ Len(Bus!Current) \in Nat
    BY <1>2, <1>4
  <2>6. Len(Bus!Current) <= Len(new)
    BY <1>3, <2>5
  <2>7. ASSUME NEW n \in DOMAIN lists
        PROVE  /\ Len(lists[n]) <= Len(lists'[n])
               /\ \A p \in 1..Len(lists[n]) : lists'[n][p] = lists[n][p]
    <3>1. CASE n = Len(lists)
      BY <1>2, <2>3, <2>5, <2>6, <3>1
    <3>2. CASE n # Len(lists)
      <4>1. lists'[n] = lists[n] /\ Len(lists[n]) \in Nat
        BY <1>2, <2>4, <3>2
      <4> QED BY <4>1
    <3> QED BY <3>1, <3>2
  <2> QED
    BY <2>2, <2>7
<1>6. Bus!Current' = new
  <2>1. Len(lists') = Len(lists)
    BY <1>4
  <2> QED
    BY <1>2, <1>4, <2>1 DEF Bus!Current
<1>7. \A e \in DOMAIN topics : \A j \in audience[e] : Expects(j, e)' => Expects(j, e)
  <2> SUFFICES ASSUME NEW e \in DOMAIN topics, NEW j \in audience[e], Expects(j, e)'
               PROVE  Expects(j, e)
    OBVIOUS
  <2>1. PICK n \in DOMAIN lists : Bus!Contains(lists[n], j)
    BY BusTypes DEF BusBooks, AudienceSubscribed
  <2>2. j # i
    BY <1>1, <2>1
  <2>3. topics' = topics
    BY <1>1
  <2> QED
    BY <1>3, <1>6, <2>2, <2>3 DEF Expects
<1>8. Len(lists) <= Len(lists')
  <2>1. Len(lists') = Len(lists) /\ Len(lists) \in Nat
    BY <1>2, <1>4
  <2> QED BY <2>1
<1> QED
  BY <1>1, <1>4, <1>5, <1>7, <1>8, ListsStep

\* A list with one element less has no others than before.
LEMMA RemovalEffect ==
  ASSUME NEW S, NEW s \in Seq(S), NEW n \in DOMAIN s
  PROVE  /\ Bus!RemoveAt(s, n) \in Seq(S)
         /\ \A p \in DOMAIN Bus!RemoveAt(s, n) : \E q \in DOMAIN s : Bus!RemoveAt(s, n)[p] = s[q]
<1> DEFINE a == SubSeq(s, 1, n - 1)
           b == SubSeq(s, n + 1, Len(s))
<1>1. Len(s) \in Nat /\ DOMAIN s = 1..Len(s) /\ n \in 1..Len(s)
      /\ \A p \in 1..Len(s) : s[p] \in S
  BY LenProperties, ElementOfSeq
<1>2. /\ a \in Seq(S) /\ b \in Seq(S)
      /\ Len(a) = n - 1 /\ Len(b) = Len(s) - n
      /\ \A p \in 1..n - 1 : a[p] = s[p]
      /\ \A p \in 1..Len(s) - n : b[p] = s[n + p]
  <2>1. /\ a \in Seq(S) /\ Len(a) = (IF 1 <= n - 1 THEN (n - 1) - 1 + 1 ELSE 0)
        /\ \A p \in 1..(n - 1) - 1 + 1 : a[p] = s[1 + p - 1]
    BY <1>1, SubSeqProperties
  <2>2. /\ b \in Seq(S) /\ Len(b) = (IF n + 1 <= Len(s) THEN Len(s) - (n + 1) + 1 ELSE 0)
        /\ \A p \in 1..Len(s) - (n + 1) + 1 : b[p] = s[(n + 1) + p - 1]
    BY <1>1, SubSeqProperties
  <2> HIDE DEF a, b
  <2>3. /\ (IF 1 <= n - 1 THEN (n - 1) - 1 + 1 ELSE 0) = n - 1
        /\ (IF n + 1 <= Len(s) THEN Len(s) - (n + 1) + 1 ELSE 0) = Len(s) - n
        /\ \A p \in 1..n - 1 : p \in 1..(n - 1) - 1 + 1 /\ 1 + p - 1 = p
        /\ \A p \in 1..Len(s) - n : p \in 1..Len(s) - (n + 1) + 1 /\ (n + 1) + p - 1 = n + p
    BY <1>1
  <2>4. ASSUME NEW p \in 1..n - 1 PROVE a[p] = s[p]
    <3>1. a[p] = s[1 + p - 1] /\ 1 + p - 1 = p
      BY <2>1, <2>3
    <3> QED BY <3>1
  <2>5. ASSUME NEW p \in 1..Len(s) - n PROVE b[p] = s[n + p]
    <3>1. b[p] = s[(n + 1) + p - 1] /\ (n + 1) + p - 1 = n + p
      BY <2>2, <2>3
    <3> QED BY <3>1
  <2> QED BY <2>1, <2>2, <2>3, <2>4, <2>5
<1> HIDE DEF a, b
<1>3. /\ a \o b \in Seq(S) /\ Len(a \o b) = Len(a) + Len(b)
      /\ \A p \in 1..Len(a) + Len(b) :
            (a \o b)[p] = IF p <= Len(a) THEN a[p] ELSE b[p - Len(a)]
  BY <1>2, ConcatProperties
<1>4. DOMAIN (a \o b) = 1..Len(a) + Len(b)
  BY <1>3, LenProperties
<1>5. \A p \in DOMAIN (a \o b) : \E q \in DOMAIN s : (a \o b)[p] = s[q]
  <2> SUFFICES ASSUME NEW p \in 1..Len(a) + Len(b)
               PROVE  \E q \in DOMAIN s : (a \o b)[p] = s[q]
    BY <1>4
  <2>1. CASE p <= n - 1
    <3>1. p \in 1..n - 1 /\ p \in DOMAIN s /\ p \in 1..Len(a) + Len(b) /\ p <= Len(a)
      BY <1>1, <1>2, <2>1
    <3> QED BY <1>2, <1>3, <3>1
  <2>2. CASE ~(p <= n - 1)
    <3>1. /\ p - (n - 1) \in 1..Len(s) - n /\ n + (p - (n - 1)) \in DOMAIN s
          /\ ~(p <= Len(a)) /\ Len(a) = n - 1
      BY <1>1, <1>2, <2>2
    <3>2. (a \o b)[p] = b[p - (n - 1)]
      BY <1>3, <3>1
    <3> QED BY <1>2, <3>1, <3>2
  <2> QED BY <2>1, <2>2
<1> QED
  BY <1>3, <1>5 DEF Bus!RemoveAt, a, b

\* Calls go on with the list there was; the new one has nobody who was not in it.
LEMMA UnsubscribeStep ==
  ASSUME BusBooks, NEW i \in Bus!Subscriptions, Bus!Unsubscribe(i) PROVE BusBooks'
<1>1. PICK n \in DOMAIN Bus!Current : lists' = Append(lists, Bus!RemoveAt(Bus!Current, n))
  BY DEF Bus!Unsubscribe
<1>2. UNCHANGED <<topics, dead, calls, handled, audience, redelivered>>
  BY DEF Bus!Unsubscribe
<1>3. /\ lists \in Seq(Seq(Bus!Subscriptions)) /\ DOMAIN lists = 1..Len(lists)
      /\ Bus!Current \in Seq(Bus!Subscriptions)
      /\ \A m \in DOMAIN lists : Len(lists[m]) \in Nat
      /\ Len(lists) \in Nat
  BY BusTypes, LenProperties, ElementOfSeq
<1>4. PICK new \in Seq(Bus!Subscriptions) :
        /\ lists' = Append(lists, new)
        /\ \A p \in DOMAIN new : \E q \in DOMAIN Bus!Current : new[p] = Bus!Current[q]
  BY <1>1, <1>3, RemovalEffect
<1>5. /\ lists' \in Seq(Seq(Bus!Subscriptions)) /\ lists' # <<>>
      /\ Len(lists') = Len(lists) + 1 /\ lists'[Len(lists) + 1] = new
      /\ \A m \in DOMAIN lists : lists'[m] = lists[m]
  BY <1>3, <1>4, AppendEffect
<1>6. Bus!Current' = new
  <2>1. Len(lists') = Len(lists) + 1
    BY <1>5
  <2> QED
    BY <1>5, <2>1 DEF Bus!Current
<1>7. \A e \in DOMAIN topics : \A j \in audience[e] : Expects(j, e)' => Expects(j, e)
  BY <1>2, <1>4, <1>6 DEF Expects
<1>8. /\ Len(lists) <= Len(lists')
      /\ \A m \in DOMAIN lists : /\ Len(lists[m]) <= Len(lists'[m])
                                 /\ \A p \in 1..Len(lists[m]) : lists'[m][p] = lists[m][p]
  BY <1>3, <1>5
<1> QED
  BY <1>2, <1>5, <1>7, <1>8, ListsStep

\* Every step of the bus keeps its books.
LEMMA BusStep == ASSUME BusBooks, [Bus!BusNext]_busVars PROVE BusBooks'
<1>1. CASE UNCHANGED busVars
  <2>1. UNCHANGED <<topics, lists, dead, calls, handled, audience, redelivered>>
    BY <1>1 DEF busVars
  <2>2. \A e, i : Expects(i, e)' <=> Expects(i, e)
    BY <2>1 DEF Expects, Bus!Current
  <2>3. /\ lists \in Seq(Seq(Bus!Subscriptions)) /\ Len(lists) \in Nat
        /\ \A m \in DOMAIN lists : Len(lists[m]) \in Nat
    BY BusTypes, LenProperties, ElementOfSeq
  <2>4. lists # <<>>
    BY DEF BusBooks
  <2> QED
    BY <2>1, <2>2, <2>3, <2>4, ListsStep
<1> QED
  BY <1>1, PublishStep, RedeliverStep, SubscribeStep, UnsubscribeStep, SkipStep, HandleStep,
     ReturnsStep, RaisesStep, DoneStep DEF Bus!BusNext

\* The books hold at the start and at every step.
LEMMA BusBooksKept == Spec => []BusBooks
<1>1. Init => BusBooks
  <2> SUFFICES ASSUME Bus!BusInit PROVE BusBooks
    BY DEF Init
  <2>1. Bus!BusTypeOK
    BY ServicesAssumption DEF Bus!BusInit, Bus!BusTypeOK, Bus!BusAssumption
  <2> QED
    BY <2>1, ServicesAssumption
       DEF Bus!BusInit, BusBooks, AudienceSubscribed, Bus!NothingLost, Bus!BusAssumption
<1>2. BusBooks /\ [Next]_vars => BusBooks'
  <2>1. [Next]_vars => [Bus!BusNext]_busVars
    BY DEF Next, vars, busVars
  <2> QED
    BY <2>1, BusStep
<1> QED
  BY <1>1, <1>2, PTL DEF Spec

\* Every event reaches its subscriptions or the dead letters, for any number of
\* subscriptions, events, calls within calls and redeliveries.
THEOREM EveryEventArrives == Spec => []NothingLost
<1>1. BusBooks => NothingLost
  BY DEF BusBooks, NothingLost
<1> QED
  BY <1>1, BusBooksKept, PTL

--------------------------------------------------------------------------------
(* Types                                                                       *)

\* A reader has taken a value from its source, an entry the value of a reader.
LEMMA CacheStep ==
  ASSUME Cache!CacheTypeOK, [Cache!CacheNext]_cacheVars PROVE Cache!CacheTypeOK'
<1> USE ServicesAssumption DEF Cache!CacheAssumption, Cache!CacheTypeOK, Cache!Changes
<1> DEFINE Lives == 0..TimeToLive \cup {Cache!Forever}
           Entries == [value : 0..MaxChanges, left : Lives] \cup {Cache!Absent}
           InHand == [at : {"look"}] \cup [at : {"compute"}, key : CacheKeys]
                       \cup [at : {"store"}, key : CacheKeys, value : 0..MaxChanges]
<1>0. /\ store \in [CacheKeys -> Entries] /\ Cache!Absent \in Entries
      /\ reader \in [Readers -> InHand] /\ Cache!Calls = InHand
  BY DEF Cache!Calls
<1>1. ASSUME NEW r \in Readers, NEW k \in CacheKeys, Cache!Miss(r, k) PROVE Cache!CacheTypeOK'
  <2>1. [at |-> "compute", key |-> k] \in InHand
    OBVIOUS
  <2> HIDE DEF Entries, InHand
  <2> QED
    BY <1>0, <1>1, <2>1 DEF Cache!Miss, Entries
<1>2. ASSUME NEW r \in Readers, Cache!Compute(r) PROVE Cache!CacheTypeOK'
  <2>1. reader[r] \in InHand /\ reader[r].at = "compute"
    BY <1>0, <1>2 DEF Cache!Compute
  <2>2. reader[r].key \in CacheKeys
    BY <2>1
  <2>3. [at |-> "store", key |-> reader[r].key, value |-> source[reader[r].key]] \in InHand
    BY <2>2
  <2> HIDE DEF Entries, InHand
  <2> QED
    BY <1>0, <1>2, <2>3 DEF Cache!Compute
<1>3. ASSUME NEW r \in Readers, Cache!Store(r) PROVE Cache!CacheTypeOK'
  <2>1. reader[r] \in InHand /\ reader[r].at = "store"
    BY <1>0, <1>3 DEF Cache!Store
  <2>2. reader[r].key \in CacheKeys /\ reader[r].value \in 0..MaxChanges
    BY <2>1
  <2>3. /\ \A ttl \in {TimeToLive, Cache!Forever} :
              [value |-> reader[r].value, left |-> ttl] \in Entries
        /\ [at |-> "look"] \in InHand
    BY <2>2
  <2>4. PICK ttl \in {TimeToLive, Cache!Forever} :
             store' = [store EXCEPT ![reader[r].key] =
                          [value |-> reader[r].value, left |-> ttl]]
    BY <1>3 DEF Cache!Store
  <2>5. /\ reader' = [reader EXCEPT ![r] = [at |-> "look"]]
        /\ UNCHANGED <<source, outdated>>
    BY <1>3 DEF Cache!Store
  <2>6. store' \in [CacheKeys -> Entries]
    <3> HIDE DEF Entries
    <3> QED BY <1>0, <2>2, <2>3, <2>4
  <2> HIDE DEF InHand
  <2> QED
    BY <1>0, <2>3, <2>5, <2>6
<1>4. ASSUME NEW k \in CacheKeys, Cache!ChangeSource(k) \/ Cache!Invalidate(k)
      PROVE  Cache!CacheTypeOK'
  <2> HIDE DEF InHand
  <2> QED
    BY <1>0, <1>4 DEF Cache!ChangeSource, Cache!Invalidate
<1>5. CASE Cache!Clear
  BY <1>0, <1>5 DEF Cache!Clear
<1>6. CASE Cache!TimePasses
  <2>1. \A c \in Entries : [c EXCEPT !.left = IF c.left > 0 THEN c.left - 1 ELSE c.left] \in Entries
    <3> SUFFICES ASSUME NEW c \in Entries
                 PROVE  [c EXCEPT !.left = IF c.left > 0 THEN c.left - 1 ELSE c.left] \in Entries
      OBVIOUS
    <3>1. CASE c = Cache!Absent
      <4>1. [c EXCEPT !.left = c.left] = Cache!Absent /\ ~(c.left > 0)
        BY <3>1 DEF Cache!Absent
      <4> QED BY <4>1
    <3>2. CASE c \in [value : 0..MaxChanges, left : Lives]
      <4>1. PICK l \in Lives : l = IF c.left > 0 THEN c.left - 1 ELSE c.left
        BY <3>2 DEF Cache!Forever
      <4>2. [c EXCEPT !.left = l] \in [value : 0..MaxChanges, left : Lives]
        BY <3>2
      <4> QED BY <4>1, <4>2
    <3> QED BY <3>1, <3>2
  <2> HIDE DEF Entries, InHand
  <2>2. store' \in [CacheKeys -> Entries]
    BY <1>0, <1>6, <2>1 DEF Cache!TimePasses
  <2> QED
    BY <1>0, <1>6, <2>2 DEF Cache!TimePasses, Entries
<1>7. CASE UNCHANGED cacheVars
  BY <1>7 DEF cacheVars
<1> QED
  BY <1>1, <1>2, <1>3, <1>4, <1>5, <1>6, <1>7 DEF Cache!CacheNext

\* There are as many tasks registered as a number can tell.
LEMMA RegisteredIsFinite ==
  ASSUME order \in Seq(Names) PROVE Tasks!Cardinality(Tasks!Registered) \in Nat
<1>1. Len(order) \in Nat /\ order \in [1..Len(order) -> Names] /\ DOMAIN order = 1..Len(order)
  BY LenProperties
<1>2. order \in Surjection(1..Len(order), Tasks!ToSet(order))
  BY <1>1 DEF Surjection, Tasks!ToSet
<1>3. IsFiniteSet(1..Len(order))
  BY <1>1, FS_Interval
<1>4. IsFiniteSet(Tasks!ToSet(order))
  BY <1>2, <1>3, FS_Surjection
<1>5. IsFiniteSet(Tasks!Registered)
  BY <1>4, FS_Subset DEF Tasks!Registered
<1>6. Tasks!Cardinality(Tasks!Registered) = Cardinality(Tasks!Registered)
  BY DEF Tasks!Cardinality, Cardinality
<1> QED
  BY <1>5, <1>6, FS_CardinalityType

Ticks == [on : BOOLEAN, inside : BOOLEAN, at : Nat, size : Nat, lag : 0..MaxLag]

\* Whatever field of a tick is written, it stays one.
LEMMA TickEdits ==
  ASSUME NEW r \in Ticks, NEW n \in Nat, NEW l \in 0..MaxLag, NEW b \in BOOLEAN
  PROVE  /\ [r EXCEPT !.on = b] \in Ticks
         /\ [r EXCEPT !.inside = b] \in Ticks
         /\ [r EXCEPT !.at = n] \in Ticks
         /\ [r EXCEPT !.size = n] \in Ticks
         /\ [r EXCEPT !.lag = l] \in Ticks
<1>1. [r EXCEPT !.on = b] \in Ticks
  BY DEF Ticks
<1>2. [r EXCEPT !.inside = b] \in Ticks
  BY DEF Ticks
<1>3. [r EXCEPT !.at = n] \in Ticks
  BY DEF Ticks
<1>4. [r EXCEPT !.size = n] \in Ticks
  BY DEF Ticks
<1>5. [r EXCEPT !.lag = l] \in Ticks
  BY DEF Ticks
<1> QED BY <1>1, <1>2, <1>3, <1>4, <1>5

\* A tick counts its lag no further than the bound, and places and sizes.
LEMMA TaskStep == ASSUME Tasks!TaskTypeOK, [Tasks!TaskNext]_taskVars PROVE Tasks!TaskTypeOK'
<1> USE ServicesAssumption DEF Tasks!TaskAssumption, Tasks!TaskTypeOK
<1>0. /\ Tasks!Resting \in Ticks /\ Tasks!Never \in Int /\ tick \in [Tickers -> Ticks]
      /\ \A r \in Ticks : r.at \in Nat /\ r.lag \in 0..MaxLag
      /\ tick' \in [Tickers -> Ticks] /\ age' \in [Names -> Int]
         /\ order' \in Seq(Names) /\ removed' \subseteq Names /\ disabled' \subseteq Names
         => Tasks!TaskTypeOK'
  BY DEF Tasks!Resting, Tasks!Never, Ticks
<1>1. ASSUME NEW n \in Names, Tasks!Register(n) \/ Tasks!Unregister(n) \/ Tasks!Switch(n)
      PROVE  Tasks!TaskTypeOK'
  <2>1. \A m \in Names : Append(order, m) \in Seq(Names)
    BY AppendProperties
  <2> QED
    BY <1>0, <1>1, <2>1 DEF Tasks!Register, Tasks!Unregister, Tasks!Switch
<1>2. ASSUME NEW t \in Tickers, NEW new \in Ticks, tick' = [tick EXCEPT ![t] = new]
      PROVE  tick' \in [Tickers -> Ticks]
  BY <1>0, <1>2
<1>3. ASSUME NEW t \in Tickers, Tasks!BeginTick(t) PROVE Tasks!TaskTypeOK'
  <2>1. PICK size \in Nat : size = Tasks!Cardinality(Tasks!Registered)
    BY RegisteredIsFinite
  <2>2. PICK on : on = [Tasks!Resting EXCEPT !.on = TRUE]
    OBVIOUS
  <2>3. PICK first : first = [on EXCEPT !.at = 1]
    OBVIOUS
  <2>4. PICK new : new = [first EXCEPT !.size = size]
    OBVIOUS
  <2>5. on \in Ticks
    BY <1>0, <2>2, TickEdits
  <2>6. first \in Ticks
    BY <2>3, <2>5, TickEdits
  <2>7. new \in Ticks
    BY <2>4, <2>6, TickEdits
  <2>8. tick' = [tick EXCEPT ![t] = new]
    <3>1. tick' = [tick EXCEPT ![t] =
            [Tasks!Resting EXCEPT !.on = TRUE, !.at = 1, !.size = Tasks!Cardinality(Tasks!Registered)]]
      BY <1>3 DEF Tasks!BeginTick
    <3> QED BY <2>1, <2>2, <2>3, <2>4, <3>1
  <2>9. UNCHANGED <<order, removed, disabled, age>>
    BY <1>3 DEF Tasks!BeginTick
  <2> QED
    BY <1>0, <1>2, <2>7, <2>8, <2>9
<1>4. ASSUME NEW t \in Tickers,
             Tasks!TickRaises(t) \/ Tasks!TickEnds(t) \/ Tasks!TaskRaises(t)
      PROVE  Tasks!TaskTypeOK'
  BY <1>0, <1>2, <1>4 DEF Tasks!TickRaises, Tasks!TickEnds, Tasks!TaskRaises
<1>5. ASSUME NEW t \in Tickers, Tasks!NextTask(t) \/ Tasks!RunTask(t) PROVE Tasks!TaskTypeOK'
  <2>1. PICK r \in Ticks : r = tick[t]
    BY <1>0
  <2>2. [r EXCEPT !.at = r.at + 1] \in Ticks /\ [r EXCEPT !.inside = TRUE] \in Ticks
    <3>1. r.at + 1 \in Nat
      BY <1>0
    <3> QED BY <3>1, TickEdits
  <2>3. UNCHANGED <<order, removed, disabled, age>>
    BY <1>5 DEF Tasks!NextTask, Tasks!RunTask
  <2>4. \/ tick' = [tick EXCEPT ![t] = [r EXCEPT !.at = r.at + 1]]
        \/ tick' = [tick EXCEPT ![t] = [r EXCEPT !.inside = TRUE]]
    BY <1>5, <2>1 DEF Tasks!NextTask, Tasks!RunTask
  <2>5. \E new \in Ticks : tick' = [tick EXCEPT ![t] = new]
    BY <2>2, <2>4
  <2> QED
    BY <1>0, <1>2, <2>3, <2>5
<1>6. ASSUME NEW t \in Tickers, Tasks!TaskReturns(t) PROVE Tasks!TaskTypeOK'
  <2>1. PICK r \in Ticks : r = tick[t]
    BY <1>0
  <2>2. PICK half : half = [r EXCEPT !.inside = FALSE]
    OBVIOUS
  <2>3. half \in Ticks /\ r.at + 1 \in Nat
    <3>1. half \in Ticks
      BY <2>2, TickEdits
    <3> QED BY <1>0, <3>1
  <2>4. PICK back : back = [half EXCEPT !.at = r.at + 1]
    OBVIOUS
  <2>5. back \in Ticks
    BY <2>3, <2>4, TickEdits
  <2>6. tick' = [tick EXCEPT ![t] = back]
    <3>1. tick' = [tick EXCEPT ![t].inside = FALSE, ![t].at = @ + 1]
      BY <1>6 DEF Tasks!TaskReturns
    <3> QED
      BY <1>0, <2>1, <2>2, <2>4, <3>1
  <2>7. age' \in [Names -> Int] /\ UNCHANGED <<order, removed, disabled>>
    BY <1>6 DEF Tasks!TaskReturns
  <2> QED
    BY <1>0, <1>2, <2>5, <2>6, <2>7
<1>7. CASE Tasks!TimePassesBy
  <2>1. \A r \in Ticks : r.lag < MaxLag => [r EXCEPT !.lag = r.lag + 1] \in Ticks
    <3> SUFFICES ASSUME NEW r \in Ticks, r.lag < MaxLag
                 PROVE  [r EXCEPT !.lag = r.lag + 1] \in Ticks
      OBVIOUS
    <3>1. r.lag + 1 \in 0..MaxLag
      BY <1>0
    <3> QED BY <3>1, TickEdits
  <2>2. \A t \in Tickers : tick[t].lag < MaxLag
    BY <1>7 DEF Tasks!TimePassesBy
  <2>3. tick' \in [Tickers -> Ticks]
    BY <1>0, <1>7, <2>1, <2>2 DEF Tasks!TimePassesBy
  <2>4. age' \in [Names -> Int]
    BY <1>7 DEF Tasks!TimePassesBy
  <2> QED
    BY <1>0, <1>7, <2>3, <2>4 DEF Tasks!TimePassesBy
<1>8. CASE UNCHANGED taskVars
  BY <1>8 DEF taskVars
<1> QED
  BY <1>1, <1>3, <1>4, <1>5, <1>6, <1>7, <1>8 DEF Tasks!TaskNext, Tasks!Tick

\* Attempts stay within their number; SyncTypeOK follows for the rest.
LEMMA SyncStep == ASSUME Sync!SyncTypeOK, [Sync!SyncNext]_syncVars PROVE Sync!SyncTypeOK'
<1> USE ServicesAssumption DEF Sync!SyncAssumption, Sync!SyncTypeOK, Sync!States
<1>1. ASSUME NEW c \in Callers, Sync!Run(c) PROVE Sync!SyncTypeOK'
  BY <1>1 DEF Sync!Run, Sync!EnterLoop
<1>2. ASSUME NEW c \in Callers, Sync!Recover(c) PROVE Sync!SyncTypeOK'
  BY <1>2 DEF Sync!Recover, Sync!EnterLoop, Sync!Budget
<1>3. ASSUME NEW c \in Callers, NEW o \in [ok : BOOLEAN, next : 0..Records], Sync!Report(c, o)
      PROVE  /\ state' \in Sync!States /\ attempts' \in 0..MaxAttempts
             /\ cursor' \in 0..Records /\ running' \in [Callers -> 0..Records \cup {Sync!Free}]
             /\ excused' \in BOOLEAN
  <2>1. CASE Sync!Ends(o)
    BY <1>3, <2>1 DEF Sync!Report, Sync!StateAfter, Sync!CursorAfter
  <2>2. CASE ~Sync!Ends(o)
    BY <1>3, <2>2 DEF Sync!Report, Sync!Ends
  <2> QED
    BY <2>1, <2>2
<1>4. ASSUME NEW c \in Callers, Sync!Succeeds(c) PROVE Sync!SyncTypeOK'
  <2>1. [ok |-> TRUE, next |-> Records] \in [ok : BOOLEAN, next : 0..Records]
    OBVIOUS
  <2>2. Sync!Report(c, [ok |-> TRUE, next |-> Records]) /\ moved' = Records /\ runs' = runs
    BY <1>4 DEF Sync!Succeeds
  <2> QED
    BY <1>3, <2>1, <2>2
<1>5. ASSUME NEW c \in Callers, Sync!Fails(c) PROVE Sync!SyncTypeOK'
  <2>1. running[c] \in 0..Records
    BY <1>5 DEF Sync!Fails, Sync!IsFree, Sync!Free
  <2>2. PICK n \in running[c]..Records :
          /\ moved' = IF n > moved THEN n ELSE moved
          /\ \E told \in {n, 0} : Sync!Report(c, [ok |-> FALSE, next |-> told])
    BY <1>5 DEF Sync!Fails
  <2>3. n \in 0..Records
    BY <2>1
  <2>4. PICK told \in {n, 0} : Sync!Report(c, [ok |-> FALSE, next |-> told])
    BY <2>2
  <2>5. [ok |-> FALSE, next |-> told] \in [ok : BOOLEAN, next : 0..Records]
    BY <2>3
  <2>6. runs' = runs /\ moved' \in 0..Records
    BY <1>5, <2>2, <2>3 DEF Sync!Fails
  <2> QED
    BY <1>3, <2>4, <2>5, <2>6
<1>6. ASSUME NEW c \in Callers, Sync!Interrupted(c) PROVE Sync!SyncTypeOK'
  BY <1>6 DEF Sync!Interrupted
<1>7. CASE UNCHANGED syncVars
  BY <1>7 DEF syncVars
<1> QED
  BY <1>1, <1>2, <1>4, <1>5, <1>6, <1>7 DEF Sync!SyncNext, Sync!RunnerReturns

\* The types of cache, tasks and synchronisation are inductive as they stand.
LEMMA OwnTypesKept ==
  Spec => [](Cache!CacheTypeOK /\ Tasks!TaskTypeOK /\ Sync!SyncTypeOK)
<1> DEFINE Own == Cache!CacheTypeOK /\ Tasks!TaskTypeOK /\ Sync!SyncTypeOK
<1>1. Init => Own
  <2>1. Init => Cache!CacheTypeOK
    BY ServicesAssumption
       DEF Init, Cache!CacheInit, Cache!CacheTypeOK, Cache!Calls, Cache!Changes,
           Cache!CacheAssumption
  <2>2. Init => Tasks!TaskTypeOK
    BY ServicesAssumption
       DEF Init, Tasks!TaskInit, Tasks!TaskTypeOK, Tasks!Resting, Tasks!Never,
           Tasks!TaskAssumption
  <2>3. Init => Sync!SyncTypeOK
    <3> SUFFICES ASSUME Sync!SyncInit PROVE Sync!SyncTypeOK
      BY DEF Init
    <3>1. state \in Sync!States /\ excused \in BOOLEAN
      BY DEF Sync!SyncInit, Sync!States
    <3>2. /\ attempts \in 0..MaxAttempts /\ runs \in 0..MaxRuns
          /\ cursor \in 0..Records /\ moved \in 0..Records
      BY ServicesAssumption DEF Sync!SyncInit, Sync!SyncAssumption
    <3>3. running \in [Callers -> 0..Records \cup {Sync!Free}]
      BY DEF Sync!SyncInit
    <3> QED
      BY <3>1, <3>2, <3>3 DEF Sync!SyncTypeOK
  <2> QED
    BY <2>1, <2>2, <2>3
<1>2. Own /\ [Next]_vars => Own'
  <2> SUFFICES ASSUME Own, [Next]_vars PROVE Own'
    OBVIOUS
  <2>1. /\ [Cache!CacheNext]_cacheVars
        /\ [Tasks!TaskNext]_taskVars
        /\ [Sync!SyncNext]_syncVars
    BY DEF Next, vars, cacheVars, taskVars, syncVars
  <2> QED
    BY <2>1, CacheStep, TaskStep, SyncStep
<1> QED
  BY <1>1, <1>2, PTL DEF Spec

\* The types of the sessions are those of Sessions_proofs.
LEMMA SessionTypesKept == Spec => []Auth!AuthTypeOK
<1>1. AuthProofs!AuthSpec => []AuthProofs!AuthTypeOK
  BY SameSessions, AuthProofs!TypeCorrect
<1>2. AuthProofs!AuthTypeOK => Auth!AuthTypeOK
  BY DEF Auth!AuthTypeOK, AuthProofs!AuthTypeOK, Auth!Pairs, AuthProofs!Pairs,
         Auth!SessionRecords, AuthProofs!SessionRecords, Auth!RefreshRecords,
         AuthProofs!RefreshRecords, Auth!RecoveryRecords, AuthProofs!RecoveryRecords
<1> QED
  BY <1>1, <1>2, IsSessions, PTL

\* Every variable of every service keeps its type, for all values of the constants.
THEOREM TypeCorrect == Spec => []TypeOK
<1>1. /\ SlotBooks => Load!LoadTypeOK
      /\ RateBooks => Limiter!RateTypeOK
      /\ AuditBooks => Audit!AuditTypeOK
      /\ BusBooks => Bus!BusTypeOK
      /\ HookBooks => Hooks!HookTypeOK
      /\ IntgBooks => Intg!IntgTypeOK
  BY DEF SlotBooks, RateBooks, AuditBooks, BusBooks, HookBooks, IntgBooks
<1>2. ConfigBooks => Config!ConfigTypeOK
  BY DEF ConfigBooks, Config!ConfigTypeOK, Statuses, Versions, Requests
<1>3. /\ SlotBooks /\ RateBooks /\ ConfigBooks /\ AuditBooks /\ BusBooks /\ HookBooks /\ IntgBooks
      /\ Cache!CacheTypeOK /\ Tasks!TaskTypeOK /\ Sync!SyncTypeOK /\ Auth!AuthTypeOK
      => TypeOK
  BY <1>1, <1>2 DEF TypeOK
<1> QED
  BY <1>3, SlotBooksKept, RateBooksKept, ConfigBooksKept, AuditBooksKept, BusBooksKept,
     HookBooksKept, IntgBooksKept, OwnTypesKept, SessionTypesKept, PTL

================================================================================
