------------------------------- MODULE MCServices -------------------------------
(* A small instance of Services.  The second configuration key takes one value *)
(* only; the entries of type "short" are kept for a shorter time under the     *)
(* first policy, for a longer one under the second.  One name has two          *)
(* subscriptions to the event bus, of which one wants every topic.             *)
EXTENDS Services

MCValid(k, v) == k = "free" \/ v = 1
MCInterval == [n \in Names |-> 1]
MCPolicies == {[t \in Types |-> IF t = "short" THEN 0 ELSE 1],
               [t \in Types |-> IF t = "short" THEN 1 ELSE 0]}
MCSubscriber == <<"crm", "crm">>
MCWanted == <<{"t", "u"}, {"t"}>>
================================================================================
