--------------------------- MODULE MCWorkflowEngine ----------------------------
(* Small instances of WorkflowEngine: a handful of graphs and policies.       *)
EXTENDS WorkflowEngine

Job(c, j) == [cap |-> c, job |-> j]

\* Task 1 needs task 2; task 3 does the work of task 2 over again.
Crossed ==
    [deps |-> <<{2}, {}, {}>>,
     work |-> <<Job("match", "x"), Job("match", "y"), Job("match", "y")>>,
     optional |-> {}, conditional |-> {}]

\* Task 2 is optional and conditional, task 3 needs both others; the work of
\* task 1 is what the fallback of "match"/"x" would do.
Joined ==
    [deps |-> <<{}, {}, {1, 2}>>,
     work |-> <<Job("backup", "x"), Job("match", "x"), Job("rank", "z")>>,
     optional |-> {2}, conditional |-> {2, 3}]

Cyclic ==
    [deps |-> <<{2}, {1}>>,
     work |-> <<Job("match", "x"), Job("match", "y")>>,
     optional |-> {}, conditional |-> {}]

Dangling ==
    [deps |-> <<{4}>>, work |-> <<Job("match", "x")>>, optional |-> {}, conditional |-> {}]

Oversized ==
    [deps |-> <<{}, {}, {}, {}>>, work |-> [t \in 1..4 |-> Job("match", "x")],
     optional |-> {}, conditional |-> {}]

MCGraphs == {Crossed, Joined, Cyclic, Dangling, Oversized}

\* continue_on_failure with retries, a stop at the first failure, and a fallback.
MCPolicies ==
    {[retries |-> 1, continue |-> TRUE, fallback |-> NoCap],
     [retries |-> 0, continue |-> FALSE, fallback |-> "backup"],
     [retries |-> 0, continue |-> TRUE, fallback |-> "backup"]}
================================================================================
