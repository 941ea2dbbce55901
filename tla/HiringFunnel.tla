----------------------------- MODULE HiringFunnel ------------------------------
(***************************************************************************)
(* The hiring funnel (src/src/pipeline/models.py): its stages, the moves   *)
(* between them, and the records of the candidates, changed one at a time  *)
(* and kept for ever.  This is what the pipeline engine promises;          *)
(* PipelineStore is how it keeps its records in one JSON file.             *)
(***************************************************************************)
EXTENDS Integers, Sequences

CONSTANTS
    Candidates,
    Edits,       \* notes, tags, owners, priorities: changes other than moves
    NoRecord     \* the candidate is not tracked

VARIABLE records

-------------------------------------------------------------------------------
(* Stages *)

FunnelOrder ==
    <<"Applied", "Shortlisted", "Recruiter Review", "Technical Interview",
      "Hiring Manager", "HR Interview", "Offer", "Offer Accepted">>

Funnel == {FunnelOrder[i] : i \in 1..8}
Parking == {"Rejected", "Hold"}
Stages == Funnel \cup Parking

Position(stage) == CHOOSE i \in 1..8 : FunnelOrder[i] = stage

AllowedTransitions(stage) ==
    CASE stage = "Offer Accepted" -> {"Hold"}
      [] stage = "Hold"           -> Stages \ {"Hold"}
      [] stage = "Rejected"       -> {"Shortlisted", "Recruiter Review", "Hold"}
      [] OTHER -> Parking \cup ({FunnelOrder[i] : i \in 1..(Position(stage) + 1)} \ {stage})

\* Mutated form: any stage of the funnel can be reached directly.
CanTransition_Skipping(source, target) == target \in Funnel \/ target \in AllowedTransitions(source)

CanTransition(source, target) == source = target \/ target \in AllowedTransitions(source)

HasNext(stage) == stage \in Funnel \ {"Offer Accepted"}

NextStage(stage) == FunnelOrder[Position(stage) + 1]

DeriveStatus(stage) ==
    CASE stage = "Rejected"       -> "Rejected"
      [] stage = "Offer Accepted" -> "Hired"
      [] stage = "Hold"           -> "On Hold"
      [] OTHER                    -> "Active"

-------------------------------------------------------------------------------
(* Records *)

\* CandidatePipelineStatus: current_stage, the to_stage of each event of
\* stage_history, the derived status, and the other changes made to it.
Statuses == {"Active", "Rejected", "Hired", "On Hold"}

Record == [stage: Stages, history: Seq(Stages), status: Statuses, edits: SUBSET Edits]

NewRecord ==
    [stage |-> "Applied", history |-> <<"Applied">>, status |-> "Active", edits |-> {}]

Moved(rec, target) ==
    [rec EXCEPT !.history = Append(@, target), !.stage = target, !.status = DeriveStatus(target)]

Edited(rec, e) == [rec EXCEPT !.edits = @ \cup {e}]

\* A record whose history is a path through the funnel that ends at its stage.
IsLegal(rec) ==
    /\ Len(rec.history) >= 1
    /\ rec.history[1] = "Applied"
    /\ rec.history[Len(rec.history)] = rec.stage
    /\ rec.status = DeriveStatus(rec.stage)
    /\ \A i \in 1..(Len(rec.history) - 1) :
          \/ rec.history[i + 1] = rec.history[i]
          \/ rec.history[i + 1] \in AllowedTransitions(rec.history[i])

-------------------------------------------------------------------------------
(* What a user of the pipeline sees *)

Init == records = [c \in Candidates |-> NoRecord]

Enter(c) ==
    /\ records[c] = NoRecord
    /\ records' = [records EXCEPT ![c] = NewRecord]

Move(c, target) ==
    /\ records[c] # NoRecord
    /\ CanTransition(records[c].stage, target)
    /\ records' = [records EXCEPT ![c] = Moved(@, target)]

Edit(c, e) ==
    /\ records[c] # NoRecord
    /\ records' = [records EXCEPT ![c] = Edited(@, e)]

Next ==
    \/ \E c \in Candidates : Enter(c)
    \/ \E c \in Candidates, target \in Stages : Move(c, target)
    \/ \E c \in Candidates, e \in Edits : Edit(c, e)

Spec == Init /\ [][Next]_records
================================================================================
