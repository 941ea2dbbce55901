-------------------------- MODULE PipelineStore_proofs -------------------------
(***************************************************************************)
(* What the pipeline's file keeps under any number of sessions, whatever   *)
(* they overwrite of each other and wherever the process stops: a record   *)
(* that can be read has a status and a history the funnel allows.  And     *)
(* what it keeps where one session runs: the file is never seen half       *)
(* written, no history loses an event, and each change is one of the       *)
(* funnel's.                                                               *)
(***************************************************************************)
EXTENDS PipelineStore, FiniteSetTheorems, TLAPS

-------------------------------------------------------------------------------
(* The funnel *)

LegalRecord == {rec \in Funnel!Record : Funnel!IsLegal(rec)}

\* The stages of the funnel, one by one.
LEMMA FunnelStages ==
    /\ Funnel!FunnelOrder[1] = "Applied" /\ Funnel!FunnelOrder[2] = "Shortlisted"
    /\ Funnel!FunnelOrder[3] = "Recruiter Review"
    /\ Funnel!FunnelOrder[4] = "Technical Interview"
    /\ Funnel!FunnelOrder[5] = "Hiring Manager" /\ Funnel!FunnelOrder[6] = "HR Interview"
    /\ Funnel!FunnelOrder[7] = "Offer" /\ Funnel!FunnelOrder[8] = "Offer Accepted"
    /\ \A i \in 1..8 : Funnel!FunnelOrder[i] \in Funnel!Stages
BY DEF Funnel!FunnelOrder, Funnel!Stages, Funnel!Funnel

\* A new record is legal.
LEMMA NewIsLegal == Funnel!NewRecord \in LegalRecord
<1>1. "Applied" \in Funnel!Stages
  <2>1. 1 \in 1..8
    OBVIOUS
  <2>2. Funnel!FunnelOrder[1] \in Funnel!Stages
    BY <2>1, FunnelStages
  <2> QED BY <2>2, FunnelStages
<1>2. <<"Applied">> \in Seq(Funnel!Stages)
  BY <1>1
<1>3. Funnel!NewRecord \in Funnel!Record
  BY <1>1, <1>2 DEF Funnel!NewRecord, Funnel!Record, Funnel!Statuses
<1>4. Funnel!IsLegal(Funnel!NewRecord)
  BY DEF Funnel!NewRecord, Funnel!IsLegal, Funnel!DeriveStatus
<1> QED BY <1>3, <1>4 DEF LegalRecord

\* Every stage but the last of the funnel and the parking ones has a next stage.
LEMMA NextIsAStage ==
    ASSUME NEW stage, Funnel!HasNext(stage)
    PROVE  Funnel!NextStage(stage) \in Funnel!Stages
<1>1. PICK i \in 1..8 : Funnel!FunnelOrder[i] = stage
  BY DEF Funnel!HasNext, Funnel!Funnel
<1>2. Funnel!Position(stage) \in 1..8 /\ Funnel!FunnelOrder[Funnel!Position(stage)] = stage
  BY <1>1 DEF Funnel!Position
<1>3. stage # "Offer Accepted"
  BY DEF Funnel!HasNext
<1>4. Funnel!Position(stage) + 1 \in 1..8
  <2> DEFINE n == Funnel!Position(stage)
  <2>1. n # 8
    BY <1>2, <1>3, FunnelStages
  <2>2. n \in 1..8
    BY <1>2
  <2> HIDE DEF n
  <2>3. n + 1 \in 1..8
    BY <2>1, <2>2
  <2> QED BY <2>3 DEF n
<1> QED BY <1>4, FunnelStages DEF Funnel!NextStage

\* A record is its four fields.
LEMMA RecordIsFields ==
    \A rec \in Funnel!Record :
       rec = [stage |-> rec.stage, history |-> rec.history,
              status |-> rec.status, edits |-> rec.edits]
BY DEF Funnel!Record

\* A move the funnel allows leads from a legal record to a legal record.
LEMMA MovedIsLegal ==
    ASSUME NEW rec \in LegalRecord, NEW target \in Funnel!Stages,
           Funnel!CanTransition(rec.stage, target)
    PROVE  Funnel!Moved(rec, target) \in LegalRecord
<1> DEFINE new == Funnel!Moved(rec, target)
<1>1. /\ rec \in Funnel!Record /\ rec.history \in Seq(Funnel!Stages)
      /\ Len(rec.history) \in Nat /\ Len(rec.history) >= 1
  BY DEF LegalRecord, Funnel!Record, Funnel!IsLegal
<1>2. new = [stage |-> target, history |-> Append(rec.history, target),
             status |-> Funnel!DeriveStatus(target), edits |-> rec.edits]
  <2>1. rec = [stage |-> rec.stage, history |-> rec.history,
               status |-> rec.status, edits |-> rec.edits]
    BY <1>1, RecordIsFields
  <2>2. new = [rec EXCEPT !.history = Append(rec.history, target), !.stage = target,
                          !.status = Funnel!DeriveStatus(target)]
    BY DEF Funnel!Moved
  <2> HIDE DEF new
  <2> QED BY <2>1, <2>2
<1>3. /\ new.history \in Seq(Funnel!Stages) /\ Len(new.history) = Len(rec.history) + 1
      /\ new.history[Len(new.history)] = target
      /\ \A i \in 1..Len(rec.history) : new.history[i] = rec.history[i]
  BY <1>1, <1>2
<1>4. Funnel!DeriveStatus(target) \in Funnel!Statuses
  BY DEF Funnel!DeriveStatus, Funnel!Statuses
<1>5. new \in Funnel!Record
  BY <1>1, <1>2, <1>3, <1>4 DEF Funnel!Record
<1>6. /\ rec.history[1] = "Applied" /\ rec.history[Len(rec.history)] = rec.stage
      /\ \A i \in 1..(Len(rec.history) - 1) :
            \/ rec.history[i + 1] = rec.history[i]
            \/ rec.history[i + 1] \in Funnel!AllowedTransitions(rec.history[i])
  BY DEF LegalRecord, Funnel!IsLegal
<1>7. ASSUME NEW i \in 1..(Len(new.history) - 1)
      PROVE  \/ new.history[i + 1] = new.history[i]
             \/ new.history[i + 1] \in Funnel!AllowedTransitions(new.history[i])
  <2>1. CASE i = Len(rec.history)
    BY <1>1, <1>3, <1>6, <2>1 DEF Funnel!CanTransition
  <2>2. CASE i # Len(rec.history)
    <3>1. i \in 1..(Len(rec.history) - 1) /\ i + 1 \in 1..Len(rec.history)
                                          /\ i \in 1..Len(rec.history)
      BY <1>1, <1>3, <2>2
    <3> HIDE DEF new
    <3> QED BY <1>3, <1>6, <3>1
  <2> QED BY <2>1, <2>2
<1>8. new.history[1] = "Applied" /\ Len(new.history) >= 1
  BY <1>1, <1>3, <1>6
<1> HIDE DEF new
<1>9. Funnel!IsLegal(new)
  BY <1>2, <1>3, <1>7, <1>8 DEF Funnel!IsLegal
<1> QED BY <1>5, <1>9 DEF LegalRecord, new

\* An edit does not touch what makes a record legal.
LEMMA EditedIsLegal ==
    ASSUME NEW rec \in LegalRecord, NEW e \in Edits
    PROVE  Funnel!Edited(rec, e) \in LegalRecord
<1>1. rec \in Funnel!Record /\ Funnel!IsLegal(rec)
  BY DEF LegalRecord
<1>2. Funnel!Edited(rec, e) = [stage |-> rec.stage, history |-> rec.history,
                               status |-> rec.status, edits |-> rec.edits \cup {e}]
  BY <1>1, RecordIsFields DEF Funnel!Edited
<1>3. Funnel!Edited(rec, e) \in Funnel!Record
  BY <1>1, <1>2 DEF Funnel!Record
<1>4. Funnel!IsLegal(Funnel!Edited(rec, e))
  BY <1>1, <1>2 DEF Funnel!IsLegal
<1> QED BY <1>3, <1>4 DEF LegalRecord
-------------------------------------------------------------------------------
(* Files *)

\* A set grows by at most one when an element is added.
LEMMA OneMore ==
    ASSUME NEW S, NEW x, NEW k \in Nat, IsFiniteSet(S), Cardinality(S) <= k
    PROVE  IsFiniteSet(S \cup {x}) /\ Cardinality(S \cup {x}) <= k + 1
<1>1. Cardinality(S) \in Nat
  BY FS_CardinalityType
<1>2. /\ IsFiniteSet(S \cup {x})
      /\ Cardinality(S \cup {x}) = IF x \in S THEN Cardinality(S) ELSE Cardinality(S) + 1
  BY FS_AddElement
<1> QED BY <1>1, <1>2

\* More inodes exist than the names and the sessions can hold.
LEMMA AnInodeIsFree ==
    ASSUME NEW s \in Sessions, fd \in [Sessions -> Inodes \cup {0}]
    PROVE  FreeInodes # {}
<1> DEFINE Held == {fd[t] : t \in Sessions}
           n == Cardinality(Sessions)
<1>1. IsFiniteSet(Sessions) /\ n \in Nat /\ n >= 1
  BY SessionsAssumption, FS_CardinalityType, FS_EmptySet
<1>2. IsFiniteSet(Held) /\ Cardinality(Held) <= n /\ Cardinality(Held) \in Nat
  <2>1. fd \in Surjection(Sessions, Held)
    BY DEF Surjection
  <2> QED BY <1>1, <2>1, FS_Surjection, FS_CardinalityType
<1>3. IsFiniteSet(Held \cup {live}) /\ Cardinality(Held \cup {live}) <= n + 1
  <2> HIDE DEF Held, n
  <2> QED BY <1>1, <1>2, OneMore
<1> DEFINE Named == (Held \cup {live}) \cup {tmp}
<1>4. IsFiniteSet(Named) /\ Cardinality(Named) <= n + 2 /\ Cardinality(Named) \in Nat
  <2> DEFINE H == Held \cup {live}
  <2>1. IsFiniteSet(H) /\ Cardinality(H) <= n + 1 /\ n + 1 \in Nat
    BY <1>1, <1>3
  <2> HIDE DEF H, n
  <2>2. IsFiniteSet(H \cup {tmp}) /\ Cardinality(H \cup {tmp}) <= (n + 1) + 1
    BY <2>1, OneMore
  <2>3. Cardinality(H \cup {tmp}) \in Nat
    BY <2>2, FS_CardinalityType
  <2> QED BY <1>1, <2>2, <2>3 DEF H
<1>5. Cardinality(Inodes) = 2 * n + 2
  <2>1. 2 * n + 2 \in Int /\ 2 * n + 2 >= 1
    BY <1>1
  <2> QED BY <2>1, FS_Interval DEF Inodes
<1>6. CASE FreeInodes = {}
  <2>1. \A i \in Inodes : i = live \/ i = tmp \/ \E t \in Sessions : fd[t] = i
    BY <1>6 DEF FreeInodes
  <2>2. Inodes \subseteq Named
    BY <2>1
  <2> HIDE DEF Named, n
  <2>3. Cardinality(Inodes) <= Cardinality(Named)
    BY <1>4, <2>2, FS_Subset
  <2>4. FALSE
    BY <1>1, <1>4, <1>5, <2>3
  <2> QED BY <2>4
<1> QED BY <1>6

\* A map of legal records.
LegalMap == [Candidates -> LegalRecord \cup {NoRecord}]

Requests == Calls \cup Moves

\* Whatever a session may come to read, hold or write is a map of legal records,
\* or cannot be read at all.
Kept ==
    /\ live \in Inodes \cup {0} /\ tmp \in Inodes \cup {0}
    /\ content \in [Inodes -> LegalMap \cup {Unreadable}]
    /\ pc \in [Sessions -> {"idle", "look", "load", "open", "write", "replace"}]
    /\ call \in [Sessions -> Requests \cup {NoCall}]
    /\ mine \in [Sessions -> LegalRecord \cup {NoRecord}]
    /\ creating \in [Sessions -> BOOLEAN]
    /\ map \in [Sessions -> LegalMap]
    /\ fd \in [Sessions -> Inodes \cup {0}]
    /\ calls \in 0..MaxCalls
    /\ \A s \in Sessions :
          /\ pc[s] # "idle" => call[s] \in Requests
          /\ pc[s] \in {"load", "open", "write", "replace"} => mine[s] \in LegalRecord

\* What is read is a map of legal records.
LEMMA LoadedIsLegal == Kept => Loaded \in LegalMap
BY DEF Kept, Loaded, LegalMap, Empty

\* A request that is not refused leads from a legal record to a legal record.
LEMMA ChangedIsLegal ==
    ASSUME NEW rec \in LegalRecord, NEW k \in Requests, ~IsRefused(rec, k), k.kind # "advance"
    PROVE  Changed(rec, k) \in LegalRecord
<1>1. CASE k.kind = "move"
  <2>1. k.arg \in Funnel!Stages /\ Funnel!CanTransition(rec.stage, k.arg)
    BY <1>1, TargetsAssumption DEF Requests, Calls, Moves, IsRefused
  <2> QED BY <1>1, <2>1, MovedIsLegal DEF Changed
<1>2. CASE k.kind = "edit"
  <2>1. k.arg \in Edits
    BY <1>2 DEF Requests, Calls, Moves
  <2> QED BY <1>2, <2>1, EditedIsLegal DEF Changed
<1>3. k.kind \in {"view", "advance", "move", "edit"}
  BY DEF Requests, Calls, Moves
<1>4. k.kind # "view"
  BY DEF IsRefused
<1> QED BY <1>1, <1>2, <1>3, <1>4

\* Going on with a call keeps what the session holds legal.
LEMMA ApplyKeeps ==
    ASSUME Kept, NEW s \in Sessions, pc[s] # "idle", NEW rec \in LegalRecord, Apply(s, rec)
    PROVE  /\ pc' \in [Sessions -> {"idle", "look", "load", "open", "write", "replace"}]
           /\ call' \in [Sessions -> Requests \cup {NoCall}]
           /\ mine' \in [Sessions -> LegalRecord \cup {NoRecord}]
           /\ creating' \in [Sessions -> BOOLEAN]
           /\ map' \in [Sessions -> LegalMap]
           /\ \A t \in Sessions :
                 /\ pc'[t] # "idle" => call'[t] \in Requests
                 /\ pc'[t] \in {"load", "open", "write", "replace"} => mine'[t] \in LegalRecord
<1> USE DEF Kept, Goto
<1>1. call[s] \in Requests /\ creating' = [creating EXCEPT ![s] = FALSE]
  BY DEF Apply
<1>2. CASE Return(s)
  <2>1. Empty \in LegalMap
    BY DEF Empty, LegalMap
  <2> QED BY <1>1, <1>2, <2>1 DEF Return
<1>3. CASE /\ ~IsRefused(rec, call[s]) /\ call[s].kind = "advance"
           /\ call' = [call EXCEPT ![s] = Resolved(rec, call[s])]
           /\ Goto(s, "look")
           /\ UNCHANGED <<mine, map>>
  <2>1. Funnel!HasNext(rec.stage)
    BY <1>3 DEF IsRefused
  <2>2. Resolved(rec, call[s]) \in Moves
    <3>1. call[s].c \in Candidates
      BY <1>1 DEF Requests, Calls, Moves
    <3> QED BY <2>1, <3>1, NextIsAStage DEF Resolved, Moves
  <2>3. Resolved(rec, call[s]) \in Requests
    BY <2>2 DEF Requests
  <2> QED BY <1>1, <1>3, <2>3
<1>4. CASE /\ ~IsRefused(rec, call[s]) /\ call[s].kind # "advance"
           /\ mine' = [mine EXCEPT ![s] = Changed(rec, call[s])]
           /\ Goto(s, "load")
           /\ UNCHANGED <<call, map>>
  <2>1. Changed(rec, call[s]) \in LegalRecord
    BY <1>1, <1>4, ChangedIsLegal
  <2> QED BY <1>1, <1>4, <2>1
<1> QED BY <1>2, <1>3, <1>4 DEF Apply
-------------------------------------------------------------------------------
(* Steps *)

\* An absent file and sessions that hold nothing are legal.
LEMMA KeptInit == Init => Kept
<1>1. Empty \in LegalMap
  BY DEF Empty, LegalMap
<1>2. Init => calls \in 0..MaxCalls
  BY CallsAssumption DEF Init
<1> QED BY <1>1, <1>2 DEF Init, Kept

\* No step of a session, and no crash, puts an illegal record into a file or a session.
LEMMA KeptStep == Kept /\ [Next]_vars => Kept'
<1> SUFFICES ASSUME Kept, [Next]_vars PROVE Kept'
  OBVIOUS
<1> USE DEF Kept, Goto, disk
<1>0. Empty \in LegalMap /\ Loaded \in LegalMap
  BY LoadedIsLegal DEF Empty, LegalMap
<1>1. ASSUME NEW s \in Sessions, NEW k \in Calls, Call(s, k) PROVE Kept'
  BY <1>1, CallsAssumption DEF Call, Requests
<1>2. ASSUME NEW s \in Sessions, Look(s) PROVE Kept'
  <2> DEFINE rec == Loaded[call[s].c]
  <2>1. call[s] \in Requests /\ call[s].c \in Candidates
    BY <1>2 DEF Look, Requests, Calls, Moves
  <2>2. rec \in LegalRecord \cup {NoRecord}
    BY <1>0, <2>1 DEF LegalMap
  <2>3. CASE rec = NoRecord
    <3>1. /\ mine' = [mine EXCEPT ![s] = Funnel!NewRecord]
          /\ creating' = [creating EXCEPT ![s] = TRUE]
          /\ pc' = [pc EXCEPT ![s] = "load"]
          /\ UNCHANGED <<live, tmp, content, call, map, fd, calls>>
      BY <1>2, <2>3 DEF Look
    <3>2. \A t \in Sessions :
             /\ pc'[t] # "idle" => call'[t] \in Requests
             /\ pc'[t] \in {"load", "open", "write", "replace"} => mine'[t] \in LegalRecord
      BY <2>1, <3>1, NewIsLegal
    <3> HIDE DEF rec
    <3> QED
      BY <3>1, <3>2, NewIsLegal
  <2>4. CASE rec # NoRecord
    <3>1. Apply(s, rec) /\ UNCHANGED <<live, tmp, content, fd, calls>> /\ pc[s] # "idle"
      BY <1>2, <2>4 DEF Look
    <3>2. rec \in LegalRecord
      BY <2>2, <2>4
    <3> HIDE DEF Kept, rec
    <3>3. /\ pc' \in [Sessions -> {"idle", "look", "load", "open", "write", "replace"}]
          /\ call' \in [Sessions -> Requests \cup {NoCall}]
          /\ mine' \in [Sessions -> LegalRecord \cup {NoRecord}]
          /\ creating' \in [Sessions -> BOOLEAN]
          /\ map' \in [Sessions -> LegalMap]
          /\ \A t \in Sessions :
                /\ pc'[t] # "idle" => call'[t] \in Requests
                /\ pc'[t] \in {"load", "open", "write", "replace"} => mine'[t] \in LegalRecord
      BY <3>1, <3>2, ApplyKeeps
    <3> USE DEF Kept
    <3> QED BY <3>1, <3>3
  <2> QED BY <2>3, <2>4
<1>3. ASSUME NEW s \in Sessions, Load(s) PROVE Kept'
  <2>1. call[s].c \in Candidates /\ mine[s] \in LegalRecord
    BY <1>3 DEF Load, Requests, Calls, Moves
  <2>2. Upserted(s) \in LegalMap
    BY <1>0, <2>1 DEF Upserted, LegalMap
  <2> QED BY <1>3, <2>2 DEF Load
<1>4. ASSUME NEW s \in Sessions, Open(s) PROVE Kept'
  <2> DEFINE i == OpenTarget(CHOOSE n \in FreeInodes : TRUE)
  <2>1. i \in Inodes
    BY AnInodeIsFree DEF OpenTarget, FreeInodes
  <2>2. /\ pc[s] = "open" /\ tmp' = i
        /\ content' = [content EXCEPT ![i] = Unreadable]
        /\ fd' = [fd EXCEPT ![s] = i]
        /\ pc' = [pc EXCEPT ![s] = "write"]
        /\ UNCHANGED <<live, call, mine, creating, map, calls>>
    BY <1>4 DEF Open
  <2> HIDE DEF i
  <2> QED BY <2>1, <2>2
<1>5. ASSUME NEW s \in Sessions, Write(s) PROVE Kept'
  <2>1. content' \in [Inodes -> LegalMap \cup {Unreadable}]
    BY <1>5 DEF Write
  <2> QED BY <1>5, <2>1 DEF Write
<1>6. ASSUME NEW s \in Sessions, Replace(s) PROVE Kept'
  <2>1. /\ pc[s] = "replace" /\ live' = tmp /\ tmp' = 0 /\ UNCHANGED <<fd, calls>>
        /\ content' = [n \in Inodes |-> IF n = live THEN Unreadable ELSE content[n]]
        /\ mine[s] \in LegalRecord
    BY <1>6 DEF Replace
  <2>2. content' \in [Inodes -> LegalMap \cup {Unreadable}]
    BY <2>1
  <2>3. CASE creating[s] /\ Apply(s, mine[s])
    <3> HIDE DEF Kept
    <3>1. /\ pc' \in [Sessions -> {"idle", "look", "load", "open", "write", "replace"}]
          /\ call' \in [Sessions -> Requests \cup {NoCall}]
          /\ mine' \in [Sessions -> LegalRecord \cup {NoRecord}]
          /\ creating' \in [Sessions -> BOOLEAN]
          /\ map' \in [Sessions -> LegalMap]
          /\ \A t \in Sessions :
                /\ pc'[t] # "idle" => call'[t] \in Requests
                /\ pc'[t] \in {"load", "open", "write", "replace"} => mine'[t] \in LegalRecord
      BY <2>1, <2>3, ApplyKeeps
    <3> USE DEF Kept
    <3> QED BY <2>1, <2>2, <3>1
  <2>4. CASE Return(s) /\ UNCHANGED creating
    BY <1>0, <2>1, <2>2, <2>4 DEF Return
  <2> QED BY <1>6, <2>3, <2>4 DEF Replace
<1>7. ASSUME NEW s \in Sessions, ReplaceFails(s) PROVE Kept'
  BY <1>0, <1>7 DEF ReplaceFails, Return
<1>8. CASE Crash
  BY <1>0, <1>8 DEF Crash
<1>9. CASE UNCHANGED vars
  BY <1>9 DEF vars
<1> QED BY <1>1, <1>2, <1>3, <1>4, <1>5, <1>6, <1>7, <1>8, <1>9 DEF Next

\* The strengthened invariant holds throughout.
LEMMA AlwaysKept == Spec => []Kept
<1> QED BY KeptInit, KeptStep, PTL DEF Spec

\* Types hold, and no file is anything but a whole map of records or unreadable.
THEOREM TypeCorrect == Spec => []TypeOK
<1>1. Kept => TypeOK
  BY DEF Kept, TypeOK, LegalMap, LegalRecord, PipelineMap, Requests
<1> QED BY <1>1, AlwaysKept, PTL

\* However sessions overwrite each other, a record that can be read has a history
\* of legal moves from Applied to its stage, and the status of that stage.
THEOREM RecordsAreLegal == Spec => []HistoriesAreLegal
<1>1. Kept => HistoriesAreLegal
  BY LoadedIsLegal DEF HistoriesAreLegal, LegalMap, LegalRecord
<1> QED BY <1>1, AlwaysKept, PTL

-------------------------------------------------------------------------------
(* A session of its own *)

\* What a session that found the record rec in the file is about to store: a
\* record for an unknown candidate, or the change it was asked for.
IsDue(s) ==
    LET rec == Loaded[call[s].c]
    IN  \/ creating[s] /\ rec = NoRecord /\ mine[s] = Funnel!NewRecord
        \/ /\ ~creating[s] /\ rec # NoRecord
           /\ call[s].kind \in {"move", "edit"}
           /\ ~IsRefused(rec, call[s])
           /\ mine[s] = Changed(rec, call[s])

\* Nobody else touches the files: what a session has read is still there when it
\* writes, and what it has written is still there when it renames it.
Undisturbed ==
    /\ tmp # 0 => tmp # live
    /\ live # 0 => content[live] # Unreadable
    /\ \A s \in Sessions :
          /\ pc[s] \in {"load", "open", "write", "replace"} => IsDue(s)
          /\ pc[s] \in {"open", "write", "replace"} => map[s] = Upserted(s)
          /\ pc[s] = "write" => tmp # 0 /\ fd[s] = tmp /\ content[tmp] = Unreadable
          /\ pc[s] = "replace" => tmp # 0 /\ content[tmp] = map[s]

\* The funnel's operators do not depend on the records it is instantiated for.
LEMMA SameFunnel ==
    /\ Promise!Stages = Funnel!Stages
    /\ Promise!NewRecord = Funnel!NewRecord
    /\ \A source, target : Promise!CanTransition(source, target) <=> Funnel!CanTransition(source, target)
    /\ \A rec, target : Promise!Moved(rec, target) = Funnel!Moved(rec, target)
    /\ \A rec, e : Promise!Edited(rec, e) = Funnel!Edited(rec, e)
<1>1. Promise!FunnelOrder = Funnel!FunnelOrder
  BY DEF Promise!FunnelOrder, Funnel!FunnelOrder
<1>2. Promise!Stages = Funnel!Stages
  BY <1>1 DEF Promise!Stages, Funnel!Stages, Promise!Funnel, Funnel!Funnel, Promise!Parking, Funnel!Parking
<1>3. \A stage : Promise!Position(stage) = Funnel!Position(stage)
  BY <1>1 DEF Promise!Position, Funnel!Position
<1>4. \A stage : Promise!AllowedTransitions(stage) = Funnel!AllowedTransitions(stage)
  BY <1>1, <1>2, <1>3
     DEF Promise!AllowedTransitions, Funnel!AllowedTransitions, Promise!Parking, Funnel!Parking
<1>5. \A stage : Promise!DeriveStatus(stage) = Funnel!DeriveStatus(stage)
  BY DEF Promise!DeriveStatus, Funnel!DeriveStatus
<1>6. \A rec, target : Promise!Moved(rec, target) = Funnel!Moved(rec, target)
  BY <1>5 DEF Promise!Moved, Funnel!Moved
<1> QED
  BY <1>2, <1>4, <1>6
     DEF Promise!NewRecord, Funnel!NewRecord, Promise!CanTransition, Funnel!CanTransition,
         Promise!Edited, Funnel!Edited

\* No record is absent, and no map of records unreadable.
LEMMA RecordsAreReal ==
    NoRecord \notin LegalRecord /\ Unreadable \notin LegalMap
<1>1. LegalRecord \subseteq Funnel!Record
  BY DEF LegalRecord
<1>2. LegalMap \subseteq PipelineMap
  BY <1>1 DEF LegalMap, PipelineMap
<1> QED BY <1>1, <1>2, NullsAssumption

\* What is due is due as long as the file shows the same records.
LEMMA DueStays ==
    ASSUME NEW s \in Sessions, IsDue(s), Loaded' = Loaded,
           call'[s] = call[s], mine'[s] = mine[s], creating'[s] = creating[s]
    PROVE  IsDue(s)'
BY DEF IsDue, IsRefused, Changed

\* A session that goes on with its call from the record in the file has its change due.
LEMMA ApplyIsDue ==
    ASSUME Kept, NEW s \in Sessions, pc[s] # "idle", NEW rec \in LegalRecord, Apply(s, rec),
           Loaded'[call[s].c] = rec
    PROVE  pc'[s] \in {"idle", "look", "load"} /\ (pc'[s] = "load" => IsDue(s)')
<1> USE DEF Kept, Goto
<1>1. call[s] \in Requests /\ creating'[s] = FALSE
  BY DEF Apply
<1>2. CASE Return(s)
  BY <1>2 DEF Return
<1>3. CASE Goto(s, "look")
  BY <1>3
<1>4. CASE /\ ~IsRefused(rec, call[s]) /\ call[s].kind # "advance"
           /\ mine' = [mine EXCEPT ![s] = Changed(rec, call[s])]
           /\ Goto(s, "load")
           /\ UNCHANGED <<call, map>>
  <2>1. call[s].kind \in {"view", "advance", "move", "edit"}
    BY <1>1 DEF Requests, Calls, Moves
  <2>2. call[s].kind \in {"move", "edit"}
    BY <1>4, <2>1 DEF IsRefused
  <2>3. mine'[s] = Changed(rec, call[s]) /\ call'[s] = call[s] /\ pc'[s] = "load"
    BY <1>4
  <2>4. rec # NoRecord
    BY RecordsAreReal
  <2>5. ~creating'[s] /\ Loaded'[call'[s].c] = rec
    BY <1>1, <2>3
  <2>6. ~IsRefused(rec, call'[s]) /\ mine'[s] = Changed(rec, call'[s])
    BY <1>4, <2>3
  <2> QED BY <2>2, <2>3, <2>4, <2>5, <2>6 DEF IsDue, IsRefused, Changed
<1> QED BY <1>2, <1>3, <1>4 DEF Apply

\* What is due is a step of the funnel.
LEMMA DueIsAStep ==
    ASSUME Kept, NEW s \in Sessions, pc[s] # "idle", IsDue(s), Loaded' = Upserted(s)
    PROVE  Promise!Next
<1> DEFINE k == call[s]
           c == k.c
           rec == Loaded[c]
<1>1. k \in Requests /\ c \in Candidates
  BY DEF Kept, Requests, Calls, Moves
<1>2. Loaded' = [Loaded EXCEPT ![c] = mine[s]]
  BY DEF Upserted
<1>3. CASE creating[s] /\ rec = NoRecord /\ mine[s] = Funnel!NewRecord
  <2>1. Promise!Enter(c)
    BY <1>2, <1>3, SameFunnel DEF Promise!Enter
  <2> QED BY <1>1, <2>1 DEF Promise!Next
<1>4. CASE /\ rec # NoRecord /\ k.kind \in {"move", "edit"} /\ ~IsRefused(rec, k)
           /\ mine[s] = Changed(rec, k)
  <2>1. CASE k.kind = "move"
    <3>1. k.arg \in Promise!Stages
      BY <1>1, <2>1, SameFunnel, TargetsAssumption DEF Requests, Calls, Moves
    <3>2. Funnel!CanTransition(rec.stage, k.arg) /\ mine[s] = Funnel!Moved(rec, k.arg)
      BY <1>4, <2>1 DEF IsRefused, Changed
    <3>3. Promise!Move(c, k.arg)
      BY <1>2, <1>4, <3>2, SameFunnel DEF Promise!Move
    <3> QED BY <1>1, <3>1, <3>3 DEF Promise!Next
  <2>2. CASE k.kind = "edit"
    <3>1. k.arg \in Edits
      BY <1>1, <2>2 DEF Requests, Calls, Moves
    <3>2. mine[s] = Funnel!Edited(rec, k.arg)
      BY <1>4, <2>2 DEF Changed
    <3>3. Promise!Edit(c, k.arg)
      BY <1>2, <1>4, <3>2, SameFunnel DEF Promise!Edit
    <3> QED BY <1>1, <3>1, <3>3 DEF Promise!Next
  <2> QED BY <1>4, <2>1, <2>2
<1> QED BY <1>3, <1>4 DEF IsDue

\* A session of its own disturbs nothing, and shows a step of the funnel when it
\* renames its file, or none.
LEMMA UndisturbedStep ==
    ASSUME NEW s, Sessions = {s}, Kept, Undisturbed, [Next]_vars
    PROVE  Undisturbed' /\ (Promise!Next \/ Loaded' = Loaded)
<1> USE DEF Kept, Goto, disk
<1>0. Empty \in LegalMap /\ Loaded \in LegalMap /\ s \in Sessions
  BY LoadedIsLegal DEF Empty, LegalMap
<1>1. ASSUME NEW k \in Calls, Call(s, k) PROVE Undisturbed' /\ Loaded' = Loaded
  <2>1. Loaded' = Loaded /\ pc'[s] = "look" /\ UNCHANGED disk
    BY <1>0, <1>1 DEF Call, Loaded
  <2> QED BY <2>1 DEF Undisturbed
<1>2. ASSUME Look(s) PROVE Undisturbed' /\ Loaded' = Loaded
  <2> DEFINE rec == Loaded[call[s].c]
  <2>1. Loaded' = Loaded /\ UNCHANGED disk /\ pc[s] = "look"
    BY <1>2 DEF Look, Loaded
  <2>2. call[s] \in Requests /\ call[s].c \in Candidates
    BY <1>0, <2>1 DEF Requests, Calls, Moves
  <2>3. CASE rec = NoRecord
    <3>1. /\ mine'[s] = Funnel!NewRecord /\ creating'[s] = TRUE /\ pc'[s] = "load"
          /\ call' = call
      BY <1>0, <1>2, <2>3 DEF Look
    <3>2. IsDue(s)'
      BY <2>1, <2>3, <3>1 DEF IsDue
    <3> QED BY <2>1, <3>1, <3>2 DEF Undisturbed
  <2>4. CASE rec # NoRecord
    <3>1. Apply(s, rec)
      BY <1>2, <2>4 DEF Look
    <3>2. rec \in LegalRecord
      BY <1>0, <2>2, <2>4 DEF LegalMap
    <3>3. pc'[s] \in {"idle", "look", "load"} /\ (pc'[s] = "load" => IsDue(s)')
      BY <1>0, <2>1, <3>1, <3>2, ApplyIsDue
    <3> QED BY <2>1, <3>3 DEF Undisturbed
  <2> QED BY <2>1, <2>3, <2>4
<1>3. ASSUME Load(s) PROVE Undisturbed' /\ Loaded' = Loaded
  <2>1. /\ Loaded' = Loaded /\ UNCHANGED <<disk, call, mine, creating>> /\ pc[s] = "load"
        /\ map'[s] = Upserted(s) /\ pc'[s] = "open"
    BY <1>0, <1>3 DEF Load, Loaded
  <2>2. IsDue(s)'
    BY <1>0, <2>1, DueStays DEF Undisturbed
  <2>3. map'[s] = Upserted(s)'
    BY <2>1 DEF Upserted
  <2> QED BY <2>1, <2>2, <2>3 DEF Undisturbed
<1>4. ASSUME Open(s) PROVE Undisturbed' /\ Loaded' = Loaded
  <2> DEFINE i == OpenTarget(CHOOSE n \in FreeInodes : TRUE)
  <2>1. i \in Inodes /\ i # 0 /\ i # live
    BY <1>0, AnInodeIsFree DEF OpenTarget, FreeInodes, Undisturbed, Inodes
  <2>2. /\ pc[s] = "open" /\ tmp' = i
        /\ content' = [content EXCEPT ![i] = Unreadable]
        /\ fd'[s] = i /\ pc'[s] = "write"
        /\ UNCHANGED <<live, call, mine, creating, map>>
    BY <1>0, <1>4 DEF Open
  <2> HIDE DEF i
  <2>3. content'[i] = Unreadable /\ content'[live] = content[live]
    BY <2>1, <2>2
  <2>4. Loaded' = Loaded
    BY <2>2, <2>3 DEF Loaded
  <2>5. IsDue(s)' /\ map'[s] = Upserted(s)'
    BY <1>0, <2>2, <2>4, DueStays DEF Undisturbed, Upserted
  <2> QED BY <2>1, <2>2, <2>3, <2>4, <2>5 DEF Undisturbed
<1>5. ASSUME Write(s) PROVE Undisturbed' /\ Loaded' = Loaded
  <2>1. pc[s] = "write" /\ tmp # 0 /\ tmp # live /\ fd[s] = tmp /\ content[tmp] = Unreadable
    BY <1>0, <1>5 DEF Write, Undisturbed
  <2>2. /\ content' = [content EXCEPT ![tmp] = map[s]] /\ pc'[s] = "replace"
        /\ UNCHANGED <<live, tmp, call, mine, creating, map>>
    BY <1>0, <1>5, <2>1 DEF Write
  <2>3. content'[tmp] = map[s] /\ content'[live] = content[live]
    BY <2>1, <2>2
  <2>4. Loaded' = Loaded
    BY <2>2, <2>3 DEF Loaded
  <2>5. IsDue(s)' /\ map'[s] = Upserted(s)'
    BY <1>0, <2>1, <2>2, <2>4, DueStays DEF Undisturbed, Upserted
  <2> QED BY <2>1, <2>2, <2>3, <2>4, <2>5 DEF Undisturbed
<1>6. ASSUME Replace(s) PROVE Undisturbed' /\ Promise!Next
  <2>1. /\ pc[s] = "replace" /\ tmp # 0 /\ tmp # live
        /\ content[tmp] = map[s] /\ map[s] = Upserted(s) /\ IsDue(s)
    BY <1>0, <1>6 DEF Replace, Undisturbed
  <2>2. /\ live' = tmp /\ tmp' = 0
        /\ content' = [n \in Inodes |-> IF n = live THEN Unreadable ELSE content[n]]
    BY <1>6 DEF Replace
  <2>3. content'[live'] = map[s] /\ live' # 0
    BY <2>1, <2>2
  <2>4. map[s] # Unreadable
    BY <1>0, RecordsAreReal
  <2>5. Loaded' = Upserted(s)
    BY <2>1, <2>3, <2>4 DEF Loaded
  <2>6. Promise!Next
    BY <1>0, <2>1, <2>5, DueIsAStep
  <2>7. pc'[s] \in {"idle", "look", "load"} /\ (pc'[s] = "load" => IsDue(s)')
    <3>1. CASE creating[s] /\ Apply(s, mine[s])
      <4>1. mine[s] \in LegalRecord /\ call[s].c \in Candidates
        BY <1>0, <2>1 DEF Requests, Calls, Moves
      <4>2. Loaded'[call[s].c] = mine[s]
        BY <1>0, <2>5, <4>1 DEF Upserted, LegalMap
      <4> QED BY <1>0, <2>1, <3>1, <4>1, <4>2, ApplyIsDue
    <3>2. CASE Return(s)
      BY <1>0, <3>2 DEF Return
    <3> QED BY <1>6, <3>1, <3>2 DEF Replace
  <2> QED BY <2>2, <2>3, <2>4, <2>6, <2>7 DEF Undisturbed
<1>7. ASSUME ReplaceFails(s) PROVE Undisturbed'
  BY <1>0, <1>7 DEF ReplaceFails, Undisturbed
<1>8. ASSUME Crash PROVE Undisturbed' /\ Loaded' = Loaded
  BY <1>0, <1>8 DEF Crash, Undisturbed, Loaded
<1>9. ASSUME UNCHANGED vars PROVE Undisturbed' /\ Loaded' = Loaded
  <2>1. Loaded' = Loaded
    BY <1>9 DEF vars, Loaded
  <2>2. IsDue(s) => IsDue(s)'
    BY <1>0, <1>9, <2>1, DueStays DEF vars
  <2>3. Upserted(s)' = Upserted(s)
    BY <1>9, <2>1 DEF vars, Upserted
  <2> QED BY <1>9, <2>1, <2>2, <2>3 DEF vars, Undisturbed
<1>10. ~ReplaceFails(s)
  BY <1>0 DEF ReplaceFails, Undisturbed
<1> QED BY <1>1, <1>2, <1>3, <1>4, <1>5, <1>6, <1>8, <1>9, <1>10 DEF Next

\* One session is never disturbed.
LEMMA AlwaysUndisturbed ==
    ASSUME NEW s, Sessions = {s}
    PROVE  Spec => []Undisturbed
<1>1. Init => Undisturbed
  BY DEF Init, Undisturbed
<1>2. Kept /\ Undisturbed /\ [Next]_vars => Undisturbed'
  BY UndisturbedStep
<1> QED BY <1>1, <1>2, AlwaysKept, PTL DEF Spec

\* Where one session runs, the file is never seen half written, wherever the
\* process stops.
THEOREM NeverHalfWritten ==
    ASSUME NEW s, Sessions = {s}
    PROVE  Spec => []FileIsReadable
<1>1. Undisturbed => FileIsReadable
  BY DEF Undisturbed, FileIsReadable
<1> QED BY <1>1, AlwaysUndisturbed, PTL

\* Where one session runs, the file shows what the funnel promises: one change
\* of one record at a time, none of them lost, for any number of candidates,
\* calls and crashes.
THEOREM OneSessionIsTheFunnel ==
    ASSUME NEW s, Sessions = {s}
    PROVE  Spec => ImplementsFunnel
<1>1. Init => Promise!Init
  BY DEF Init, Loaded, Empty, Promise!Init
<1>2. Kept /\ Undisturbed /\ [Next]_vars => [Promise!Next]_Loaded
  BY UndisturbedStep
<1> QED
  BY <1>1, <1>2, AlwaysKept, AlwaysUndisturbed, PTL DEF Spec, ImplementsFunnel, Promise!Spec

\* A step of the funnel takes no event out of a history, and no candidate out of
\* the pipeline.
LEMMA FunnelOnlyGrows ==
    ASSUME Loaded \in LegalMap, Promise!Next \/ Loaded' = Loaded,
           NEW c \in Candidates, Loaded[c] # NoRecord
    PROVE  /\ Loaded'[c] # NoRecord
           /\ Len(Loaded[c].history) <= Len(Loaded'[c].history)
           /\ \A i \in 1..Len(Loaded[c].history) :
                 Loaded'[c].history[i] = Loaded[c].history[i]
<1> DEFINE rec == Loaded[c]
<1>1. rec \in LegalRecord
  BY DEF LegalMap
<1>2. rec.history \in Seq(Funnel!Stages) /\ Len(rec.history) \in Nat
  BY <1>1 DEF LegalRecord, Funnel!Record
<1>3. ASSUME NEW d \in Candidates, Promise!Enter(d) PROVE Loaded'[c] = rec
  BY <1>3 DEF Promise!Enter, LegalMap
<1>4. ASSUME NEW d \in Candidates, NEW target \in Promise!Stages, Promise!Move(d, target)
      PROVE  \/ Loaded'[c] = rec
             \/ Loaded'[c] = Funnel!Moved(rec, target) /\ Loaded'[c] \in LegalRecord
  <2>1. Loaded' = [Loaded EXCEPT ![d] = Funnel!Moved(Loaded[d], target)]
    BY <1>4, SameFunnel DEF Promise!Move
  <2>2. d = c => Funnel!Moved(rec, target) \in LegalRecord
    BY <1>1, <1>4, MovedIsLegal, SameFunnel DEF Promise!Move
  <2> QED BY <2>1, <2>2 DEF LegalMap
<1>5. ASSUME NEW d \in Candidates, NEW e \in Edits, Promise!Edit(d, e)
      PROVE  \/ Loaded'[c] = rec
             \/ Loaded'[c] = Funnel!Edited(rec, e) /\ Loaded'[c] \in LegalRecord
  <2>1. Loaded' = [Loaded EXCEPT ![d] = Funnel!Edited(Loaded[d], e)]
    BY <1>5, SameFunnel DEF Promise!Edit
  <2>2. Funnel!Edited(rec, e) \in LegalRecord
    BY <1>1, EditedIsLegal
  <2> QED BY <2>1, <2>2 DEF LegalMap
<1>6. rec = [stage |-> rec.stage, history |-> rec.history,
             status |-> rec.status, edits |-> rec.edits]
  BY <1>1, RecordIsFields DEF LegalRecord
<1>7. \A e : Funnel!Edited(rec, e).history = rec.history
  BY <1>6 DEF Funnel!Edited
<1>8. \A target : Funnel!Moved(rec, target).history = Append(rec.history, target)
  BY <1>6 DEF Funnel!Moved
<1>9. Loaded'[c] = rec \/ (Loaded'[c] \in LegalRecord
        /\ \/ Loaded'[c].history = rec.history
           \/ \E target \in Funnel!Stages : Loaded'[c].history = Append(rec.history, target))
  <2>1. CASE Loaded' = Loaded
    BY <2>1
  <2>2. CASE Promise!Next
    BY <1>3, <1>4, <1>5, <1>7, <1>8, <2>2, SameFunnel DEF Promise!Next
  <2> QED BY <2>1, <2>2
<1>10. NoRecord \notin LegalRecord
  BY RecordsAreReal
<1> HIDE DEF rec
<1>11. CASE \E target \in Funnel!Stages : Loaded'[c].history = Append(rec.history, target)
  <2>1. /\ Len(rec.history) <= Len(Loaded'[c].history)
        /\ \A i \in 1..Len(rec.history) : Loaded'[c].history[i] = rec.history[i]
    BY <1>2, <1>11
  <2> QED BY <1>1, <1>9, <1>10, <2>1 DEF rec
<1>12. CASE Loaded'[c].history = rec.history
  <2> QED BY <1>1, <1>2, <1>9, <1>10, <1>12 DEF rec
<1>13. CASE Loaded'[c] = rec
  <2> QED BY <1>1, <1>2, <1>10, <1>13 DEF rec
<1> QED BY <1>9, <1>11, <1>12, <1>13

\* "Ordered audit trail of every transition": where one session runs, it is one.
\* With two it is not, which is what a run shows.
THEOREM OneSessionLosesNothing ==
    ASSUME NEW s, Sessions = {s}
    PROVE  Spec => HistoriesOnlyGrow
<1> DEFINE Grow == \A c \in Candidates :
          Loaded[c] # NoRecord =>
             /\ Loaded'[c] # NoRecord
             /\ Len(Loaded[c].history) <= Len(Loaded'[c].history)
             /\ \A i \in 1..Len(Loaded[c].history) :
                   Loaded'[c].history[i] = Loaded[c].history[i]
<1>1. Kept /\ Undisturbed /\ [Next]_vars => Grow
  BY UndisturbedStep, LoadedIsLegal, FunnelOnlyGrows
<1>2. Spec => [][Grow]_vars
  <2> HIDE DEF Grow
  <2> QED BY <1>1, AlwaysKept, AlwaysUndisturbed, PTL DEF Spec
<1> QED BY <1>2 DEF HistoriesOnlyGrow
================================================================================
