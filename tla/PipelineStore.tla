----------------------------- MODULE PipelineStore -----------------------------
(***************************************************************************)
(* The hiring pipeline on disk (src/src/pipeline/store.py, engine.py).     *)
(* Every change of a record reads the JSON file, changes the record in     *)
(* memory, reads the file again, and writes it whole through a temporary   *)
(* file whose name all sessions share.  Sessions of the web application    *)
(* run beside each other, and the process may stop between any two steps.  *)
(*                                                                         *)
(* Files are inodes: a session that has opened one keeps writing to it     *)
(* after it was renamed.                                                   *)
(***************************************************************************)
EXTENDS Integers, Sequences, FiniteSets

CONSTANTS
    Sessions,
    Candidates,
    Targets,     \* bound of the model: the stages callers ask for
    Tags,        \* edits that are made only once (add_tag)
    Notes,       \* edits that are made whenever asked for
    NoRecord,
    Unreadable,  \* a file that is truncated, or where two maps are mixed up
    MaxCalls     \* bound of the model: number of calls

ASSUME CallsAssumption == MaxCalls \in Nat

Edits == Tags \cup Notes

\* The funnel's operators, and below its specification.
Funnel == INSTANCE HiringFunnel WITH records <- [c \in Candidates |-> NoRecord]

ASSUME TargetsAssumption == Targets \subseteq Funnel!Stages
ASSUME SessionsAssumption == IsFiniteSet(Sessions)

VARIABLES
    live,      \* inode of pipeline_state.json, 0 if there is none
    tmp,       \* inode of pipeline_state.json.tmp, 0 if there is none
    content,   \* what each inode holds: a map of records, or Unreadable
    pc,        \* where each session is
    call,      \* what its caller asked for
    mine,      \* the record it is about to store
    creating,  \* is it storing a record that get_or_create made?
    map,       \* the map it is about to save
    fd,        \* the inode it has open for writing
    calls      \* number of calls so far

disk == <<live, tmp, content>>
vars == <<live, tmp, content, pc, call, mine, creating, map, fd, calls>>

PipelineMap == [Candidates -> Funnel!Record \cup {NoRecord}]
Empty == [c \in Candidates |-> NoRecord]

ASSUME NullsAssumption == NoRecord \notin Funnel!Record /\ Unreadable \notin PipelineMap

Inodes == 1..(2 * Cardinality(Sessions) + 2)

Calls ==
    [kind: {"view", "advance"}, c: Candidates, arg: {"none"}]
      \cup [kind: {"move"}, c: Candidates, arg: Targets]
      \cup [kind: {"edit"}, c: Candidates, arg: Edits]

\* What an advance becomes once the next stage is known.
Moves == [kind: {"move"}, c: Candidates, arg: Funnel!Stages]

NoCall == [kind |-> "none"]

Init ==
    /\ live = 0 /\ tmp = 0
    /\ content = [i \in Inodes |-> Unreadable]
    /\ pc = [s \in Sessions |-> "idle"]
    /\ call = [s \in Sessions |-> NoCall]
    /\ mine = [s \in Sessions |-> NoRecord]
    /\ creating = [s \in Sessions |-> FALSE]
    /\ map = [s \in Sessions |-> Empty]
    /\ fd = [s \in Sessions |-> 0]
    /\ calls = 0

-------------------------------------------------------------------------------
(* PipelineStore.load(): a missing or unreadable file is an empty pipeline. *)
Loaded ==
    IF live = 0 \/ content[live] = Unreadable THEN Empty ELSE content[live]

FreeInodes == {i \in Inodes : i # live /\ i # tmp /\ \A s \in Sessions : fd[s] # i}

Goto(s, label) == pc' = [pc EXCEPT ![s] = label]

-------------------------------------------------------------------------------
(* The engine's functions: what is done to the record once it is in memory. *)

\* The call changes nothing: a view, an illegal move, a move past the end, a
\* tag that is there already.
IsRefused(rec, k) ==
    CASE k.kind = "view"    -> TRUE
      [] k.kind = "advance" -> ~Funnel!HasNext(rec.stage)
      [] k.kind = "move"    -> ~Funnel!CanTransition(rec.stage, k.arg)
      [] k.kind = "edit"    -> k.arg \in Tags /\ k.arg \in rec.edits

\* move_candidate() looks up the next stage, then calls update_stage(), which
\* starts from the file again.
Resolved(rec, k) == [kind |-> "move", c |-> k.c, arg |-> Funnel!NextStage(rec.stage)]

Changed(rec, k) ==
    IF k.kind = "move" THEN Funnel!Moved(rec, k.arg) ELSE Funnel!Edited(rec, k.arg)

Return(s) ==
    /\ Goto(s, "idle")
    /\ call' = [call EXCEPT ![s] = NoCall]
    /\ mine' = [mine EXCEPT ![s] = NoRecord]
    /\ map' = [map EXCEPT ![s] = Empty]

\* The session has the record rec in memory and goes on with its call.
Apply(s, rec) ==
    LET k == call[s]
    IN  /\ creating' = [creating EXCEPT ![s] = FALSE]
        /\ \/ /\ IsRefused(rec, k)
              /\ Return(s)
           \/ /\ ~IsRefused(rec, k)
              /\ k.kind = "advance"
              /\ call' = [call EXCEPT ![s] = Resolved(rec, k)]
              /\ Goto(s, "look")
              /\ UNCHANGED <<mine, map>>
           \/ /\ ~IsRefused(rec, k)
              /\ k.kind # "advance"
              /\ mine' = [mine EXCEPT ![s] = Changed(rec, k)]
              /\ Goto(s, "load")
              /\ UNCHANGED <<call, map>>

-------------------------------------------------------------------------------
(* The steps of a session *)

Call(s, k) ==
    /\ pc[s] = "idle"
    /\ calls < MaxCalls
    /\ calls' = calls + 1
    /\ call' = [call EXCEPT ![s] = k]
    /\ Goto(s, "look")
    /\ UNCHANGED <<disk, mine, creating, map, fd>>

\* get_or_create(): the first read of the file.
Look(s) ==
    LET rec == Loaded[call[s].c]
    IN  /\ pc[s] = "look"
        /\ IF rec = NoRecord
             THEN /\ mine' = [mine EXCEPT ![s] = Funnel!NewRecord]
                  /\ creating' = [creating EXCEPT ![s] = TRUE]
                  /\ Goto(s, "load")
                  /\ UNCHANGED <<call, map>>
             ELSE Apply(s, rec)
        /\ UNCHANGED <<disk, fd, calls>>

\* Mutated form: only the record at hand is saved.
Upserted_Alone(s) == [Empty EXCEPT ![call[s].c] = mine[s]]

Upserted(s) == [Loaded EXCEPT ![call[s].c] = mine[s]]

\* put(): the second read.
Load(s) ==
    /\ pc[s] = "load"
    /\ map' = [map EXCEPT ![s] = Upserted(s)]
    /\ Goto(s, "open")
    /\ UNCHANGED <<disk, call, mine, creating, fd, calls>>

\* Mutated form: the file itself is opened for writing.
OpenTarget_InPlace(free) == IF live = 0 THEN free ELSE live

\* The inode behind open(tmp_path, "w"), given one to use for a new file.
OpenTarget(free) == IF tmp = 0 THEN free ELSE tmp

\* save(): open(tmp_path, "w") creates the file or truncates it.
Open(s) ==
    LET i == OpenTarget(CHOOSE n \in FreeInodes : TRUE)
    IN  /\ pc[s] = "open"
        /\ tmp' = i
        /\ content' = [content EXCEPT ![i] = Unreadable]
        /\ fd' = [fd EXCEPT ![s] = i]
        /\ Goto(s, "write")
        /\ UNCHANGED <<live, call, mine, creating, map, calls>>

\* json.dump() and close(): from offset 0, so that a longer text that another
\* session has written to the same inode keeps its tail.
Write(s) ==
    /\ pc[s] = "write"
    /\ \/ content' = [content EXCEPT ![fd[s]] = map[s]]
       \/ /\ content[fd[s]] \notin {Unreadable, map[s]}
          /\ content' = [content EXCEPT ![fd[s]] = Unreadable]
    /\ fd' = [fd EXCEPT ![s] = 0]
    /\ Goto(s, "replace")
    /\ UNCHANGED <<live, tmp, call, mine, creating, map, calls>>

\* os.replace(tmp_path, path): the call returns, or goes on after a creation.
Replace(s) ==
    /\ pc[s] = "replace"
    /\ tmp # 0
    /\ live' = tmp
    /\ tmp' = 0
    /\ content' = [i \in Inodes |-> IF i = live THEN Unreadable ELSE content[i]]
    /\ IF creating[s]
         THEN Apply(s, mine[s])
         ELSE Return(s) /\ UNCHANGED creating
    /\ UNCHANGED <<fd, calls>>

\* os.replace() raises FileNotFoundError: another session has renamed the file.
ReplaceFails(s) ==
    /\ pc[s] = "replace"
    /\ tmp = 0
    /\ Return(s)
    /\ creating' = [creating EXCEPT ![s] = FALSE]
    /\ UNCHANGED <<disk, fd, calls>>

\* The process stops: files stay as they are, all sessions start anew.
Crash ==
    /\ \E s \in Sessions : pc[s] # "idle"
    /\ pc' = [s \in Sessions |-> "idle"]
    /\ call' = [s \in Sessions |-> NoCall]
    /\ mine' = [s \in Sessions |-> NoRecord]
    /\ creating' = [s \in Sessions |-> FALSE]
    /\ map' = [s \in Sessions |-> Empty]
    /\ fd' = [s \in Sessions |-> 0]
    /\ UNCHANGED <<disk, calls>>

-------------------------------------------------------------------------------
Next ==
    \/ \E s \in Sessions, k \in Calls : Call(s, k)
    \/ \E s \in Sessions : Look(s)
    \/ \E s \in Sessions : Load(s)
    \/ \E s \in Sessions : Open(s)
    \/ \E s \in Sessions : Write(s)
    \/ \E s \in Sessions : Replace(s)
    \/ \E s \in Sessions : ReplaceFails(s)
    \/ Crash

Spec == Init /\ [][Next]_vars

-------------------------------------------------------------------------------
(* Properties *)

\* Types; a file is a whole map of records or cannot be read at all.
TypeOK ==
    /\ live \in Inodes \cup {0} /\ tmp \in Inodes \cup {0}
    /\ content \in [Inodes -> PipelineMap \cup {Unreadable}]
    /\ pc \in [Sessions -> {"idle", "look", "load", "open", "write", "replace"}]
    /\ call \in [Sessions -> Calls \cup Moves \cup {NoCall}]
    /\ mine \in [Sessions -> Funnel!Record \cup {NoRecord}]
    /\ creating \in [Sessions -> BOOLEAN]
    /\ map \in [Sessions -> PipelineMap]
    /\ fd \in [Sessions -> Inodes \cup {0}]
    /\ calls \in 0..MaxCalls

\* "an illegal move raises InvalidTransition rather than silently corrupting the
\* funnel": whatever sessions do to each other, every record that can be read
\* has a history that leads from Applied to its stage by legal moves only.
HistoriesAreLegal ==
    \A c \in Candidates : Loaded[c] # NoRecord => Funnel!IsLegal(Loaded[c])

\* "Ordered audit trail of every transition": no event leaves the file again,
\* and no candidate does.
HistoriesOnlyGrow ==
    [][\A c \in Candidates :
          Loaded[c] # NoRecord =>
             /\ Loaded'[c] # NoRecord
             /\ Len(Loaded[c].history) <= Len(Loaded'[c].history)
             /\ \A i \in 1..Len(Loaded[c].history) :
                   Loaded'[c].history[i] = Loaded[c].history[i]]_vars

\* "atomically-ish via write-replace": wherever the process stops, the file is
\* never seen half written.
FileIsReadable == live # 0 => content[live] # Unreadable

\* The file shows what the funnel promises: one change of one record at a time,
\* none of them lost.
Promise == INSTANCE HiringFunnel WITH records <- Loaded
ImplementsFunnel == Promise!Spec
================================================================================
