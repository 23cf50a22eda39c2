----------------------------- MODULE MinuteVersions -----------------------------
(***************************************************************************)
(* The minutes of a meeting that was saved: generations by the AI, the     *)
(* host's edits, confirmations and restorations, and the two documents     *)
(* that are rebuilt from SQLite, the minutes and the raw record.           *)
(*                                                                         *)
(* Source: service/minutes/{generation,version_service,projector}.go,      *)
(* repository/minutes/{repository,transactions}.go,                        *)
(* service/transcript/raw_record_projector.go.                             *)
(*                                                                         *)
(* What a version says is its number.  A fact of the raw record is a unit  *)
(* of a counter.  The provider ends a turn, or loses it, at any time.      *)
(***************************************************************************)
EXTENDS Naturals, Sequences, FiniteSets

CONSTANTS
    Generations,  \* calls of Generate
    Requests,     \* their request ids
    Editors,      \* commands of the host; a command is sent at most twice
    Timers,       \* goroutines of the debounce timer that may run at once
    MaxFacts,     \* bound: facts added to the raw record
    MaxFaults     \* bound: statements and writes that fail, and crashes of the process

ASSUME MinutesAssumption ==
    /\ MaxFacts \in Nat /\ MaxFaults \in Nat
    /\ Generations \cap Editors = {} /\ Timers \cap (Generations \cup Editors) = {}

Procs == Generations \cup Editors \cup Timers

VARIABLES
    minute,     \* meetings.minute_state
    versions,   \* minute_versions, by version number
    turns,      \* agent_turns of kind minutes, by the call that creates them
    gen,        \* what each call of Generate is about to do
    active,     \* GenerationService.active: the calls that hold it, one at most
    edit,       \* each command of the host
    facts,      \* what the raw record is made from
    file,       \* the content of the two documents
    shown,      \* the state of each projection
    flush,      \* each refresh that is under way
    due,        \* the generation of the raw record's scheduled refresh, 0: none
    generation, \* RawRecordProjector.generation
    up,         \* whether the process runs
    faults

rows == <<minute, versions, turns>>
documents == <<facts, file, shown, flush, due, generation>>
vars == <<rows, gen, active, edit, documents, up, faults>>

Sources == {"ai", "human", "restored"}
Pending == {"pending", "running"}
NoTurn  == [state |-> "none", key |-> "none"]
NoGen   == [pc |-> "idle", key |-> "none", cancelled |-> FALSE]
NoEdit  == [pc |-> "idle", kind |-> "none", base |-> 0, sent |-> 0]
NoFlush == [step |-> "none", doc |-> "raw", content |-> <<0>>]

\* currentVersion
CurrentOnes(vs) == {v \in DOMAIN vs : vs[v].current}
Current == IF CurrentOnes(versions) = {} THEN 0 ELSE CHOOSE v \in CurrentOnes(versions) : TRUE
\* renderVersionProjection: the number and, in the header, the state
Rendered == IF Current = 0 THEN <<0>> ELSE <<Current, versions[Current].state>>

Version == [source : Sources, state : {"draft", "confirmed"}, current : BOOLEAN,
            id : Generations \cup Editors, parent : Nat]
Turn == [state : {"none", "completed", "failed", "cancelled", "timed_out"} \cup Pending,
         key : Requests \cup {"none"}]
GenPc == {"idle", "flush", "begin", "own", "run", "commit", "project", "done"}
Gen == [pc : GenPc, key : Requests \cup {"none"}, cancelled : BOOLEAN]
Edit == [pc : {"idle", "open", "project"}, kind : {"none", "save", "confirm", "restore"}, base : Nat, sent : 0..2]
TypeOK ==
    /\ minute \in {"none", "generating", "draft", "confirmed", "failed"}
    /\ versions \in Seq(Version) /\ turns \in [Generations -> Turn]
    /\ gen \in [Generations -> Gen] /\ active \subseteq Generations
    /\ edit \in [Editors -> Edit]
    /\ shown \in [{"raw", "minutes"} -> {"idle", "dirty", "writing", "current", "failed"}]
    /\ DOMAIN flush = Procs /\ \A p \in Procs : DOMAIN flush[p] = DOMAIN NoFlush
    /\ generation \in Nat /\ due \in {0, generation}

Init ==
    /\ minute = "none" /\ versions = <<>>
    /\ turns = [c \in Generations |-> NoTurn]
    /\ gen = [c \in Generations |-> NoGen] /\ active = {}
    /\ edit = [e \in Editors |-> NoEdit]
    /\ facts = 1 /\ file = [raw |-> <<1>>, minutes |-> <<0>>]
    /\ shown = [d \in {"raw", "minutes"} |-> "idle"]
    /\ flush = [p \in Procs |-> NoFlush]
    /\ due = 0 /\ generation = 0
    /\ up = TRUE /\ faults = 0

-----------------------------------------------------------------------------
Works == UNCHANGED faults
Fails == faults < MaxFaults /\ faults' = faults + 1
Stays == up /\ UNCHANGED up

\* Mutant: the refresh is scheduled for a generation that is not counted.
MarkDirty_NotCounted ==
    /\ due' = generation + 1 /\ UNCHANGED generation
    /\ shown' = [shown EXCEPT !.raw = "dirty"]
\* MarkDirty: the debounce starts again.
MarkDirty ==
    /\ generation' = generation + 1 /\ due' = generation'
    /\ shown' = [shown EXCEPT !.raw = "dirty"]
\* A fact is committed and the record marked.
AddFact ==
    /\ facts <= MaxFacts /\ facts' = facts + 1 /\ MarkDirty
    /\ UNCHANGED <<rows, gen, active, edit, file, flush>> /\ Works /\ Stays

\* Flush of RawRecordProjector: what was scheduled is cancelled.
FlushRaw(p) ==
    /\ due' = 0 /\ generation' = generation + 1
    /\ shown' = [shown EXCEPT !.raw = "writing"]
    /\ flush' = [flush EXCEPT ![p] = [NoFlush EXCEPT !.step = "read"]]
    /\ UNCHANGED <<facts, file>>
\* The timer fires; stopping it later does not stop the goroutine.
Fire(t) ==
    /\ due # 0 /\ flush[t] = NoFlush
    /\ flush' = [flush EXCEPT ![t] = [NoFlush EXCEPT !.step = "check", !.content = <<due>>]]
    /\ due' = 0
    /\ UNCHANGED <<rows, gen, active, edit, facts, file, shown, generation>> /\ Works /\ Stays
\* runScheduled
RunScheduled(t) ==
    /\ flush[t].step = "check"
    /\ IF flush[t].content # <<generation>> THEN flush' = [flush EXCEPT ![t] = NoFlush] /\ UNCHANGED shown
       ELSE /\ flush' = [flush EXCEPT ![t].step = "read"]
            /\ shown' = [shown EXCEPT !.raw = "writing"]
    /\ UNCHANGED <<rows, gen, active, edit, facts, file, due, generation>> /\ Works /\ Stays

\* Flush of MinuteProjector
FlushMinutes(p) ==
    /\ flush' = [flush EXCEPT ![p] = [NoFlush EXCEPT !.step = "read", !.doc = "minutes"]]
    /\ UNCHANGED <<facts, file, shown, due, generation>>

\* render, GetCurrent: what the document will be, read from SQLite
Read(p) ==
    /\ flush[p].step = "read"
    /\ flush' = [flush EXCEPT ![p].step = "write",
                              ![p].content = IF flush[p].doc = "raw" THEN <<facts>> ELSE Rendered]
    /\ UNCHANGED <<rows, gen, active, edit, facts, file, shown, due, generation>> /\ Works /\ Stays
\* Rebuild, then finishRefresh; no lock is held.
Write(p) ==
    /\ flush[p].step = "write"
    /\ file' = [file EXCEPT ![flush[p].doc] = flush[p].content]
    /\ flush' = [flush EXCEPT ![p].step = "current"]
    /\ UNCHANGED <<rows, gen, active, edit, facts, shown, due, generation>> /\ Works /\ Stays
ReadOrWriteFails(p) ==
    /\ flush[p].step \in {"read", "write"}
    /\ flush' = [flush EXCEPT ![p].step = "failed"]
    /\ UNCHANGED <<rows, gen, active, edit, facts, file, shown, due, generation>> /\ Fails /\ Stays
Ended(p) == flush[p].step \in {"current", "failed"}
\* Mutant: what could not be refreshed is dirty again, and not scheduled.
FinishRefresh_Dirty(p) ==
    /\ Ended(p)
    /\ shown' = [shown EXCEPT ![flush[p].doc] = IF flush[p].step = "failed" THEN "dirty" ELSE flush[p].step]
    /\ flush' = [flush EXCEPT ![p] = NoFlush]
    /\ UNCHANGED <<facts, file, due, generation>>
\* The projection's state is set and the refresh returns.
FinishRefresh(p) ==
    /\ Ended(p)
    /\ shown' = [shown EXCEPT ![flush[p].doc] = flush[p].step]
    /\ flush' = [flush EXCEPT ![p] = NoFlush]
    /\ UNCHANGED <<facts, file, due, generation>>
Refreshed(t) == FinishRefresh(t) /\ UNCHANGED <<rows, gen, active, edit>> /\ Works /\ Stays

-----------------------------------------------------------------------------
\* Generate

At(c, pc) == gen[c].pc = pc
Goes(c, pc) == gen' = [gen EXCEPT ![c].pc = pc]

Generate(c) ==
    /\ At(c, "idle")
    /\ \E r \in Requests : gen' = [gen EXCEPT ![c] = [NoGen EXCEPT !.pc = "flush", !.key = r]]
    /\ FlushRaw(c)
    /\ UNCHANGED <<rows, active, edit>> /\ Works /\ Stays
\* The raw record is there; a gap that is processed, or a session that cannot be
\* resumed, ends the call here.
Preflight(c) ==
    /\ At(c, "flush") /\ Ended(c)
    /\ IF flush[c].step = "current" THEN Goes(c, "begin") \/ Goes(c, "done") ELSE Goes(c, "done")
    /\ FinishRefresh(c)
    /\ UNCHANGED <<rows, active, edit>> /\ Works /\ Stays

ByKey(r) == {c \in Generations : turns[c].key = r}
\* idx_agent_turns_active_meeting
Busy == \E c \in Generations : turns[c].state \in Pending
\* BeginMinutesTurn; a request that is known, and a conflict, end the call.
BeginMinutesTurn(c) ==
    /\ At(c, "begin")
    /\ IF ByKey(gen[c].key) # {} \/ minute = "generating" \/ Busy THEN Goes(c, "done") /\ UNCHANGED rows
       ELSE /\ turns' = [turns EXCEPT ![c] = [state |-> "pending", key |-> gen[c].key]]
            /\ minute' = "generating" /\ Goes(c, "own") /\ UNCHANGED versions
    /\ UNCHANGED <<active, edit, documents>> /\ Works /\ Stays

\* Mutant: the meeting goes back to a draft it may not have.
FailMinutesTurn_Draft(c, state) ==
    /\ turns' = [turns EXCEPT ![c].state = IF @ \in Pending THEN state ELSE @]
    /\ minute' = IF turns[c].state \in Pending THEN "draft" ELSE minute
    /\ UNCHANGED versions
\* FailMinutesTurn: a turn that ended stays as it is.
FailMinutesTurn(c, state) ==
    /\ turns' = [turns EXCEPT ![c].state = IF @ \in Pending THEN state ELSE @]
    /\ minute' = IF turns[c].state \in Pending THEN "failed" ELSE minute
    /\ UNCHANGED versions
\* fail and end: the settlement that fails is ignored.
Fail(c, state) ==
    /\ Goes(c, "done") /\ active' = active \ {c}
    /\ \/ FailMinutesTurn(c, state) /\ Works
       \/ UNCHANGED rows /\ Fails

\* begin: the process has one generation at a time.
Own(c) ==
    /\ At(c, "own")
    /\ IF active = {} THEN active' = {c} /\ Goes(c, "run") /\ UNCHANGED rows /\ Works ELSE Fail(c, "failed")
    /\ UNCHANGED <<edit, documents>> /\ Stays

\* MarkMinutesTurnRunning
Started(c) ==
    /\ At(c, "run") /\ turns[c].state = "pending" /\ ~gen[c].cancelled
    /\ turns' = [turns EXCEPT ![c].state = "running"]
    /\ UNCHANGED <<minute, versions, gen, active, edit, documents>> /\ Works /\ Stays
\* The final output and the completion were both received, and are valid.
Completed(c) ==
    /\ At(c, "run") /\ turns[c].state = "running" /\ ~gen[c].cancelled
    /\ Goes(c, "commit")
    /\ UNCHANGED <<rows, active, edit, documents>> /\ Works /\ Stays
\* The stream fails, ends without a final or with an invalid one; or the context
\* ended, by Stop or by its deadline.
RunEnds(c) ==
    /\ gen[c].pc \in {"run", "commit"}
    /\ \/ ~gen[c].cancelled /\ (At(c, "run") \/ faults < MaxFaults) /\ Fail(c, "failed")
       \/ gen[c].cancelled /\ Fail(c, "cancelled")
       \/ At(c, "run") /\ Fail(c, "timed_out")
    /\ UNCHANGED <<edit, documents>> /\ Stays
\* Stop, StopMeeting
Stop(c) ==
    /\ c \in active /\ ~gen[c].cancelled
    /\ gen' = [gen EXCEPT ![c].cancelled = TRUE]
    /\ UNCHANGED <<rows, active, edit, documents>> /\ Works /\ Stays

\* The new version takes the place of the current one, or stands beside it.
Added(source, state, id, parent, current) ==
    LET old == IF current THEN [v \in DOMAIN versions |-> [versions[v] EXCEPT !.current = FALSE]] ELSE versions
    IN Append(old, [source |-> source, state |-> state, id |-> id, parent |-> parent, current |-> current])

\* Mutant: the proposal takes the place of whatever is there.
MakesCurrent_Always == TRUE
\* CommitGeneratedMinute's makeCurrent
MakesCurrent == Current = 0 \/ (versions[Current].source = "ai" /\ versions[Current].state = "draft")
\* Mutant: the turn is completed whatever became of it meanwhile.
CommitGeneratedMinute_AnyTurn(c) ==
    /\ At(c, "commit") /\ ~gen[c].cancelled
    /\ versions' = Added("ai", "draft", c, 0, MakesCurrent) /\ minute' = "draft" /\ UNCHANGED turns
    /\ Goes(c, "project") /\ FlushMinutes(c)
    /\ UNCHANGED <<active, edit>> /\ Works /\ Stays
\* CommitGeneratedMinute, and the projection starts.
CommitGeneratedMinute(c) ==
    /\ At(c, "commit") /\ ~gen[c].cancelled /\ turns[c].state = "running"
    /\ versions' = Added("ai", "draft", c, 0, MakesCurrent)
    /\ turns' = [turns EXCEPT ![c].state = "completed"]
    /\ minute' = "draft"
    /\ Goes(c, "project") /\ FlushMinutes(c)
    /\ UNCHANGED <<active, edit>> /\ Works /\ Stays
Projected(c) ==
    /\ At(c, "project") /\ FinishRefresh(c)
    /\ Goes(c, "done") /\ active' = active \ {c}
    /\ UNCHANGED <<rows, edit>> /\ Works /\ Stays

-----------------------------------------------------------------------------
\* VersionService

\* The page shows a version; the host edits it, confirms it or restores one.
Open(e) ==
    /\ edit[e] = NoEdit /\ Current # 0
    /\ \E kind \in {"save", "confirm", "restore"} :
         \E v \in IF kind = "restore" THEN DOMAIN versions ELSE {Current} :
           edit' = [edit EXCEPT ![e] = [pc |-> "open", kind |-> kind, base |-> v, sent |-> 0]]
    /\ UNCHANGED <<rows, gen, active, documents>> /\ Works /\ Stays

\* versionByID: the request id is the id of the version it creates.
Made(e) == {v \in DOMAIN versions : versions[v].id = e}
\* Mutant: the base is not compared.
BaseIsCurrent_Any(e) == TRUE
BaseIsCurrent(e) == edit[e].base = Current
\* SaveHumanMinute
SaveHumanMinute(e) ==
    /\ edit[e].kind = "save" /\ Made(e) = {} /\ BaseIsCurrent(e)
    /\ versions' = Added("human", "draft", e, edit[e].base, TRUE)
    /\ minute' = "draft" /\ UNCHANGED turns
\* ConfirmCurrentMinute: what the AI proposed since keeps the meeting a draft.
Candidates == {v \in DOMAIN versions : versions[v].source = "ai" /\ versions[v].state = "draft" /\ ~versions[v].current}
ConfirmCurrentMinute(e) ==
    /\ edit[e].kind = "confirm" /\ BaseIsCurrent(e) /\ versions[Current].state = "draft"
    /\ versions' = [versions EXCEPT ![Current].state = "confirmed"]
    /\ minute' = IF Candidates = {} THEN "confirmed" ELSE "draft"
    /\ UNCHANGED turns
\* RestoreMinuteVersion
RestoreMinuteVersion(e) ==
    LET source == versions[edit[e].base]
    IN /\ edit[e].kind = "restore" /\ Made(e) = {}
       /\ versions' = Added("restored", source.state, e, edit[e].base, TRUE)
       /\ minute' = source.state /\ UNCHANGED turns
\* Sent again: the same answer.
Again(e) ==
    /\ \/ edit[e].kind \in {"save", "restore"} /\ Made(e) # {}
       \/ edit[e].kind = "confirm" /\ edit[e].base = Current /\ versions[Current].state = "confirmed"
    /\ UNCHANGED rows

Submit(e) ==
    /\ edit[e].pc = "open" /\ edit[e].sent < 2
    /\ SaveHumanMinute(e) \/ ConfirmCurrentMinute(e) \/ RestoreMinuteVersion(e) \/ Again(e)
    /\ edit' = [edit EXCEPT ![e].pc = "project", ![e].sent = @ + 1]
    /\ FlushMinutes(e)
    /\ UNCHANGED <<gen, active>> /\ Works /\ Stays
\* The version that was edited or confirmed is not current any more.
Conflict(e) ==
    /\ edit[e].pc = "open" /\ edit[e].sent < 2 /\ edit[e].kind \in {"save", "confirm"} /\ Made(e) = {}
    /\ edit[e].base # Current
    /\ edit' = [edit EXCEPT ![e].sent = @ + 1]
    /\ UNCHANGED <<rows, gen, active, documents>> /\ Works /\ Stays
EditProjected(e) ==
    /\ edit[e].pc = "project" /\ FinishRefresh(e)
    /\ edit' = [edit EXCEPT ![e].pc = "open"]
    /\ UNCHANGED <<rows, gen, active>> /\ Works /\ Stays

-----------------------------------------------------------------------------
\* The process stops, and RecoverInterruptedTurns settles what it left.
Crash ==
    /\ up /\ up' = FALSE /\ Fails
    /\ gen' = [c \in Generations |-> IF gen[c] = NoGen THEN NoGen ELSE [gen[c] EXCEPT !.pc = "done"]]
    /\ active' = {}
    /\ edit' = [e \in Editors |-> IF edit[e].pc = "project" THEN [edit[e] EXCEPT !.pc = "open"] ELSE edit[e]]
    /\ flush' = [p \in Procs |-> NoFlush] /\ due' = 0 /\ generation' = 0
    /\ shown' = [d \in {"raw", "minutes"} |-> "idle"]
    /\ UNCHANGED <<rows, facts, file>>
\* Mutant: the meeting is not told.
RecoverInterruptedTurns_TurnsOnly ==
    /\ ~up /\ up' = TRUE
    /\ turns' = [c \in Generations |-> IF turns[c].state \in Pending THEN [turns[c] EXCEPT !.state = "failed"] ELSE turns[c]]
    /\ UNCHANGED <<minute, versions, gen, active, edit, documents>> /\ Works
RecoverInterruptedTurns ==
    /\ ~up /\ up' = TRUE
    /\ turns' = [c \in Generations |-> IF turns[c].state \in Pending THEN [turns[c] EXCEPT !.state = "failed"] ELSE turns[c]]
    /\ minute' = IF Busy THEN "failed" ELSE minute
    /\ UNCHANGED <<versions, gen, active, edit, documents>> /\ Works

GenerationStep(c) ==
    \/ Generate(c) \/ Preflight(c) \/ BeginMinutesTurn(c) \/ Own(c) \/ Started(c) \/ Completed(c)
    \/ RunEnds(c) \/ Stop(c) \/ CommitGeneratedMinute(c) \/ Projected(c)
EditStep(e)  == Open(e) \/ Submit(e) \/ Conflict(e) \/ EditProjected(e)
FlushStep(p) == Read(p) \/ Write(p) \/ ReadOrWriteFails(p)
TimerStep(t) == Fire(t) \/ RunScheduled(t) \/ Refreshed(t)
Next ==
    \/ AddFact \/ Crash \/ RecoverInterruptedTurns
    \/ \E c \in Generations : GenerationStep(c)
    \/ \E e \in Editors : EditStep(e)
    \/ \E p \in Procs : FlushStep(p)
    \/ \E t \in Timers : TimerStep(t)
Spec == Init /\ [][Next]_vars

-----------------------------------------------------------------------------
\* The list of versions keeps its promise, whatever the generations and the host
\* do at once (CommitGeneratedMinute, SaveHumanMinute, ConfirmCurrentMinute,
\* RestoreMinuteVersion).
History == INSTANCE VersionHistory WITH
    history <- [v \in DOMAIN versions |-> versions[v].source],
    chosen <- Current,
    confirmed <- {v \in DOMAIN versions : versions[v].state = "confirmed"}
ImplementsHistory == History!Spec

\* A turn is completed exactly when its version exists, and has one version only,
\* whatever was sent again, stopped or lost in a crash.
CompletedHasVersion == \A c \in Generations :
    Cardinality(Made(c)) = (IF turns[c].state = "completed" THEN 1 ELSE 0)

\* Between an edit of the host and the version his page showed lie only proposals
\* that never came into force, whoever edited, restored, confirmed or generated
\* meanwhile (SaveHumanMinute's base revision, with CommitGeneratedMinute's
\* makeCurrent and RestoreMinuteVersion): no edit takes the place of a text its
\* author has not seen, and two edits never come from one version.
EditsMissNothing == \A w \in DOMAIN versions : versions[w].source = "human" =>
    LET p == versions[w].parent IN
    /\ p \in DOMAIN versions /\ p < w
    /\ \A v \in (p + 1)..(w - 1) : versions[v].source = "ai"
    /\ versions[p].source = "ai" /\ versions[p].state = "draft" => w = p + 1

\* Why it is: what lies behind the version in force are proposals, and none behind a
\* proposal.
BehindCurrent == Current # 0 =>
    /\ \A v \in (Current + 1)..Len(versions) : versions[v].source = "ai"
    /\ versions[Current].source = "ai" /\ versions[Current].state = "draft" => Current = Len(versions)
EditsInv == EditsMissNothing /\ BehindCurrent

\* A meeting that shows as confirmed has a confirmed version in force, and one
\* that shows a draft has a draft to look at.
MinuteStateFits ==
    /\ minute = "confirmed" => Current # 0 /\ versions[Current].state = "confirmed"
    /\ minute = "draft" => \E v \in DOMAIN versions : versions[v].state = "draft"

\* A meeting is generating only while a turn of it is active, or waits for the
\* recovery of a start (FailMinutesTurn, RecoverInterruptedTurns): it never stays
\* so with nothing that would end it.
GeneratingHasTurn == minute = "generating" => Busy

\* A raw record that is dirty is going to be refreshed.
DirtyIsScheduled == shown.raw = "dirty" => due # 0 \/ \E p \in Procs : flush[p].step # "none"

\* Why it is: the refresh that is scheduled, or that has begun and will not find
\* itself overtaken, is the one of the last change (runScheduled).
LastChangeRefreshed == shown.raw = "dirty" =>
    \/ due # 0
    \/ \E t \in Timers : flush[t].step = "check" /\ flush[t].content = <<generation>>

\* A command of the host is about a version there is.
BaseExists == \A e \in Editors :
    edit[e].pc # "idle" => edit[e].kind # "none" /\ edit[e].base \in DOMAIN versions

\* A call that has not begun its turn has none.
NotYetBegun == \A c \in Generations : gen[c].pc \in {"idle", "flush", "begin"} => turns[c].state = "none"

\* Turns, versions, documents and the state of the meeting fit together.
MinutesInv ==
    /\ TypeOK /\ CompletedHasVersion /\ MinuteStateFits /\ GeneratingHasTurn
    /\ DirtyIsScheduled /\ LastChangeRefreshed /\ BaseExists /\ NotYetBegun

\* When nothing is under way, a document that is said to be current shows what
\* SQLite holds.
CurrentIsShown ==
    (\A p \in Procs : flush[p] = NoFlush) /\ due = 0 =>
      /\ shown.raw = "current" => file.raw = <<facts>>
      /\ shown.minutes = "current" => file.minutes = Rendered
=============================================================================
