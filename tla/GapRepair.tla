----------------------------- MODULE GapRepair -----------------------------
(***************************************************************************)
(* What happens to the gaps of a transcript after the meeting: one         *)
(* background owner cuts them into slices, sends each to the file          *)
(* transcriber once, and stores what comes back as new utterances or as a  *)
(* conflict the host resolves.                                             *)
(*                                                                         *)
(* Source: service/finalization/{processor,recovery}.go, service/gap/*.go, *)
(* domain/gap/{planner,compensation}.go, repository/gap/*.go.              *)
(*                                                                         *)
(* The timeline is cut into units: a gap is an interval of units, a        *)
(* candidate of the transcriber and an utterance are one unit each.  Texts *)
(* and the search for a quiet place to cut are abstract.  One meeting; the *)
(* final synchronisation that follows is AgentTurns.                       *)
(***************************************************************************)
EXTENDS Naturals, FiniteSets, FiniteSetsExt

CONSTANTS
    Gaps,          \* asr_gaps of the meeting
    From, To,      \* [Gaps -> Nat], the half-open interval of a gap
    Limit,         \* units one request may hold (maxAudioSamples)
    Heard,         \* units that may already have an utterance of the meeting
    Requests,      \* request ids the host may use, each also a second time
    Resolvers,     \* windows in which a conflict is open
    MaxAttempts,   \* bound: rows of gap_transcription_attempts
    MaxFaults,     \* bound: statements, file operations and requests that fail
    MaxCrashes,    \* bound: crashes of the process
    NoRequest

ASSUME RangesAssumption ==
    /\ From \in [Gaps -> Nat] /\ To \in [Gaps -> Nat]
    /\ \A g \in Gaps : From[g] < To[g]
    /\ Limit \in Nat \ {0} /\ MaxAttempts \in Nat
    /\ NoRequest \notin Requests

Attempts == 1..MaxAttempts
NoAttempt == 0
Units == UNION {From[g]..(To[g] - 1) : g \in Gaps}

VARIABLES
    gaps,      \* asr_gaps.state
    agg,       \* meetings.gap_state
    attempts,  \* gap_transcription_attempts, their items and their WAV
    text,      \* how many utterances a unit has
    owner,     \* processor.owners, for this meeting, and where its goroutine is
    billed,    \* how often a request id reached the transcriber
    windows,   \* the conflict each resolver has read
    recovered, \* whether the recovery of this start of the process has run
    faults, crashes

rows == <<gaps, agg, attempts, text>>
vars == <<rows, owner, billed, windows, recovered, faults, crashes>>

Idle == [pc |-> "none", req |-> NoRequest, sel |-> {}, att |-> NoAttempt,
         cancelled |-> FALSE, cand |-> {}]
NoRow == [state |-> "none", items |-> {}, core |-> {}, req |-> NoRequest,
          cand |-> {}, file |-> FALSE, asset |-> "none"]
Closed == [pc |-> "closed", gap |-> CHOOSE g \in Gaps : TRUE, existing |-> {}]

Eligible == {g \in Gaps : gaps[g] \in {"pending", "failed"}}
Running  == {a \in Attempts : attempts[a].state = "running"}

\* AggregateState
AggregateState(states) ==
    LET order == <<"conflict", "processing", "failed", "pending">>
        present == {i \in 1..4 : order[i] \in states}
    IN IF states = {} THEN "none"
       ELSE IF present = {} THEN "completed" ELSE order[Min(present)]
Aggregate(g) == AggregateState({g[x] : x \in Gaps})

\* The first slice of Plan: gaps that overlap or touch are merged, and what is
\* longer than a request is cut; the slice keeps every gap of the merged range.
MergedEnd(set, start) == Min({To[g] : g \in {x \in set :
    \A y \in set : From[y] <= To[x] => To[y] <= To[x]}} \ 0..start)
FirstSlice(set) ==
    LET start == Min({From[g] : g \in set})
        end   == MergedEnd(set, start)
    IN [items |-> {g \in set : From[g] < end},
        core  |-> start..((IF end < start + Limit THEN end ELSE start + Limit) - 1)]

GapStates == {"pending", "processing", "completed", "failed", "conflict"}
Row == [state : {"none", "running", "completed", "failed", "conflict"},
        items : SUBSET Gaps, core : SUBSET Units, req : Requests \cup {NoRequest},
        cand : SUBSET Units, file : BOOLEAN, asset : {"none", "ready", "deleted"}]
\* Where the owner is before the request, with a request and what came of it.
Preparing == {"register", "claim"}
Sent == {"call", "fail", "silence", "look", "store", "conflict"}
Ending == {"unclaimed", "uncommitted", "cleanup_failed", "cleanup_error", "flush", "settled", "settled_error"}
Owner == [pc : {"none", "lookup", "plan", "again", "sync", "finish"} \cup Preparing \cup Sent \cup Ending,
          req : Requests \cup {NoRequest}, sel : SUBSET Gaps, att : Attempts \cup {NoAttempt},
          cancelled : BOOLEAN, cand : SUBSET Units]
Window == {Closed} \cup [pc : {"read"}, gap : Gaps, existing : SUBSET Units]

TypeOK ==
    /\ gaps \in [Gaps -> GapStates]
    /\ agg \in GapStates \cup {"none"}
    /\ attempts \in [Attempts -> Row]
    /\ text \in [Units -> Nat]
    /\ owner \in Owner
    /\ billed \in [Requests -> Nat]
    /\ windows \in [Resolvers -> Window]

Init ==
    /\ gaps = [g \in Gaps |-> "pending"]
    /\ agg = Aggregate(gaps)
    /\ attempts = [a \in Attempts |-> NoRow]
    /\ \E S \in SUBSET Heard : text = [u \in Units |-> IF u \in S THEN 1 ELSE 0]
    /\ owner = Idle
    /\ billed = [r \in Requests |-> 0]
    /\ windows = [r \in Resolvers |-> Closed]
    /\ recovered = FALSE
    /\ faults = 0 /\ crashes = 0

-----------------------------------------------------------------------------
Env   == <<billed, windows, recovered>>
Works == UNCHANGED <<faults, crashes>>
Fails == faults < MaxFaults /\ faults' = faults + 1 /\ UNCHANGED crashes
At(pc) == owner.pc = pc
Goto(pc) == owner' = [owner EXCEPT !.pc = pc]
\* A step of the owner that changes no row: it cannot do better, or it fails.
Gives(can, pc) ==
    /\ IF can THEN Fails ELSE Works
    /\ Goto(pc) /\ UNCHANGED <<rows, Env>>
SetState(a, state) == attempts' = [attempts EXCEPT ![a].state = state]
SetGaps(set, state) == gaps' = [g \in Gaps |-> IF g \in set THEN state ELSE gaps[g]]
\* Mutants: the state of the meeting is not recomputed; the attempt is settled
\* without its gaps.
Settle_KeepsAggregate(a, gapState, attState) ==
    SetGaps(attempts[a].items, gapState) /\ SetState(a, attState) /\ agg' = agg
Settle_AttemptOnly(a, gapState, attState) ==
    UNCHANGED gaps /\ SetState(a, attState) /\ agg' = Aggregate(gaps)

\* A transaction that moves an attempt and its gaps together.
Settle(a, gapState, attState) ==
    /\ SetGaps(attempts[a].items, gapState)
    /\ SetState(a, attState)
    /\ agg' = Aggregate(gaps')
\* Every item still processed by this attempt, which is still running.
Held(a) == attempts[a].state = "running" /\ \A g \in attempts[a].items : gaps[g] = "processing"
NewFrom == {a \in Attempts : attempts[a] = NoRow}

-----------------------------------------------------------------------------
\* PostMeetingProcessor

\* Trigger after the recording (no request id), or TriggerRequested.
Trigger(r, sel) ==
    /\ owner = Idle
    /\ r # NoRequest => billed[r] < 2
    /\ owner' = [Idle EXCEPT !.pc = "lookup", !.req = r, !.sel = sel]
    /\ UNCHANGED <<rows, Env>> /\ Works

StopMeeting ==
    /\ owner # Idle /\ ~owner.cancelled
    /\ owner' = [owner EXCEPT !.cancelled = TRUE]
    /\ UNCHANGED <<rows, Env>> /\ Works

\* GetAttemptByProviderRequest
AttemptsOfRequest(r) == {a \in Attempts : attempts[a].req = r /\ attempts[a].state # "none"}

\* ProcessNextRequested: a request that was made before is only looked up; a
\* look-up that fails is taken for a request that was not.
LookupRequest ==
    LET made == AttemptsOfRequest(owner.req)
    IN /\ At("lookup")
       /\ \/ /\ owner.req = NoRequest \/ made = {} \/ owner.cancelled
             /\ Goto("plan") /\ Works
          \/ owner.req # NoRequest /\ Goto("plan") /\ Fails
          \/ /\ owner.req # NoRequest /\ made # {} /\ ~owner.cancelled
             /\ Goto(IF \E a \in made : attempts[a].state = "running" THEN "again" ELSE "sync")
             /\ Works
       /\ UNCHANGED <<rows, Env>>

\* run's loop: from here on the owner works on its own account.
Again ==
    /\ At("again")
    /\ owner' = [owner EXCEPT !.pc = "plan", !.req = NoRequest, !.sel = {}]
    /\ UNCHANGED <<rows, Env>> /\ Works

\* selectGaps: every gap the host names must still be eligible.
Chosen == IF owner.sel = {} THEN Eligible ELSE owner.sel
Selectable == Chosen \subseteq Eligible
\* Extract: the WAV of the slice is on disk before the database knows it.
Extracted(slice) == [NoRow EXCEPT !.items = slice.items, !.core = slice.core, !.file = TRUE]

\* processNext up to the plan and the file of its first slice.
PlanSlice ==
    LET ok == ~owner.cancelled /\ Selectable /\ NewFrom # {}
        a  == Min(NewFrom)
    IN /\ At("plan")
       /\ \/ Eligible = {} /\ ~owner.cancelled /\ Goto("sync")
             /\ UNCHANGED <<rows, Env>> /\ Works
          \/ /\ Eligible # {} /\ ok
             /\ attempts' = [attempts EXCEPT ![a] = Extracted(FirstSlice(Chosen))]
             /\ owner' = [owner EXCEPT !.pc = "register", !.att = a]
             /\ UNCHANGED <<gaps, agg, text, Env>> /\ Works
          \/ Gives(Eligible = {} \/ ok, "finish")

\* MarkGapAssetDeleted: the row of the WAV stays.
Deleted(row) == [row EXCEPT !.file = FALSE, !.asset = "deleted"]

\* RegisterGapAsset; the file goes when it fails.
RegisterGapAsset ==
    /\ At("register")
    /\ \/ /\ ~owner.cancelled
          /\ attempts' = [attempts EXCEPT ![owner.att].asset = "ready"] /\ Goto("claim") /\ Works
       \/ /\ IF owner.cancelled THEN Works ELSE Fails
          /\ attempts' = [attempts EXCEPT ![owner.att].file = FALSE] /\ Goto("finish")
    /\ UNCHANGED <<gaps, agg, text, Env>>

\* Mutant: two attempts may carry the same request id.
ClaimGapAttempt_NotUnique ==
    LET a == owner.att
        can == attempts[a].items \subseteq Eligible /\ Running = {} /\ ~owner.cancelled
    IN /\ At("claim") /\ can
       /\ SetGaps(attempts[a].items, "processing")
       /\ attempts' = [attempts EXCEPT ![a].state = "running", ![a].req = owner.req]
       /\ Goto("call") /\ UNCHANGED <<agg, text, Env>> /\ Works

\* Mutant: the attempt gets the state of its gaps.
ClaimGapAttempt_GapState ==
    /\ At("claim") /\ attempts[owner.att].items \subseteq Eligible
    /\ SetGaps(attempts[owner.att].items, "processing")
    /\ SetState(owner.att, "processing")
    /\ Goto("call") /\ UNCHANGED <<agg, text, Env>> /\ Works

\* ClaimGapAttempt: idx_gap_attempts_active_meeting allows one running attempt,
\* provider_request_id is unique.  The state of the meeting is not recomputed.
ClaimGapAttempt ==
    LET a == owner.att
        can == /\ attempts[a].items \subseteq Eligible /\ Running = {}
               /\ owner.req = NoRequest \/ \A b \in Attempts : attempts[b].req # owner.req
               /\ ~owner.cancelled
    IN /\ At("claim")
       /\ \/ /\ can
             /\ SetGaps(attempts[a].items, "processing")
             /\ attempts' = [attempts EXCEPT ![a].state = "running", ![a].req = owner.req]
             /\ Goto("call") /\ UNCHANGED <<agg, text, Env>> /\ Works
          \/ Gives(can, "unclaimed")

\* The claim failed: the file goes, its row only if the call was not stopped.
CleanupUnclaimed ==
    /\ At("unclaimed")
    /\ attempts' = [attempts EXCEPT ![owner.att].file = FALSE,
         ![owner.att].asset = IF owner.cancelled THEN @ ELSE "deleted"]
    /\ Goto("finish") /\ UNCHANGED <<gaps, agg, text, Env>> /\ Works

\* NormalizeToCore: what the transcriber heard, cut back to the core.
Candidates(core) == SUBSET core \ {{}}

\* Transcribe: an error, silence, or candidates.
Transcribe ==
    /\ At("call")
    /\ billed' = IF owner.req = NoRequest THEN billed ELSE [billed EXCEPT ![owner.req] = @ + 1]
    /\ \/ Goto("fail") /\ (IF owner.cancelled THEN Works ELSE Fails)
       \/ Goto("silence") /\ Works
       \/ \E S \in Candidates(attempts[owner.att].core) :
            owner' = [owner EXCEPT !.pc = "look", !.cand = S] /\ Works
    /\ UNCHANGED <<rows, windows, recovered>>

\* FailGapAttempt after the request: the owner goes on with the synchronisation.
FailGapAttempt ==
    LET a == owner.att
    IN /\ At("fail")
       /\ \/ /\ Held(a) /\ Settle(a, "failed", "failed")
             /\ Goto("cleanup_failed") /\ UNCHANGED <<text, Env>> /\ Works
          \/ Gives(Held(a), "finish")

\* cleanup
Cleanup(pc, next) ==
    /\ At(pc)
    /\ \/ /\ attempts' = [attempts EXCEPT ![owner.att] = Deleted(@)]
          /\ Works
       \/ UNCHANGED attempts /\ Fails
    /\ Goto(next) /\ UNCHANGED <<gaps, agg, text, Env>>
CleanupFailed == Cleanup("cleanup_failed", "sync")

-----------------------------------------------------------------------------
\* CompensationCommitter.Commit

CommitNoSpeech ==
    LET a == owner.att
        can == Held(a) /\ ~owner.cancelled
    IN /\ At("silence")
       /\ \/ /\ can /\ Settle(a, "completed", "completed")
             /\ Goto("flush") /\ UNCHANGED <<text, Env>> /\ Works
          \/ Gives(can, "uncommitted")

\* hasCurrentOverlap
HasOverlap(cand) == \E u \in cand : text[u] > 0
\* createCompensatedUtterances
CreateUtterances(cand) == text' = [u \in Units |-> text[u] + (IF u \in cand THEN 1 ELSE 0)]

\* ListOverlaps, outside the transaction.
ListOverlaps ==
    /\ At("look")
    /\ \/ ~owner.cancelled /\ Works
          /\ Goto(IF HasOverlap(owner.cand) THEN "conflict" ELSE "store")
       \/ (IF owner.cancelled THEN Works ELSE Fails) /\ Goto("uncommitted")
    /\ UNCHANGED <<rows, Env>>

\* CommitCompensation looks again; an overlap it finds sends the call back to
\* look and to store a conflict instead.
CommitCompensation ==
    LET a == owner.att
        free == ~HasOverlap(owner.cand)
        can == Held(a) /\ free /\ ~owner.cancelled
    IN /\ At("store")
       /\ \/ /\ can /\ Settle(a, "completed", "completed")
             /\ CreateUtterances(owner.cand)
             /\ Goto("flush") /\ UNCHANGED Env /\ Works
          \/ Gives(can, IF Held(a) /\ ~free /\ ~owner.cancelled THEN "conflict" ELSE "uncommitted")

CommitGapConflict ==
    LET a == owner.att
        can == Held(a) /\ ~owner.cancelled
    IN /\ At("conflict")
       /\ \/ /\ can
             /\ SetGaps(attempts[a].items, "conflict")
             /\ attempts' = [attempts EXCEPT ![a].state = "conflict", ![a].cand = owner.cand]
             /\ agg' = Aggregate(gaps')
             /\ Goto("flush") /\ UNCHANGED <<text, Env>> /\ Works
          \/ Gives(can, "uncommitted")

\* The raw record is written again; when that fails the facts stay, but the
\* call returns an error and nothing more is done.
FlushRawRecord ==
    /\ At("flush")
    /\ \/ ~owner.cancelled /\ Goto("settled") /\ Works
       \/ (IF owner.cancelled THEN Works ELSE Fails) /\ Goto("settled_error")
    /\ UNCHANGED <<rows, Env>>

\* Mutant: the WAV goes whatever became of the attempt.
SettledSlice_Always ==
    /\ At("settled") \/ At("settled_error")
    /\ attempts' = [attempts EXCEPT ![owner.att] = Deleted(@)]
    /\ Goto("finish") /\ UNCHANGED <<gaps, agg, text, Env>> /\ Works

\* processSlice after Commit: the WAV goes unless it is evidence.
SettledSlice ==
    /\ At("settled") \/ At("settled_error")
    /\ \/ /\ attempts[owner.att].state # "conflict"
          /\ attempts' = [attempts EXCEPT ![owner.att] = Deleted(@)]
          /\ Works
       \/ /\ UNCHANGED attempts
          /\ IF attempts[owner.att].state # "conflict" THEN Fails ELSE Works
    /\ Goto(IF At("settled_error") THEN "finish"
            ELSE IF Eligible = {} THEN "sync" ELSE "again")
    /\ UNCHANGED <<gaps, agg, text, Env>>

\* The commit failed: an attempt that is still running is failed, whatever
\* comes of that; one settled by somebody else only loses its WAV.
Uncommitted ==
    LET a == owner.att
    IN /\ At("uncommitted")
       /\ \/ Held(a) /\ Settle(a, "failed", "failed") /\ Works
          \/ (IF Held(a) THEN Fails ELSE Works) /\ UNCHANGED <<gaps, agg, attempts>>
       /\ Goto("cleanup_error") /\ UNCHANGED <<text, Env>>
CleanupError == Cleanup("cleanup_error", "finish")

SyncFinal ==
    /\ At("sync") /\ Goto("finish")
    /\ UNCHANGED <<rows, Env>> /\ Works

FinishOwner ==
    /\ At("finish") /\ owner' = Idle
    /\ UNCHANGED <<rows, Env>> /\ Works

-----------------------------------------------------------------------------
\* ResolutionService.Resolve: the utterances there are and the candidates are
\* read before the transaction that uses them.

ConflictAttempt(g) == CHOOSE a \in Attempts : attempts[a].state = "conflict" /\ g \in attempts[a].items

ReadConflict(r, g) ==
    /\ windows[r] = Closed /\ gaps[g] = "conflict"
    /\ windows' = [windows EXCEPT ![r] = [pc |-> "read", gap |-> g, existing |->
         {u \in attempts[ConflictAttempt(g)].core : text[u] > 0}]]
    /\ UNCHANGED <<rows, owner, billed, recovered>> /\ Works

\* Mutant: every candidate is added, also where there is an utterance.
NonOverlapping_All(cand, existing) == cand
NonOverlapping(cand, existing) == cand \ existing

\* settleResolvedAttempt, and after the transaction cleanupResolvedAttempt, which
\* ignores what fails.
SettledResolution(row, now, cleaned) ==
    IF \E x \in row.items : now[x] # "completed" THEN row
    ELSE LET done == [row EXCEPT !.state = "completed"]
         IN IF cleaned THEN Deleted(done) ELSE done

ResolveGapConflict(r) ==
    LET g == windows[r].gap
        a == ConflictAttempt(g)
        added == NonOverlapping(attempts[a].cand, windows[r].existing)
    IN /\ windows[r].pc = "read"
       /\ \/ /\ gaps[g] = "conflict"
             /\ gaps' = [gaps EXCEPT ![g] = "completed"]
             /\ CreateUtterances(added)
             /\ \E cleaned \in BOOLEAN :
                  attempts' = [attempts EXCEPT ![a] = SettledResolution(@, gaps', cleaned)]
             /\ agg' = Aggregate(gaps') /\ Works
          \/ UNCHANGED rows /\ (IF gaps[g] = "conflict" THEN Fails ELSE Works)
       /\ windows' = [windows EXCEPT ![r] = Closed]
       /\ UNCHANGED <<owner, billed, recovered>>

-----------------------------------------------------------------------------
\* Mutant: the recovery forgets the gaps.
RecoverInterrupted_AttemptsOnly ==
    /\ ~recovered /\ recovered' = TRUE
    /\ attempts' = [a \in Attempts |-> IF a \in Running
         THEN [attempts[a] EXCEPT !.state = "failed"] ELSE attempts[a]]
    /\ UNCHANGED <<gaps, agg, text, owner, billed, windows>> /\ Works

\* recoverAttempt
RecoverAttempt(row) == [row EXCEPT !.state = "failed"]

\* RecoveryCoordinator: run once, after the windows are open.
RecoverInterrupted ==
    /\ ~recovered /\ recovered' = TRUE
    /\ LET left == UNION {attempts[a].items : a \in Running}
       IN /\ SetGaps(left, "failed")
          /\ attempts' = [a \in Attempts |-> IF a \in Running
               THEN RecoverAttempt(attempts[a]) ELSE attempts[a]]
          /\ agg' = IF Running = {} THEN agg ELSE Aggregate(gaps')
    /\ UNCHANGED <<text, owner, billed, windows>> /\ Works

Crash ==
    /\ crashes < MaxCrashes /\ crashes' = crashes + 1
    /\ owner' = Idle /\ recovered' = FALSE /\ windows' = [r \in Resolvers |-> Closed]
    /\ UNCHANGED <<rows, billed, faults>>

-----------------------------------------------------------------------------
OwnerStep ==
    \/ LookupRequest \/ Again \/ PlanSlice \/ RegisterGapAsset \/ ClaimGapAttempt
    \/ CleanupUnclaimed \/ Transcribe \/ FailGapAttempt \/ CleanupFailed
    \/ CommitNoSpeech \/ ListOverlaps \/ CommitCompensation \/ CommitGapConflict
    \/ FlushRawRecord \/ SettledSlice \/ Uncommitted \/ CleanupError
    \/ SyncFinal \/ FinishOwner

Next ==
    \/ OwnerStep \/ StopMeeting \/ RecoverInterrupted \/ Crash
    \/ Trigger(NoRequest, {})
    \/ \E r \in Requests, sel \in SUBSET Gaps : Trigger(r, sel)
    \/ \E r \in Resolvers : ResolveGapConflict(r) \/ \E g \in Gaps : ReadConflict(r, g)

Spec == Init /\ [][Next]_vars
FairSpec == Spec /\ WF_vars(OwnerStep) /\ WF_vars(RecoverInterrupted)

-----------------------------------------------------------------------------
\* A gap is being processed exactly while one running attempt holds it: a gap
\* without one could never be claimed again, and an attempt without its gaps
\* could not be settled.
ProcessingHeld ==
    /\ Cardinality(Running) <= 1
    /\ \A a \in Running : Held(a)
    /\ \A g \in Gaps : gaps[g] = "processing" => \E a \in Running : g \in attempts[a].items

\* The state of the meeting tells what its gaps are, except while a request
\* runs (the claim does not recompute it); a conflict is never hidden.
AggregateCurrent ==
    /\ Running = {} => agg = Aggregate(gaps)
    /\ agg = "conflict" <=> \E g \in Gaps : gaps[g] = "conflict"

\* A conflict can be listened to until the last gap of its attempt is resolved.
EvidenceKept == \A g \in Gaps : gaps[g] = "conflict" =>
    \E a \in Attempts : /\ attempts[a].state = "conflict" /\ g \in attempts[a].items
                        /\ attempts[a].file /\ attempts[a].asset = "ready"

\* The repair never puts a second utterance on a unit that has one.
TranscribedOnce == \A u \in Units : text[u] <= 1

\* A request id is paid for once, also when the host sends it again.
BilledOnce == \A r \in Requests : billed[r] <= 1

\* The row and the file the owner works on are where it is; nobody but the recovery
\* changes them until the request is settled.
OwnerFits ==
    LET row == attempts[owner.att] IN
    /\ owner.pc \in Preparing \cup Sent \cup Ending => owner.att \in Attempts
    /\ owner.pc \in Preparing \cup {"unclaimed"} => row.state = "none"
    /\ owner.pc \in Sent \cup {"uncommitted", "cleanup_error", "cleanup_failed"} => row.state \in {"running", "failed"}
    /\ owner.pc \in Preparing => row.req = NoRequest
    /\ owner.pc \in Preparing \cup Sent => row.file
    /\ owner.pc \in {"claim"} \cup Sent => row.asset = "ready"
\* A request id that was paid for has its attempt, and one that is to be sent was
\* not sent before.
RequestsFit ==
    /\ \A r \in Requests : billed[r] > 0 => \E a \in Attempts : attempts[a].req = r
    /\ owner.pc = "call" /\ owner.req # NoRequest =>
         billed[owner.req] = 0 /\ attempts[owner.att].req = owner.req

\* Gaps, attempts, the owner, the state of the meeting and the requests fit together.
RepairInv ==
    TypeOK /\ ProcessingHeld /\ AggregateCurrent /\ BilledOnce /\ OwnerFits /\ RequestsFit

\* A completed gap was sent to the transcriber as a whole.  (The code does not
\* keep this: one slice completes every gap of its merged range.)
CompletedIsCovered == \A g \in Gaps : gaps[g] = "completed" =>
    From[g]..(To[g] - 1) \subseteq
        UNION {attempts[a].core : a \in {b \in Attempts : attempts[b].state # "none"}}

\* A gap that is being processed is settled, by its owner or by the recovery of
\* the next start; the exception is a settlement that fails in the database.
GapSettles == \A g \in Gaps : gaps[g] = "processing" ~> (gaps[g] # "processing" \/ faults > 0)
=============================================================================
