-------------------------- MODULE AgentTurns_proofs --------------------------
(***************************************************************************)
(* Proofs about AgentTurns, for any meetings, calls and bounds: the rows   *)
(* of meetings, sessions and turns agree whatever the four callers, the    *)
(* provider, crashes and failures do, and a settled turn is settled.       *)
(*                                                                         *)
(* A step changes rows and calls.  The first lemmas say what a change of   *)
(* each may do without disturbing the invariant, the others, one for each  *)
(* action, that the action does no more.                                   *)
(***************************************************************************)
EXTENDS AgentTurns, WellFoundedInduction, TLAPS

-----------------------------------------------------------------------------
(* The rows NextRow and Latest choose exist.                               *)

LessOnNat == {ss \in Nat \X Nat : ss[1] < ss[2]}

LEMMA NatOrder == IsWellFoundedOn(LessOnNat, Nat)
  BY NatLessThanWellFounded, Zenon DEF OpToRel, LessOnNat

LEMMA HasMin ==
    ASSUME NEW S \in SUBSET Nat, S # {}
    PROVE  \E s \in S : \A r \in S : s <= r
<1>1. PICK s \in S : \A r \in S : ~ (<<r, s>> \in LessOnNat)
  BY NatOrder, WFMin, Zenon
<1>2. \A r, t \in S : r < t => <<r, t>> \in LessOnNat
  BY DEF LessOnNat
<1>3. \A r \in S : ~ (r < s)
  BY <1>1, <1>2
<1>4. \A r \in S : s <= r
  BY <1>3
<1> QED BY <1>4

LEMMA HasMax ==
    ASSUME NEW N \in Nat, NEW S \in SUBSET (1..N), S # {}
    PROVE  \E s \in S : \A r \in S : r <= s
<1> DEFINE T == {N - s : s \in S}
<1>1. T \in SUBSET Nat /\ T # {}
  <2>1. \A s \in S : N - s \in Nat
    OBVIOUS
  <2> QED BY <2>1
<1>2. \A r \in S : N - r \in T
  OBVIOUS
<1>3. \A t \in T : \E s \in S : t = N - s
  OBVIOUS
<1> HIDE DEF T
<1>4. PICK t \in T : \A r \in T : t <= r
  BY <1>1, HasMin
<1>5. PICK s \in S : t = N - s
  BY <1>3
<1>6. \A r \in S : N - s <= N - r
  BY <1>2, <1>4, <1>5
<1> QED BY <1>6

LEMMA NextRowIn ==
    ASSUME NEW N \in Nat, NEW S \in SUBSET (1..N), S # {}
    PROVE  NextRow(S) \in S
<1>1. \E s \in S : \A r \in S : s <= r
  BY HasMin, S \in SUBSET Nat
<1> QED BY <1>1, Zenon DEF NextRow

LEMMA LatestIn ==
    ASSUME NEW N \in Nat, NEW S \in SUBSET (1..N), S # {}
    PROVE  Latest(S) \in S
<1>1. \E s \in S : \A r \in S : r <= s
  BY HasMax
<1> QED BY <1>1, Zenon DEF Latest

-----------------------------------------------------------------------------
(* The two halves of the state.                                            *)

SessionRow == [m : Meetings, state : {"none", "starting", "available", "ended", "failed"}]
TurnRow == [m : Meetings, s : Sessions \cup {NoSession},
            kind : {"none", "initialize", "answer", "ingest", "minutes"},
            state : {"none"} \cup ActiveTurn \cup SettledTurn]
AgentStates == {"unchecked", "initializing", "available", "busy", "unavailable", "unsynced"}

RowsTyped ==
    /\ life \in [Meetings -> {"none", "recording", "finalizing", "ended"}]
    /\ agent \in [Meetings -> AgentStates]
    /\ minute \in [Meetings -> {"not_generated", "generating", "draft", "failed"}]
    /\ sessions \in [Sessions -> SessionRow]
    /\ turns \in [Turns -> TurnRow]

OwnersTyped ==
    /\ owner \in Sessions \cup {NoOwner, Reserved}
    /\ initJob \in Jobs \cup {NoJob} /\ retrying \in BOOLEAN
    /\ asking \in Jobs \cup {NoJob} /\ making \in Jobs \cup {NoJob}
ProviderTyped ==
    /\ attached \in Sessions \cup {NoSession}
    /\ active \in Turns \cup {NoTurn}
JobsTyped == jobs \in [Jobs -> JobRecord]
UpTyped == up \in {"up", "minutes", "agent"}

LEMMA Typed == TypeOK <=> RowsTyped /\ OwnersTyped /\ ProviderTyped /\ JobsTyped /\ UpTyped
  BY DEF TypeOK, RowsTyped, OwnersTyped, ProviderTyped, JobsTyped, UpTyped,
         SessionRow, TurnRow, AgentStates

LEMMA TypedNext ==
    TypeOK' <=> RowsTyped' /\ OwnersTyped' /\ ProviderTyped' /\ JobsTyped' /\ UpTyped'
  BY DEF TypeOK, RowsTyped, OwnersTyped, ProviderTyped, JobsTyped, UpTyped,
         SessionRow, TurnRow, AgentStates

(* What the invariant says of the rows, and its parts without the types.   *)
Rows == RowsTyped /\ BusyHasTurn /\ AvailableHasSession /\ RowsFit

(* Rows are never taken away, nor given to somebody else.                  *)
RowsGrow ==
    /\ \A s \in Sessions : sessions[s].state # "none" =>
          sessions'[s].state # "none" /\ sessions'[s].m = sessions[s].m
    /\ \A t \in Turns : turns[t].state # "none" =>
          /\ turns'[t].state # "none"
          /\ turns'[t].m = turns[t].m /\ turns'[t].kind = turns[t].kind

(* A call goes on with the session and the turn it had, or takes one that  *)
(* fits.                                                                   *)
Follows(i) ==
    /\ jobs'[i].pc \in OnSession => jobs'[i].s # NoSession
    /\ jobs'[i].pc \in OnTurn => jobs'[i].t # NoTurn
    /\ jobs'[i].s # NoSession =>
          \/ jobs'[i].s = jobs[i].s /\ jobs'[i].m = jobs[i].m
          \/ sessions'[jobs'[i].s].state # "none" /\ sessions'[jobs'[i].s].m = jobs'[i].m
    /\ jobs'[i].t # NoTurn =>
          \/ jobs'[i].t = jobs[i].t /\ jobs'[i].m = jobs[i].m /\ jobs'[i].kind = jobs[i].kind
          \/ /\ jobs'[i].kind # "none" /\ turns'[jobs'[i].t].kind = OfKind[jobs'[i].kind]
             /\ turns'[jobs'[i].t].m = jobs'[i].m /\ turns'[jobs'[i].t].state # "none"
JobsFollow == JobsTyped' /\ \A i \in Jobs : Follows(i)

(* What a step may not do to a settled turn.                               *)
SettledStep == \A t \in Turns : turns[t].state \in SettledTurn =>
    \/ turns'[t] = turns[t]
    \/ turns[t].kind = "ingest" /\ turns[t].state # "completed" /\ turns'[t].state = "pending"

RowsStep == Rows' /\ RowsGrow /\ SettledStep

LEMMA JobsStayFit ==
    ASSUME AgentInv, RowsGrow, JobsFollow
    PROVE  JobsFit'
<1>1. \A i \in Jobs : jobs[i].s \in Sessions \cup {NoSession} /\ jobs[i].t \in Turns \cup {NoTurn}
  BY Typed DEF AgentInv, JobsTyped, JobRecord
<1>2. ASSUME NEW i \in Jobs
      PROVE  /\ jobs'[i].pc \in OnSession => jobs'[i].s # NoSession
             /\ jobs'[i].pc \in OnTurn => jobs'[i].t # NoTurn
  BY DEF JobsFollow, Follows
<1>3. ASSUME NEW i \in Jobs, jobs'[i].s # NoSession
      PROVE  sessions'[jobs'[i].s].state # "none" /\ sessions'[jobs'[i].s].m = jobs'[i].m
  <2>1. CASE jobs'[i].s = jobs[i].s /\ jobs'[i].m = jobs[i].m
    BY <1>1, <1>3, <2>1 DEF AgentInv, JobsFit, OfSession, RowsGrow
  <2> QED BY <1>3, <2>1 DEF JobsFollow, Follows
<1>4. ASSUME NEW i \in Jobs, jobs'[i].t # NoTurn
      PROVE  /\ jobs'[i].kind # "none" /\ turns'[jobs'[i].t].kind = OfKind[jobs'[i].kind]
             /\ turns'[jobs'[i].t].m = jobs'[i].m /\ turns'[jobs'[i].t].state # "none"
  <2>1. CASE jobs'[i].t = jobs[i].t /\ jobs'[i].m = jobs[i].m /\ jobs'[i].kind = jobs[i].kind
    BY <1>1, <1>4, <2>1 DEF AgentInv, JobsFit, OfTurn, RowsGrow
  <2> QED BY <1>4, <2>1 DEF JobsFollow, Follows
<1> QED BY <1>2, <1>3, <1>4 DEF JobsFit, OfSession, OfTurn

(* A step that does right by rows and calls keeps the invariant.           *)
LEMMA StepKeeps ==
    ASSUME AgentInv, RowsStep, JobsFollow, OwnersTyped', ProviderTyped', UpTyped'
    PROVE  AgentInv' /\ SettledStep
  BY JobsStayFit, TypedNext DEF AgentInv, RowsStep, Rows, JobsFollow

(* A step that writes no row.                                              *)
LEMMA RowsSame ==
    ASSUME AgentInv, UNCHANGED db
    PROVE  RowsStep
<1>1. Rows' /\ RowsGrow
  BY Typed DEF AgentInv, db, Rows, RowsTyped, BusyHasTurn, AvailableHasSession, RowsFit, RowsGrow,
            ActiveTurns, ActiveSessions
<1>2. SettledStep
  BY DEF db, SettledStep
<1> QED BY <1>1, <1>2 DEF RowsStep

-----------------------------------------------------------------------------
(* The ways a call goes on.                                                *)

LEMMA IdleIsTyped == Idle \in JobRecord
<1>1. (CHOOSE m \in Meetings : TRUE) \in Meetings
  BY BoundsAssumption
<1>2. \A n \in Meetings :
        [kind |-> "none", m |-> n, pc |-> "idle", s |-> NoSession, t |-> NoTurn, stop |-> "no",
         ev |-> "none", cur |-> NoSession, on |-> NoJob] \in JobRecord
  <2>1. NoSession \in Sessions \cup {NoOwner, Reserved}
    BY DEF NoSession, NoOwner
  <2>2. "idle" \in Places
    BY DEF Places, Elsewhere
  <2> QED BY <2>1, <2>2, Zenon DEF JobRecord
<1> QED BY <1>1, <1>2, Zenon DEF Idle

LEMMA JobIsTyped ==
    ASSUME AgentInv, NEW i \in Jobs
    PROVE  jobs[i] \in JobRecord
  BY Typed DEF AgentInv, JobsTyped

LEMMA OneFollows ==
    ASSUME AgentInv, NEW j \in Jobs, NEW r \in JobRecord, jobs' = [jobs EXCEPT ![j] = r],
           r.pc \in OnSession => r.s # NoSession,
           r.pc \in OnTurn => r.t # NoTurn,
           r.s # NoSession =>
              \/ r.s = jobs[j].s /\ r.m = jobs[j].m
              \/ sessions'[r.s].state # "none" /\ sessions'[r.s].m = r.m,
           r.t # NoTurn =>
              \/ r.t = jobs[j].t /\ r.m = jobs[j].m /\ r.kind = jobs[j].kind
              \/ /\ r.kind # "none" /\ turns'[r.t].kind = OfKind[r.kind]
                 /\ turns'[r.t].m = r.m /\ turns'[r.t].state # "none"
    PROVE  JobsFollow
<1>1. jobs \in [Jobs -> JobRecord]
  BY Typed DEF AgentInv, JobsTyped
<1>2. jobs' \in [Jobs -> JobRecord] /\ jobs'[j] = r /\ \A i \in Jobs \ {j} : jobs'[i] = jobs[i]
  BY <1>1
<1>3. Follows(j)
  BY <1>2 DEF Follows
<1>4. ASSUME NEW i \in Jobs \ {j} PROVE Follows(i)
  BY <1>2 DEF Follows, AgentInv, JobsFit
<1> QED BY <1>2, <1>3, <1>4 DEF JobsFollow, JobsTyped

LEMMA GotoFollows ==
    ASSUME AgentInv, NEW j \in Jobs, NEW pc \in Places, Goto(j, pc),
           pc \in OnSession => jobs[j].s # NoSession,
           pc \in OnTurn => jobs[j].t # NoTurn
    PROVE  JobsFollow
<1> DEFINE r == [jobs[j] EXCEPT !.pc = pc]
<1>1. jobs[j] \in JobRecord
  BY JobIsTyped
<1>2. /\ r \in JobRecord /\ r.pc = pc /\ r.s = jobs[j].s /\ r.t = jobs[j].t
      /\ r.m = jobs[j].m /\ r.kind = jobs[j].kind
  BY <1>1 DEF JobRecord
<1>3. jobs' = [jobs EXCEPT ![j] = r]
  BY DEF Goto
<1> HIDE DEF r
<1> QED BY <1>2, <1>3, OneFollows

LEMMA EndFollows ==
    ASSUME AgentInv, NEW j \in Jobs, End(j)
    PROVE  JobsFollow
<1>1. Idle.pc = "idle" /\ Idle.s = NoSession /\ Idle.t = NoTurn
  BY DEF Idle
<1> QED BY <1>1, IdleIsTyped, OneFollows DEF End, OnSession, OnTurn

LEMMA PastFollows ==
    ASSUME AgentInv, NEW j \in Jobs, NEW pc \in Places, Past(j, pc),
           pc \notin OnSession \cup OnTurn
    PROVE  JobsFollow
<1> DEFINE r == [Idle EXCEPT !.kind = jobs[j].kind, !.m = jobs[j].m, !.pc = pc]
<1>1. jobs[j] \in JobRecord
  BY JobIsTyped
<1>2. r \in JobRecord /\ r.pc = pc /\ r.s = NoSession /\ r.t = NoTurn
  BY <1>1, IdleIsTyped DEF JobRecord, Idle
<1>3. jobs' = [jobs EXCEPT ![j] = r]
  BY DEF Past
<1> HIDE DEF r
<1> QED BY <1>2, <1>3, OneFollows

(* What jobs remember beside the meeting, the rows and the place.          *)
Same(r, q) == r.pc = q.pc /\ r.s = q.s /\ r.t = q.t /\ r.m = q.m /\ r.kind = q.kind

LEMMA AllFollow ==
    ASSUME AgentInv, JobsTyped', \A i \in Jobs : Same(jobs'[i], jobs[i])
    PROVE  JobsFollow
  BY DEF Same, JobsFollow, Follows, AgentInv, JobsFit

LEMMA StopFollows ==
    ASSUME AgentInv, NEW i \in Jobs, NEW w \in {"cancel", "deadline"},
           jobs' = [jobs EXCEPT ![i].stop = w]
    PROVE  JobsFollow
<1>1. jobs \in [Jobs -> JobRecord]
  BY Typed DEF AgentInv, JobsTyped
<1>2. jobs' \in [Jobs -> JobRecord] /\ \A k \in Jobs : Same(jobs'[k], jobs[k])
  BY <1>1 DEF JobRecord, Same
<1> QED BY <1>2, AllFollow DEF JobsTyped

LEMMA DeliverTyped ==
    ASSUME NEW t, NEW ev \in {"done", "failed", "cancelled", "lost"}, NEW js \in [Jobs -> JobRecord]
    PROVE  /\ Deliver(t, ev, js) \in [Jobs -> JobRecord]
           /\ \A i \in Jobs : Same(Deliver(t, ev, js)[i], js[i])
<1>1. ASSUME NEW i \in Jobs
      PROVE  [js[i] EXCEPT !.ev = ev] \in JobRecord /\ Same([js[i] EXCEPT !.ev = ev], js[i])
    BY DEF JobRecord, Same
<1> QED BY <1>1 DEF Deliver, Same

LEMMA CloseFollows ==
    ASSUME AgentInv, NEW j \in Jobs, NEW s, NEW pc \in Places, CloseSession(j, s, pc),
           pc \in OnSession => jobs[j].s # NoSession,
           pc \in OnTurn => jobs[j].t # NoTurn
    PROVE  JobsFollow /\ ProviderTyped' /\ UNCHANGED <<db, proc>>
<1> DEFINE js == [jobs EXCEPT ![j].pc = pc]
<1>1. jobs \in [Jobs -> JobRecord] /\ ProviderTyped
  BY Typed DEF AgentInv, JobsTyped
<1>2. js \in [Jobs -> JobRecord] /\ js[j].pc = pc /\ js[j].s = jobs[j].s /\ js[j].t = jobs[j].t
      /\ js[j].m = jobs[j].m /\ js[j].kind = jobs[j].kind /\ \A i \in Jobs \ {j} : js[i] = jobs[i]
  BY <1>1 DEF JobRecord
<1>3. /\ ProviderTyped' /\ UNCHANGED <<db, proc>>
      /\ jobs' = js \/ \E ev \in {"cancelled", "failed", "lost"} : jobs' = Deliver(active, ev, js)
  BY <1>1 DEF CloseSession, ProviderTyped, prov, NoSession, NoTurn
<1> HIDE DEF js
<1>4. jobs' \in [Jobs -> JobRecord] /\ \A i \in Jobs : Same(jobs'[i], js[i])
  <2>1. CASE jobs' = js
    BY <1>2, <2>1 DEF Same
  <2>2. ASSUME NEW ev \in {"cancelled", "failed", "lost"}, jobs' = Deliver(active, ev, js)
        PROVE  jobs' \in [Jobs -> JobRecord] /\ \A i \in Jobs : Same(jobs'[i], js[i])
    BY <1>2, <2>2, DeliverTyped
  <2> QED BY <1>3, <2>1, <2>2
<1>5. Follows(j)
  BY <1>2, <1>4 DEF Same, Follows
<1>6. ASSUME NEW i \in Jobs \ {j} PROVE Follows(i)
  BY <1>2, <1>4 DEF Same, Follows, AgentInv, JobsFit
<1> QED BY <1>3, <1>4, <1>5, <1>6 DEF JobsFollow, JobsTyped

-----------------------------------------------------------------------------
(* Steps that write no row.                                                *)

LEMMA QuietKeeps ==
    ASSUME AgentInv, UNCHANGED db, JobsFollow, OwnersTyped', ProviderTyped', UpTyped'
    PROVE  AgentInv' /\ SettledStep
  BY RowsSame, StepKeeps

LEMMA OwnersStay ==
    ASSUME AgentInv, UNCHANGED proc
    PROVE  OwnersTyped'
  BY Typed DEF AgentInv, proc, OwnersTyped

LEMMA ProviderStays ==
    ASSUME AgentInv, UNCHANGED prov
    PROVE  ProviderTyped'
  BY Typed DEF AgentInv, prov, ProviderTyped

LEMMA UpStays ==
    ASSUME AgentInv, UNCHANGED up
    PROVE  UpTyped'
  BY Typed DEF AgentInv, UpTyped

LEMMA Here ==
    ASSUME AgentInv, NEW j \in Jobs
    PROVE  /\ jobs[j].pc \in OnSession => jobs[j].s # NoSession
           /\ jobs[j].pc \in OnTurn => jobs[j].t # NoTurn
           /\ jobs[j].s \in Sessions \cup {NoSession} /\ jobs[j].t \in Turns \cup {NoTurn}
           /\ jobs[j].m \in Meetings
           /\ jobs[j].s # NoSession => OfSession(j).state # "none" /\ OfSession(j).m = jobs[j].m
           /\ jobs[j].t # NoTurn =>
                 /\ jobs[j].kind # "none" /\ OfTurn(j).kind = OfKind[jobs[j].kind]
                 /\ OfTurn(j).m = jobs[j].m /\ OfTurn(j).state # "none"
  BY JobIsTyped DEF AgentInv, JobsFit, JobRecord

LEMMA GotoKeeps ==
    ASSUME AgentInv, NEW j \in Jobs, NEW pc \in Places, Goto(j, pc),
           pc \in OnSession => jobs[j].s # NoSession,
           pc \in OnTurn => jobs[j].t # NoTurn,
           UNCHANGED db, OwnersTyped', ProviderTyped', UNCHANGED up
    PROVE  AgentInv' /\ SettledStep
  BY GotoFollows, QuietKeeps, UpStays

(* A call goes on and nothing else happens: what it asked for is refused.  *)
Stays(j, pc) == Goto(j, pc) /\ UNCHANGED <<db, proc, prov, up>>

LEMMA StaysKeeps ==
    ASSUME AgentInv, NEW j \in Jobs, NEW pc \in Places, Stays(j, pc),
           pc \in OnSession => jobs[j].s # NoSession,
           pc \in OnTurn => jobs[j].t # NoTurn
    PROVE  AgentInv' /\ SettledStep
  BY OwnersStay, ProviderStays, GotoKeeps DEF Stays

LEMMA ShutdownInitKeeps ==
    ASSUME AgentInv, NEW j \in Jobs, ShutdownInit(j)
    PROVE  AgentInv' /\ SettledStep
<1>1. UNCHANGED <<db, proc, prov, up>>
  BY DEF ShutdownInit, Works, Rest
<1>2. jobs \in [Jobs -> JobRecord] /\ initJob \in Jobs \cup {NoJob}
  BY Typed DEF AgentInv, JobsTyped, OwnersTyped
<1>3. CASE initJob = NoJob
  <2>1. Goto(j, "take")
    BY <1>3 DEF ShutdownInit, Goto
  <2> QED BY <1>1, <2>1, GotoKeeps, OwnersStay, ProviderStays
          DEF Places, Elsewhere, OnSession, OnTurn
<1>4. CASE initJob # NoJob
  <2>1. jobs' = [jobs EXCEPT ![initJob].stop = "cancel", ![j].pc = "drain", ![j].on = initJob]
    BY <1>4 DEF ShutdownInit
  <2>2. jobs' \in [Jobs -> JobRecord]
    <3> DEFINE js == [jobs EXCEPT ![initJob].stop = "cancel"]
    <3>1. js \in [Jobs -> JobRecord]
      BY <1>2, <1>4 DEF JobRecord
    <3>2. jobs' = [js EXCEPT ![j] = [[js[j] EXCEPT !.pc = "drain"] EXCEPT !.on = initJob]]
      BY <1>2, <1>4, <2>1
    <3>3. "drain" \in Places
      BY DEF Places, Elsewhere
    <3> HIDE DEF js
    <3>4. [[js[j] EXCEPT !.pc = "drain"] EXCEPT !.on = initJob] \in JobRecord
      BY <1>2, <3>1, <3>3 DEF JobRecord
    <3> QED BY <3>1, <3>2, <3>4
  <2>3. \A i \in Jobs : /\ jobs'[i].s = jobs[i].s /\ jobs'[i].t = jobs[i].t
                        /\ jobs'[i].m = jobs[i].m /\ jobs'[i].kind = jobs[i].kind
                        /\ jobs'[i].pc \in {jobs[i].pc, "drain"}
    BY <1>2, <1>4, <2>1 DEF JobRecord
  <2>4. \A i \in Jobs : Follows(i)
    BY <2>3 DEF Follows, OnSession, OnTurn, AgentInv, JobsFit
  <2> QED BY <1>1, <2>2, <2>4, QuietKeeps, OwnersStay, ProviderStays, UpStays
          DEF JobsFollow, JobsTyped
<1> QED BY <1>3, <1>4

LEMMA ShutdownStepsKeep ==
    ASSUME AgentInv, NEW j \in Jobs, ShutdownDrained(j) \/ ShutdownExpired(j)
    PROVE  AgentInv' /\ SettledStep
<1>1. UNCHANGED <<db, proc, prov, up>> /\ \E pc \in {"take", "end"} : Goto(j, pc)
  BY DEF ShutdownDrained, ShutdownExpired, Works, Rest
<1> QED BY <1>1, GotoKeeps, OwnersStay, ProviderStays DEF Places, Elsewhere, OnSession, OnTurn

LEMMA TakeOwnerKeeps ==
    ASSUME AgentInv, NEW j \in Jobs, TakeOwner(j)
    PROVE  AgentInv' /\ SettledStep
<1>1. OwnersTyped /\ jobs[j] \in JobRecord
  BY Typed, JobIsTyped DEF AgentInv
<1>2. PICK pc \in {"shut_close", "reserve", "end"} :
         jobs' = [jobs EXCEPT ![j].cur = owner, ![j].pc = pc]
  BY DEF TakeOwner, AfterShutdown
<1> DEFINE r == [[jobs[j] EXCEPT !.cur = owner] EXCEPT !.pc = pc]
<1>3. jobs' = [jobs EXCEPT ![j] = r]
  BY <1>2
<1>4. pc \in Places
  BY DEF Places, Elsewhere
<1>5. /\ r \in JobRecord /\ r.pc = pc /\ r.s = jobs[j].s /\ r.t = jobs[j].t
      /\ r.m = jobs[j].m /\ r.kind = jobs[j].kind
  BY <1>1, <1>4 DEF JobRecord, OwnersTyped
<1> HIDE DEF r
<1>6. JobsFollow
  BY <1>3, <1>5, OneFollows DEF OnSession, OnTurn
<1>7. OwnersTyped' /\ UNCHANGED <<db, prov, up>>
  BY <1>1 DEF TakeOwner, OwnersTyped, Works, Rest
<1> QED BY <1>6, <1>7, QuietKeeps, ProviderStays, UpStays

LEMMA ClosesKeep ==
    ASSUME AgentInv, NEW j \in Jobs, CloseOwned(j) \/ CloseFailed(j) \/ CloseResumed(j)
    PROVE  AgentInv' /\ SettledStep
<1>1. UNCHANGED up
  BY DEF CloseOwned, CloseFailed, CloseResumed, Works, Rest
<1>2. \E s \in {jobs[j].cur, jobs[j].s}, pc \in {"shut_end", "failrow", "release"} :
         CloseSession(j, s, pc) /\ (pc = "failrow" => jobs[j].pc = "close")
  BY Zenon DEF CloseOwned, CloseFailed, CloseResumed, At
<1>3. PICK s \in {jobs[j].cur, jobs[j].s}, pc \in {"shut_end", "failrow", "release"} :
         CloseSession(j, s, pc) /\ (pc = "failrow" => jobs[j].pc = "close")
  BY <1>2
<1>4. JobsFollow /\ ProviderTyped' /\ UNCHANGED <<db, proc>>
  <2>1. pc \in Places /\ (pc \in OnSession => jobs[j].s # NoSession) /\ pc \notin OnTurn
    BY <1>3, Here DEF Places, Elsewhere, OnSession, OnTurn
  <2> QED BY <1>3, <2>1, CloseFollows
<1> QED BY <1>1, <1>4, QuietKeeps, OwnersStay, UpStays

LEMMA JobEndsKeeps ==
    ASSUME AgentInv, NEW j \in Jobs, JobEnds(j)
    PROVE  AgentInv' /\ SettledStep
<1>1. UNCHANGED <<db, prov, up>> /\ End(j)
  BY DEF JobEnds, Works, Rest
<1>2. OwnersTyped'
  <2>1. OwnersTyped
    BY Typed DEF AgentInv
  <2> QED BY <2>1 DEF JobEnds, OwnersTyped
<1> QED BY <1>1, <1>2, EndFollows, QuietKeeps, ProviderStays, UpStays

(* A call begins.                                                          *)
LEMMA StartFollows ==
    ASSUME AgentInv, NEW j \in Jobs, NEW m \in Meetings, NEW kind \in {"init", "retry", "ask", "sync", "minutes"},
           NEW pc \in Places, NEW s \in Sessions \cup {NoSession},
           jobs' = [jobs EXCEPT ![j] = [Idle EXCEPT !.kind = kind, !.m = m, !.pc = pc, !.s = s]],
           pc \notin OnTurn, pc \in OnSession => s # NoSession,
           s # NoSession => sessions'[s].state # "none" /\ sessions'[s].m = m
    PROVE  JobsFollow
<1> DEFINE r == [Idle EXCEPT !.kind = kind, !.m = m, !.pc = pc, !.s = s]
<1>1. /\ r \in JobRecord /\ r.pc = pc /\ r.s = s /\ r.t = NoTurn
      /\ r.m = m /\ r.kind = kind
  BY IdleIsTyped DEF JobRecord, Idle
<1>2. jobs' = [jobs EXCEPT ![j] = r]
  OBVIOUS
<1> HIDE DEF r
<1> QED BY <1>1, <1>2, OneFollows

LEMMA CallFollows ==
    ASSUME AgentInv, NEW j \in Jobs, NEW m \in Meetings, NEW kind \in {"retry", "sync", "minutes"},
           NEW pc \in {"shut", "look"}, Call(j, kind, m, pc)
    PROVE  JobsFollow /\ UNCHANGED <<db, prov, up>>
<1>1. jobs' = [jobs EXCEPT ![j] = [Idle EXCEPT !.kind = kind, !.m = m, !.pc = pc]]
      /\ UNCHANGED <<db, prov, up>>
  BY DEF Call
<1>2. [Idle EXCEPT !.kind = kind, !.m = m, !.pc = pc]
        = [Idle EXCEPT !.kind = kind, !.m = m, !.pc = pc, !.s = NoSession]
  <2>1. [Idle EXCEPT !.s = NoSession] = Idle
    BY DEF Idle
  <2>2. Idle \in JobRecord
    BY IdleIsTyped
  <2> QED BY <2>1, <2>2 DEF JobRecord
<1>3. pc \in Places /\ pc \notin OnSession /\ pc \notin OnTurn
  BY DEF Places, Elsewhere, OnSession, OnTurn
<1>4. jobs' = [jobs EXCEPT ![j] =
        [Idle EXCEPT !.kind = kind, !.m = m, !.pc = pc, !.s = NoSession]]
  BY <1>1, <1>2, Zenon
<1>5. NoSession \in Sessions \cup {NoSession}
      /\ kind \in {"init", "retry", "ask", "sync", "minutes"}
  OBVIOUS
<1>6. JobsFollow
  BY <1>3, <1>4, <1>5, StartFollows
<1> QED BY <1>1, <1>6

LEMMA CallsKeep ==
    ASSUME AgentInv, NEW j \in Jobs, NEW m \in Meetings, CallRetry(j, m) \/ CallPostMeeting(j, m)
    PROVE  AgentInv' /\ SettledStep
<1>1. OwnersTyped
  BY Typed DEF AgentInv
<1>2. OwnersTyped'
  BY <1>1 DEF CallRetry, CallPostMeeting, OwnersTyped, proc
<1>3. \E kind \in {"retry", "sync", "minutes"} : \E pc \in {"shut", "look"} : Call(j, kind, m, pc)
  BY DEF CallRetry, CallPostMeeting
<1>4. JobsFollow /\ UNCHANGED <<db, prov, up>>
  BY <1>3, CallFollows
<1> QED BY <1>2, <1>4, QuietKeeps, ProviderStays, UpStays

LEMMA MeetingSessionsIn ==
    ASSUME NEW m \in Meetings, AgentInv
    PROVE  /\ MeetingSessions(m) \in SUBSET (1..MaxSessions) /\ ActiveSessions(m) \subseteq MeetingSessions(m)
           /\ MaxSessions \in Nat
           /\ \A s \in MeetingSessions(m) : s # NoSession /\ sessions[s].m = m /\ sessions[s].state # "none"
  BY BoundsAssumption DEF MeetingSessions, ActiveSessions, ActiveSession, Sessions, NoSession

LEMMA LatestSession ==
    ASSUME AgentInv, NEW m \in Meetings, NEW S \in SUBSET MeetingSessions(m), S # {}
    PROVE  /\ Latest(S) \in S /\ Latest(S) \in Sessions /\ Latest(S) # NoSession
           /\ sessions[Latest(S)].m = m /\ sessions[Latest(S)].state # "none"
<1>1. S \in SUBSET (1..MaxSessions) /\ MaxSessions \in Nat
  BY MeetingSessionsIn
<1>2. Latest(S) \in S
  BY <1>1, LatestIn
<1> QED BY <1>1, <1>2, MeetingSessionsIn DEF Sessions

LEMMA AskKeeps ==
    ASSUME AgentInv, NEW j \in Jobs, NEW m \in Meetings, Ask(j, m)
    PROVE  AgentInv' /\ SettledStep
<1> DEFINE s == Latest(ActiveSessions(m))
<1>1. s \in Sessions /\ s # NoSession /\ sessions[s].m = m /\ sessions[s].state # "none"
  BY MeetingSessionsIn, LatestSession DEF Ask
<1>2. UNCHANGED <<db, proc, prov, up>>
      /\ jobs' = [jobs EXCEPT ![j] = [Idle EXCEPT !.kind = "ask", !.m = m, !.pc = "create", !.s = s]]
  BY DEF Ask
<1>3. "create" \in Places /\ "create" \notin OnTurn
  BY DEF Places, OnSession, OnTurn
<1>4. sessions' = sessions
  BY <1>2 DEF db
<1> HIDE DEF s
<1>5. JobsFollow
  BY <1>1, <1>2, <1>3, <1>4, StartFollows
<1> QED BY <1>2, <1>5, QuietKeeps, OwnersStay, ProviderStays, UpStays

LEMMA ReserveKeeps ==
    ASSUME AgentInv, NEW j \in Jobs, Reserve(j)
    PROVE  AgentInv' /\ SettledStep
<1>1. UNCHANGED <<db, prov, up, retrying, asking, making>>
  BY DEF Reserve, Works, Rest
<1>2. OwnersTyped'
  <2>1. OwnersTyped
    BY Typed DEF AgentInv
  <2> QED BY <2>1 DEF Reserve, OwnersTyped
<1>3. JobsFollow
  <2>1. CASE End(j)
    BY <2>1, EndFollows
  <2>2. CASE \E pc \in {"end", "unready", "begin", "newrow"} : Goto(j, pc)
    <3>1. PICK pc \in {"end", "unready", "begin", "newrow"} : Goto(j, pc)
      BY <2>2
    <3>2. pc \in Places /\ pc \notin OnSession /\ pc \notin OnTurn
      BY DEF Places, Elsewhere, OnSession, OnTurn
    <3> QED BY <3>1, <3>2, GotoFollows
  <2>3. ASSUME MeetingSessions(jobs[j].m) # {}, NEW pc \in {"resume", "newrow"},
               jobs' = [jobs EXCEPT ![j].pc = pc, ![j].s = Latest(MeetingSessions(jobs[j].m))]
        PROVE  JobsFollow
    <3> DEFINE s == Latest(MeetingSessions(jobs[j].m))
    <3>1. jobs[j] \in JobRecord /\ jobs[j].m \in Meetings
      BY JobIsTyped, Here
    <3>2. s \in Sessions /\ s # NoSession /\ sessions[s].m = jobs[j].m /\ sessions[s].state # "none"
      BY <2>3, <3>1, LatestSession
    <3>3. jobs' = [jobs EXCEPT ![j] = [[jobs[j] EXCEPT !.pc = pc] EXCEPT !.s = s]]
      BY <2>3
    <3>4. pc \in Places /\ pc \notin OnTurn
      BY DEF Places, Elsewhere, OnSession, OnTurn
    <3> HIDE DEF s
    <3> DEFINE r == [[jobs[j] EXCEPT !.pc = pc] EXCEPT !.s = s]
    <3>5. /\ r \in JobRecord /\ r.pc = pc /\ r.s = s /\ r.t = jobs[j].t
          /\ r.m = jobs[j].m /\ r.kind = jobs[j].kind
      BY <3>1, <3>2, <3>4 DEF JobRecord
    <3>6. sessions' = sessions
      BY <1>1 DEF db
    <3> HIDE DEF r
    <3> QED BY <3>2, <3>3, <3>4, <3>5, <3>6, OneFollows DEF r
  <2> QED BY <2>1, <2>2, <2>3 DEF Reserve
<1> QED BY <1>1, <1>2, <1>3, QuietKeeps, ProviderStays, UpStays

LEMMA OpenKeeps ==
    ASSUME AgentInv, NEW j \in Jobs, OpenProvider(j) \/ ResumeSession(j)
    PROVE  AgentInv' /\ SettledStep
<1>1. jobs[j] \in JobRecord /\ ProviderTyped /\ jobs[j].s # NoSession
  BY Typed, JobIsTyped, Here DEF AgentInv, OpenProvider, ResumeSession, At, OnSession
<1>2. CASE /\ attached' = jobs[j].s /\ UNCHANGED <<db, proc, active, up>>
           /\ \E pc \in {"thread", "reopen"} : Goto(j, pc)
  <2>1. PICK pc \in {"thread", "reopen"} : Goto(j, pc)
    BY <1>2
  <2>2. ProviderTyped'
    BY <1>1, <1>2 DEF ProviderTyped, JobRecord
  <2> QED BY <1>1, <1>2, <2>1, <2>2, GotoKeeps, OwnersStay DEF Places, OnSession, OnTurn
<1>3. CASE \E pc \in {"failrow", "release"} : Stays(j, pc)
  BY <1>1, <1>3, StaysKeeps DEF Places, Elsewhere, OnSession, OnTurn
<1> QED BY <1>2, <1>3 DEF OpenProvider, ResumeSession, Works, Fails, Rest, Refused, Stays

LEMMA SetSessionThreadKeeps ==
    ASSUME AgentInv, NEW j \in Jobs, SetSessionThread(j)
    PROVE  AgentInv' /\ SettledStep
<1>1. jobs[j].s # NoSession
  BY Here DEF SetSessionThread, At, OnSession
<1>2. \E pc \in {"turn", "activate", "close"} : Stays(j, pc)
  BY DEF SetSessionThread, Works, Fails, Rest, Refused, Stays
<1> QED BY <1>1, <1>2, StaysKeeps DEF Places, OnSession, OnTurn

LEMMA OwnerStepsKeep ==
    ASSUME AgentInv, NEW j \in Jobs, Publish(j) \/ ReleaseOwner(j)
    PROVE  AgentInv' /\ SettledStep
<1>1. jobs[j] \in JobRecord /\ OwnersTyped /\ (jobs[j].pc = "publish" => jobs[j].s # NoSession)
  BY Typed, JobIsTyped, Here DEF AgentInv, OnSession
<1>2. /\ UNCHANGED <<db, prov, up>> /\ owner' \in {jobs[j].s, NoOwner}
      /\ UNCHANGED <<initJob, retrying, asking, making>>
  BY DEF Publish, ReleaseOwner, Works, Rest
<1>3. OwnersTyped'
  BY <1>1, <1>2 DEF OwnersTyped, JobRecord, NoOwner, NoSession
<1>4. \E pc \in {"ready", "failed"} : Goto(j, pc) /\ (pc = "ready" => jobs[j].s # NoSession)
  BY <1>1 DEF Publish, ReleaseOwner, At
<1> QED BY <1>2, <1>3, <1>4, GotoKeeps, ProviderStays DEF Places, Elsewhere, OnSession, OnTurn

LEMMA FinishInitializeOwnerKeeps ==
    ASSUME AgentInv, NEW j \in Jobs, FinishInitializeOwner(j)
    PROVE  AgentInv' /\ SettledStep
<1>1. UNCHANGED <<db, prov, up>>
  BY DEF FinishInitializeOwner, Works, Rest
<1>2. OwnersTyped'
  <2>1. OwnersTyped
    BY Typed DEF AgentInv
  <2> QED BY <2>1 DEF FinishInitializeOwner, OwnersTyped
<1>3. JobsFollow
  <2>1. CASE End(j)
    BY <2>1, EndFollows
  <2>2. CASE Goto(j, "end")
    BY <2>2, GotoFollows DEF Places, Elsewhere, OnSession, OnTurn
  <2>3. ASSUME NEW pc \in {"claim", "unready"}, pc = "claim" => jobs[j].pc = "ready",
               jobs' = [jobs EXCEPT ![j].pc = pc, ![j].cur = NoSession]
        PROVE  JobsFollow
    <3> DEFINE r == [[jobs[j] EXCEPT !.pc = pc] EXCEPT !.cur = NoSession]
    <3>1. jobs' = [jobs EXCEPT ![j] = r]
      BY <2>3
    <3>2. pc \in Places /\ pc \notin OnTurn /\ (pc \in OnSession => jobs[j].s # NoSession)
      BY <2>3, Here DEF Places, Elsewhere, OnSession, OnTurn
    <3>3. NoSession \in Sessions \cup {NoOwner, Reserved} /\ jobs[j] \in JobRecord
      BY JobIsTyped DEF NoSession, NoOwner
    <3>4. /\ r \in JobRecord /\ r.pc = pc /\ r.s = jobs[j].s /\ r.t = jobs[j].t
          /\ r.m = jobs[j].m /\ r.kind = jobs[j].kind
      BY <3>2, <3>3 DEF JobRecord
    <3> HIDE DEF r
    <3> QED BY <3>1, <3>2, <3>4, OneFollows
  <2>4. jobs[j].pc # "ready" => jobs[j].pc = "failed"
    BY DEF FinishInitializeOwner, At
  <2>5. CASE jobs' = [jobs EXCEPT ![j].pc = IF @ = "ready" THEN "claim" ELSE "unready",
                                  ![j].cur = NoSession]
    <3> DEFINE pc == IF jobs[j].pc = "ready" THEN "claim" ELSE "unready"
    <3>1. jobs' = [jobs EXCEPT ![j].pc = pc, ![j].cur = NoSession]
      BY <2>5
    <3>2. pc \in {"claim", "unready"} /\ (pc = "claim" => jobs[j].pc = "ready")
      OBVIOUS
    <3> HIDE DEF pc
    <3> QED BY <2>3, <3>1, <3>2
  <2> QED BY <2>1, <2>2, <2>5 DEF FinishInitializeOwner
<1> QED BY <1>1, <1>2, <1>3, QuietKeeps, ProviderStays, UpStays

LEMMA LooksKeep ==
    ASSUME AgentInv, NEW j \in Jobs, EnsureLook(j) \/ GenerationUnready(j)
    PROVE  AgentInv' /\ SettledStep
<1>1. \E pc \in {"reuse", "stale", "end"} : Stays(j, pc)
  BY DEF EnsureLook, GenerationUnready, Works, Rest, Stays
<1> QED BY <1>1, StaysKeeps DEF Places, Elsewhere, OnSession, OnTurn

LEMMA ReuseSessionKeeps ==
    ASSUME AgentInv, NEW j \in Jobs, ReuseSession(j)
    PROVE  AgentInv' /\ SettledStep
<1> DEFINE S == ActiveSessions(jobs[j].m)
           s == Latest(S)
<1>1. jobs[j] \in JobRecord /\ jobs[j].m \in Meetings
  BY JobIsTyped, Here
<1>2. CASE /\ S # {} /\ jobs' = [jobs EXCEPT ![j].pc = "claim", ![j].s = s]
           /\ UNCHANGED <<db, proc, prov, up>>
  <2>1. s \in Sessions /\ s # NoSession /\ sessions[s].m = jobs[j].m /\ sessions[s].state # "none"
    BY <1>1, <1>2, MeetingSessionsIn, LatestSession
  <2>2. sessions' = sessions
    BY <1>2 DEF db
  <2>3. "claim" \in Places /\ "claim" \notin OnTurn
    BY DEF Places, OnSession, OnTurn
  <2> HIDE DEF s
  <2> DEFINE r == [[jobs[j] EXCEPT !.pc = "claim"] EXCEPT !.s = s]
  <2>4. jobs' = [jobs EXCEPT ![j] = r]
    BY <1>2
  <2>5. /\ r \in JobRecord /\ r.pc = "claim" /\ r.s = s /\ r.t = jobs[j].t
        /\ r.m = jobs[j].m /\ r.kind = jobs[j].kind
    BY <1>1, <2>1, <2>3 DEF JobRecord
  <2> HIDE DEF r
  <2>6. JobsFollow
    BY <2>1, <2>2, <2>3, <2>4, <2>5, OneFollows
  <2> QED BY <1>2, <2>6, QuietKeeps, OwnersStay, ProviderStays, UpStays
<1>3. CASE Stays(j, "unready")
  BY <1>3, StaysKeeps DEF Places, Elsewhere, OnSession, OnTurn
<1> QED BY <1>2, <1>3 DEF ReuseSession, Works, Fails, Rest, Refused, Stays

LEMMA RunTurnKeeps ==
    ASSUME AgentInv, NEW j \in Jobs, RunTurn(j)
    PROVE  AgentInv' /\ SettledStep
<1>1. /\ jobs[j] \in JobRecord /\ ProviderTyped
      /\ jobs[j].s # NoSession /\ jobs[j].t # NoTurn /\ jobs[j].t \in Turns
  BY Typed, JobIsTyped, Here DEF AgentInv, RunTurn, At, OnSession, OnTurn
<1>2. CASE /\ active' = jobs[j].t /\ jobs' = [jobs EXCEPT ![j].pc = "started", ![j].ev = "none"]
           /\ UNCHANGED <<db, proc, attached, up>>
  <2> DEFINE r == [[jobs[j] EXCEPT !.pc = "started"] EXCEPT !.ev = "none"]
  <2>1. jobs' = [jobs EXCEPT ![j] = r]
    BY <1>2
  <2>2. "started" \in Places
    BY DEF Places, OnSession
  <2>3. /\ r \in JobRecord /\ r.s = jobs[j].s /\ r.t = jobs[j].t
        /\ r.m = jobs[j].m /\ r.kind = jobs[j].kind
    BY <1>1, <2>2 DEF JobRecord
  <2>4. ProviderTyped'
    BY <1>1, <1>2 DEF ProviderTyped
  <2> HIDE DEF r
  <2>5. JobsFollow
    BY <1>1, <2>1, <2>3, OneFollows
  <2> QED BY <1>2, <2>4, <2>5, QuietKeeps, OwnersStay, UpStays
<1>3. CASE \E pc \in {"close", "fail"} : Stays(j, pc)
  BY <1>1, <1>3, StaysKeeps DEF Places, OnSession, OnTurn
<1> QED BY <1>2, <1>3 DEF RunTurn, Works, Fails, Rest, Refused, Stays

LEMMA TurnSettlesKeeps ==
    ASSUME AgentInv, NEW j \in Jobs, TurnSettles(j)
    PROVE  AgentInv' /\ SettledStep
<1>1. jobs[j].s # NoSession /\ jobs[j].t # NoTurn
  BY Here DEF TurnSettles, At, OnSession, OnTurn
<1>2. \E pc \in {"commit", "close", "fail"} : Stays(j, pc)
  BY DEF TurnSettles, Works, Rest, Stays
<1> QED BY <1>1, <1>2, StaysKeeps DEF Places, OnSession, OnTurn

LEMMA StopsKeep ==
    ASSUME AgentInv, (\E j \in Jobs : Timeout(j)) \/ StopGeneration \/ \E m \in Meetings : Interrupt(m)
    PROVE  AgentInv' /\ SettledStep
<1>1. OwnersTyped /\ jobs \in [Jobs -> JobRecord]
  BY Typed DEF AgentInv, JobsTyped
<1>2. UNCHANGED <<db, proc, prov, up>>
  BY DEF Timeout, StopGeneration, Interrupt, Works, Rest
<1>3. \E i \in Jobs, w \in {"cancel", "deadline"} : jobs' = [jobs EXCEPT ![i].stop = w]
  BY <1>1 DEF Timeout, StopGeneration, Interrupt, Interrupted, OwnersTyped
<1> QED BY <1>2, <1>3, StopFollows, QuietKeeps, OwnersStay, ProviderStays, UpStays

LEMMA ClaimsKeep ==
    ASSUME AgentInv, NEW j \in Jobs, BeginJob(j) \/ BeginGeneration(j)
    PROVE  AgentInv' /\ SettledStep
<1>1. OwnersTyped /\ jobs[j].t # NoTurn /\ jobs[j].s # NoSession
  BY Typed, Here DEF AgentInv, BeginJob, BeginGeneration, At, OnSession, OnTurn
<1>2. /\ UNCHANGED <<db, prov, up>> /\ UNCHANGED <<owner, initJob, retrying>>
      /\ asking' \in {asking, j} /\ making' \in {making, j}
  BY DEF BeginJob, BeginGeneration, Works, Rest
<1>3. OwnersTyped'
  BY <1>1, <1>2 DEF OwnersTyped
<1>4. \E pc \in {"run", "drop", "fail"} : Goto(j, pc)
  BY DEF BeginJob, BeginGeneration
<1> QED BY <1>1, <1>2, <1>3, <1>4, GotoKeeps, ProviderStays
        DEF Places, Elsewhere, OnSession, OnTurn

LEMMA ReturnsKeep ==
    ASSUME AgentInv, NEW j \in Jobs, Drop(j) \/ EndJob(j) \/ EndGeneration(j)
    PROVE  AgentInv' /\ SettledStep
<1>1. OwnersTyped
  BY Typed DEF AgentInv
<1>2. OwnersTyped' /\ UNCHANGED <<db, prov, up>>
  BY <1>1 DEF Drop, EndJob, EndGeneration, OwnersTyped, proc, Works, Rest
<1>3. End(j) \/ Past(j, "shut")
  BY DEF Drop, EndJob, EndGeneration
<1>4. "shut" \in Places /\ "shut" \notin OnSession \cup OnTurn
  BY DEF Places, Elsewhere, OnSession, OnTurn
<1>5. JobsFollow
  BY <1>3, <1>4, EndFollows, PastFollows
<1> QED BY <1>2, <1>5, QuietKeeps, ProviderStays, UpStays

LEMMA AnswersKeep ==
    ASSUME AgentInv, TurnCompleted \/ ProviderDies
    PROVE  AgentInv' /\ SettledStep
<1>1. ProviderTyped /\ jobs \in [Jobs -> JobRecord]
  BY Typed DEF AgentInv, JobsTyped
<1>2. UNCHANGED <<db, proc, attached, up>> /\ active' = NoTurn
  BY DEF TurnCompleted, ProviderDies, Works, Fails, Rest
<1>3. ProviderTyped'
  BY <1>1, <1>2 DEF ProviderTyped
<1>4. \E ev \in {"done", "failed", "cancelled", "lost"} : jobs' = Deliver(active, ev, jobs)
  BY DEF TurnCompleted, ProviderDies
<1>5. JobsTyped' /\ \A i \in Jobs : Same(jobs'[i], jobs[i])
  <2>1. PICK ev \in {"done", "failed", "cancelled", "lost"} : jobs' = Deliver(active, ev, jobs)
    BY <1>4
  <2>2. Deliver(active, ev, jobs) \in [Jobs -> JobRecord]
        /\ \A i \in Jobs : Same(Deliver(active, ev, jobs)[i], jobs[i])
    BY <1>1, DeliverTyped
  <2> QED BY <2>1, <2>2, Zenon DEF JobsTyped
<1> QED BY <1>2, <1>3, <1>5, AllFollow, QuietKeeps, OwnersStay, UpStays

-----------------------------------------------------------------------------
(* Steps that write rows.                                                  *)

LEMMA RowTypes ==
    ASSUME AgentInv
    PROVE  Rows
  BY Typed DEF AgentInv, Rows

LEMMA SessionSet ==
    ASSUME AgentInv, NEW s \in Sessions, NEW x \in {"starting", "available", "ended", "failed"},
           SetSession(s, x)
    PROVE  /\ sessions' \in [Sessions -> SessionRow]
           /\ sessions'[s].state = x
           /\ \A r \in Sessions : sessions'[r].m = sessions[r].m
           /\ \A r \in Sessions \ {s} : sessions'[r] = sessions[r]
<1>1. sessions \in [Sessions -> SessionRow]
  BY RowTypes DEF Rows, RowsTyped
<1> QED BY <1>1 DEF SetSession, SessionRow

LEMMA TurnSet ==
    ASSUME AgentInv, NEW t \in Turns, NEW x \in ActiveTurn \cup SettledTurn, SetTurn(t, x)
    PROVE  /\ turns' \in [Turns -> TurnRow]
           /\ turns'[t].state = x
           /\ \A u \in Turns : turns'[u].m = turns[u].m /\ turns'[u].s = turns[u].s
                            /\ turns'[u].kind = turns[u].kind
           /\ \A u \in Turns \ {t} : turns'[u] = turns[u]
<1>1. turns \in [Turns -> TurnRow]
  BY RowTypes DEF Rows, RowsTyped
<1>2. x \in {"none"} \cup ActiveTurn \cup SettledTurn
  OBVIOUS
<1> QED BY <1>1, <1>2 DEF SetTurn, TurnRow

LEMMA AgentSet ==
    ASSUME AgentInv, NEW m \in Meetings, NEW x \in AgentStates, SetAgent(m, x)
    PROVE  /\ agent' \in [Meetings -> AgentStates]
           /\ agent'[m] = x
           /\ \A n \in Meetings \ {m} : agent'[n] = agent[n]
<1>1. agent \in [Meetings -> AgentStates]
  BY RowTypes DEF Rows, RowsTyped
<1> QED BY <1>1 DEF SetAgent

(* EndSession takes the agent of the meeting away with the session.        *)
LEMMA EndedSessionRows ==
    ASSUME AgentInv, NEW s, NEW x \in {"ended", "failed"}, EndedSession(s, x)
    PROVE  RowsStep
<1>1. CASE UNCHANGED db
  BY <1>1, RowsSame
<1>2. CASE /\ s \in Sessions /\ sessions[s].state \in ActiveSession /\ SetSession(s, x)
           /\ IF agent[sessions[s].m] \in {"initializing", "available", "busy"}
              THEN SetAgent(sessions[s].m, "unavailable") ELSE agent' = agent
           /\ UNCHANGED <<life, minute, turns>>
  <2>1. Rows
    BY RowTypes
  <2>2. /\ sessions' \in [Sessions -> SessionRow] /\ sessions'[s].state = x
        /\ \A r \in Sessions : sessions'[r].m = sessions[r].m
        /\ \A r \in Sessions \ {s} : sessions'[r] = sessions[r]
    BY <1>2, SessionSet
  <2>3. sessions[s].m \in Meetings
    BY <1>2, <2>1 DEF Rows, RowsTyped, SessionRow
  <2>4. /\ agent' \in [Meetings -> AgentStates]
        /\ agent'[sessions[s].m] \notin {"initializing", "available", "busy"}
        /\ \A n \in Meetings : agent'[n] \in {agent[n], "unavailable"}
        /\ \A n \in Meetings \ {sessions[s].m} : agent'[n] = agent[n]
        /\ \A n \in Meetings : agent[n] = "unchecked" => agent'[n] = agent[n]
    <3>1. CASE agent[sessions[s].m] \in {"initializing", "available", "busy"}
      <4>1. SetAgent(sessions[s].m, "unavailable") /\ "unavailable" \in AgentStates
        BY <1>2, <3>1 DEF AgentStates
      <4> QED BY <2>3, <3>1, <4>1, AgentSet
    <3>2. CASE agent[sessions[s].m] \notin {"initializing", "available", "busy"}
      BY <1>2, <2>1, <3>2 DEF Rows, RowsTyped
    <3> QED BY <3>1, <3>2
  <2>5. RowsTyped'
    BY <1>2, <2>1, <2>2, <2>4 DEF Rows, RowsTyped
  <2>6. BusyHasTurn'
    BY <1>2, <2>1, <2>4 DEF Rows, BusyHasTurn, ActiveTurns
  <2>7. AvailableHasSession'
    BY <1>2, <2>1, <2>2, <2>4 DEF Rows, AvailableHasSession, ActiveSessions
  <2>8. RowsFit'
    BY <1>2, <2>1, <2>2, <2>3, <2>4 DEF Rows, RowsTyped, RowsFit, ActiveSession
  <2>9. RowsGrow /\ SettledStep
    BY <1>2, <2>2 DEF RowsGrow, SettledStep
  <2> QED BY <2>5, <2>6, <2>7, <2>8, <2>9 DEF RowsStep, Rows
<1> QED BY <1>1, <1>2 DEF EndedSession

LEMMA SessionEndsKeep ==
    ASSUME AgentInv, NEW j \in Jobs,
           EndOwned(j) \/ EndStaleSession(j) \/ FailPostMeetingSession(j)
    PROVE  AgentInv' /\ SettledStep
<1>1. UNCHANGED <<proc, prov, up>>
  BY DEF EndOwned, EndStaleSession, FailPostMeetingSession, Works, Fails, Rest
<1>2. UNCHANGED db \/ \E s, x : x \in {"ended", "failed"} /\ EndedSession(s, x)
  BY DEF EndOwned, EndStaleSession, FailPostMeetingSession
<1>3. RowsStep
  BY <1>2, EndedSessionRows, RowsSame
<1>4. \E pc \in {"reserve", "end", "release"} : Goto(j, pc)
  BY DEF EndOwned, EndStaleSession, FailPostMeetingSession, AfterShutdown
<1>5. JobsFollow
  BY <1>4, GotoFollows DEF Places, Elsewhere, OnSession, OnTurn
<1> QED BY <1>1, <1>3, <1>5, StepKeeps, OwnersStay, ProviderStays, UpStays

LEMMA FreeRows ==
           /\ FreeSessions # {} => NextRow(FreeSessions) \in Sessions
                                   /\ sessions[NextRow(FreeSessions)].state = "none"
           /\ FreeTurns # {} => NextRow(FreeTurns) \in Turns
                                /\ turns[NextRow(FreeTurns)].state = "none"
<1>1. /\ FreeSessions \in SUBSET (1..MaxSessions) /\ FreeTurns \in SUBSET (1..MaxTurns)
      /\ MaxSessions \in Nat /\ MaxTurns \in Nat
  BY BoundsAssumption DEF FreeSessions, FreeTurns, Sessions, Turns
<1>2. /\ FreeSessions # {} => NextRow(FreeSessions) \in FreeSessions
      /\ FreeTurns # {} => NextRow(FreeTurns) \in FreeTurns
  BY <1>1, NextRowIn
<1> QED BY <1>2 DEF FreeSessions, FreeTurns

LEMMA NewSessionRows ==
    ASSUME AgentInv, NEW s \in Sessions, sessions[s].state = "none", NEW m \in Meetings,
           life[m] # "none", NewSession(s, m), UNCHANGED <<life, minute, turns>>,
           \/ agent' = agent
           \/ agent[m] \in {"unchecked", "unavailable"} /\ SetAgent(m, "initializing")
    PROVE  RowsStep /\ sessions'[s].m = m /\ sessions'[s].state # "none"
<1>1. Rows
  BY RowTypes
<1>2. /\ sessions' \in [Sessions -> SessionRow]
      /\ sessions'[s].m = m /\ sessions'[s].state = "starting"
      /\ \A r \in Sessions \ {s} : sessions'[r] = sessions[r]
  BY <1>1 DEF Rows, RowsTyped, NewSession, SessionRow
<1>3. /\ agent' \in [Meetings -> AgentStates]
      /\ \A n \in Meetings \ {m} : agent'[n] = agent[n]
      /\ agent'[m] = agent[m] \/ agent'[m] = "initializing"
  <2>1. CASE agent' = agent
    BY <1>1, <2>1 DEF Rows, RowsTyped
  <2>2. CASE SetAgent(m, "initializing")
    BY <2>2, AgentSet DEF AgentStates
  <2> QED BY <2>1, <2>2
<1>4. RowsTyped'
  BY <1>1, <1>2, <1>3 DEF Rows, RowsTyped
<1>5. BusyHasTurn'
  BY <1>1, <1>3 DEF Rows, BusyHasTurn, ActiveTurns
<1>6. AvailableHasSession'
  <2> SUFFICES ASSUME NEW n \in Meetings, agent'[n] \in {"available", "busy"}, life'[n] = "recording"
               PROVE  \E r \in ActiveSessions(n)' : sessions'[r].state = "available"
    BY DEF AvailableHasSession
  <2>1. agent[n] \in {"available", "busy"} /\ life[n] = "recording"
    BY <1>3
  <2>2. PICK r \in ActiveSessions(n) : sessions[r].state = "available"
    BY <1>1, <2>1 DEF Rows, AvailableHasSession
  <2> QED BY <1>2, <2>2 DEF ActiveSessions
<1>7. RowsFit'
  BY <1>1, <1>2, <1>3 DEF Rows, RowsTyped, RowsFit
<1>8. RowsGrow /\ SettledStep
  BY <1>2 DEF RowsGrow, SettledStep
<1> QED BY <1>2, <1>4, <1>5, <1>6, <1>7, <1>8 DEF RowsStep, Rows

(* A call goes on with another session.                                    *)
LEMMA TakesSession ==
    ASSUME AgentInv, NEW j \in Jobs, NEW s \in Sessions, NEW pc \in Places,
           jobs' = [jobs EXCEPT ![j].pc = pc, ![j].s = s],
           pc \notin OnTurn, s # NoSession,
           sessions'[s].state # "none", sessions'[s].m = jobs[j].m
    PROVE  JobsFollow
<1>1. jobs[j] \in JobRecord
  BY JobIsTyped
<1> DEFINE r == [[jobs[j] EXCEPT !.pc = pc] EXCEPT !.s = s]
<1>2. jobs' = [jobs EXCEPT ![j] = r]
  OBVIOUS
<1>3. /\ r \in JobRecord /\ r.pc = pc /\ r.s = s /\ r.t = jobs[j].t
      /\ r.m = jobs[j].m /\ r.kind = jobs[j].kind
  BY <1>1 DEF JobRecord
<1> HIDE DEF r
<1> QED BY <1>2, <1>3, OneFollows

LEMMA BeginsKeep ==
    ASSUME AgentInv, NEW j \in Jobs, BeginInitialization(j) \/ BeginPostMeetingSession(j)
    PROVE  AgentInv' /\ SettledStep
<1> DEFINE s == NextRow(FreeSessions)
           m == jobs[j].m
<1>1. m \in Meetings
  BY Here
<1>2. CASE /\ FreeSessions # {} /\ life[m] \in {"recording", "ended"}
           /\ NewSession(s, m) /\ UNCHANGED <<life, minute, turns>>
           /\ agent' = agent \/ (agent[m] \in {"unchecked", "unavailable"} /\ SetAgent(m, "initializing"))
           /\ jobs' = [jobs EXCEPT ![j].pc = "open", ![j].s = s]
           /\ UNCHANGED <<proc, prov, up>>
  <2>1. s \in Sessions /\ sessions[s].state = "none" /\ life[m] # "none"
    BY <1>2, FreeRows
  <2> HIDE DEF s, m
  <2>2. RowsStep /\ sessions'[s].m = m /\ sessions'[s].state # "none"
    BY <1>1, <1>2, <2>1, NewSessionRows
  <2>3. s # NoSession /\ "open" \in Places /\ "open" \notin OnTurn
    BY <2>1 DEF Sessions, NoSession, Places, OnSession, OnTurn
  <2>4. JobsFollow
    BY <1>2, <2>1, <2>2, <2>3, TakesSession DEF m
  <2> QED BY <1>2, <2>2, <2>4, StepKeeps, OwnersStay, ProviderStays, UpStays
<1>3. CASE Stays(j, "release")
  BY <1>3, StaysKeeps DEF Places, Elsewhere, OnSession, OnTurn
<1> QED BY <1>2, <1>3 DEF BeginInitialization, BeginPostMeetingSession,
                          Works, Fails, Rest, Refused, Stays

LEMMA AvailableRows ==
    ASSUME AgentInv, NEW s \in Sessions, sessions[s].state # "none",
           SetSession(s, "available"), SetAgent(sessions[s].m, "available"),
           UNCHANGED <<life, minute, turns>>
    PROVE  RowsStep
<1>1. Rows
  BY RowTypes
<1>2. sessions[s].m \in Meetings
  BY <1>1 DEF Rows, RowsTyped, SessionRow
<1>3. /\ sessions' \in [Sessions -> SessionRow] /\ sessions'[s].state = "available"
      /\ \A r \in Sessions : sessions'[r].m = sessions[r].m
      /\ \A r \in Sessions \ {s} : sessions'[r] = sessions[r]
  BY SessionSet
<1>4. /\ agent' \in [Meetings -> AgentStates] /\ agent'[sessions[s].m] = "available"
      /\ \A n \in Meetings \ {sessions[s].m} : agent'[n] = agent[n]
  BY <1>2, AgentSet DEF AgentStates
<1>5. RowsTyped'
  BY <1>1, <1>3, <1>4 DEF Rows, RowsTyped
<1>6. BusyHasTurn'
  BY <1>1, <1>4 DEF Rows, BusyHasTurn, ActiveTurns
<1>7. AvailableHasSession'
  <2> SUFFICES ASSUME NEW n \in Meetings, agent'[n] \in {"available", "busy"}, life'[n] = "recording"
               PROVE  \E r \in ActiveSessions(n)' : sessions'[r].state = "available"
    BY DEF AvailableHasSession
  <2>1. CASE n = sessions[s].m
    BY <1>3, <2>1 DEF ActiveSessions, ActiveSession
  <2>2. CASE n # sessions[s].m
    <3>1. PICK r \in ActiveSessions(n) : sessions[r].state = "available"
      BY <1>1, <1>4, <2>2 DEF Rows, AvailableHasSession
    <3> QED BY <1>3, <3>1 DEF ActiveSessions
  <2> QED BY <2>1, <2>2
<1>8. RowsFit'
  BY <1>1, <1>2, <1>3, <1>4 DEF Rows, RowsTyped, RowsFit
<1>9. RowsGrow /\ SettledStep
  BY <1>3 DEF RowsGrow, SettledStep
<1> QED BY <1>5, <1>6, <1>7, <1>8, <1>9 DEF RowsStep, Rows

LEMMA AvailablesKeep ==
    ASSUME AgentInv, NEW j \in Jobs,
           ReopenPostMeetingSession(j) \/ ActivatePostMeetingSession(j)
    PROVE  AgentInv' /\ SettledStep
<1>1. /\ jobs[j].s \in Sessions /\ jobs[j].s # NoSession
      /\ OfSession(j).state # "none" /\ OfSession(j).m = jobs[j].m
  BY Here DEF ReopenPostMeetingSession, ActivatePostMeetingSession, At, OnSession
<1>2. CASE /\ SetSession(jobs[j].s, "available") /\ SetAgent(jobs[j].m, "available")
           /\ Goto(j, "publish") /\ UNCHANGED <<life, minute, turns, proc, prov, up>>
  <2>1. RowsStep
    BY <1>1, <1>2, AvailableRows DEF OfSession
  <2>2. JobsFollow
    BY <1>1, <1>2, GotoFollows DEF Places, OnSession, OnTurn
  <2> QED BY <1>2, <2>1, <2>2, StepKeeps, OwnersStay, ProviderStays, UpStays
<1>3. CASE \E pc \in {"close", "reclose"} : Stays(j, pc)
  BY <1>1, <1>3, StaysKeeps DEF Places, OnSession, OnTurn
<1> QED BY <1>2, <1>3 DEF ReopenPostMeetingSession, ActivatePostMeetingSession, Available,
                          Works, Fails, Rest, Refused, Stays

(* A turn goes on or is settled, and the meeting with it: a meeting that   *)
(* is busy is no longer, whoever's turn it was.                            *)
LEMMA TurnRows ==
    ASSUME AgentInv, NEW t \in Turns, turns[t].state \in ActiveTurn,
           NEW x \in ActiveTurn \cup SettledTurn, SetTurn(t, x),
           UNCHANGED <<life, sessions>>,
           minute' \in [Meetings -> {"not_generated", "generating", "draft", "failed"}],
           \/ /\ x \in ActiveTurn \/ turns[t].kind \notin {"answer", "ingest"}
              /\ agent' = agent
           \/ /\ agent[turns[t].m] = "busy"
              /\ \E a \in {"available", "unavailable", "unsynced"} : SetAgent(turns[t].m, a)
    PROVE  RowsStep
<1> DEFINE m == turns[t].m
<1>1. Rows
  BY RowTypes
<1>2. m \in Meetings
  BY <1>1 DEF Rows, RowsTyped, TurnRow
<1>3. /\ turns' \in [Turns -> TurnRow] /\ turns'[t].state = x
      /\ \A u \in Turns : turns'[u].m = turns[u].m /\ turns'[u].s = turns[u].s
                       /\ turns'[u].kind = turns[u].kind
      /\ \A u \in Turns \ {t} : turns'[u] = turns[u]
  BY TurnSet
<1>4. x # "none"
  BY DEF ActiveTurn, SettledTurn
<1>5. /\ agent' \in [Meetings -> AgentStates]
      /\ \A n \in Meetings \ {m} : agent'[n] = agent[n]
      /\ \/ agent' = agent /\ (x \in ActiveTurn \/ turns[t].kind \notin {"answer", "ingest"})
         \/ agent[m] = "busy" /\ agent'[m] \in {"available", "unavailable", "unsynced"}
  <2>1. CASE agent' = agent /\ (x \in ActiveTurn \/ turns[t].kind \notin {"answer", "ingest"})
    BY <1>1, <2>1 DEF Rows, RowsTyped
  <2>2. CASE agent[m] = "busy" /\ \E a \in {"available", "unavailable", "unsynced"} : SetAgent(m, a)
    <3>1. PICK a \in {"available", "unavailable", "unsynced"} : SetAgent(m, a)
      BY <2>2
    <3> HIDE DEF m
    <3> QED BY <1>2, <2>2, <3>1, AgentSet DEF AgentStates
  <2> QED BY <2>1, <2>2
<1>6. RowsTyped'
  BY <1>1, <1>3, <1>5 DEF Rows, RowsTyped
<1>7. BusyHasTurn'
  <2> SUFFICES ASSUME NEW n \in Meetings, agent'[n] = "busy"
               PROVE  \E u \in ActiveTurns(n)' : turns'[u].kind \in {"answer", "ingest"}
    BY DEF BusyHasTurn
  <2>1. agent[n] = "busy"
    BY <1>5
  <2>2. PICK u \in ActiveTurns(n) : turns[u].kind \in {"answer", "ingest"}
    BY <1>1, <2>1 DEF Rows, BusyHasTurn
  <2>3. u \in Turns /\ turns[u].m = n /\ turns[u].state \in ActiveTurn
    BY <2>2 DEF ActiveTurns
  <2>4. turns'[u].state \in ActiveTurn
    BY <1>3, <1>5, <2>2, <2>3
  <2> QED BY <1>3, <2>2, <2>3, <2>4 DEF ActiveTurns
<1>8. AvailableHasSession'
  BY <1>1, <1>5 DEF Rows, AvailableHasSession, ActiveSessions
<1>9. RowsFit'
  <2>1. \A n \in Meetings : life'[n] = "none" => agent'[n] = "unchecked"
    BY <1>1, <1>5 DEF Rows, RowsFit
  <2>2. \A u \in Turns : turns'[u].state # "none" => turns[u].state # "none"
    BY <1>3 DEF ActiveTurn
  <2> QED BY <1>1, <1>3, <2>1, <2>2 DEF Rows, RowsFit
<1>10. RowsGrow /\ SettledStep
  <2>1. turns[t].state \notin SettledTurn
    BY DEF ActiveTurn, SettledTurn
  <2> QED BY <1>3, <1>4, <2>1 DEF RowsGrow, SettledStep
<1> QED BY <1>6, <1>7, <1>8, <1>9, <1>10 DEF RowsStep, Rows

LEMMA MarkTurnRunningKeeps ==
    ASSUME AgentInv, NEW j \in Jobs, MarkTurnRunning(j)
    PROVE  AgentInv' /\ SettledStep
<1>1. /\ jobs[j].s # NoSession /\ jobs[j].t # NoTurn /\ jobs[j].t \in Turns
  BY Here DEF MarkTurnRunning, At, OnSession, OnTurn
<1>2. CASE /\ OfTurn(j).state = "pending" /\ SetTurn(jobs[j].t, "running") /\ Goto(j, "wait")
           /\ UNCHANGED <<life, agent, minute, sessions, proc, prov, up>>
  <2>1. "running" \in ActiveTurn /\ "pending" \in ActiveTurn
    BY DEF ActiveTurn
  <2>2. minute \in [Meetings -> {"not_generated", "generating", "draft", "failed"}]
    BY RowTypes DEF Rows, RowsTyped
  <2>3. RowsStep
    BY <1>1, <1>2, <2>1, <2>2, TurnRows DEF OfTurn
  <2>4. JobsFollow
    BY <1>1, <1>2, GotoFollows DEF Places, OnSession, OnTurn
  <2> QED BY <1>2, <2>3, <2>4, StepKeeps, OwnersStay, ProviderStays, UpStays
<1>3. CASE \E pc \in {"close", "fail"} : Stays(j, pc)
  BY <1>1, <1>3, StaysKeeps DEF Places, OnSession, OnTurn
<1> QED BY <1>2, <1>3 DEF MarkTurnRunning, Works, Fails, Rest, Refused, Stays

(* A turn is settled by the call that ran it, which is then past it.       *)
LEMMA SettlingKeeps ==
    ASSUME AgentInv, NEW j \in Jobs, jobs[j].t # NoTurn, OfTurn(j).state \in ActiveTurn,
           NEW x \in SettledTurn, SetTurn(jobs[j].t, x),
           NEW pc \in {"shut", "resume_media", "made"}, Past(j, pc),
           UNCHANGED <<life, sessions, proc, prov, up>>,
           \/ /\ jobs[j].kind = "minutes" /\ agent' = agent
              /\ \E y \in {"draft", "failed"} : SetMinute(jobs[j].m, y)
           \/ /\ minute' = minute /\ agent[jobs[j].m] = "busy"
              /\ \E a \in {"available", "unavailable", "unsynced"} : SetAgent(jobs[j].m, a)
    PROVE  AgentInv' /\ SettledStep
<1>1. /\ jobs[j].t \in Turns /\ jobs[j].m \in Meetings
      /\ turns[jobs[j].t].m = jobs[j].m /\ turns[jobs[j].t].kind = OfKind[jobs[j].kind]
  BY Here DEF OfTurn
<1>2. minute' \in [Meetings -> {"not_generated", "generating", "draft", "failed"}]
  <2>1. minute \in [Meetings -> {"not_generated", "generating", "draft", "failed"}]
    BY RowTypes DEF Rows, RowsTyped
  <2> QED BY <1>1, <2>1 DEF SetMinute
<1>3. OfKind["minutes"] = "minutes"
  BY DEF OfKind
<1>4. RowsStep
  BY <1>1, <1>2, <1>3, TurnRows DEF OfTurn
<1>5. JobsFollow
  BY PastFollows DEF Places, Elsewhere, OnSession, OnTurn
<1> QED BY <1>4, <1>5, StepKeeps, OwnersStay, ProviderStays, UpStays

LEMMA Outcomes == \A j \in Jobs : Outcome(j) \in SettledTurn
  BY DEF Outcome, SettledTurn

LEMMA QuestionsEndKeep ==
    ASSUME AgentInv, NEW j \in Jobs, CommitTurnSuccess(j) \/ FailTurn(j)
    PROVE  AgentInv' /\ SettledStep
<1>1. jobs[j].t # NoTurn /\ jobs[j].s \in Sessions \cup {NoSession}
  BY Here DEF CommitTurnSuccess, FailTurn, At, OnTurn
<1>2. CASE /\ OfTurn(j).state \in ActiveTurn /\ agent[jobs[j].m] = "busy"
           /\ \E x \in SettledTurn : SetTurn(jobs[j].t, x)
           /\ SetAgent(jobs[j].m, "available") /\ Past(j, "resume_media")
           /\ UNCHANGED <<life, minute, sessions, proc, prov, up>>
  BY <1>1, <1>2, SettlingKeeps
<1>3. CASE Stays(j, "fail") /\ jobs[j].pc = "commit"
  <2>1. jobs[j].s # NoSession
    BY <1>3, Here DEF OnSession
  <2> QED BY <1>1, <1>3, <2>1, StaysKeeps DEF Places, OnSession, OnTurn
<1>4. CASE Stays(j, "resume_media")
  BY <1>4, StaysKeeps DEF Places, Elsewhere, OnSession, OnTurn
<1>5. "running" \in ActiveTurn /\ "completed" \in SettledTurn
  BY DEF ActiveTurn, SettledTurn
<1> QED BY <1>2, <1>3, <1>4, <1>5, Outcomes
        DEF CommitTurnSuccess, FailTurn, At, Works, Fails, Rest, Refused, Stays

LEMMA FinalSyncEndsKeep ==
    ASSUME AgentInv, NEW j \in Jobs, CompleteFinalSync(j) \/ FailFinalSync(j)
    PROVE  AgentInv' /\ SettledStep
<1>1. jobs[j].t # NoTurn
  BY Here DEF CompleteFinalSync, FailFinalSync, At, OnTurn
<1>2. CASE /\ OfTurn(j).state \in ActiveTurn /\ agent[jobs[j].m] = "busy"
           /\ \E x \in {"completed", "failed"} : SetTurn(jobs[j].t, x)
           /\ \E a \in {"unavailable", "unsynced"} : SetAgent(jobs[j].m, a)
           /\ Past(j, "shut")
           /\ UNCHANGED <<life, minute, sessions, proc, prov, up>>
  <2>1. \E x \in SettledTurn : SetTurn(jobs[j].t, x)
    BY <1>2 DEF SettledTurn
  <2> QED BY <1>1, <1>2, <2>1, SettlingKeeps
<1>3. CASE \E pc \in {"unready_claimed", "fail", "shut"} : Stays(j, pc)
  BY <1>1, <1>3, StaysKeeps DEF Places, Elsewhere, OnSession, OnTurn
<1>4. "running" \in ActiveTurn /\ "pending" \in ActiveTurn
  BY DEF ActiveTurn
<1> QED BY <1>2, <1>3, <1>4
        DEF CompleteFinalSync, FailFinalSync, Works, Fails, Rest, Refused, Stays

LEMMA MinutesEndKeep ==
    ASSUME AgentInv, NEW j \in Jobs, CommitGeneratedMinute(j) \/ FailMinutesTurn(j)
    PROVE  AgentInv' /\ SettledStep
<1>1. jobs[j].t # NoTurn /\ jobs[j].kind = "minutes"
  BY Here DEF CommitGeneratedMinute, FailMinutesTurn, At, OnTurn
<1>2. CASE /\ OfTurn(j).state \in ActiveTurn
           /\ \E x \in SettledTurn : SetTurn(jobs[j].t, x)
           /\ \E y \in {"draft", "failed"} : SetMinute(jobs[j].m, y)
           /\ Past(j, "made")
           /\ UNCHANGED <<life, agent, sessions, proc, prov, up>>
  BY <1>1, <1>2, SettlingKeeps
<1>3. CASE \E pc \in {"fail", "made"} : Stays(j, pc) /\ (pc = "fail" => jobs[j].s # NoSession)
  BY <1>1, <1>3, StaysKeeps DEF Places, Elsewhere, OnSession, OnTurn
<1>4. "running" \in ActiveTurn /\ "completed" \in SettledTurn
  BY DEF ActiveTurn, SettledTurn
<1>5. jobs[j].pc = "commit" => jobs[j].s # NoSession
  BY Here DEF OnSession
<1> QED BY <1>2, <1>3, <1>4, <1>5, Outcomes
        DEF CommitGeneratedMinute, FailMinutesTurn, At, Works, Fails, Rest, Refused, Stays

LEMMA MarkFinalSyncUnsyncedKeeps ==
    ASSUME AgentInv, NEW j \in Jobs, MarkFinalSyncUnsynced(j)
    PROVE  AgentInv' /\ SettledStep
<1>1. jobs[j].m \in Meetings
  BY Here
<1>2. CASE /\ life[jobs[j].m] = "ended" /\ agent[jobs[j].m] # "unchecked"
           /\ SetAgent(jobs[j].m, "unsynced") /\ (Goto(j, "end") \/ Goto(j, "shut"))
           /\ UNCHANGED <<life, minute, sessions, turns, proc, prov, up>>
  <2>1. Rows
    BY RowTypes
  <2>2. /\ agent' \in [Meetings -> AgentStates] /\ agent'[jobs[j].m] = "unsynced"
        /\ \A n \in Meetings \ {jobs[j].m} : agent'[n] = agent[n]
    BY <1>1, <1>2, AgentSet DEF AgentStates
  <2>3. RowsTyped'
    BY <1>2, <2>1, <2>2 DEF Rows, RowsTyped
  <2>4. BusyHasTurn'
    BY <1>2, <2>1, <2>2 DEF Rows, BusyHasTurn, ActiveTurns
  <2>5. AvailableHasSession'
    BY <1>2, <2>1, <2>2 DEF Rows, AvailableHasSession, ActiveSessions
  <2>6. RowsFit'
    BY <1>2, <2>1, <2>2 DEF Rows, RowsFit
  <2>7. RowsStep
    BY <1>2, <2>3, <2>4, <2>5, <2>6 DEF RowsStep, Rows, RowsGrow, SettledStep
  <2>8. JobsFollow
    BY <1>2, GotoFollows DEF Places, Elsewhere, OnSession, OnTurn
  <2> QED BY <1>2, <2>7, <2>8, StepKeeps, OwnersStay, ProviderStays, UpStays
<1>3. CASE Stays(j, "end") \/ Stays(j, "shut")
  BY <1>3, StaysKeeps DEF Places, Elsewhere, OnSession, OnTurn
<1> QED BY <1>2, <1>3 DEF MarkFinalSyncUnsynced, Works, Fails, Rest, Refused, Stays

(* A new turn takes a free row, or that of a final synchronisation of the  *)
(* same meeting that did not succeed.                                      *)
LEMMA NewTurnRows ==
    ASSUME AgentInv, NEW j \in Jobs, NEW t \in Turns, jobs[j].s # NoSession,
           jobs[j].kind \in DOMAIN OfKind, NewTurn(t, j), UNCHANGED <<life, sessions>>,
           \/ turns[t].state = "none"
           \/ /\ turns[t].state \in SettledTurn \ {"completed"} /\ turns[t].kind = "ingest"
              /\ jobs[j].kind = "sync" /\ turns[t].m = jobs[j].m,
           minute' \in [Meetings -> {"not_generated", "generating", "draft", "failed"}],
           \/ agent' = agent
           \/ /\ SetAgent(jobs[j].m, "busy") /\ OfKind[jobs[j].kind] \in {"answer", "ingest"}
              /\ agent[jobs[j].m] = "available" \/ life[jobs[j].m] = "ended"
    PROVE  /\ RowsStep
           /\ turns'[t].kind = OfKind[jobs[j].kind] /\ turns'[t].m = jobs[j].m
           /\ turns'[t].state # "none"
<1> DEFINE m == jobs[j].m
           kind == OfKind[jobs[j].kind]
<1>1. Rows
  BY RowTypes
<1>2. /\ m \in Meetings /\ jobs[j].s \in Sessions
      /\ sessions[jobs[j].s].state # "none" /\ sessions[jobs[j].s].m = m
      /\ life[m] # "none"
  BY <1>1, Here DEF OfSession, Rows, RowsFit
<1>3. kind \in {"initialize", "answer", "ingest", "minutes"} /\ OfKind["sync"] = "ingest"
  BY DEF OfKind
<1>4. /\ turns' \in [Turns -> TurnRow]
      /\ turns'[t] = [m |-> m, s |-> jobs[j].s, kind |-> kind, state |-> "pending"]
      /\ \A u \in Turns \ {t} : turns'[u] = turns[u]
  <2>1. [m |-> m, s |-> jobs[j].s, kind |-> kind, state |-> "pending"] \in TurnRow
    BY <1>2, <1>3 DEF TurnRow, ActiveTurn
  <2>2. turns' = [turns EXCEPT ![t] = [m |-> m, s |-> jobs[j].s, kind |-> kind, state |-> "pending"]]
    BY DEF NewTurn
  <2>3. turns \in [Turns -> TurnRow]
    BY <1>1 DEF Rows, RowsTyped
  <2> HIDE DEF m, kind
  <2> QED BY <2>1, <2>2, <2>3
<1>5. /\ turns'[t].m = m /\ turns'[t].s = jobs[j].s /\ turns'[t].kind = kind
      /\ turns'[t].state = "pending" /\ turns[t].state \notin ActiveTurn
  BY <1>4 DEF ActiveTurn, SettledTurn
<1>6. /\ agent' \in [Meetings -> AgentStates]
      /\ \A n \in Meetings \ {m} : agent'[n] = agent[n]
      /\ \/ agent'[m] = agent[m]
         \/ kind \in {"answer", "ingest"} /\ (agent[m] = "available" \/ life[m] = "ended")
  <2>1. CASE agent' = agent
    BY <1>1, <2>1 DEF Rows, RowsTyped
  <2>2. CASE SetAgent(m, "busy") /\ kind \in {"answer", "ingest"}
             /\ (agent[m] = "available" \/ life[m] = "ended")
    <3> HIDE DEF m
    <3> QED BY <1>2, <2>2, AgentSet DEF AgentStates
  <2> QED BY <2>1, <2>2
<1> HIDE DEF m, kind
<1>7. RowsTyped'
  BY <1>1, <1>4, <1>6 DEF Rows, RowsTyped
<1>8. BusyHasTurn'
  <2> SUFFICES ASSUME NEW n \in Meetings, agent'[n] = "busy"
               PROVE  \E u \in ActiveTurns(n)' : turns'[u].kind \in {"answer", "ingest"}
    BY DEF BusyHasTurn
  <2>1. CASE agent[n] = "busy"
    <3>1. PICK u \in ActiveTurns(n) : turns[u].kind \in {"answer", "ingest"}
      BY <1>1, <2>1 DEF Rows, BusyHasTurn
    <3> QED BY <1>4, <1>5, <3>1 DEF ActiveTurns
  <2>2. CASE agent[n] # "busy"
    <3>1. n = m /\ kind \in {"answer", "ingest"}
      BY <1>6, <2>2
    <3> QED BY <1>5, <3>1 DEF ActiveTurns, ActiveTurn
  <2> QED BY <2>1, <2>2
<1>9. AvailableHasSession'
  <2> SUFFICES ASSUME NEW n \in Meetings, agent'[n] \in {"available", "busy"}, life'[n] = "recording"
               PROVE  \E r \in ActiveSessions(n) : sessions[r].state = "available"
    BY DEF AvailableHasSession, ActiveSessions
  <2>1. agent[n] \in {"available", "busy"} /\ life[n] = "recording"
    BY <1>6
  <2> QED BY <1>1, <2>1 DEF Rows, AvailableHasSession
<1>10. RowsFit'
  <2>1. \A n \in Meetings : life'[n] = "none" => agent'[n] = "unchecked"
    BY <1>1, <1>2, <1>6 DEF Rows, RowsFit
  <2>2. ASSUME NEW u \in Turns, turns'[u].state # "none"
        PROVE  /\ turns'[u].s \in Sessions
               /\ sessions[turns'[u].s].state # "none" /\ sessions[turns'[u].s].m = turns'[u].m
    BY <1>1, <1>2, <1>4, <1>5, <2>2 DEF Rows, RowsFit
  <2> QED BY <1>1, <2>1, <2>2 DEF Rows, RowsFit
<1>11. RowsGrow /\ SettledStep
  <2>1. \/ turns[t].state = "none"
        \/ /\ turns[t].state \in SettledTurn \ {"completed"} /\ turns[t].kind = "ingest"
           /\ kind = "ingest" /\ turns[t].m = m
    BY <1>3 DEF kind, m
  <2>2. "none" \notin SettledTurn
    BY DEF SettledTurn
  <2> QED BY <1>4, <1>5, <2>1, <2>2 DEF RowsGrow, SettledStep
<1> QED BY <1>5, <1>7, <1>8, <1>9, <1>10, <1>11 DEF RowsStep, Rows, m, kind

(* A call takes a turn that it began.                                      *)
LEMMA TakesTurn ==
    ASSUME AgentInv, NEW j \in Jobs, NEW t \in Turns, NEW pc \in Places,
           jobs' = [jobs EXCEPT ![j].pc = pc, ![j].t = t],
           jobs[j].s # NoSession, t # NoTurn, jobs[j].kind # "none",
           turns'[t].kind = OfKind[jobs[j].kind], turns'[t].m = jobs[j].m,
           turns'[t].state # "none"
    PROVE  JobsFollow
<1>1. jobs[j] \in JobRecord
  BY JobIsTyped
<1> DEFINE r == [[jobs[j] EXCEPT !.pc = pc] EXCEPT !.t = t]
<1>2. jobs' = [jobs EXCEPT ![j] = r]
  OBVIOUS
<1>3. /\ r \in JobRecord /\ r.pc = pc /\ r.s = jobs[j].s /\ r.t = t
      /\ r.m = jobs[j].m /\ r.kind = jobs[j].kind
  BY <1>1 DEF JobRecord
<1> HIDE DEF r
<1>4. /\ r.pc \in OnSession => r.s # NoSession
      /\ r.pc \in OnTurn => r.t # NoTurn
      /\ r.kind # "none" /\ turns'[r.t].kind = OfKind[r.kind]
      /\ turns'[r.t].m = r.m /\ turns'[r.t].state # "none"
  BY <1>3
<1> QED BY <1>2, <1>3, <1>4, OneFollows

(* Of a call that begins a turn: what has become of rows and calls.        *)
LEMMA TurnBeginsKeep ==
    ASSUME AgentInv, NEW j \in Jobs, NEW t \in Turns, jobs[j].s # NoSession,
           jobs[j].kind \in DOMAIN OfKind, NewTurn(t, j), UNCHANGED <<life, sessions, proc, prov, up>>,
           \/ turns[t].state = "none"
           \/ /\ turns[t].state \in SettledTurn \ {"completed"} /\ turns[t].kind = "ingest"
              /\ jobs[j].kind = "sync" /\ turns[t].m = jobs[j].m,
           minute' = minute \/ SetMinute(jobs[j].m, "generating"),
           \/ agent' = agent
           \/ /\ SetAgent(jobs[j].m, "busy") /\ OfKind[jobs[j].kind] \in {"answer", "ingest"}
              /\ agent[jobs[j].m] = "available" \/ life[jobs[j].m] = "ended",
           NEW pc \in {"run", "own"}, jobs' = [jobs EXCEPT ![j].pc = pc, ![j].t = t]
    PROVE  AgentInv' /\ SettledStep
<1>1. minute' \in [Meetings -> {"not_generated", "generating", "draft", "failed"}]
  <2>1. minute \in [Meetings -> {"not_generated", "generating", "draft", "failed"}]
        /\ jobs[j].m \in Meetings
    BY RowTypes, Here DEF Rows, RowsTyped
  <2> QED BY <2>1 DEF SetMinute
<1>2. /\ RowsStep
      /\ turns'[t].kind = OfKind[jobs[j].kind] /\ turns'[t].m = jobs[j].m
      /\ turns'[t].state # "none"
  BY <1>1, NewTurnRows
<1>3. pc \in Places /\ t # NoTurn /\ jobs[j].kind # "none"
  BY DEF Places, OnSession, Turns, NoTurn, OfKind
<1>4. JobsFollow
  BY <1>2, <1>3, TakesTurn
<1> QED BY <1>2, <1>4, StepKeeps, OwnersStay, ProviderStays, UpStays

LEMMA CreatesKeep ==
    ASSUME AgentInv, NEW j \in Jobs, CreateTurn(j) \/ CreateQuestion(j) \/ BeginMinutesTurn(j)
    PROVE  AgentInv' /\ SettledStep
<1> DEFINE t == NextRow(FreeTurns)
<1>1. /\ jobs[j].s # NoSession
      /\ jobs[j].kind \in {"init", "retry", "ask", "minutes"}
  BY Here DEF CreateTurn, CreateQuestion, BeginMinutesTurn, At, OnSession, Starting
<1>2. jobs[j].kind \in DOMAIN OfKind /\ OfKind["ask"] = "answer"
  BY <1>1 DEF OfKind
<1>3. CASE /\ FreeTurns # {} /\ NewTurn(t, j) /\ UNCHANGED <<life, sessions, proc, prov, up>>
           /\ minute' = minute \/ SetMinute(jobs[j].m, "generating")
           /\ \/ agent' = agent
              \/ /\ SetAgent(jobs[j].m, "busy") /\ jobs[j].kind = "ask"
                 /\ agent[jobs[j].m] = "available"
           /\ \E pc \in {"run", "own"} : jobs' = [jobs EXCEPT ![j].pc = pc, ![j].t = t]
  <2>1. t \in Turns /\ turns[t].state = "none"
    BY <1>3, FreeRows
  <2> HIDE DEF t
  <2>2. PICK pc \in {"run", "own"} : jobs' = [jobs EXCEPT ![j].pc = pc, ![j].t = t]
    BY <1>3
  <2>3. \/ agent' = agent
        \/ /\ SetAgent(jobs[j].m, "busy") /\ OfKind[jobs[j].kind] \in {"answer", "ingest"}
           /\ agent[jobs[j].m] = "available" \/ life[jobs[j].m] = "ended"
    BY <1>2, <1>3
  <2> QED BY <1>1, <1>2, <1>3, <2>1, <2>2, <2>3, TurnBeginsKeep
<1>4. CASE \E pc \in {"close", "drop", "shut"} : Stays(j, pc)
  BY <1>1, <1>4, StaysKeeps DEF Places, Elsewhere, OnSession, OnTurn
<1> QED BY <1>3, <1>4
        DEF CreateTurn, CreateQuestion, BeginMinutesTurn, At, Works, Fails, Rest, Refused, Stays

(* The turn of the key is one of the meeting.                              *)
LEMMA KeyTurns ==
    ASSUME AgentInv, NEW j \in Jobs, jobs[j].s # NoSession, KeyTurn(j) # {}
    PROVE  /\ NextRow(KeyTurn(j)) \in Turns /\ turns[NextRow(KeyTurn(j))].kind = "ingest"
           /\ turns[NextRow(KeyTurn(j))].state # "none" => turns[NextRow(KeyTurn(j))].m = jobs[j].m
<1>1. KeyTurn(j) \in SUBSET (1..MaxTurns) /\ MaxTurns \in Nat
  BY BoundsAssumption DEF KeyTurn, Turns
<1>2. NextRow(KeyTurn(j)) \in KeyTurn(j)
  BY <1>1, NextRowIn
<1>3. /\ NextRow(KeyTurn(j)) \in Turns /\ turns[NextRow(KeyTurn(j))].kind = "ingest"
      /\ turns[NextRow(KeyTurn(j))].s = jobs[j].s
  BY <1>2 DEF KeyTurn
<1> HIDE DEF NextRow
<1> QED BY <1>3, RowTypes, Here DEF Rows, RowsFit, OfSession

LEMMA BeginFinalSyncKeeps ==
    ASSUME AgentInv, NEW j \in Jobs, BeginFinalSync(j)
    PROVE  AgentInv' /\ SettledStep
<1> DEFINE old == KeyTurn(j)
           t == IF old = {} THEN NextRow(FreeTurns) ELSE NextRow(old)
<1>1. jobs[j].s # NoSession /\ jobs[j].kind = "sync"
  BY Here DEF BeginFinalSync, At, OnSession
<1>2. jobs[j].kind \in DOMAIN OfKind /\ OfKind[jobs[j].kind] = "ingest"
  BY <1>1 DEF OfKind
<1>3. CASE /\ old = {} => FreeTurns # {}
           /\ old # {} => turns[t].state \in {"failed", "timed_out", "cancelled"}
           /\ life[jobs[j].m] = "ended"
           /\ NewTurn(t, j) /\ SetAgent(jobs[j].m, "busy")
           /\ jobs' = [jobs EXCEPT ![j].pc = "run", ![j].t = t]
           /\ UNCHANGED <<life, minute, sessions, proc, prov, up>>
  <2>1. CASE old = {}
    <3>1. t \in Turns /\ turns[t].state = "none"
      BY <1>3, <2>1, FreeRows
    <3> HIDE DEF t
    <3> QED BY <1>1, <1>2, <1>3, <3>1, TurnBeginsKeep
  <2>2. CASE old # {}
    <3>1. t \in Turns /\ turns[t].kind = "ingest" /\ (turns[t].state # "none" => turns[t].m = jobs[j].m)
      BY <1>1, <2>2, KeyTurns
    <3> HIDE DEF t
    <3>2. turns[t].state \in SettledTurn \ {"completed"} /\ turns[t].m = jobs[j].m
      BY <1>3, <2>2, <3>1 DEF SettledTurn
    <3> QED BY <1>1, <1>2, <1>3, <3>1, <3>2, TurnBeginsKeep
  <2> QED BY <2>1, <2>2
<1>4. CASE \E pc \in {"shut", "unready_claimed"} : Stays(j, pc)
  BY <1>1, <1>4, StaysKeeps DEF Places, Elsewhere, OnSession, OnTurn
<1> QED BY <1>3, <1>4 DEF BeginFinalSync, Works, Fails, Rest, Refused, Stays

LEMMA CompleteInitializationKeeps ==
    ASSUME AgentInv, NEW j \in Jobs, CompleteInitialization(j)
    PROVE  AgentInv' /\ SettledStep
<1> DEFINE m == jobs[j].m
           s == jobs[j].s
           t == jobs[j].t
<1>1. /\ m \in Meetings /\ s \in Sessions /\ t \in Turns /\ s # NoSession /\ t # NoTurn
      /\ sessions[s].m = m /\ turns[t].m = m
  BY Here DEF CompleteInitialization, At, OnSession, OnTurn, OfSession, OfTurn
<1>2. CASE /\ turns[t].state = "running" /\ agent[m] = "initializing"
           /\ SetTurn(t, "completed") /\ SetSession(s, "available") /\ SetAgent(m, "available")
           /\ sessions[s].state = "starting"
           /\ Goto(j, "publish") /\ UNCHANGED <<life, minute, proc, prov, up>>
  <2>1. Rows
    BY RowTypes
  <2>2. JobsFollow
    BY <1>1, <1>2, GotoFollows DEF Places, OnSession, OnTurn
  <2> HIDE DEF m, s, t
  <2>3. /\ turns' \in [Turns -> TurnRow] /\ turns'[t].state = "completed"
        /\ \A u \in Turns : turns'[u].m = turns[u].m /\ turns'[u].s = turns[u].s
                         /\ turns'[u].kind = turns[u].kind
        /\ \A u \in Turns \ {t} : turns'[u] = turns[u]
    BY <1>1, <1>2, TurnSet DEF SettledTurn
  <2>4. /\ sessions' \in [Sessions -> SessionRow] /\ sessions'[s].state = "available"
        /\ \A r \in Sessions : sessions'[r].m = sessions[r].m
        /\ \A r \in Sessions \ {s} : sessions'[r] = sessions[r]
    BY <1>1, <1>2, SessionSet
  <2>5. /\ agent' \in [Meetings -> AgentStates] /\ agent'[m] = "available"
        /\ \A n \in Meetings \ {m} : agent'[n] = agent[n]
    BY <1>1, <1>2, AgentSet DEF AgentStates
  <2>6. RowsTyped'
    BY <1>2, <2>1, <2>3, <2>4, <2>5 DEF Rows, RowsTyped
  <2>7. BusyHasTurn'
    <3> SUFFICES ASSUME NEW n \in Meetings, agent'[n] = "busy"
                 PROVE  \E u \in ActiveTurns(n)' : turns'[u].kind \in {"answer", "ingest"}
      BY DEF BusyHasTurn
    <3>1. n # m /\ agent[n] = "busy"
      BY <2>5
    <3>2. PICK u \in ActiveTurns(n) : turns[u].kind \in {"answer", "ingest"}
      BY <2>1, <3>1 DEF Rows, BusyHasTurn
    <3>3. u # t
      BY <1>1, <3>1, <3>2 DEF ActiveTurns
    <3> QED BY <2>3, <3>2, <3>3 DEF ActiveTurns
  <2>8. AvailableHasSession'
    <3> SUFFICES ASSUME NEW n \in Meetings, agent'[n] \in {"available", "busy"}, life'[n] = "recording"
                 PROVE  \E r \in ActiveSessions(n)' : sessions'[r].state = "available"
      BY DEF AvailableHasSession
    <3>1. CASE n = m
      BY <1>1, <2>4, <3>1 DEF ActiveSessions, ActiveSession
    <3>2. CASE n # m
      <4>1. PICK r \in ActiveSessions(n) : sessions[r].state = "available"
        BY <1>2, <2>1, <2>5, <3>2 DEF Rows, AvailableHasSession
      <4> QED BY <2>4, <4>1 DEF ActiveSessions
    <3> QED BY <3>1, <3>2
  <2>9. RowsFit'
    BY <1>1, <1>2, <2>1, <2>3, <2>4, <2>5 DEF Rows, RowsFit
  <2>10. RowsGrow /\ SettledStep
    BY <1>2, <2>3, <2>4 DEF RowsGrow, SettledStep, SettledTurn
  <2> QED BY <1>2, <2>2, <2>6, <2>7, <2>8, <2>9, <2>10,
             StepKeeps, OwnersStay, ProviderStays, UpStays DEF RowsStep, Rows
<1>3. CASE Stays(j, "close")
  BY <1>1, <1>3, StaysKeeps DEF Places, OnSession, OnTurn
<1> QED BY <1>2, <1>3
        DEF CompleteInitialization, OfTurn, OfSession, Works, Fails, Rest, Refused, Stays

(* The turns of one session, of one kind, are given up.                    *)
LEMMA GivenUp ==
    ASSUME AgentInv, NEW S \in SUBSET {u \in Turns : turns[u].state \in ActiveTurn},
           turns' = [u \in Turns |-> IF u \in S THEN [turns[u] EXCEPT !.state = "failed"] ELSE turns[u]]
    PROVE  /\ turns' \in [Turns -> TurnRow]
           /\ \A u \in Turns : turns'[u].m = turns[u].m /\ turns'[u].s = turns[u].s
                            /\ turns'[u].kind = turns[u].kind
           /\ \A u \in Turns \ S : turns'[u] = turns[u]
           /\ \A u \in S : turns[u].state \in ActiveTurn /\ turns'[u].state = "failed"
<1>1. turns \in [Turns -> TurnRow]
  BY RowTypes DEF Rows, RowsTyped
<1>2. ASSUME NEW u \in Turns
      PROVE  /\ [turns[u] EXCEPT !.state = "failed"] \in TurnRow
             /\ [turns[u] EXCEPT !.state = "failed"].m = turns[u].m
             /\ [turns[u] EXCEPT !.state = "failed"].s = turns[u].s
             /\ [turns[u] EXCEPT !.state = "failed"].kind = turns[u].kind
             /\ [turns[u] EXCEPT !.state = "failed"].state = "failed"
  BY <1>1 DEF TurnRow, SettledTurn
<1> QED BY <1>1, <1>2

LEMMA FailInitializationKeeps ==
    ASSUME AgentInv, NEW j \in Jobs, FailInitialization(j)
    PROVE  AgentInv' /\ SettledStep
<1> DEFINE m == jobs[j].m
           s == jobs[j].s
           S == {t \in Turns : turns[t].s = s /\ turns[t].state \in ActiveTurn}
<1>1. /\ m \in Meetings /\ s \in Sessions /\ s # NoSession
      /\ sessions[s].m = m /\ sessions[s].state # "none"
  BY Here DEF FailInitialization, At, OnSession, OfSession
<1>2. CASE /\ agent[m] = "initializing"
           /\ SetSession(s, "failed") /\ SetAgent(m, "unavailable")
           /\ turns' = [t \in Turns |->
                IF turns[t].s = s /\ turns[t].state \in ActiveTurn
                THEN [turns[t] EXCEPT !.state = "failed"] ELSE turns[t]]
           /\ Goto(j, "release") /\ UNCHANGED <<life, minute, proc, prov, up>>
  <2>1. Rows
    BY RowTypes
  <2>2. JobsFollow
    BY <1>2, GotoFollows DEF Places, Elsewhere, OnSession, OnTurn
  <2> HIDE DEF m, s
  <2>3. /\ turns' \in [Turns -> TurnRow]
        /\ \A u \in Turns : turns'[u].m = turns[u].m /\ turns'[u].s = turns[u].s
                         /\ turns'[u].kind = turns[u].kind
        /\ \A u \in Turns \ S : turns'[u] = turns[u]
        /\ \A u \in S : turns[u].state \in ActiveTurn /\ turns'[u].state = "failed"
    <3>1. S \in SUBSET {u \in Turns : turns[u].state \in ActiveTurn}
      OBVIOUS
    <3>2. turns' = [u \in Turns |-> IF u \in S THEN [turns[u] EXCEPT !.state = "failed"] ELSE turns[u]]
      BY <1>2
    <3> HIDE DEF S
    <3> QED BY <3>1, <3>2, GivenUp
  <2>4. /\ sessions' \in [Sessions -> SessionRow] /\ sessions'[s].state = "failed"
        /\ \A r \in Sessions : sessions'[r].m = sessions[r].m
        /\ \A r \in Sessions \ {s} : sessions'[r] = sessions[r]
    BY <1>1, <1>2, SessionSet
  <2>5. /\ agent' \in [Meetings -> AgentStates] /\ agent'[m] = "unavailable"
        /\ \A n \in Meetings \ {m} : agent'[n] = agent[n]
    BY <1>1, <1>2, AgentSet DEF AgentStates
  <2>6. RowsTyped'
    BY <1>2, <2>1, <2>3, <2>4, <2>5 DEF Rows, RowsTyped
  <2>7. \A u \in S : turns[u].m = m
    BY <1>1, <2>1 DEF Rows, RowsFit, ActiveTurn
  <2>8. BusyHasTurn'
    <3> SUFFICES ASSUME NEW n \in Meetings, agent'[n] = "busy"
                 PROVE  \E u \in ActiveTurns(n)' : turns'[u].kind \in {"answer", "ingest"}
      BY DEF BusyHasTurn
    <3>1. n # m /\ agent[n] = "busy"
      BY <2>5
    <3>2. PICK u \in ActiveTurns(n) : turns[u].kind \in {"answer", "ingest"}
      BY <2>1, <3>1 DEF Rows, BusyHasTurn
    <3>3. u \in Turns \ S /\ turns[u].m = n /\ turns[u].state \in ActiveTurn
      BY <2>7, <3>1, <3>2 DEF ActiveTurns
    <3> HIDE DEF S
    <3> QED BY <2>3, <3>2, <3>3 DEF ActiveTurns
  <2>9. AvailableHasSession'
    <3> SUFFICES ASSUME NEW n \in Meetings, agent'[n] \in {"available", "busy"}, life'[n] = "recording"
                 PROVE  \E r \in ActiveSessions(n)' : sessions'[r].state = "available"
      BY DEF AvailableHasSession
    <3>1. n # m /\ agent[n] \in {"available", "busy"} /\ life[n] = "recording"
      BY <1>2, <2>5
    <3>2. PICK r \in ActiveSessions(n) : sessions[r].state = "available"
      BY <2>1, <3>1 DEF Rows, AvailableHasSession
    <3>3. r # s
      BY <1>1, <3>1, <3>2 DEF ActiveSessions
    <3> QED BY <2>4, <3>2, <3>3 DEF ActiveSessions
  <2> HIDE DEF S
  <2>10. \A u \in Turns : /\ turns'[u].state # "none" => turns[u].state # "none"
                          /\ turns[u].state # "none" => turns'[u].state # "none"
    BY <2>3 DEF ActiveTurn
  <2>11. RowsFit'
    <3>1. \A n \in Meetings : life'[n] = "none" => agent'[n] = "unchecked"
      BY <1>1, <1>2, <2>1, <2>5 DEF Rows, RowsFit
    <3>2. \A r \in Sessions : /\ sessions'[r].state # "none" => sessions[r].state # "none"
                              /\ sessions[r].state # "none" => sessions'[r].state # "none"
      BY <1>1, <2>4
    <3> QED BY <1>2, <2>1, <2>3, <2>4, <2>10, <3>1, <3>2 DEF Rows, RowsFit
  <2>12. RowsGrow /\ SettledStep
    <3>1. \A u \in Turns : turns[u].state \in SettledTurn => turns'[u] = turns[u]
      BY <2>3 DEF ActiveTurn, SettledTurn
    <3> QED BY <2>3, <2>4, <2>10, <3>1 DEF RowsGrow, SettledStep
  <2> QED BY <1>2, <2>2, <2>6, <2>8, <2>9, <2>11, <2>12,
             StepKeeps, OwnersStay, ProviderStays, UpStays DEF RowsStep, Rows
<1>3. CASE Stays(j, "release")
  BY <1>3, StaysKeeps DEF Places, Elsewhere, OnSession, OnTurn
<1> QED BY <1>2, <1>3 DEF FailInitialization, OfSession, Works, Fails, Rest, Refused, Stays

-----------------------------------------------------------------------------
(* The meeting, a crash and the recovery of the rows.                      *)

(* A meeting goes on from a life in which it has rows, or from none into   *)
(* its recording, for which it has none yet.                               *)
LEMMA LifeRows ==
    ASSUME AgentInv, UNCHANGED <<agent, minute, sessions, turns>>,
           life' \in [Meetings -> {"none", "recording", "finalizing", "ended"}],
           \A n \in Meetings : /\ life'[n] = "none" => life[n] = "none"
                               /\ life'[n] = "recording" => life[n] \in {"none", "recording"}
    PROVE  RowsStep
<1>1. Rows
  BY RowTypes
<1>2. RowsTyped' /\ BusyHasTurn'
  BY <1>1 DEF Rows, RowsTyped, BusyHasTurn, ActiveTurns
<1>3. AvailableHasSession'
  <2> SUFFICES ASSUME NEW n \in Meetings, agent[n] \in {"available", "busy"}, life'[n] = "recording"
               PROVE  \E r \in ActiveSessions(n) : sessions[r].state = "available"
    BY DEF AvailableHasSession, ActiveSessions
  <2>1. life[n] # "none"
    BY <1>1 DEF Rows, RowsFit
  <2> QED BY <1>1, <2>1 DEF Rows, AvailableHasSession
<1>4. RowsFit'
  <2>1. \A r \in Sessions : sessions[r].m \in Meetings
    BY <1>1 DEF Rows, RowsTyped, SessionRow
  <2> QED BY <1>1, <2>1 DEF Rows, RowsFit
<1> QED BY <1>2, <1>3, <1>4 DEF RowsStep, Rows, RowsGrow, SettledStep

LEMMA LifeSet ==
    ASSUME AgentInv, NEW m \in Meetings, NEW x \in {"recording", "finalizing", "ended"},
           life' = [life EXCEPT ![m] = x],
           life[m] = (IF x = "recording" THEN "none" ELSE IF x = "finalizing" THEN "recording" ELSE "finalizing"),
           UNCHANGED <<agent, minute, sessions, turns>>
    PROVE  RowsStep
<1>1. life \in [Meetings -> {"none", "recording", "finalizing", "ended"}]
  BY RowTypes DEF Rows, RowsTyped
<1> QED BY <1>1, LifeRows

LEMMA StartMeetingKeeps ==
    ASSUME AgentInv, NEW j \in Jobs, NEW m \in Meetings, StartMeeting(j, m)
    PROVE  AgentInv' /\ SettledStep
<1>1. RowsStep /\ UNCHANGED <<proc, prov, up>>
  BY LifeSet DEF StartMeeting
<1>2. "reserve" \in Places /\ "reserve" \notin OnSession /\ "reserve" \notin OnTurn
  BY DEF Places, Elsewhere, OnSession, OnTurn
<1>3. [Idle EXCEPT !.kind = "init", !.m = m, !.pc = "reserve"]
        = [Idle EXCEPT !.kind = "init", !.m = m, !.pc = "reserve", !.s = NoSession]
  <2>1. [Idle EXCEPT !.s = NoSession] = Idle
    BY DEF Idle
  <2> QED BY <2>1, IdleIsTyped DEF JobRecord
<1>4. jobs' = [jobs EXCEPT ![j] =
        [Idle EXCEPT !.kind = "init", !.m = m, !.pc = "reserve", !.s = NoSession]]
  BY <1>3, Zenon DEF StartMeeting
<1>5. NoSession \in Sessions \cup {NoSession}
  OBVIOUS
<1>6. JobsFollow
  BY <1>2, <1>4, <1>5, StartFollows
<1> QED BY <1>1, <1>6, StepKeeps, OwnersStay, ProviderStays, UpStays

LEMMA MeetingEndsKeep ==
    ASSUME AgentInv, NEW m \in Meetings, EndMeeting(m) \/ Saved(m)
    PROVE  AgentInv' /\ SettledStep
<1>1. RowsStep /\ UNCHANGED <<proc, prov, up>>
  BY LifeSet DEF EndMeeting, Saved, Works, Rest
<1>2. OwnersTyped /\ jobs \in [Jobs -> JobRecord]
  BY Typed DEF AgentInv, JobsTyped
<1>3. jobs' = jobs \/ \E i \in Jobs : jobs' = [jobs EXCEPT ![i].stop = "cancel"]
  BY <1>2 DEF EndMeeting, Saved, Interrupted, OwnersTyped
<1>4. JobsFollow
  <2>1. CASE jobs' = jobs
    BY <1>2, <2>1, AllFollow DEF Same, JobsTyped
  <2> QED BY <1>3, <2>1, StopFollows
<1> QED BY <1>1, <1>4, StepKeeps, OwnersStay, ProviderStays, UpStays

LEMMA CrashKeeps ==
    ASSUME AgentInv, Crash
    PROVE  AgentInv' /\ SettledStep
<1>1. life \in [Meetings -> {"none", "recording", "finalizing", "ended"}]
  BY RowTypes DEF Rows, RowsTyped
<1>2. RowsStep
  <2>1. UNCHANGED <<agent, minute, sessions, turns>>
    BY DEF Crash
  <2>2. /\ life' \in [Meetings -> {"none", "recording", "finalizing", "ended"}]
        /\ \A n \in Meetings : /\ life'[n] = "none" => life[n] = "none"
                               /\ life'[n] = "recording" => life[n] \in {"none", "recording"}
    BY <1>1 DEF Crash
  <2> QED BY <2>1, <2>2, LifeRows
<1>3. JobsFollow
  <2>1. jobs' = [i \in Jobs |-> Idle]
    BY DEF Crash
  <2>2. Idle.pc = "idle" /\ Idle.s = NoSession /\ Idle.t = NoTurn
    BY DEF Idle
  <2> QED BY <2>1, <2>2, IdleIsTyped DEF JobsFollow, JobsTyped, Follows, OnSession, OnTurn
<1>4. OwnersTyped' /\ ProviderTyped' /\ UpTyped'
  BY DEF Crash, OwnersTyped, ProviderTyped, UpTyped
<1> QED BY <1>2, <1>3, <1>4, StepKeeps

LEMMA RecoveredTurns ==
    ASSUME AgentInv, NEW kind, turns' = Recovered(kind)
    PROVE  /\ turns' \in [Turns -> TurnRow]
           /\ \A u \in Turns :
                /\ turns'[u].m = turns[u].m /\ turns'[u].s = turns[u].s /\ turns'[u].kind = turns[u].kind
                /\ turns[u].state # "none" <=> turns'[u].state # "none"
                /\ turns[u].kind # kind => turns'[u] = turns[u]
                /\ turns[u].state \in SettledTurn => turns'[u] = turns[u]
<1> DEFINE S == {u \in Turns : turns[u].kind = kind /\ turns[u].state \in ActiveTurn}
<1>1. S \in SUBSET {u \in Turns : turns[u].state \in ActiveTurn}
  OBVIOUS
<1>2. turns' = [u \in Turns |-> IF u \in S THEN [turns[u] EXCEPT !.state = "failed"] ELSE turns[u]]
  BY DEF Recovered
<1>3. /\ \A u \in Turns : turns[u].kind # kind => u \notin S
      /\ \A u \in Turns : turns[u].state \in SettledTurn => u \notin S
  BY DEF ActiveTurn, SettledTurn
<1> HIDE DEF S
<1>4. /\ turns' \in [Turns -> TurnRow]
      /\ \A u \in Turns : turns'[u].m = turns[u].m /\ turns'[u].s = turns[u].s
                       /\ turns'[u].kind = turns[u].kind
      /\ \A u \in Turns \ S : turns'[u] = turns[u]
      /\ \A u \in S : turns[u].state \in ActiveTurn /\ turns'[u].state = "failed"
  BY <1>1, <1>2, GivenUp
<1> QED BY <1>3, <1>4 DEF ActiveTurn

LEMMA RecoveryKeeps ==
    ASSUME AgentInv, Recovery
    PROVE  AgentInv' /\ SettledStep
<1>1. Rows
  BY RowTypes
<1>2. PICK kind \in {"minutes", "ingest"} :
         /\ turns' = Recovered(kind) /\ UNCHANGED <<life, sessions, proc, prov, jobs>>
         /\ minute' = [m \in Meetings |-> IF kind = "minutes" /\ m \in Leftover(kind)
                                          THEN "failed" ELSE minute[m]]
         /\ agent' = [m \in Meetings |-> IF kind = "ingest" /\ m \in Leftover(kind)
                                         THEN "unsynced" ELSE agent[m]]
  <2>1. minute = [m \in Meetings |-> minute[m]] /\ agent = [m \in Meetings |-> agent[m]]
    BY <1>1 DEF Rows, RowsTyped
  <2>2. CASE RecoverInterruptedTurns
    BY <2>1, <2>2 DEF RecoverInterruptedTurns
  <2>3. CASE RecoverFinalSyncState
    BY <2>1, <2>3 DEF RecoverFinalSyncState
  <2> QED BY <2>2, <2>3 DEF Recovery
<1>3. /\ turns' \in [Turns -> TurnRow]
      /\ \A u \in Turns :
           /\ turns'[u].m = turns[u].m /\ turns'[u].s = turns[u].s /\ turns'[u].kind = turns[u].kind
           /\ turns[u].state # "none" <=> turns'[u].state # "none"
           /\ turns[u].kind # kind => turns'[u] = turns[u]
           /\ turns[u].state \in SettledTurn => turns'[u] = turns[u]
  BY <1>2, RecoveredTurns
<1>4. \A m \in Leftover(kind) : \E u \in Turns : turns[u].m = m /\ turns[u].state # "none"
  BY DEF Leftover, ActiveTurn
<1>5. \A u \in Turns : turns[u].kind = kind /\ turns[u].state \in ActiveTurn
                          => turns[u].m \in Leftover(kind)
  BY DEF Leftover
<1>6. \A m \in Meetings : agent'[m] # agent[m] => m \in Leftover(kind) /\ agent'[m] = "unsynced"
  BY <1>2
<1>7. RowsTyped'
  BY <1>1, <1>2, <1>3 DEF Rows, RowsTyped, AgentStates
<1>8. BusyHasTurn'
  <2> SUFFICES ASSUME NEW n \in Meetings, agent'[n] = "busy"
               PROVE  \E u \in ActiveTurns(n)' : turns'[u].kind \in {"answer", "ingest"}
    BY DEF BusyHasTurn
  <2>1. agent[n] = "busy" /\ (kind = "ingest" => n \notin Leftover(kind))
    BY <1>2
  <2>2. PICK u \in ActiveTurns(n) : turns[u].kind \in {"answer", "ingest"}
    BY <1>1, <2>1 DEF Rows, BusyHasTurn
  <2>3. u \in Turns /\ turns[u].m = n /\ turns[u].state \in ActiveTurn
    BY <2>2 DEF ActiveTurns
  <2>4. turns[u].kind # kind
    BY <1>2, <1>5, <2>1, <2>2, <2>3
  <2>5. turns'[u] = turns[u]
    BY <1>3, <2>3, <2>4
  <2> QED BY <2>2, <2>3, <2>5 DEF ActiveTurns
<1>9. AvailableHasSession'
  <2> SUFFICES ASSUME NEW n \in Meetings, agent'[n] \in {"available", "busy"}, life'[n] = "recording"
               PROVE  \E r \in ActiveSessions(n) : sessions[r].state = "available"
    BY <1>2 DEF AvailableHasSession, ActiveSessions
  <2>1. agent[n] \in {"available", "busy"} /\ life[n] = "recording"
    BY <1>2, <1>6
  <2> QED BY <1>1, <2>1 DEF Rows, AvailableHasSession
<1>10. RowsFit'
  <2>1. \A m \in Leftover(kind) : life[m] # "none"
    BY <1>1, <1>4 DEF Rows, RowsFit
  <2>2. \A n \in Meetings : life'[n] = "none" => agent'[n] = "unchecked"
    BY <1>1, <1>2, <1>6, <2>1 DEF Rows, RowsFit
  <2> QED BY <1>1, <1>2, <1>3, <2>2 DEF Rows, RowsFit
<1>11. RowsGrow /\ SettledStep
  BY <1>2, <1>3 DEF RowsGrow, SettledStep
<1>12. JobsFollow
  BY <1>2, Typed, AllFollow DEF AgentInv, JobsTyped, Same
<1>13. UpTyped'
  BY DEF Recovery, RecoverInterruptedTurns, RecoverFinalSyncState, UpTyped
<1> QED BY <1>2, <1>7, <1>8, <1>9, <1>10, <1>11, <1>12, <1>13,
           StepKeeps, OwnersStay, ProviderStays DEF RowsStep, Rows

-----------------------------------------------------------------------------
(* The invariant.                                                          *)

LEMMA InitHolds == Init => AgentInv
<1> SUFFICES ASSUME Init PROVE AgentInv
  OBVIOUS
<1> DEFINE first == CHOOSE m \in Meetings : TRUE
<1>1. first \in Meetings
  BY BoundsAssumption
<1> HIDE DEF first
<1>2. \A s \in Sessions : sessions[s] = [m |-> first, state |-> "none"]
  BY Zenon DEF Init, FreshSession, first
<1>3. \A t \in Turns : turns[t] = [m |-> first, s |-> NoSession, kind |-> "none", state |-> "none"]
  BY Zenon DEF Init, FreshTurn, first
<1>4. sessions \in [Sessions -> SessionRow]
  <2>1. sessions = [s \in Sessions |-> [m |-> first, state |-> "none"]]
    BY Zenon DEF Init, FreshSession, first
  <2> QED BY <1>1, <2>1 DEF SessionRow
<1>5. turns \in [Turns -> TurnRow]
  <2>1. turns = [t \in Turns |-> [m |-> first, s |-> NoSession, kind |-> "none", state |-> "none"]]
    BY Zenon DEF Init, FreshTurn, first
  <2> QED BY <1>1, <2>1 DEF TurnRow
<1>6. RowsTyped
  BY <1>4, <1>5 DEF Init, RowsTyped, AgentStates
<1>7. OwnersTyped
  <2>1. retrying \in BOOLEAN
    BY Zenon DEF Init
  <2> QED BY <2>1 DEF Init, OwnersTyped
<1>8. ProviderTyped /\ UpTyped
  BY DEF Init, ProviderTyped, UpTyped
<1>9. JobsTyped
  BY IdleIsTyped, Zenon DEF Init, JobsTyped
<1>10. \A i \in Jobs : jobs[i].pc = "idle" /\ jobs[i].s = NoSession /\ jobs[i].t = NoTurn
  BY DEF Init, Idle
<1>11. JobsFit
  BY <1>10 DEF JobsFit, OnSession, OnTurn
<1>12. BusyHasTurn /\ AvailableHasSession
  BY DEF Init, BusyHasTurn, AvailableHasSession
<1>13. RowsFit
  BY <1>2, <1>3 DEF Init, RowsFit
<1> QED BY <1>6, <1>7, <1>8, <1>9, <1>11, <1>12, <1>13, Typed DEF AgentInv

LEMMA StutterKeeps ==
    ASSUME AgentInv, UNCHANGED vars
    PROVE  AgentInv' /\ SettledStep
<1>1. UNCHANGED <<db, proc, prov, up>> /\ jobs' = jobs
  BY DEF vars
<1>2. JobsFollow
  BY <1>1, Typed, AllFollow DEF AgentInv, JobsTyped, Same
<1> QED BY <1>1, <1>2, QuietKeeps, OwnersStay, ProviderStays, UpStays

LEMMA JobStepKeeps ==
    ASSUME AgentInv, NEW j \in Jobs, JobStep(j)
    PROVE  AgentInv' /\ SettledStep
<1>1. CASE ShutdownInit(j) \/ ShutdownDrained(j) \/ ShutdownExpired(j) \/ TakeOwner(j)
           \/ CloseOwned(j) \/ CloseFailed(j) \/ CloseResumed(j) \/ EndOwned(j)
           \/ EndStaleSession(j) \/ FailPostMeetingSession(j) \/ JobEnds(j)
  BY <1>1, ShutdownInitKeeps, ShutdownStepsKeep, TakeOwnerKeeps, ClosesKeep, SessionEndsKeep,
     JobEndsKeeps
<1>2. CASE Reserve(j) \/ BeginInitialization(j) \/ BeginPostMeetingSession(j) \/ OpenProvider(j)
           \/ ResumeSession(j) \/ SetSessionThread(j) \/ CompleteInitialization(j)
           \/ FailInitialization(j) \/ Publish(j) \/ ReleaseOwner(j) \/ FinishInitializeOwner(j)
  BY <1>2, ReserveKeeps, BeginsKeep, OpenKeeps, SetSessionThreadKeeps,
     CompleteInitializationKeeps, FailInitializationKeeps, OwnerStepsKeep, FinishInitializeOwnerKeeps
<1>3. CASE EnsureLook(j) \/ GenerationUnready(j) \/ ReuseSession(j)
           \/ ReopenPostMeetingSession(j) \/ ActivatePostMeetingSession(j)
  BY <1>3, LooksKeep, ReuseSessionKeeps, AvailablesKeep
<1>4. CASE RunTurn(j) \/ MarkTurnRunning(j) \/ TurnSettles(j) \/ BeginJob(j) \/ BeginGeneration(j)
           \/ Drop(j) \/ EndJob(j) \/ EndGeneration(j)
  BY <1>4, RunTurnKeeps, MarkTurnRunningKeeps, TurnSettlesKeeps, ClaimsKeep, ReturnsKeep
<1>5. CASE CreateTurn(j) \/ CreateQuestion(j) \/ BeginMinutesTurn(j) \/ BeginFinalSync(j)
           \/ CommitTurnSuccess(j) \/ FailTurn(j) \/ CompleteFinalSync(j) \/ FailFinalSync(j)
           \/ MarkFinalSyncUnsynced(j) \/ CommitGeneratedMinute(j) \/ FailMinutesTurn(j)
  BY <1>5, CreatesKeep, BeginFinalSyncKeeps, QuestionsEndKeep, FinalSyncEndsKeep,
     MarkFinalSyncUnsyncedKeeps, MinutesEndKeep
<1> QED BY <1>1, <1>2, <1>3, <1>4, <1>5 DEF JobStep

LEMMA NextKeeps ==
    ASSUME AgentInv, [Next]_vars
    PROVE  AgentInv' /\ SettledStep
<1>1. ASSUME NEW j \in Jobs, JobStep(j) \/ Timeout(j)
      PROVE  AgentInv' /\ SettledStep
  BY <1>1, JobStepKeeps, StopsKeep
<1>2. ASSUME NEW j \in Jobs, NEW m \in Meetings,
             StartMeeting(j, m) \/ CallRetry(j, m) \/ CallPostMeeting(j, m) \/ Ask(j, m)
      PROVE  AgentInv' /\ SettledStep
  BY <1>2, StartMeetingKeeps, CallsKeep, AskKeeps
<1>3. ASSUME NEW m \in Meetings, EndMeeting(m) \/ Saved(m) \/ Interrupt(m)
      PROVE  AgentInv' /\ SettledStep
  BY <1>3, MeetingEndsKeep, StopsKeep
<1>4. CASE TurnCompleted \/ ProviderDies \/ StopGeneration \/ Crash \/ Recovery
  BY <1>4, AnswersKeep, StopsKeep, CrashKeeps, RecoveryKeeps
<1>5. CASE UNCHANGED vars
  BY <1>5, StutterKeeps
<1> QED BY <1>1, <1>2, <1>3, <1>4, <1>5 DEF Next

(* The rows of a meeting, its sessions and its turns agree, for any        *)
(* meetings, calls, bounds and failures: a busy meeting has an unsettled   *)
(* turn to show for it, a recorded meeting that takes questions a session  *)
(* to ask, and every call acts on rows of its own meeting and kind.        *)
THEOREM AgentHolds == Spec => []AgentInv
<1>1. AgentInv /\ [Next]_vars => AgentInv'
  BY NextKeeps
<1> QED BY <1>1, InitHolds, PTL DEF Spec

(* A settled turn is settled once, whichever of the answer, the            *)
(* cancellation, the deadline, the shutdown or the recovery comes second.  *)
THEOREM SettledStay == Spec => SettledTurnsStay
<1>1. AgentInv /\ [Next]_vars => [SettledStep]_vars
  BY NextKeeps
<1>2. [SettledStep]_vars => [\A t \in Turns : turns[t].state \in SettledTurn =>
    \/ turns'[t] = turns[t]
    \/ turns[t].kind = "ingest" /\ turns[t].state # "completed" /\ turns'[t].state = "pending"]_vars
  BY DEF SettledStep
<1> QED BY <1>1, <1>2, AgentHolds, PTL DEF Spec, SettledTurnsStay
=============================================================================
