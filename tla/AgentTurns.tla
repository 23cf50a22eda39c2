---------------------------- MODULE AgentTurns ----------------------------
(***************************************************************************)
(* The Codex work of a meeting: the sessions and turns kept in SQLite, the *)
(* one app-server session the process may hold, and the four callers that  *)
(* share them: initialisation (and its retry), a question asked during the *)
(* meeting, the synchronisation after it and the generation of minutes.    *)
(*                                                                         *)
(* Source: service/agent/{orchestrator,turn_service,final_sync}.go,        *)
(* service/minutes/generation.go, repository/agent/*.go,                   *)
(* repository/minutes/{repository,transactions}.go and the session owner   *)
(* of adapter/agent/codex/provider.go.                                     *)
(*                                                                         *)
(* A job is one call of one of the four entry points.  Every step of a job *)
(* is one database transaction, one call of the provider or one critical   *)
(* section of a mutex; a transaction that finds another state than the one *)
(* its WHERE clause names changes nothing and takes the error path.        *)
(* Prompts, schemas, snapshots and answers are abstract, a turn is one     *)
(* unit of work with no batch row of its own, and a repeated request key   *)
(* (which returns the turn there is) is left out.                          *)
(***************************************************************************)
EXTENDS Naturals, FiniteSets

CONSTANTS
    Meetings,
    Jobs,           \* calls in flight at a time
    MaxSessions,    \* bound: rows of agent_sessions
    MaxTurns,       \* bound: rows of agent_turns
    MaxCalls,       \* bound: calls of the entry points
    MaxFaults,      \* bound: statements and provider calls that fail, and crashes
    Kinds           \* the entry points this instance exercises

ASSUME BoundsAssumption ==
    /\ {MaxSessions, MaxTurns, MaxCalls, MaxFaults} \subseteq Nat
    /\ Meetings # {}
    /\ Kinds \subseteq {"init", "retry", "ask", "sync", "minutes"}

CONSTANT NoJob
ASSUME NoJobAssumption == NoJob \notin Jobs

Sessions == 1..MaxSessions
Turns    == 1..MaxTurns
\* orchestrator.current: nil, the placeholder of reserveOwner, or a session.
NoOwner  == 0
Reserved == MaxSessions + 1
NoSession == 0
NoTurn    == 0

VARIABLES
    life,      \* meetings.lifecycle_state
    agent,     \* meetings.agent_state
    minute,    \* meetings.minute_state
    sessions,  \* agent_sessions
    turns,     \* agent_turns
    owner,     \* orchestrator.current
    initJob,   \* the job behind orchestrator.initDone, NoJob for nil
    retrying,  \* orchestrator.retrying
    asking,    \* TurnService.current
    making,    \* GenerationService.active
    attached,  \* the session in provider.sessions, of which there is at most one
    active,    \* the turn the app-server is running (runtime.active)
    jobs,      \* the calls in flight
    up,        \* the process: running, or the recovery step it is at
    calls, faults

db   == <<life, agent, minute, sessions, turns>>
proc == <<owner, initJob, retrying, asking, making>>
prov == <<attached, active>>
vars == <<db, proc, prov, jobs, up, calls, faults>>

ActiveTurn    == {"pending", "running"}
SettledTurn   == {"completed", "failed", "cancelled", "timed_out"}
ActiveSession == {"starting", "available"}
PostMeeting   == {"sync", "minutes"}
Starting      == {"init", "retry"}
OfKind == [init |-> "initialize", retry |-> "initialize", ask |-> "answer",
           sync |-> "ingest", minutes |-> "minutes"]

Idle  == [kind |-> "none", m |-> CHOOSE m \in Meetings : TRUE, pc |-> "idle",
          s |-> NoSession, t |-> NoTurn, stop |-> "no", ev |-> "none",
          cur |-> NoSession, on |-> NoJob]
FreshSession == [m |-> CHOOSE m \in Meetings : TRUE, state |-> "none"]
FreshTurn    == [m |-> CHOOSE m \in Meetings : TRUE, s |-> NoSession,
                 kind |-> "none", state |-> "none"]

\* Where a call is: where it uses its session, its turn, or neither.
OnSession == {"resume", "open", "thread", "turn", "create", "reopen", "reclose", "activate",
              "publish", "ready", "claim", "close", "failrow", "own", "run", "started", "wait", "commit"}
OnTurn == {"own", "run", "started", "wait", "commit", "fail"}
Elsewhere == {"idle", "shut", "drain", "take", "shut_close", "shut_end", "end", "reserve",
              "begin", "newrow", "release", "failed", "unready", "unready_claimed",
              "look", "reuse", "stale", "drop", "resume_media", "made"}
Places == OnSession \cup OnTurn \cup Elsewhere
JobRecord == [kind : {"none", "init", "retry", "ask", "sync", "minutes"}, m : Meetings,
    pc : Places, s : Sessions \cup {NoSession}, t : Turns \cup {NoTurn},
    stop : {"no", "cancel", "deadline"}, ev : {"none", "done", "failed", "cancelled", "lost"},
    cur : Sessions \cup {NoOwner, Reserved}, on : Jobs \cup {NoJob}]

TypeOK ==
    /\ life \in [Meetings -> {"none", "recording", "finalizing", "ended"}]
    /\ agent \in [Meetings -> {"unchecked", "initializing", "available", "busy",
                               "unavailable", "unsynced"}]
    /\ minute \in [Meetings -> {"not_generated", "generating", "draft", "failed"}]
    /\ sessions \in [Sessions -> [m : Meetings,
         state : {"none", "starting", "available", "ended", "failed"}]]
    /\ turns \in [Turns -> [m : Meetings, s : Sessions \cup {NoSession},
         kind : {"none", "initialize", "answer", "ingest", "minutes"},
         state : {"none"} \cup ActiveTurn \cup SettledTurn]]
    /\ owner \in Sessions \cup {NoOwner, Reserved}
    /\ attached \in Sessions \cup {NoSession}
    /\ active \in Turns \cup {NoTurn}
    /\ {initJob, asking, making} \subseteq Jobs \cup {NoJob}
    /\ retrying \in BOOLEAN
    /\ jobs \in [Jobs -> JobRecord]
    /\ up \in {"up", "minutes", "agent"}

Init ==
    /\ life = [m \in Meetings |-> "none"]
    /\ agent = [m \in Meetings |-> "unchecked"]
    /\ minute = [m \in Meetings |-> "not_generated"]
    /\ sessions = [s \in Sessions |-> FreshSession]
    /\ turns = [t \in Turns |-> FreshTurn]
    /\ owner = NoOwner /\ initJob = NoJob /\ retrying = FALSE
    /\ asking = NoJob /\ making = NoJob
    /\ attached = NoSession /\ active = NoTurn
    /\ jobs = [j \in Jobs |-> Idle]
    /\ up = "up" /\ calls = 0 /\ faults = 0

-----------------------------------------------------------------------------
\* The rows a transaction looks for.

ActiveSessions(m) == {s \in Sessions : sessions[s].m = m /\ sessions[s].state \in ActiveSession}
MeetingSessions(m) == {s \in Sessions : sessions[s].m = m /\ sessions[s].state # "none"}
ActiveTurns(m) == {t \in Turns : turns[t].m = m /\ turns[t].state \in ActiveTurn}
Latest(S) == CHOOSE s \in S : \A r \in S : r <= s
FreeSessions == {s \in Sessions : sessions[s].state = "none"}
FreeTurns    == {t \in Turns : turns[t].state = "none"}
NextRow(S)   == CHOOSE s \in S : \A r \in S : s <= r
\* HasSuccessfulAgentSession
Initialized(m) == \E t \in Turns :
    turns[t].m = m /\ turns[t].kind = "initialize" /\ turns[t].state = "completed"

SetAgent(m, state)   == agent' = [agent EXCEPT ![m] = state]
SetMinute(m, state)  == minute' = [minute EXCEPT ![m] = state]
SetSession(s, state) == sessions' = [sessions EXCEPT ![s].state = state]
SetTurn(t, state)    == turns' = [turns EXCEPT ![t].state = state]
NewSession(s, m) == sessions' = [sessions EXCEPT ![s] = [m |-> m, state |-> "starting"]]
NewTurn(t, j)    == turns' = [turns EXCEPT ![t] =
    [m |-> jobs[j].m, s |-> jobs[j].s, kind |-> OfKind[jobs[j].kind], state |-> "pending"]]
OfTurn(j) == turns[jobs[j].t]
OfSession(j) == sessions[jobs[j].s]

\* A step of a job, and where it continues.
At(j, kinds, pc) == up = "up" /\ jobs[j].kind \in kinds /\ jobs[j].pc = pc
Goto(j, pc) == jobs' = [jobs EXCEPT ![j].pc = pc]
End(j)      == jobs' = [jobs EXCEPT ![j] = Idle]
Stopped(j)  == jobs[j].stop # "no"
\* Where stopping a call still changes what becomes of it.
Stoppable(j) == jobs[j].stop = "no" /\ jobs[j].pc \in {"run", "started", "wait", "commit"}
\* The turn is over for the call: what it knew of it no longer matters.
Past(j, pc) == jobs' = [jobs EXCEPT ![j] =
    [Idle EXCEPT !.kind = jobs[j].kind, !.m = jobs[j].m, !.pc = pc]]
Rest  == UNCHANGED <<up, calls>>
Works == faults' = faults /\ Rest
Fails == faults < MaxFaults /\ faults' = faults + 1 /\ Rest
\* A statement or call that changes nothing and returns an error: one that
\* could not succeed, or one that fails all the same.
Refused(j, can, pc) ==
    /\ IF can THEN Fails ELSE Works
    /\ Goto(j, pc)
    /\ UNCHANGED <<db, proc, prov>>

-----------------------------------------------------------------------------
\* The meeting, as far as the Codex work depends on it.

Call(j, kind, m, pc) ==
    /\ up = "up" /\ kind \in Kinds /\ jobs[j] = Idle /\ calls < MaxCalls
    /\ calls' = calls + 1
    /\ jobs' = [jobs EXCEPT ![j] = [Idle EXCEPT !.kind = kind, !.m = m, !.pc = pc]]
    /\ UNCHANGED <<db, prov, up, faults>>

\* The goroutine that initialises Codex once the recording is running.
StartMeeting(j, m) ==
    /\ life[m] = "none"
    /\ \A n \in Meetings : life[n] \in {"none", "ended"}
    /\ life' = [life EXCEPT ![m] = "recording"]
    /\ up = "up" /\ jobs[j] = Idle
    /\ jobs' = [jobs EXCEPT ![j] = [Idle EXCEPT !.kind = "init", !.m = m, !.pc = "reserve"]]
    /\ UNCHANGED <<agent, minute, sessions, turns, proc, prov, up, calls, faults>>

\* Interrupt: the job's context is cancelled; the provider may or may not end
\* the turn because of it.
Interrupted(m) ==
    IF asking # NoJob /\ jobs[asking].m = m /\ Stoppable(asking)
    THEN [jobs EXCEPT ![asking].stop = "cancel"] ELSE jobs

Interrupt(m) ==
    /\ up = "up" /\ asking # NoJob /\ Stoppable(asking)
    /\ jobs' = Interrupted(m) /\ jobs' # jobs
    /\ UNCHANGED <<db, proc, prov>> /\ Works

\* coreFinalizer.stopCapture
EndMeeting(m) ==
    /\ up = "up" /\ life[m] = "recording"
    /\ life' = [life EXCEPT ![m] = "finalizing"]
    /\ jobs' = Interrupted(m)
    /\ UNCHANGED <<agent, minute, sessions, turns, proc, prov>> /\ Works

Saved(m) ==
    /\ up = "up" /\ life[m] = "finalizing"
    /\ life' = [life EXCEPT ![m] = "ended"]
    /\ UNCHANGED <<agent, minute, sessions, turns, proc, prov, jobs>> /\ Works

-----------------------------------------------------------------------------
\* The provider: one attached session, at most one running turn.

\* What a consumer of the turn's events receives last.  "lost": the stream is
\* neither ended nor closed, because route left through the context that
\* close had cancelled.
Deliver(t, ev, js) == [j \in Jobs |->
    IF t # NoTurn /\ js[j].t = t /\ js[j].pc \in {"started", "wait"}
    THEN [js[j] EXCEPT !.ev = ev] ELSE js[j]]

TurnCompleted ==
    /\ up = "up" /\ active # NoTurn
    /\ \E ev \in {"done", "failed", "cancelled"} : jobs' = Deliver(active, ev, jobs)
    /\ active' = NoTurn
    /\ UNCHANGED <<db, proc, attached>> /\ Works

\* CloseSession of s by job j, which continues at pc.
CloseSession(j, s, pc) ==
    /\ LET js == [jobs EXCEPT ![j].pc = pc]
       IN IF attached = s
          THEN /\ \E ev \in {"cancelled", "failed", "lost"} : jobs' = Deliver(active, ev, js)
               /\ attached' = NoSession /\ active' = NoTurn
          ELSE jobs' = js /\ UNCHANGED prov
    /\ UNCHANGED <<db, proc>>

\* The process behind the attached session exits; it stays in the map.
ProviderDies ==
    /\ up = "up" /\ active # NoTurn
    /\ jobs' = Deliver(active, "failed", jobs)
    /\ active' = NoTurn
    /\ UNCHANGED <<db, proc, attached>> /\ Fails

-----------------------------------------------------------------------------
\* Orchestrator.Shutdown, run by a retry before it starts and by the
\* synchronisation and the minutes when they are done.

AfterShutdown(j) == IF jobs[j].kind = "retry" THEN "reserve" ELSE "end"
Closers == {"retry"} \cup PostMeeting

\* The mutants of the checks, each before the definition it stands in for: a
\* session that ends and leaves its meeting as it was.
EndedSession_KeepsAgent(s, state) ==
    IF s \in Sessions /\ sessions[s].state \in ActiveSession
    THEN SetSession(s, state) /\ UNCHANGED <<life, agent, minute, turns>>
    ELSE UNCHANGED db

\* EndSession
EndedSession(s, state) ==
    IF s \in Sessions /\ sessions[s].state \in ActiveSession
    THEN /\ SetSession(s, state)
         /\ IF agent[sessions[s].m] \in {"initializing", "available", "busy"}
            THEN SetAgent(sessions[s].m, "unavailable") ELSE agent' = agent
         /\ UNCHANGED <<life, minute, turns>>
    ELSE UNCHANGED db

ShutdownInit(j) ==
    /\ At(j, Closers, "shut")
    /\ jobs' = IF initJob = NoJob THEN [jobs EXCEPT ![j].pc = "take"]
               ELSE [jobs EXCEPT ![initJob].stop = "cancel",
                                 ![j].pc = "drain", ![j].on = initJob]
    /\ UNCHANGED <<db, proc, prov>> /\ Works

\* initDone is closed where initDone is cleared; a retry waits without a
\* deadline, the others for five seconds.
ShutdownDrained(j) ==
    /\ At(j, Closers, "drain") /\ initJob # jobs[j].on
    /\ Goto(j, "take")
    /\ UNCHANGED <<db, proc, prov>> /\ Works

ShutdownExpired(j) ==
    /\ At(j, PostMeeting, "drain")
    /\ Goto(j, "end")
    /\ UNCHANGED <<db, proc, prov>> /\ Works

TakeOwner(j) ==
    /\ At(j, Closers, "take")
    /\ owner' = NoOwner
    /\ jobs' = [jobs EXCEPT ![j].cur = owner,
         ![j].pc = IF owner \in Sessions THEN "shut_close" ELSE AfterShutdown(j)]
    /\ UNCHANGED <<db, initJob, retrying, asking, making, prov>> /\ Works

CloseOwned(j) ==
    /\ At(j, Closers, "shut_close")
    /\ CloseSession(j, jobs[j].cur, "shut_end") /\ Works

EndOwned(j) ==
    /\ At(j, Closers, "shut_end")
    /\ \/ EndedSession(jobs[j].cur, "ended") /\ Goto(j, AfterShutdown(j)) /\ Works
       \/ EndedSession(jobs[j].cur, "failed") /\ Goto(j, "end") /\ Fails
       \/ UNCHANGED db /\ Goto(j, "end") /\ Fails
    /\ UNCHANGED <<proc, prov>>

\* Mutant: the flag of the retry is not given back.
JobEnds_KeepsRetrying(j) ==
    /\ At(j, Closers, "end") /\ End(j)
    /\ UNCHANGED <<db, proc, prov>> /\ Works

JobEnds(j) ==
    /\ At(j, Closers, "end")
    /\ retrying' = IF jobs[j].kind = "retry" THEN FALSE ELSE retrying
    /\ End(j)
    /\ UNCHANGED <<db, owner, initJob, asking, making, prov>> /\ Works

-----------------------------------------------------------------------------
\* Orchestrator.Initialize and Retry.

CallRetry(j, m) ==
    /\ life[m] = "recording" /\ ~retrying /\ initJob = NoJob
    /\ retrying' = TRUE
    /\ UNCHANGED <<owner, initJob, asking, making>>
    /\ Call(j, "retry", m, "shut")

Reserve(j) ==
    /\ At(j, Starting \cup PostMeeting, "reserve")
    /\ IF owner # NoOwner
       THEN /\ IF jobs[j].kind = "init" THEN End(j)
               ELSE Goto(j, IF jobs[j].kind = "retry" THEN "end" ELSE "unready")
            /\ UNCHANGED <<owner, initJob>>
       ELSE /\ owner' = Reserved /\ initJob' = j
            /\ IF jobs[j].kind \in Starting THEN Goto(j, "begin")
               ELSE IF MeetingSessions(jobs[j].m) = {} THEN Goto(j, "newrow")
               ELSE \E pc \in {"resume", "newrow"} : jobs' =
                    [jobs EXCEPT ![j].pc = pc, ![j].s = Latest(MeetingSessions(jobs[j].m))]
    /\ UNCHANGED <<db, retrying, asking, making, prov>> /\ Works

BeginInitialization(j) ==
    LET m == jobs[j].m
        can == /\ life[m] = "recording" /\ agent[m] \in {"unchecked", "unavailable"}
               /\ ActiveSessions(m) = {} /\ FreeSessions # {} /\ ~Stopped(j)
    IN /\ At(j, Starting, "begin")
       /\ \/ /\ can
             /\ SetAgent(m, "initializing") /\ NewSession(NextRow(FreeSessions), m)
             /\ jobs' = [jobs EXCEPT ![j].pc = "open", ![j].s = NextRow(FreeSessions)]
             /\ UNCHANGED <<life, minute, turns, proc, prov>> /\ Works
          \/ Refused(j, can, "release")

\* openProviderSession: start or resume a thread and attach the runtime.
OpenProvider(j) ==
    LET can == attached = NoSession /\ ~Stopped(j)
    IN /\ At(j, Starting \cup PostMeeting, "open")
       /\ \/ /\ can
             /\ attached' = jobs[j].s
             /\ Goto(j, "thread") /\ UNCHANGED <<db, proc, active>> /\ Works
          \/ Refused(j, can, "failrow")

SetSessionThread(j) ==
    LET can == OfSession(j).state = "starting" /\ ~Stopped(j)
    IN /\ At(j, Starting \cup PostMeeting, "thread")
       /\ \/ /\ can
             /\ Goto(j, IF jobs[j].kind \in Starting THEN "turn" ELSE "activate")
             /\ UNCHANGED <<db, proc, prov>> /\ Works
          \/ Refused(j, can, "close")

\* CreateTurn, kept unique per meeting by idx_agent_turns_active_meeting.
CreateTurn(j) ==
    LET can == ActiveTurns(jobs[j].m) = {} /\ FreeTurns # {} /\ ~Stopped(j)
        t == NextRow(FreeTurns)
    IN /\ At(j, Starting, "turn")
       /\ \/ /\ can /\ NewTurn(t, j)
             /\ jobs' = [jobs EXCEPT ![j].pc = "run", ![j].t = t]
             /\ UNCHANGED <<life, agent, minute, sessions, proc, prov>> /\ Works
          \/ Refused(j, can, "close")

CompleteInitialization(j) ==
    LET m == jobs[j].m
        can == /\ OfTurn(j).state = "running" /\ OfSession(j).state = "starting"
               /\ agent[m] = "initializing" /\ ~Stopped(j)
    IN /\ At(j, Starting, "commit")
       /\ \/ /\ can
             /\ SetTurn(jobs[j].t, "completed") /\ SetSession(jobs[j].s, "available")
             /\ SetAgent(m, "available") /\ Goto(j, "publish")
             /\ UNCHANGED <<life, minute, proc, prov>> /\ Works
          \/ Refused(j, can, "close")

CloseFailed(j) ==
    /\ At(j, Starting \cup PostMeeting, "close")
    /\ CloseSession(j, jobs[j].s, "failrow") /\ Works

\* The whole transaction is rolled back when the meeting has moved on.
FailInitialization(j) ==
    LET m == jobs[j].m
        can == OfSession(j).state = "starting" /\ agent[m] = "initializing"
    IN /\ At(j, Starting, "failrow")
       /\ \/ /\ can
             /\ SetSession(jobs[j].s, "failed") /\ SetAgent(m, "unavailable")
             /\ turns' = [t \in Turns |->
                  IF turns[t].s = jobs[j].s /\ turns[t].state \in ActiveTurn
                  THEN [turns[t] EXCEPT !.state = "failed"] ELSE turns[t]]
             /\ Goto(j, "release")
             /\ UNCHANGED <<life, minute, proc, prov>> /\ Works
          \/ Refused(j, can, "release")

Publish(j) ==
    /\ At(j, Starting \cup PostMeeting, "publish")
    /\ owner' = jobs[j].s
    /\ Goto(j, "ready")
    /\ UNCHANGED <<db, initJob, retrying, asking, making, prov>> /\ Works

ReleaseOwner(j) ==
    /\ At(j, Starting \cup PostMeeting, "release")
    /\ owner' = NoOwner
    /\ Goto(j, "failed")
    /\ UNCHANGED <<db, initJob, retrying, asking, making, prov>> /\ Works

FinishInitializeOwner(j) ==
    /\ \/ At(j, Starting \cup PostMeeting, "ready")
       \/ At(j, Starting \cup PostMeeting, "failed")
    /\ initJob' = IF initJob = j THEN NoJob ELSE initJob
    /\ IF jobs[j].kind = "init" THEN End(j)
       ELSE IF jobs[j].kind = "retry" THEN Goto(j, "end")
       ELSE jobs' = [jobs EXCEPT ![j].pc = IF @ = "ready" THEN "claim" ELSE "unready",
                                 ![j].cur = NoSession]
    /\ UNCHANGED <<db, owner, retrying, asking, making, prov>> /\ Works

-----------------------------------------------------------------------------
\* Orchestrator.EnsurePostMeeting.

CallPostMeeting(j, m) ==
    /\ life[m] = "ended"
    /\ \/ Initialized(m) /\ Call(j, "sync", m, "look")
       \/ Call(j, "minutes", m, "look")
    /\ UNCHANGED proc

EnsureLook(j) ==
    /\ At(j, PostMeeting, "look")
    /\ Goto(j, IF owner # NoOwner THEN "reuse" ELSE "stale")
    /\ UNCHANGED <<db, proc, prov>> /\ Works

\* With an owner, whichever row of this meeting is active is taken for it.
ReuseSession(j) ==
    LET active_ == ActiveSessions(jobs[j].m)
    IN /\ At(j, PostMeeting, "reuse")
       /\ \/ /\ active_ # {}
             /\ jobs' = [jobs EXCEPT ![j].pc = "claim", ![j].s = Latest(active_)]
             /\ UNCHANGED <<db, proc, prov>> /\ Works
          \/ Refused(j, active_ # {}, "unready")

EndStaleSession(j) ==
    /\ At(j, PostMeeting, "stale")
    /\ IF ActiveSessions(jobs[j].m) = {} THEN UNCHANGED db
       ELSE EndedSession(Latest(ActiveSessions(jobs[j].m)), "ended")
    /\ Goto(j, "reserve")
    /\ UNCHANGED <<proc, prov>> /\ Works

ResumeSession(j) ==
    /\ At(j, PostMeeting, "resume")
    /\ \/ /\ attached = NoSession /\ ~Stopped(j)
          /\ attached' = jobs[j].s
          /\ Goto(j, "reopen") /\ UNCHANGED <<db, proc, active>> /\ Works
       \/ Refused(j, attached = NoSession /\ ~Stopped(j), "release")

\* ReopenPostMeetingSession and ActivatePostMeetingSession make the meeting
\* available whatever its agent state was.
Available(j, from, pc, failpc) ==
    LET can == /\ OfSession(j).state \in from /\ ~Stopped(j)
               /\ ActiveSessions(jobs[j].m) \subseteq {jobs[j].s}
    IN \/ /\ can
          /\ SetSession(jobs[j].s, "available") /\ SetAgent(jobs[j].m, "available")
          /\ Goto(j, pc)
          /\ UNCHANGED <<life, minute, turns, proc, prov>> /\ Works
       \/ Refused(j, can, failpc)

ReopenPostMeetingSession(j) ==
    /\ At(j, PostMeeting, "reopen")
    /\ Available(j, {"ended", "failed"}, "publish", "reclose")

CloseResumed(j) ==
    /\ At(j, PostMeeting, "reclose")
    /\ CloseSession(j, jobs[j].s, "release") /\ Works

BeginPostMeetingSession(j) ==
    LET m == jobs[j].m
        can == life[m] = "ended" /\ ActiveSessions(m) = {} /\ FreeSessions # {} /\ ~Stopped(j)
    IN /\ At(j, PostMeeting, "newrow")
       /\ \/ /\ can
             /\ NewSession(NextRow(FreeSessions), m)
             /\ jobs' = [jobs EXCEPT ![j].pc = "open", ![j].s = NextRow(FreeSessions)]
             /\ UNCHANGED <<life, agent, minute, turns, proc, prov>> /\ Works
          \/ Refused(j, can, "release")

ActivatePostMeetingSession(j) ==
    /\ At(j, PostMeeting, "activate")
    /\ Available(j, {"starting"}, "publish", "close")

FailPostMeetingSession(j) ==
    /\ At(j, PostMeeting, "failrow")
    /\ EndedSession(jobs[j].s, "failed")
    /\ Goto(j, "release")
    /\ UNCHANGED <<proc, prov>> /\ Works

-----------------------------------------------------------------------------
\* A turn: run by the four callers, each with its own claim and commit.

\* RunTurn: turn/start is accepted.
RunTurn(j) ==
    LET can == attached = jobs[j].s /\ active = NoTurn /\ ~Stopped(j)
    IN /\ At(j, {"init", "retry", "ask", "sync", "minutes"}, "run")
       /\ \/ /\ can
             /\ active' = jobs[j].t
             /\ jobs' = [jobs EXCEPT ![j].pc = "started", ![j].ev = "none"]
             /\ UNCHANGED <<db, proc, attached>> /\ Works
          \/ Refused(j, can, IF jobs[j].kind \in Starting THEN "close" ELSE "fail")

\* MarkTurnRunning, MarkMinutesTurnRunning
MarkTurnRunning(j) ==
    LET can == OfTurn(j).state = "pending" /\ ~Stopped(j)
    IN /\ At(j, {"init", "retry", "ask", "sync", "minutes"}, "started")
       /\ \/ /\ can
             /\ SetTurn(jobs[j].t, "running") /\ Goto(j, "wait")
             /\ UNCHANGED <<life, agent, minute, sessions, proc, prov>> /\ Works
          \/ Refused(j, can, IF jobs[j].kind \in Starting THEN "close" ELSE "fail")

\* The loop over the events ends at the last of them; only the minutes also
\* watch their context.
TurnSettles(j) ==
    /\ At(j, {"init", "retry", "ask", "sync", "minutes"}, "wait")
    /\ \/ jobs[j].ev = "done" /\ Goto(j, "commit")
       \/ /\ \/ jobs[j].ev \in {"failed", "cancelled"}
             \/ jobs[j].kind = "minutes" /\ Stopped(j)
          /\ Goto(j, IF jobs[j].kind \in Starting THEN "close" ELSE "fail")
    /\ UNCHANGED <<db, proc, prov>> /\ Works

\* The ten minutes (thirty for the minutes) of a call are over; before its
\* turn is run this is a call that fails.
Timeout(j) ==
    /\ up = "up" /\ jobs[j].kind \in {"ask"} \cup PostMeeting /\ Stoppable(j)
    /\ jobs' = [jobs EXCEPT ![j].stop = "deadline"]
    /\ UNCHANGED <<db, proc, prov>> /\ Works

\* Mutant: the reason a call was stopped is written as the state of its turn.
Outcome_StopReason(j) == IF Stopped(j) THEN jobs[j].stop ELSE "failed"

\* settleFailure and fail write how the call was stopped.
Outcome(j) == CASE jobs[j].stop = "cancel" -> "cancelled"
                [] jobs[j].stop = "deadline" -> "timed_out"
                [] OTHER -> "failed"

-----------------------------------------------------------------------------
\* A question.

Ask(j, m) ==
    /\ ActiveSessions(m) # {} /\ life[m] = "recording"
    /\ UNCHANGED proc
    /\ up = "up" /\ "ask" \in Kinds /\ jobs[j] = Idle /\ calls < MaxCalls
    /\ calls' = calls + 1
    /\ jobs' = [jobs EXCEPT ![j] = [Idle EXCEPT !.kind = "ask", !.m = m, !.pc = "create",
                                               !.s = Latest(ActiveSessions(m))]]
    /\ UNCHANGED <<db, prov, up, faults>>

CreateQuestion(j) ==
    LET m == jobs[j].m
        t == NextRow(FreeTurns)
        can == /\ life[m] = "recording" /\ agent[m] = "available"
               /\ ActiveTurns(m) = {} /\ FreeTurns # {}
    IN /\ At(j, {"ask"}, "create")
       /\ \/ /\ can
             /\ SetAgent(m, "busy") /\ NewTurn(t, j)
             /\ jobs' = [jobs EXCEPT ![j].pc = "own", ![j].t = t]
             /\ UNCHANGED <<life, minute, sessions, proc, prov>> /\ Works
          \/ Refused(j, can, "drop")

\* beginJob: without the ownership the call returns and leaves its rows.
BeginJob(j) ==
    /\ At(j, {"ask"}, "own")
    /\ IF asking = NoJob THEN asking' = j /\ Goto(j, "run")
                         ELSE asking' = asking /\ Goto(j, "drop")
    /\ UNCHANGED <<db, owner, initJob, retrying, making, prov>> /\ Works

Drop(j) ==
    /\ At(j, {"ask"}, "drop") /\ End(j)
    /\ UNCHANGED <<db, proc, prov>> /\ Works

CommitTurnSuccess(j) ==
    LET m == jobs[j].m
        can == OfTurn(j).state = "running" /\ agent[m] = "busy" /\ ~Stopped(j)
    IN /\ At(j, {"ask"}, "commit")
       /\ \/ /\ can
             /\ SetTurn(jobs[j].t, "completed") /\ SetAgent(m, "available")
             /\ Past(j, "resume_media")
             /\ UNCHANGED <<life, minute, sessions, proc, prov>> /\ Works
          \/ Refused(j, can, "fail")

\* Mutant: the turn is settled outside the transaction that frees the meeting.
FailTurn_KeepsBusy(j) ==
    /\ At(j, {"ask"}, "fail")
    /\ SetTurn(jobs[j].t, Outcome(j)) /\ Past(j, "resume_media")
    /\ UNCHANGED <<life, agent, minute, sessions, proc, prov>> /\ Works

\* settleFailure: the transaction is rolled back unless the meeting is busy.
FailTurn(j) ==
    LET m == jobs[j].m
        can == OfTurn(j).state \in ActiveTurn /\ agent[m] = "busy"
    IN /\ At(j, {"ask"}, "fail")
       /\ \/ /\ can
             /\ SetTurn(jobs[j].t, Outcome(j)) /\ SetAgent(m, "available")
             /\ Past(j, "resume_media")
             /\ UNCHANGED <<life, minute, sessions, proc, prov>> /\ Works
          \/ Refused(j, can, "resume_media")

\* Mutant: a call that was stopped does not give the ownership back.
EndJob_KeepsOwner(j) ==
    /\ At(j, {"ask"}, "resume_media") /\ End(j)
    /\ UNCHANGED <<db, proc, prov>> /\ Works

\* resumeVoiceMedia, then endJob; until then the next question finds an owner.
EndJob(j) ==
    /\ At(j, {"ask"}, "resume_media")
    /\ asking' = IF asking = j THEN NoJob ELSE asking
    /\ End(j)
    /\ UNCHANGED <<db, owner, initJob, retrying, making, prov>> /\ Works

-----------------------------------------------------------------------------
\* The synchronisation after the meeting.

\* The turn of the session's final-sync key, if there is one.
KeyTurn(j) == {t \in Turns : turns[t].s = jobs[j].s /\ turns[t].kind = "ingest"}

BeginFinalSync(j) ==
    LET m == jobs[j].m
        old == KeyTurn(j)
        t == IF old = {} THEN NextRow(FreeTurns) ELSE NextRow(old)
        can == /\ old = {} => FreeTurns # {}
               /\ old # {} => turns[t].state \in {"failed", "timed_out", "cancelled"}
               /\ ActiveTurns(m) = {}
               /\ life[m] = "ended" /\ agent[m] \in {"available", "unsynced"} /\ ~Stopped(j)
    IN /\ At(j, {"sync"}, "claim")
       /\ \/ /\ old # {} /\ turns[t].state = "completed"
             /\ Goto(j, "shut") /\ UNCHANGED <<db, proc, prov>> /\ Works
          \/ /\ can
             /\ NewTurn(t, j) /\ SetAgent(m, "busy")
             /\ jobs' = [jobs EXCEPT ![j].pc = "run", ![j].t = t]
             /\ UNCHANGED <<life, minute, sessions, proc, prov>> /\ Works
          \/ /\ old # {} => turns[t].state # "completed"
             /\ Refused(j, can, "unready_claimed")

\* CompleteFinalSyncNoChanges (instead of a turn) and CompleteFinalSync.
CompleteFinalSync(j) ==
    LET m == jobs[j].m
        can == agent[m] = "busy" /\ ~Stopped(j)
    IN \/ /\ At(j, {"sync"}, "run") /\ OfTurn(j).state = "pending"
          /\ \/ /\ can
                /\ SetTurn(jobs[j].t, "completed") /\ SetAgent(m, "unavailable")
                /\ Past(j, "shut")
                /\ UNCHANGED <<life, minute, sessions, proc, prov>> /\ Works
             \/ Refused(j, can, "unready_claimed")
       \/ /\ At(j, {"sync"}, "commit")
          /\ \/ /\ can /\ OfTurn(j).state = "running"
                /\ SetTurn(jobs[j].t, "completed") /\ SetAgent(m, "unavailable")
                /\ Past(j, "shut")
                /\ UNCHANGED <<life, minute, sessions, proc, prov>> /\ Works
             \/ Refused(j, can /\ OfTurn(j).state = "running", "fail")

FailFinalSync(j) ==
    LET m == jobs[j].m
        can == OfTurn(j).state \in ActiveTurn /\ agent[m] = "busy"
    IN /\ At(j, {"sync"}, "fail")
       /\ \/ /\ can
             /\ SetTurn(jobs[j].t, "failed") /\ SetAgent(m, "unsynced")
             /\ Past(j, "shut")
             /\ UNCHANGED <<life, minute, sessions, proc, prov>> /\ Works
          \/ Refused(j, can, "shut")

\* MarkFinalSyncUnsynced, before there is a turn; only a call that has its
\* session shuts it down again.
MarkFinalSyncUnsynced(j) ==
    LET m == jobs[j].m
        can == life[m] = "ended" /\ agent[m] # "unchecked"
    IN \E pc \in {"unready", "unready_claimed"} :
       LET next == IF pc = "unready" THEN "end" ELSE "shut"
       IN /\ At(j, {"sync"}, pc)
          /\ \/ /\ can
                /\ SetAgent(m, "unsynced") /\ Goto(j, next)
                /\ UNCHANGED <<life, minute, sessions, turns, proc, prov>> /\ Works
             \/ Refused(j, can, next)

-----------------------------------------------------------------------------
\* The minutes.

BeginMinutesTurn(j) ==
    LET m == jobs[j].m
        t == NextRow(FreeTurns)
        can == /\ life[m] = "ended" /\ minute[m] # "generating"
               /\ ActiveTurns(m) = {} /\ FreeTurns # {} /\ ~Stopped(j)
    IN /\ At(j, {"minutes"}, "claim")
       /\ \/ /\ can
             /\ SetMinute(m, "generating") /\ NewTurn(t, j)
             /\ jobs' = [jobs EXCEPT ![j].pc = "own", ![j].t = t]
             /\ UNCHANGED <<life, agent, sessions, proc, prov>> /\ Works
          \/ Refused(j, can, "shut")

BeginGeneration(j) ==
    /\ At(j, {"minutes"}, "own")
    /\ IF making = NoJob THEN making' = j /\ Goto(j, "run")
                         ELSE making' = making /\ Goto(j, "fail")
    /\ UNCHANGED <<db, owner, initJob, retrying, asking, prov>> /\ Works

\* Stop of the generation.
StopGeneration ==
    /\ up = "up" /\ making # NoJob /\ Stoppable(making)
    /\ jobs' = [jobs EXCEPT ![making].stop = "cancel"]
    /\ UNCHANGED <<db, proc, prov>> /\ Works

CommitGeneratedMinute(j) ==
    LET can == OfTurn(j).state = "running" /\ ~Stopped(j)
    IN /\ At(j, {"minutes"}, "commit")
       /\ \/ /\ can
             /\ SetTurn(jobs[j].t, "completed") /\ SetMinute(jobs[j].m, "draft")
             /\ Past(j, "made")
             /\ UNCHANGED <<life, agent, sessions, proc, prov>> /\ Works
          \/ Refused(j, can, "fail")

\* Mutant: the turn is failed whatever became of it.
FailMinutesTurn_Unchecked(j) ==
    /\ At(j, {"minutes"}, "fail")
    /\ SetTurn(jobs[j].t, Outcome(j)) /\ SetMinute(jobs[j].m, "failed")
    /\ Past(j, "made")
    /\ UNCHANGED <<life, agent, sessions, proc, prov>> /\ Works

FailMinutesTurn(j) ==
    LET can == OfTurn(j).state \in ActiveTurn
    IN /\ At(j, {"minutes"}, "fail")
       /\ \/ /\ can
             /\ SetTurn(jobs[j].t, Outcome(j)) /\ SetMinute(jobs[j].m, "failed")
             /\ Past(j, "made")
             /\ UNCHANGED <<life, agent, sessions, proc, prov>> /\ Works
          \/ Refused(j, can, "made")

\* Mutant: the generation is not released.
EndGeneration_KeepsOwner(j) ==
    /\ At(j, {"minutes"}, "made") /\ Past(j, "shut")
    /\ UNCHANGED <<db, proc, prov>> /\ Works

EndGeneration(j) ==
    /\ At(j, {"minutes"}, "made")
    /\ making' = IF making = j THEN NoJob ELSE making
    /\ Past(j, "shut")
    /\ UNCHANGED <<db, owner, initJob, retrying, asking, prov>> /\ Works

\* A generation without a session returns the error.
GenerationUnready(j) ==
    /\ At(j, {"minutes"}, "unready") /\ Goto(j, "end")
    /\ UNCHANGED <<db, proc, prov>> /\ Works

-----------------------------------------------------------------------------
\* A crash of the process and the recovery of the rows it left.

Crash ==
    /\ up = "up" /\ faults < MaxFaults /\ faults' = faults + 1
    /\ up' = "minutes"
    /\ life' = [m \in Meetings |-> IF life[m] = "recording" THEN "finalizing" ELSE life[m]]
    /\ owner' = NoOwner /\ initJob' = NoJob /\ retrying' = FALSE
    /\ asking' = NoJob /\ making' = NoJob
    /\ attached' = NoSession /\ active' = NoTurn
    /\ jobs' = [j \in Jobs |-> Idle]
    /\ UNCHANGED <<agent, minute, sessions, turns, calls>>

Recovered(kind) == [t \in Turns |->
    IF turns[t].kind = kind /\ turns[t].state \in ActiveTurn
    THEN [turns[t] EXCEPT !.state = "failed"] ELSE turns[t]]
Leftover(kind) == {turns[t].m : t \in {u \in Turns :
    turns[u].kind = kind /\ turns[u].state \in ActiveTurn}}

RecoverInterruptedTurns ==
    /\ up = "minutes" /\ up' = "agent"
    /\ turns' = Recovered("minutes")
    /\ minute' = [m \in Meetings |-> IF m \in Leftover("minutes") THEN "failed" ELSE minute[m]]
    /\ UNCHANGED <<life, agent, sessions, proc, prov, jobs, calls, faults>>

RecoverFinalSyncState ==
    /\ up = "agent" /\ up' = "up"
    /\ turns' = Recovered("ingest")
    /\ agent' = [m \in Meetings |-> IF m \in Leftover("ingest") THEN "unsynced" ELSE agent[m]]
    /\ UNCHANGED <<life, minute, sessions, proc, prov, jobs, calls, faults>>

-----------------------------------------------------------------------------
JobStep(j) ==
    \/ ShutdownInit(j) \/ ShutdownDrained(j) \/ ShutdownExpired(j) \/ TakeOwner(j)
    \/ CloseOwned(j) \/ EndOwned(j) \/ JobEnds(j)
    \/ Reserve(j) \/ BeginInitialization(j) \/ OpenProvider(j) \/ SetSessionThread(j)
    \/ CreateTurn(j) \/ CompleteInitialization(j) \/ CloseFailed(j) \/ FailInitialization(j)
    \/ Publish(j) \/ ReleaseOwner(j) \/ FinishInitializeOwner(j)
    \/ EnsureLook(j) \/ ReuseSession(j) \/ EndStaleSession(j) \/ ResumeSession(j)
    \/ ReopenPostMeetingSession(j) \/ CloseResumed(j) \/ BeginPostMeetingSession(j)
    \/ ActivatePostMeetingSession(j) \/ FailPostMeetingSession(j)
    \/ RunTurn(j) \/ MarkTurnRunning(j) \/ TurnSettles(j)
    \/ CreateQuestion(j) \/ BeginJob(j) \/ Drop(j) \/ CommitTurnSuccess(j) \/ FailTurn(j)
    \/ EndJob(j)
    \/ BeginFinalSync(j) \/ CompleteFinalSync(j) \/ FailFinalSync(j) \/ MarkFinalSyncUnsynced(j)
    \/ BeginMinutesTurn(j) \/ BeginGeneration(j) \/ CommitGeneratedMinute(j)
    \/ FailMinutesTurn(j) \/ EndGeneration(j) \/ GenerationUnready(j)

Recovery == RecoverInterruptedTurns \/ RecoverFinalSyncState

Next ==
    \/ \E j \in Jobs : JobStep(j) \/ Timeout(j)
    \/ \E j \in Jobs, m \in Meetings :
         StartMeeting(j, m) \/ CallRetry(j, m) \/ CallPostMeeting(j, m) \/ Ask(j, m)
    \/ \E m \in Meetings : EndMeeting(m) \/ Saved(m) \/ Interrupt(m)
    \/ TurnCompleted \/ ProviderDies \/ StopGeneration \/ Crash \/ Recovery

Spec == Init /\ [][Next]_vars

-----------------------------------------------------------------------------
\* Properties.

\* A meeting shown as busy has a turn that somebody asked for and that is not
\* settled: a busy meeting without one would refuse every question for ever.
BusyHasTurn == \A m \in Meetings : agent[m] = "busy" =>
    \E t \in ActiveTurns(m) : turns[t].kind \in {"answer", "ingest"}

\* Minutes shown as being generated are being generated: there is an unsettled
\* turn of the minutes, which the user can stop.  (The code does not keep this:
\* an initialisation that fails after the meeting was saved takes the turn of
\* the minutes that had been given its session with it, and nothing resets
\* minute_state.)
GeneratingHasTurn == \A m \in Meetings : minute[m] = "generating" =>
    \E t \in ActiveTurns(m) : turns[t].kind = "minutes"

\* A meeting that accepts questions, now or when it is done with one, has a
\* session row the question can name.
AvailableHasSession ==
    \A m \in Meetings : agent[m] \in {"available", "busy"} /\ life[m] = "recording" =>
        \E s \in ActiveSessions(m) : sessions[s].state = "available"

\* Rows are written for meetings that began, and a turn belongs to a session of
\* its meeting.
RowsFit ==
    /\ \A m \in Meetings : life[m] = "none" => agent[m] = "unchecked"
    /\ \A s \in Sessions : sessions[s].state # "none" => life[sessions[s].m] # "none"
    /\ \A t \in Turns : turns[t].state # "none" =>
          /\ turns[t].s \in Sessions
          /\ sessions[turns[t].s].state # "none" /\ sessions[turns[t].s].m = turns[t].m

\* A call acts on rows of its own meeting, and on a turn of its kind, although
\* other calls reuse its session and take up its key.
JobsFit == \A j \in Jobs :
    /\ jobs[j].pc \in OnSession => jobs[j].s # NoSession
    /\ jobs[j].pc \in OnTurn => jobs[j].t # NoTurn
    /\ jobs[j].s # NoSession => OfSession(j).state # "none" /\ OfSession(j).m = jobs[j].m
    /\ jobs[j].t # NoTurn =>
          /\ jobs[j].kind # "none" /\ OfTurn(j).kind = OfKind[jobs[j].kind]
          /\ OfTurn(j).m = jobs[j].m /\ OfTurn(j).state # "none"

\* What the rows of a meeting, its sessions and its turns tell of each other.
AgentInv == TypeOK /\ BusyHasTurn /\ AvailableHasSession /\ RowsFit /\ JobsFit

\* An attached session belongs to somebody who will close it: the owner, or a
\* call that is opening it or closing it.
NoOrphanProvider == attached # NoSession =>
    \/ owner = attached
    \/ \E j \in Jobs : attached \in {jobs[j].s, jobs[j].cur} /\ jobs[j].kind # "ask"

\* A settled turn is settled once: an answer that arrives after a question was
\* cancelled, or a cancellation after the answer, changes nothing.  Only a
\* final synchronisation that failed is taken up again.
SettledTurnsStay == [][\A t \in Turns : turns[t].state \in SettledTurn =>
    \/ turns'[t] = turns[t]
    \/ turns[t].kind = "ingest" /\ turns[t].state # "completed" /\ turns'[t].state = "pending"]_vars

-----------------------------------------------------------------------------
\* Fairness: a goroutine that can go on does; deadlines pass; the two recoveries are
\* run when the workspace is opened again.  Nothing makes the app-server end a turn.
FairSpec ==
    /\ Spec
    /\ \A j \in Jobs : WF_vars(JobStep(j)) /\ WF_vars(Timeout(j))
    /\ WF_vars(Recovery)

\* A call that waits for the end of a stream of events that has not come, and may
\* never come.
Silent(j) == jobs[j].pc = "wait" /\ jobs[j].ev \in {"none", "lost"}

\* Whatever fails, is cancelled, closed, retried or recovered meanwhile: the question
\* that owns the service gives it back, so that the next one can be asked, unless it
\* waits for the end of its stream (endJob on every way out).
QuestionEnds == \A j \in Jobs : asking = j ~> (asking # j \/ Silent(j))

\* What the documents promise of the ten minutes: the question is over after them, so
\* that the next one can be asked.
DeadlineEndsQuestion ==
    \A j \in Jobs : asking = j /\ jobs[j].stop = "deadline" ~> asking # j

\* A generation of minutes gives its ownership back whatever the provider does:
\* its loop watches the deadline of the call.
GenerationEnds == \A j \in Jobs : making = j ~> making # j

\* A retry lets go of the right to retry.
RetryEnds == retrying ~> (~retrying \/ \E j \in Jobs : Silent(j))
=============================================================================
