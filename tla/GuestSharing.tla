----------------------------- MODULE GuestSharing -----------------------------
(***************************************************************************)
(* Sharing a meeting on the local network: the listener of a generation,   *)
(* the sessions of its guests, and the messages and attachments guests and *)
(* the host add while the meeting is recorded.                             *)
(*                                                                         *)
(* Source: service/lan, service/guest, service/resource, repository/guest, *)
(* repository/content, infra/database/write_dispatcher.go, and the calls   *)
(* of RuntimeService that start and stop the listener.                     *)
(*                                                                         *)
(* One meeting.  Threads stop or start the listener; handlers serve one    *)
(* request each.                                                           *)
(***************************************************************************)
EXTENDS Naturals, Sequences, FiniteSets

CONSTANTS
    Guests,         \* sessions that may be created
    Host,           \* who uploads from the desktop
    Requests,       \* request ids
    Handlers,       \* requests served at the same time
    MaxConcurrent,  \* maxConcurrentUploads
    MaxGenerations, \* bound: listeners built
    MaxEvents,      \* bound: entities committed
    MaxFaults       \* bound: statements, files, listeners and processes that fail

VARIABLES
    lan,        \* Runtime: its state, the generation it holds (0: none), generations built
    lock,       \* operationMu
    thread,     \* who starts or stops it
    lifecycle,  \* the meeting's lifecycle_state
    session,    \* each guest's row and generation of the process's map
    revoked,    \* generations whose sessions RevokeMeeting has revoked
    handler,    \* each request being served
    events,     \* the entities of the meeting by seq
    parts,      \* the .part files in .staging
    files,      \* the final files in resources
    abandoned,  \* files of committed rows, removed by an upload whose context had ended
    faults

sharing == <<lan, lock, thread, lifecycle>>
content == <<events, parts, files, abandoned>>
vars == <<sharing, session, revoked, handler, content, faults>>

\* StartMeeting and the host's commands, the end of the recording, Runtime.serve
Threads == {"host", "end", "serve"}
NoCall == [pc |-> "idle", again |-> FALSE, failed |-> FALSE]
Owners == Guests \cup {Host}
NoSession == [row |-> "none", generation |-> 0]
Idle == [pc |-> "idle", by |-> Host, request |-> CHOOSE r \in Requests : TRUE,
         live |-> TRUE, file |-> 0, committed |-> FALSE]
Uploading == {"streaming", "staged", "queued", "answered"}

TypeOK ==
    /\ lan.state \in {"disabled", "serving", "stopping", "stopped", "failed"}
    /\ lan.current \in 0..lan.built /\ lan.built \in 0..MaxGenerations
    /\ lock \in Threads \cup {"free"}
    /\ thread \in [Threads -> [pc : {"idle", "stop", "revoke", "shutdown", "start", "after", "done"},
                           again : BOOLEAN, failed : BOOLEAN]]
    /\ lifecycle \in {"recording", "finalizing", "interrupted"}
    /\ \A g \in Guests : session[g].row \in {"none", "joining", "active", "revoked"}
    /\ \A h \in Handlers : handler[h].pc \in {"idle", "message"} \cup Uploading
    /\ parts \subseteq Nat \ {0} /\ files \subseteq Nat \ {0} /\ abandoned \subseteq Nat \ {0}

Init ==
    /\ lan = [state |-> "disabled", current |-> 0, built |-> 0] /\ lock = "free"
    /\ thread = [t \in Threads |-> IF t = "host" THEN [NoCall EXCEPT !.pc = "start"] ELSE NoCall]
    /\ lifecycle = "recording"
    /\ session = [g \in Guests |-> NoSession] /\ revoked = {}
    /\ handler = [h \in Handlers |-> Idle]
    /\ events = <<>> /\ parts = {} /\ files = {} /\ abandoned = {} /\ faults = 0

-----------------------------------------------------------------------------
Works == UNCHANGED faults
Fails == faults < MaxFaults /\ faults' = faults + 1
At(t, pc) == thread[t].pc = pc
Goes(t, pc) == thread' = [thread EXCEPT ![t].pc = pc]
Serving(generation) == generation # 0 /\ lan.state = "serving" /\ lan.current = generation
Guestless == UNCHANGED <<session, revoked, handler, content>>

(* The listener *)

\* What a thread goes on with after its stop: the retry of a stop that failed does
\* not start again, and finishMeeting goes on whatever the stop returned.
Onward(t, failed) ==
    [NoCall EXCEPT !.pc = IF t = "end" THEN "after" ELSE IF thread[t].again /\ ~failed THEN "start" ELSE "idle"]
\* stopCurrent holds operationMu from here to Shutdown; without a generation it
\* only settles the snapshot.
StopCurrent(t) ==
    /\ At(t, "stop") /\ lock = "free"
    /\ IF lan.current = 0
       THEN /\ lan' = [lan EXCEPT !.state = IF lan.state = "disabled" THEN "disabled" ELSE "stopped"]
            /\ thread' = [thread EXCEPT ![t] = Onward(t, FALSE)] /\ UNCHANGED lock
       ELSE /\ lan' = [lan EXCEPT !.state = "stopping"] /\ lock' = t /\ Goes(t, "revoke")
    /\ UNCHANGED lifecycle /\ Guestless /\ Works
\* CancelMeeting: every upload of the meeting, the host's too
Cancelled(hs) == [h \in Handlers |-> IF h \in hs /\ handler[h].pc # "idle"
                                     THEN [handler[h] EXCEPT !.live = FALSE] ELSE handler[h]]
Uploads == {h \in Handlers : handler[h].pc \in Uploading}
Revoked == [g \in Guests |-> IF session[g].row = "active" THEN [session[g] EXCEPT !.row = "revoked"]
                             ELSE session[g]]
RevokeSessions == session' = Revoked /\ revoked' = {g \in 1..lan.built : ~Serving(g)}
\* CancelMeeting and RevokeMeeting, whose error is kept while the stop goes on
Revoke(t) ==
    /\ At(t, "revoke") /\ handler' = Cancelled(Uploads) /\ UNCHANGED <<lan, lock, lifecycle, content>>
    /\ \/ RevokeSessions /\ Goes(t, IF t = "serve" THEN "idle" ELSE "shutdown") /\ Works
       \/ thread' = [thread EXCEPT ![t] = IF t = "serve" THEN NoCall ELSE [@ EXCEPT !.pc = "shutdown", !.failed = TRUE]]
          /\ UNCHANGED <<session, revoked>> /\ Fails
\* shutdownServer waits for the requests of guests, and after three seconds closes
\* their connections.
AsGuest == {h \in Handlers : handler[h].pc # "idle" /\ handler[h].by # Host}
Shutdown(t) ==
    /\ At(t, "shutdown") /\ lock' = "free"
    /\ handler' = Cancelled(AsGuest)
    /\ thread' = [thread EXCEPT ![t] = Onward(t, thread[t].failed \/ AsGuest # {})]
    /\ lan' = [lan EXCEPT !.current = 0, !.state = "stopped"]
    /\ UNCHANGED <<lifecycle, session, revoked, content>> /\ Works
\* finishMeeting, or the recorder's failure handler
AfterStop ==
    /\ At("end", "after") /\ Goes("end", "done")
    /\ lifecycle' \in {"finalizing", "interrupted"}
    /\ UNCHANGED <<lan, lock>> /\ Guestless /\ Works

\* Runtime.Start.  A start that finds a generation, for two commands at once, keeps
\* it or stops it first; here commands follow each other.
Start(t) ==
    /\ At(t, "start") /\ lock = "free" /\ lan.current = 0 /\ lan.built < MaxGenerations
    /\ Goes(t, "idle") /\ UNCHANGED <<lock, lifecycle>> /\ Guestless
    /\ \/ lan' = [state |-> "serving", current |-> lan.built + 1, built |-> lan.built + 1] /\ Works
       \/ lan' = [lan EXCEPT !.state = "failed"] /\ Fails

\* RetryLAN and StopLAN, of the active meeting
Command ==
    /\ At("host", "idle") /\ lifecycle # "interrupted"
    /\ \E again \in BOOLEAN : /\ again => lan.built < MaxGenerations
                              /\ thread' = [thread EXCEPT !["host"] = [NoCall EXCEPT !.pc = "stop", !.again = again]]
    /\ UNCHANGED <<lan, lock, lifecycle>> /\ Guestless /\ Works
\* EndMeeting, or the recorder fails
EndMeeting ==
    /\ At("end", "idle") /\ Goes("end", "stop")
    /\ UNCHANGED <<lan, lock, lifecycle>> /\ Guestless /\ Works
\* serve returns an unexpected error: the generation is gone, and its goroutine
\* goes on to cancel the uploads and revoke the sessions.
ListenerFails ==
    /\ lan.state = "serving" /\ At("serve", "idle") /\ Goes("serve", "revoke") /\ Fails
    /\ lan' = [lan EXCEPT !.current = 0, !.state = "failed"]
    /\ UNCHANGED <<lock, lifecycle>> /\ Guestless

-----------------------------------------------------------------------------
(* The sessions *)
Unshared == UNCHANGED sharing

\* SessionService.Create resolves the token, and inserts the row later.
ResolveMeetingToken(g) ==
    /\ session[g].row = "none" /\ Serving(lan.current)
    /\ session' = [session EXCEPT ![g] = [row |-> "joining", generation |-> lan.current]]
    /\ UNCHANGED <<revoked, handler, content>> /\ Unshared /\ Works
CreateSession(g) ==
    /\ session[g].row = "joining"
    /\ \/ session' = [session EXCEPT ![g].row = "active"] /\ Works
       \/ session' = [session EXCEPT ![g] = NoSession] /\ Fails
    /\ UNCHANGED <<revoked, handler, content>> /\ Unshared
\* Authenticate
Authentic(g) == session[g].row = "active" /\ Serving(session[g].generation)

-----------------------------------------------------------------------------
(* Messages and attachments *)
Step(h, pc) == handler' = [handler EXCEPT ![h].pc = pc]
Finish(h) == handler' = [handler EXCEPT ![h] = Idle]
Waits(h, pc) == handler[h].pc = pc
Quiet == UNCHANGED <<session, revoked>> /\ Unshared

Writable_AnySession(o) == lifecycle = "recording"
\* GetWritableSession and GetWritableMeeting, in the transaction that asks
Writable(o) == lifecycle = "recording" /\ (o # Host => session[o].row = "active")
Existing(o, r) == {n \in DOMAIN events : events[n].by = o /\ events[n].request = r}
Held(o, r) == \E h \in Uploads : handler[h].by = o
Reservable(o, r) == ~Held(o, r) /\ Cardinality(Uploads) < MaxConcurrent
Request(h, o, r, pc, file) ==
    handler' = [handler EXCEPT ![h] = [Idle EXCEPT !.pc = pc, !.by = o, !.request = r, !.file = file]]
Referenced == {events[n].file : n \in DOMAIN events}
Used == files \cup parts \cup abandoned \cup Referenced
\* A name made of a new id.  One number stands for the name of an upload's .part and,
\* once that is renamed, of its final file.
Fresh == CHOOSE f \in 1..Cardinality(Used) + 1 : f \notin Used

\* A request arrives: a message, or an upload that finds room with the coordinator
\* and, by findExisting, nothing there yet, and creates its .part.
Arrive(h, o, r) ==
    /\ Waits(h, "idle") /\ Len(events) < MaxEvents /\ (o # Host => Authentic(o))
    /\ \/ Request(h, o, r, "message", 0) /\ UNCHANGED parts
       \/ /\ Reservable(o, r) /\ Writable(o) /\ Existing(o, r) = {}
          /\ Request(h, o, r, "streaming", Fresh) /\ parts' = parts \cup {Fresh}
    /\ UNCHANGED <<events, files, abandoned>> /\ Quiet /\ Works

Entity(h, kind) == [by |-> handler[h].by, request |-> handler[h].request, kind |-> kind, file |-> handler[h].file]
MayCommit_Again(h) == Writable(handler[h].by)
MayCommit(h) == Writable(handler[h].by) /\ Existing(handler[h].by, handler[h].request) = {}
\* createWithinTransaction: writable, not there yet, the next seq, the entity
CommitMessage(h) ==
    /\ Waits(h, "message") /\ Finish(h)
    /\ events' = IF handler[h].live /\ MayCommit(h) THEN Append(events, Entity(h, "message")) ELSE events
    /\ UNCHANGED <<parts, files, abandoned>> /\ Quiet /\ Works

\* cleanup and commitStaged ignore the error of os.Remove: what cannot be removed stays.
CleanUp(h) == parts' = parts \ {handler[h].file}
\* streamToStaging: the content is there, or the upload ends and takes its .part away.
Stage(h) ==
    /\ Waits(h, "streaming") /\ UNCHANGED <<events, files, abandoned>> /\ Quiet
    /\ \/ handler[h].live /\ Step(h, "staged") /\ UNCHANGED parts /\ Works
       \/ ~handler[h].live /\ CleanUp(h) /\ Finish(h) /\ Works
       \/ (CleanUp(h) \/ UNCHANGED parts) /\ Finish(h) /\ Fails
\* commitStaged: the part becomes the final file, and the rows are left to the
\* writer, which takes nothing of a context that has ended.
Rename(h) ==
    /\ Waits(h, "staged") /\ CleanUp(h) /\ files' = files \cup {handler[h].file}
    /\ Step(h, IF handler[h].live THEN "queued" ELSE "answered")
    /\ UNCHANGED <<events, abandoned>> /\ Quiet /\ Works
RenameFails(h) ==
    /\ Waits(h, "staged") /\ (CleanUp(h) \/ UNCHANGED parts) /\ Finish(h)
    /\ UNCHANGED <<events, files, abandoned>> /\ Quiet /\ Fails
\* the writer runs commitDatabase
Execute(h) ==
    /\ Waits(h, "queued") /\ UNCHANGED <<parts, files, abandoned>> /\ Quiet
    /\ \/ /\ handler[h].live /\ MayCommit(h) /\ Works
          /\ events' = Append(events, Entity(h, "attachment"))
          /\ handler' = [handler EXCEPT ![h].pc = "answered", ![h].committed = TRUE]
       \/ ~(handler[h].live /\ MayCommit(h)) /\ Step(h, "answered") /\ UNCHANGED events /\ Works
       \/ handler[h].live /\ Step(h, "answered") /\ UNCHANGED events /\ Fails
\* Submit returns the result, or, once the context has ended, its error although the
\* writer may have committed; on an error the final file is removed.
Removes(h) == files' = files \ {handler[h].file}
Refused(h) == \/ Waits(h, "answered") /\ ~handler[h].committed
              \/ handler[h].pc \in {"queued", "answered"} /\ ~handler[h].live
Answered(h) ==
    /\ \/ Waits(h, "answered") /\ handler[h].committed /\ UNCHANGED <<files, abandoned>>
       \/ /\ Refused(h) /\ Removes(h)
          /\ abandoned' = IF handler[h].committed THEN abandoned \cup {handler[h].file} ELSE abandoned
    /\ Finish(h) /\ UNCHANGED <<events, parts>> /\ Quiet /\ Works
\* os.Remove fails, and the file stays whether a row names it or not.
RemoveFails(h) == Refused(h) /\ Finish(h) /\ UNCHANGED content /\ Quiet /\ Fails
\* CancelRequest of the host, the guest's connection closes, or the two hours of its upload
\* are over
Cancel(h) ==
    /\ handler[h].pc # "idle" /\ handler[h].live /\ handler' = Cancelled({h})
    /\ UNCHANGED content /\ Quiet /\ Works

-----------------------------------------------------------------------------
(* The process ends, and the next start revokes what the last one left,    *)
(* removes the files no row names as far as it can, and interrupts an      *)
(* active meeting.                                                         *)
RecoverFiles == parts' = {} /\ files' = files \cap Referenced
Restart ==
    /\ Fails /\ UNCHANGED <<events, abandoned>>
    /\ lan' = [lan EXCEPT !.state = "disabled", !.current = 0] /\ lock' = "free"
    /\ thread' = [t \in Threads |-> [NoCall EXCEPT !.pc = "done"]]
    /\ handler' = [h \in Handlers |-> Idle]
    /\ session' = [g \in Guests |-> [row |-> IF session[g].row \in {"joining", "none"} THEN "none" ELSE
                                             Revoked[g].row, generation |-> 0]]
    /\ revoked' = 1..lan.built
    /\ UNCHANGED <<parts, files>> \/ (lifecycle # "interrupted" /\ RecoverFiles)
    /\ lifecycle' = "interrupted"

Listener ==
    \/ \E t \in Threads : StopCurrent(t) \/ Revoke(t) \/ Shutdown(t) \/ Start(t)
    \/ EndMeeting \/ AfterStop \/ Command \/ ListenerFails
Visit == \E g \in Guests : ResolveMeetingToken(g) \/ CreateSession(g)
Serve ==
    \/ \E h \in Handlers, o \in Owners, r \in Requests : Arrive(h, o, r)
    \/ \E h \in Handlers : \/ CommitMessage(h) \/ Stage(h) \/ Rename(h) \/ RenameFails(h)
                           \/ Execute(h) \/ Answered(h) \/ RemoveFails(h) \/ Cancel(h)
Next == Listener \/ Visit \/ Serve \/ Restart
Spec == Init /\ [][Next]_vars

-----------------------------------------------------------------------------
(* A request of a session is committed once, however a guest repeats it as *)
(* a message or an upload while the first is still being served            *)
(* (content_service.go:110, attachment_service.go:328).                    *)
OnePerRequest == \A m, n \in DOMAIN events :
    (events[m].by = events[n].by /\ events[m].request = events[n].request) => m = n
(* Every attachment's file is there, but for those an upload removed after *)
(* its context had ended (attachment_service.go:298).                      *)
FilesBehindRows == \A n \in DOMAIN events :
    events[n].kind = "attachment" => events[n].file \in files \cup abandoned
(* Files that neither a row names nor an upload still has.  On whichever   *)
(* way an upload ends it takes its own away, unless that very removal      *)
(* fails: as long as the meeting goes on there are no more of them than    *)
(* there were failures (cleanup, commitStaged).                            *)
Strays == (files \cup parts) \ (Referenced \cup {handler[h].file : h \in Handlers})
StraysAreFailures == lifecycle # "interrupted" => Cardinality(Strays) <= faults
(* The listener is one generation's or nobody's, and a stop that is under  *)
(* way has it to itself.                                                   *)
OneListener ==
    /\ lan.current # 0 => lan.state \in {"serving", "stopping"}
    /\ lan.state = "stopping" => lock # "free"
GuestInv == TypeOK /\ OnePerRequest /\ FilesBehindRows /\ StraysAreFailures /\ OneListener

(* Nothing is added by a guest whose generation's sessions were revoked:   *)
(* not by a request that was authenticated before, not by an upload that   *)
(* was streaming, and not by a session inserted after the revocation       *)
(* (session_service.go:135, :164).                                         *)
ContentFromSharers == [][\A n \in DOMAIN events' \ DOMAIN events :
    events'[n].by # Host => session[events'[n].by].generation \notin revoked]_vars

(* What the documents and comments promise and the code does not keep.     *)

(* An upload that was cancelled leaves no attachment, and one that is      *)
(* committed has its file: Submit answers an ended context although the    *)
(* writer has committed the row, whose file is then removed                *)
(* (write_dispatcher.go:64).                                               *)
AttachmentHasFile == \A n \in DOMAIN events : events[n].kind = "attachment" => events[n].file \in files
(* A meeting that is interrupted is no longer shared: the listener started *)
(* last by StartMeeting outlives a meeting that ended meanwhile            *)
(* (runtime_service.go:607).                                               *)
SharedWhileActive == (lifecycle = "interrupted" /\ lan.current # 0) => \E t \in Threads : At(t, "stop")
=============================================================================
