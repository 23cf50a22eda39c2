--------------------------- MODULE RecordingRuntime ---------------------------
(***************************************************************************)
(* internal/service/meeting with internal/repository/meeting: one meeting  *)
(* is created, recorded into segment files by a runner goroutine, ended by *)
(* EndMeeting, interrupted by a recording failure, and recovered after a   *)
(* crash or on request.  The processes are                                 *)
(*   - the starter   StartMeeting, one call at a time,                     *)
(*   - the runner    runSession/runRecording, one per meeting,             *)
(*   - the enders    concurrent callers of EndMeeting,                     *)
(*   - the recovery  RecoverInterruptedMeetings at boot, and               *)
(*                   RetryInterruptedMeeting on request.                   *)
(* Audio is a number of samples.  A segment file is known by its place in  *)
(* the sequence, so the directory of a meeting is how many ready segments  *)
(* it holds, how many samples they hold together, and the open part.       *)
(***************************************************************************)
EXTENDS Integers, FiniteSets

CONSTANTS
    Meetings,          \* meeting ids, each created at most once
    Enders,            \* concurrent callers of EndMeeting
    SegmentSamples,    \* maxSegmentSamples
    CheckpointSamples, \* checkpointSamples
    MaxSamples,        \* bound: samples one meeting captures
    FaultKinds,        \* which external operations may fail
    MaxFaults,         \* bound: how many of them fail in a behaviour
    MaxCrashes,        \* bound: crashes of the process
    None

ASSUME SizesAssumption ==
    /\ SegmentSamples \in Nat /\ SegmentSamples > 1
    /\ CheckpointSamples \in Nat \ {0}
    /\ MaxSamples \in Nat /\ MaxFaults \in Nat /\ MaxCrashes \in Nat
    /\ None \notin Meetings \cup Enders

VARIABLES
    (* database: one row of meetings and the rows of audio_assets *)
    life, save,
    mic,          \* segments 1..mic are registered as microphone assets,
    micOf,        \* and this is the meeting whose files those rows name
    mixed,        \* samples of the mixed asset, 0 = not registered
    (* files of one meeting *)
    segs,         \* ready segment files 1..segs
    closed,       \* samples in them
    hollow,       \* the last ready segment holds no sample
    part,         \* samples in segment segs+1 .wav.part, NoPart = no file
    synced,       \* samples of the part that survive a crash
    merged,       \* samples of recording.wav, NoPart = no file
    mergePart,    \* recording.wav.part exists
    (* memory: the recording session of each meeting *)
    runner, failed, cancelled, writer, stop, stopOk,
    (* memory: RecordingCoordinator *)
    starting, session, last,
    (* memory: StartMeeting *)
    startPc, startOf,
    (* memory: the transcript of a meeting *)
    transcript,   \* MeetingRuntime: meetingID and lastStopped
    tail,         \* RealtimeCoordinator of each meeting: what its Stop has come to
    (* memory: EndMeeting *)
    endPc, endOf, endSess, endEnd, waitOn, endRes, ending, lastEnded,
    finalization,
    (* memory: RecoveryService *)
    recPc, recOf,
    (* environment *)
    phase, faults, crashes

rows     == <<life, save, mic, micOf, mixed>>
files    == <<segs, closed, hollow, part, synced, merged, mergePart>>
sessions == <<runner, failed, cancelled, writer, stop, stopOk>>
coord    == <<starting, session, last>>
tails    == <<transcript, tail>>
starter  == <<startPc, startOf, tails>>
enders   == <<endPc, endOf, endSess, endEnd, waitOn, endRes, ending,
              lastEnded, finalization>>
recovery == <<recPc, recOf>>
env      == <<phase, faults, crashes>>

vars == <<rows, files, sessions, coord, starter, enders, recovery, env>>

NoPart == -1

Active == {"preparing", "recording", "finalizing"}

NoLast == [of |-> None, ok |-> FALSE, end |-> 0]

NoTranscript == [of |-> None, last |-> None]

RowsOK ==
    /\ life \in [Meetings -> Active \cup {"none", "deleted", "ended", "interrupted"}]
    /\ save \in [Meetings -> {"pending", "saving", "saved", "failed"}]
    /\ mic \in [Meetings -> Nat] /\ micOf \in [Meetings -> Meetings \cup {None}]
    /\ mixed \in [Meetings -> Nat]

FilesOK ==
    /\ segs \in [Meetings -> Nat] /\ closed \in [Meetings -> Nat]
    /\ hollow \in [Meetings -> BOOLEAN]
    /\ part \in [Meetings -> Nat \cup {NoPart}] /\ synced \in [Meetings -> Nat]
    /\ merged \in [Meetings -> Nat \cup {NoPart}]
    /\ mergePart \in [Meetings -> BOOLEAN]

SessionsOK ==
    /\ runner \in [Meetings -> {"none", "await", "run", "register", "exited",
                                "clear", "gone"}]
    /\ failed \in [Meetings -> BOOLEAN] /\ cancelled \in [Meetings -> BOOLEAN]
    /\ writer \in [Meetings -> {"none", "open", "closed"}]
    /\ stop \in [Meetings -> {"none", "running", "done"}]
    /\ stopOk \in [Meetings -> BOOLEAN]
    /\ starting \in BOOLEAN /\ session \in Meetings \cup {None}
    /\ last.of \in Meetings \cup {None} /\ last.ok \in BOOLEAN
    /\ last.end \in Nat

CallsOK ==
    /\ startPc \in {"idle", "prepare", "device", "frame", "publish", "commit",
                    "activate", "abort", "aborting", "quit", "leave", "discard",
                    "interrupt"}
    /\ startOf \in Meetings \cup {None}
    /\ endPc \in [Enders -> {"idle", "wait", "read", "begin", "resume", "stop",
                             "stopping", "transcript", "draining", "rebuild", "persist",
                             "merge", "merging", "asset", "flush", "commit", "fail"}]
    /\ endOf \in [Enders -> Meetings \cup {None}]
    /\ endSess \in [Enders -> Meetings \cup {None}]
    /\ endEnd \in [Enders -> Nat]
    /\ waitOn \in [Enders -> Enders \cup {None}]
    /\ endRes \in [Enders -> {"none", "ok", "error"}]
    /\ ending \in Enders \cup {None} /\ lastEnded \in Meetings \cup {None}
    /\ finalization \in [Meetings -> {"none", "running", "failed", "completed"}]
    /\ recPc \in {"idle", "repair", "inspect", "merge", "merging", "asset",
                  "transcript", "good", "bad"}
    /\ recOf \in Meetings \cup {None}

TailOK ==
    /\ transcript \in [of : Meetings \cup {None}, last : Meetings \cup {None}]
    /\ tail \in [Meetings -> {"none", "open", "draining", "stuck", "done"}]

EnvOK ==
    /\ phase \in {"down", "booting", "up"}
    /\ faults \in 0..MaxFaults /\ crashes \in 0..MaxCrashes

TypeOK == RowsOK /\ FilesOK /\ SessionsOK /\ CallsOK /\ TailOK /\ EnvOK

AllMeetings(x) == [m \in Meetings |-> x]

AllEnders(x) == [e \in Enders |-> x]

InitMemory ==
    /\ runner = AllMeetings("none") /\ failed = AllMeetings(FALSE)
    /\ cancelled = AllMeetings(FALSE) /\ writer = AllMeetings("none")
    /\ stop = AllMeetings("none") /\ stopOk = AllMeetings(TRUE)
    /\ starting = FALSE /\ session = None /\ last = NoLast
    /\ startPc = "idle" /\ startOf = None
    /\ transcript = NoTranscript /\ tail = AllMeetings("none")
    /\ endPc = AllEnders("idle") /\ endOf = AllEnders(None)
    /\ endSess = AllEnders(None) /\ endEnd = AllEnders(0)
    /\ waitOn = AllEnders(None) /\ endRes = AllEnders("none")
    /\ ending = None /\ lastEnded = None
    /\ finalization = AllMeetings("none")
    /\ recPc = "idle" /\ recOf = None

Init ==
    /\ life = AllMeetings("none") /\ save = AllMeetings("pending")
    /\ mic = AllMeetings(0) /\ micOf = AllMeetings(None)
    /\ mixed = AllMeetings(0)
    /\ segs = AllMeetings(0) /\ closed = AllMeetings(0)
    /\ hollow = AllMeetings(FALSE)
    /\ part = AllMeetings(NoPart) /\ synced = AllMeetings(0)
    /\ merged = AllMeetings(NoPart) /\ mergePart = AllMeetings(FALSE)
    /\ InitMemory
    /\ phase = "up" /\ faults = 0 /\ crashes = 0

-----------------------------------------------------------------------------
(* Faults of the external world: a device, a file or a database call may   *)
(* return an error, a bounded number of times.                             *)
Works == UNCHANGED env

Breaks(kind) ==
    /\ kind \in FaultKinds
    /\ faults < MaxFaults
    /\ faults' = faults + 1
    /\ UNCHANGED <<phase, crashes>>

(* updateState: a one-row UPDATE whose WHERE names the states it may leave.*)
CanMove(m, from, result) == life[m] \in from /\ save[m] \in result

(* The predicate of CompleteMeeting and of MarkFinalizingFailed.           *)
BugClaimedAlways(m) == TRUE

Claimed(m) == CanMove(m, {"finalizing"}, {"saving"})

SetState(m, to, result) ==
    /\ life' = [life EXCEPT ![m] = to]
    /\ save' = [save EXCEPT ![m] = result]

(* InterruptMeeting, its result ignored by every caller.                   *)
InterruptMeeting(m) ==
    /\ \/ life[m] \in Active /\ SetState(m, "interrupted", "failed") /\ Works
       \/ life[m] \notin Active /\ UNCHANGED <<life, save>> /\ Works
       \/ UNCHANGED <<life, save>> /\ Breaks("db")
    /\ UNCHANGED <<mic, micOf, mixed>>

(* CloseReady: sync, rename part to ready.                                 *)
RenamePart(m) ==
    /\ segs' = [segs EXCEPT ![m] = @ + 1]
    /\ closed' = [closed EXCEPT ![m] = @ + part[m]]
    /\ hollow' = [hollow EXCEPT ![m] = part[m] = 0]
    /\ part' = [part EXCEPT ![m] = NoPart]
    /\ synced' = [synced EXCEPT ![m] = 0]
    /\ UNCHANGED <<merged, mergePart>>

(* CreateReadyAudioAsset: inserting the same facts again is accepted,      *)
(* other facts under the same key are a conflict.                          *)
MicFree(m, source) == mic[m] = 0 \/ micOf[m] = source

RegisterMic(m, source, n) ==
    /\ mic' = [mic EXCEPT ![m] = n]
    /\ micOf' = [micOf EXCEPT ![m] = source]

Registrable(m, samples) == mixed[m] \in {0, samples}

-----------------------------------------------------------------------------
(* StartMeeting *)

StartGoto(pc) == startPc' = pc /\ UNCHANGED <<startOf, tails>>

StartReturn == startPc' = "idle" /\ startOf' = None /\ UNCHANGED tails

(* CreatePreparing: the unique index on active meetings refuses a second.  *)
StartCreate(m) ==
    /\ phase = "up" /\ startPc = "idle"
    /\ life[m] = "none"
    /\ \A n \in Meetings : life[n] \notin Active
    /\ SetState(m, "preparing", "pending")
    /\ startPc' = "prepare" /\ startOf' = m
    /\ Works /\ UNCHANGED tails
    /\ UNCHANGED <<mic, micOf, mixed, files, sessions, coord, enders, recovery>>

(* Directories, coordinator handlers, transcript.Start: handlers cannot be *)
(* replaced while a session is held, and the transcript of another meeting *)
(* must have been stopped.  Only a realtime one has a tail to be drained.  *)
StartPrepare ==
    /\ startPc = "prepare" /\ UNCHANGED startOf
    /\ \/ /\ session = None /\ ~starting /\ transcript.of = None
          /\ transcript' = [of |-> startOf, last |-> None]
          /\ \E t \in {"open", "done"} : tail' = [tail EXCEPT ![startOf] = t]
          /\ startPc' = "device" /\ Works
       \/ /\ session # None \/ starting \/ transcript.of # None
          /\ startPc' = "discard" /\ Works /\ UNCHANGED tails
       \/ /\ startPc' = "discard" /\ Breaks("device") /\ UNCHANGED tail
          /\ \/ UNCHANGED transcript
             \/ transcript.of = None /\ transcript' = NoTranscript
    /\ UNCHANGED <<rows, files, sessions, coord, enders, recovery>>

(* A start that fails from here on stops its transcript before it discards *)
(* or interrupts the meeting, and ignores how the stop ends.  Nobody else  *)
(* stops the transcript of a meeting that is preparing.                    *)
TranscriptStopped(m) == transcript' = [of |-> None, last |-> m]

StartTranscriptStops ==
    LET m == startOf
        held == transcript.of = m
    IN
    /\ startPc \in {"quit", "leave"} /\ UNCHANGED startOf
    /\ startPc' = IF startPc = "quit" THEN "discard" ELSE "interrupt"
    /\ \/ /\ IF held THEN TranscriptStopped(m) ELSE UNCHANGED transcript
          /\ tail' = IF held THEN [tail EXCEPT ![m] = "done"] ELSE tail
          /\ Works
       \/ /\ held /\ Breaks("transcript") /\ UNCHANGED transcript
          /\ \E t \in {"stuck", "done"} : /\ tail[m] = "done" => t = "done"
                                         /\ tail' = [tail EXCEPT ![m] = t]
    /\ UNCHANGED <<rows, files, sessions, coord, enders, recovery>>

(* reserveStart and capture.Start.                                         *)
StartDevice ==
    /\ startPc = "device"
    /\ \/ /\ session = None /\ ~starting
          /\ starting' = TRUE /\ StartGoto("frame") /\ Works
       \/ /\ session # None \/ starting
          /\ StartGoto("quit") /\ Works /\ UNCHANGED starting
       \/ StartGoto("quit") /\ Breaks("device") /\ UNCHANGED starting
    /\ UNCHANGED <<rows, files, sessions, session, last, enders, recovery>>

(* Checkpoint, which Start calls after the first frame whatever the        *)
(* checkpoint distance is.                                                 *)
BugNoFirstCheckpoint(m) == UNCHANGED synced

CheckpointFirst(m) == synced' = [synced EXCEPT ![m] = part'[m]]

(* The first frame is written and synced before Start returns.  A failure  *)
(* releases the slot; with a part on disk the meeting is interrupted,      *)
(* otherwise it is discarded.                                              *)
StartFirstFrame ==
    LET m == startOf IN
    /\ startPc = "frame"
    /\ \/ /\ part' = [part EXCEPT ![m] = 1]
          /\ CheckpointFirst(m)
          /\ StartGoto("publish") /\ Works /\ UNCHANGED starting
       \/ /\ Breaks("device") /\ UNCHANGED <<part, synced>>
          /\ starting' = FALSE /\ StartGoto("quit")
       \/ /\ Breaks("write")
          /\ \E n \in {0, 1} : part' = [part EXCEPT ![m] = n]
          /\ UNCHANGED synced
          /\ starting' = FALSE /\ StartGoto("leave")
    /\ UNCHANGED <<rows, segs, closed, hollow, merged, mergePart, sessions,
                   session, last, enders, recovery>>

(* The session becomes visible; its runner waits for Activate.             *)
StartPublish ==
    LET m == startOf IN
    /\ startPc = "publish"
    /\ starting' = FALSE /\ session' = m /\ last' = NoLast
    /\ runner' = [runner EXCEPT ![m] = "await"]
    /\ writer' = [writer EXCEPT ![m] = "open"]
    /\ StartGoto("commit") /\ Works
    /\ UNCHANGED <<rows, files, failed, cancelled, stop, stopOk, enders, recovery>>

StartCommit ==
    LET m == startOf IN
    /\ startPc = "commit"
    /\ \/ /\ CanMove(m, {"preparing"}, {"pending"})
          /\ SetState(m, "recording", "saving")
          /\ StartGoto("activate") /\ Works
       \/ /\ ~CanMove(m, {"preparing"}, {"pending"})
          /\ UNCHANGED <<life, save>> /\ StartGoto("abort") /\ Works
       \/ UNCHANGED <<life, save>> /\ StartGoto("abort") /\ Breaks("db")
    /\ UNCHANGED <<mic, micOf, mixed, files, sessions, coord, enders, recovery>>

(* Activate: without a session the meeting is interrupted.                 *)
StartActivate ==
    /\ startPc = "activate"
    /\ \/ /\ session # None
          /\ runner' = [runner EXCEPT ![session] = IF @ = "await" THEN "run" ELSE @]
          /\ StartReturn
       \/ /\ session = None /\ StartGoto("interrupt") /\ UNCHANGED runner
    /\ Works
    /\ UNCHANGED <<rows, files, failed, cancelled, writer, stop, stopOk, coord,
                   enders, recovery>>

(* compensateEmptyPreparing: DeletePreparing, an error leaves the row.     *)
StartDiscard ==
    LET m == startOf IN
    /\ startPc = "discard"
    /\ \/ /\ life[m] = "preparing" /\ SetState(m, "deleted", save[m]) /\ Works
       \/ /\ life[m] # "preparing" /\ UNCHANGED <<life, save>> /\ Works
       \/ UNCHANGED <<life, save>> /\ Breaks("db")
    /\ StartReturn
    /\ UNCHANGED <<mic, micOf, mixed, files, sessions, coord, enders, recovery>>

StartInterrupt ==
    /\ startPc = "interrupt"
    /\ InterruptMeeting(startOf)
    /\ StartReturn
    /\ UNCHANGED <<files, sessions, coord, enders, recovery>>

-----------------------------------------------------------------------------
(* The recording session *)

(* stopOnce.Do: the first caller cancels the runner and stops the stream;  *)
(* later callers wait for the same result.                                 *)
JoinStop(m) ==
    \/ /\ stop[m] = "none"
       /\ cancelled' = [cancelled EXCEPT ![m] = TRUE]
       /\ stop' = [stop EXCEPT ![m] = "running"]
       /\ \/ Works /\ UNCHANGED stopOk
          \/ Breaks("stop") /\ stopOk' = [stopOk EXCEPT ![m] = FALSE]
    \/ /\ stop[m] # "none"
       /\ Works /\ UNCHANGED <<cancelled, stop, stopOk>>

(* stopRecordingSession after the runner is done: CloseCurrent completes   *)
(* the open part.  A closed writer or a failing close makes the stop fail; *)
(* a close can fail on either side of the rename.                          *)
StopFinish(m) ==
    /\ stop[m] = "running" /\ runner[m] = "exited"
    /\ stop' = [stop EXCEPT ![m] = "done"]
    /\ \/ /\ writer[m] = "open" /\ RenamePart(m) /\ Works
          /\ writer' = [writer EXCEPT ![m] = "none"]
          /\ stopOk' = [stopOk EXCEPT ![m] = @ /\ ~failed[m]]
       \/ /\ writer[m] = "open" /\ Breaks("write")
          /\ \/ RenamePart(m)
             \/ UNCHANGED files
          /\ UNCHANGED writer
          /\ stopOk' = [stopOk EXCEPT ![m] = FALSE]
       \/ /\ writer[m] # "open"
          /\ UNCHANGED <<files, writer>> /\ Works
          /\ stopOk' = [stopOk EXCEPT ![m] = @ /\ ~failed[m] /\ writer[m] = "none"]
    /\ UNCHANGED <<rows, runner, failed, cancelled, coord, starter, enders, recovery>>

(* The waiting caller takes the result: the coordinator forgets the        *)
(* session and keeps what it returned for later callers.                   *)
ForgetSession(m) ==
    IF session = m
    THEN /\ session' = None
         /\ last' = [of |-> m, ok |-> stopOk[m], end |-> closed[m]]
    ELSE UNCHANGED <<session, last>>

(* StartMeeting gives up after a failed commit: Stop of the recording and  *)
(* of the transcript, then interrupt.                                      *)
StartAbort ==
    /\ startPc = "abort"
    /\ \/ /\ session # None /\ JoinStop(session) /\ StartGoto("aborting")
       \/ /\ session = None /\ StartGoto("leave")
          /\ Works /\ UNCHANGED <<cancelled, stop, stopOk>>
    /\ UNCHANGED <<rows, files, runner, failed, writer, coord, enders, recovery>>

StartAborted ==
    /\ startPc = "aborting" /\ stop[startOf] = "done"
    /\ ForgetSession(startOf)
    /\ StartGoto("leave") /\ Works
    /\ UNCHANGED <<rows, files, sessions, starting, enders, recovery>>

(* runRecording, one frame of one sample.  A frame that fills the segment  *)
(* closes it, and the runner goes on to register it.                       *)
Written(m) == IF part[m] = NoPart THEN 1 ELSE part[m] + 1

Room(m) == closed[m] + Written(m) =< MaxSamples

Frame(m) ==
    /\ runner[m] = "run" /\ Room(m)
    /\ Written(m) < SegmentSamples
    /\ part' = [part EXCEPT ![m] = Written(m)]
    /\ synced' = [synced EXCEPT ![m] =
                      IF Written(m) % CheckpointSamples = 0 THEN Written(m) ELSE @]
    /\ writer' = [writer EXCEPT ![m] = "open"]
    /\ Works
    /\ UNCHANGED <<rows, segs, closed, hollow, merged, mergePart, runner, failed,
                   cancelled, stop, stopOk, coord, starter, enders, recovery>>

CloseSegment(m) ==
    /\ segs' = [segs EXCEPT ![m] = @ + 1]
    /\ closed' = [closed EXCEPT ![m] = @ + Written(m)]
    /\ hollow' = [hollow EXCEPT ![m] = FALSE]
    /\ part' = [part EXCEPT ![m] = NoPart]
    /\ synced' = [synced EXCEPT ![m] = 0]
    /\ UNCHANGED <<merged, mergePart>>

FrameCompletes(m) ==
    /\ runner[m] = "run" /\ Room(m)
    /\ Written(m) = SegmentSamples
    /\ CloseSegment(m)
    /\ writer' = [writer EXCEPT ![m] = "none"]
    /\ runner' = [runner EXCEPT ![m] = "register"]
    /\ Works
    /\ UNCHANGED <<rows, failed, cancelled, stop, stopOk, coord, starter, enders,
                   recovery>>

RunnerFails(m) ==
    /\ runner' = [runner EXCEPT ![m] = "exited"]
    /\ failed' = [failed EXCEPT ![m] = TRUE]

(* WriteFrame fails: before anything is written; after an empty part was   *)
(* created, with or without a writer for it; after the samples were        *)
(* written; or in CloseReady, on either side of the rename, which leaves a *)
(* writer that refuses to be closed again.                                 *)
FrameFails(m) ==
    /\ runner[m] = "run" /\ Room(m) /\ Breaks("write")
    /\ RunnerFails(m)
    /\ \/ UNCHANGED <<files, writer>>
       \/ /\ part[m] = NoPart
          /\ part' = [part EXCEPT ![m] = 0]
          /\ \E w \in {"none", "open"} : writer' = [writer EXCEPT ![m] = w]
          /\ UNCHANGED <<segs, closed, hollow, synced, merged, mergePart>>
       \/ /\ part' = [part EXCEPT ![m] = Written(m)]
          /\ writer' = [writer EXCEPT ![m] = "open"]
          /\ UNCHANGED <<segs, closed, hollow, synced, merged, mergePart>>
       \/ /\ Written(m) = SegmentSamples
          /\ writer' = [writer EXCEPT ![m] = "closed"]
          /\ \/ CloseSegment(m)
             \/ /\ part' = [part EXCEPT ![m] = Written(m)]
                /\ UNCHANGED <<segs, closed, hollow, synced, merged, mergePart>>
    /\ UNCHANGED <<rows, cancelled, stop, stopOk, coord, starter, enders, recovery>>

(* The completed segment handler runs under the context of the session:    *)
(* once it is cancelled the insert fails, and so does the session.         *)
RegisterSegment(m) ==
    /\ runner[m] = "register"
    /\ \/ /\ ~cancelled[m] /\ MicFree(m, m) /\ Works
          /\ RegisterMic(m, m, segs[m])
          /\ runner' = [runner EXCEPT ![m] = "run"]
          /\ UNCHANGED failed
       \/ /\ RunnerFails(m) /\ UNCHANGED <<mic, micOf>>
          /\ \/ Breaks("db")
             \/ cancelled[m] /\ Works
             \/ ~MicFree(m, m) /\ Works
    /\ UNCHANGED <<life, save, mixed, files, cancelled, writer, stop, stopOk, coord,
                   starter, enders, recovery>>

(* ReadFrames returns an error of the device.                              *)
DeviceFails(m) ==
    /\ runner[m] = "run" /\ ~cancelled[m] /\ Breaks("device")
    /\ RunnerFails(m)
    /\ UNCHANGED <<rows, files, cancelled, writer, stop, stopOk, coord, starter,
                   enders, recovery>>

(* ReadFrames returns because the session was cancelled: a normal stop.    *)
RunnerExits(m) ==
    /\ runner[m] \in {"await", "run"} /\ cancelled[m]
    /\ runner' = [runner EXCEPT ![m] = "exited"]
    /\ Works
    /\ UNCHANGED <<rows, files, failed, cancelled, writer, stop, stopOk, coord,
                   starter, enders, recovery>>

(* runSession after a failure: stop, interrupt the meeting, then let go.   *)
BugStopOnlyOnRequest(m) == failed[m] /\ stop[m] = "none" /\ cancelled[m]

MustStop(m) == failed[m] /\ stop[m] = "none"

RunnerStops(m) ==
    /\ runner[m] = "exited" /\ MustStop(m)
    /\ JoinStop(m)
    /\ UNCHANGED <<rows, files, runner, failed, writer, coord, starter, enders, recovery>>

BugInterruptBeforeStop(m) == failed[m]

MayInterrupt(m) == failed[m] /\ stop[m] = "done"

FailureHandler(m) ==
    /\ runner[m] = "exited" /\ MayInterrupt(m)
    /\ InterruptMeeting(m)
    /\ runner' = [runner EXCEPT ![m] = "clear"]
    /\ UNCHANGED <<files, failed, cancelled, writer, stop, stopOk, coord, starter,
                   enders, recovery>>

RunnerClears(m) ==
    /\ runner[m] = "clear"
    /\ ForgetSession(m)
    /\ runner' = [runner EXCEPT ![m] = "gone"]
    /\ Works
    /\ UNCHANGED <<rows, files, failed, cancelled, writer, stop, stopOk, starting,
                   starter, enders, recovery>>

-----------------------------------------------------------------------------
(* EndMeeting *)

EndGoto(e, pc) == endPc' = [endPc EXCEPT ![e] = pc]

Call == <<endOf, waitOn, endRes, ending, lastEnded>>

Finalizing(m, state) == finalization' = [finalization EXCEPT ![m] = state]


Served(e) == {e} \cup {x \in Enders : endPc[x] = "wait" /\ waitOn[x] = e}

BugErrorCached(e, result) == lastEnded' = endOf[e]

Remember(e, result) ==
    lastEnded' = IF result = "ok" THEN endOf[e] ELSE lastEnded

Return(e, result) ==
    LET served == Served(e) IN
    /\ endPc' = [x \in Enders |-> IF x \in served THEN "idle" ELSE endPc[x]]
    /\ endRes' = [x \in Enders |-> IF x \in served THEN result ELSE endRes[x]]
    /\ waitOn' = [x \in Enders |-> IF x \in served THEN None ELSE waitOn[x]]
    /\ endSess' = [endSess EXCEPT ![e] = None]
    /\ endEnd' = [endEnd EXCEPT ![e] = 0]
    /\ Remember(e, result)
    /\ ending' = IF ending = e THEN None ELSE ending
    /\ UNCHANGED endOf

(* reserveEnd: a cached result, a call to wait for, or a call of one's own.*)
EndCall(e, m) ==
    /\ phase = "up" /\ endPc[e] = "idle"
    /\ life[m] \notin {"none", "deleted"}
    /\ endOf' = [endOf EXCEPT ![e] = m]
    /\ CASE lastEnded = m ->
               /\ endRes' = [endRes EXCEPT ![e] = "ok"]
               /\ UNCHANGED <<endPc, waitOn, ending>>
         [] lastEnded # m /\ ending # None /\ endOf[ending] = m ->
               /\ EndGoto(e, "wait")
               /\ waitOn' = [waitOn EXCEPT ![e] = ending]
               /\ endRes' = [endRes EXCEPT ![e] = "none"]
               /\ UNCHANGED ending
         [] OTHER ->
               /\ EndGoto(e, "read")
               /\ ending' = e
               /\ endRes' = [endRes EXCEPT ![e] = "none"]
               /\ UNCHANGED waitOn
    /\ Works
    /\ UNCHANGED <<endSess, endEnd, lastEnded, finalization, rows, files, sessions,
                   coord, starter, recovery>>

(* finishMeeting reads the row and decides what to claim.                  *)
EndRead(e) ==
    LET m == endOf[e] IN
    /\ endPc[e] = "read"
    /\ Finalizing(m, "running")
    /\ \/ life[m] = "ended" /\ Return(e, "ok") /\ Works
       \/ life[m] \in {"none", "deleted", "interrupted", "preparing"} /\ Return(e, "error") /\ Works
       \/ Return(e, "error") /\ Breaks("db")
       \/ /\ \/ life[m] = "recording" /\ EndGoto(e, "begin")
             \/ life[m] = "finalizing" /\ save[m] = "failed" /\ EndGoto(e, "resume")
             \/ life[m] = "finalizing" /\ save[m] # "failed" /\ EndGoto(e, "stop")
          /\ Works /\ UNCHANGED <<Call, endSess, endEnd>>
    /\ UNCHANGED <<rows, files, sessions, coord, starter, recovery>>

(* BeginFinalizing and ResumeFinalizing: one update, conditional on the    *)
(* states the read saw.                                                    *)
EndClaim(e) ==
    LET m == endOf[e]
        free == \/ endPc[e] = "begin" /\ CanMove(m, {"recording"}, {"saving"})
                \/ endPc[e] = "resume" /\ CanMove(m, {"finalizing"}, {"failed"})
    IN
    /\ endPc[e] \in {"begin", "resume"}
    /\ \/ /\ free /\ SetState(m, "finalizing", "saving")
          /\ EndGoto(e, "stop") /\ Works
          /\ UNCHANGED <<Call, endSess, endEnd>>
       \/ /\ \/ Breaks("db")
             \/ ~free /\ Works
          /\ UNCHANGED <<life, save>> /\ Return(e, "error")
    /\ UNCHANGED <<finalization, mic, micOf, mixed, files, sessions, coord, starter, recovery>>

(* CoreFinalizer.stopCapture: the coordinator's session, or its last       *)
(* result, or an error when it has neither.                                *)
EndStop(e) ==
    /\ endPc[e] = "stop"
    /\ Finalizing(endOf[e], "running")
    /\ \/ /\ session # None
          /\ JoinStop(session)
          /\ endSess' = [endSess EXCEPT ![e] = session]
          /\ EndGoto(e, "stopping") /\ UNCHANGED endEnd
       \/ /\ session = None /\ last.ok
          /\ endSess' = [endSess EXCEPT ![e] = last.of]
          /\ endEnd' = [endEnd EXCEPT ![e] = last.end]
          /\ EndGoto(e, "transcript")
          /\ Works /\ UNCHANGED <<cancelled, stop, stopOk>>
       \/ /\ session = None /\ ~last.ok
          /\ EndGoto(e, "fail")
          /\ Works /\ UNCHANGED <<endSess, endEnd, cancelled, stop, stopOk>>
    /\ UNCHANGED <<Call, rows, files, runner, failed, writer, coord, starter, recovery>>

BugStopErrorIgnored(s) == TRUE

StoppedWell(s) == stopOk[s]

EndStopped(e) ==
    LET s == endSess[e] IN
    /\ endPc[e] = "stopping" /\ stop[s] = "done"
    /\ ForgetSession(s)
    /\ endEnd' = [endEnd EXCEPT ![e] = closed[s]]
    /\ EndGoto(e, IF StoppedWell(s) THEN "transcript" ELSE "fail")
    /\ Works
    /\ UNCHANGED <<Call, endSess, finalization, rows, files, sessions, starting,
                   starter, recovery>>

(* flushRawRecord either goes on or sends the call to failFinalizing, as   *)
(* the steps before it do.                                                 *)
EndPass(e, from, to) ==
    /\ endPc[e] = from
    /\ Finalizing(endOf[e], "running")
    /\ \/ EndGoto(e, to) /\ Works
       \/ EndGoto(e, "fail") /\ Breaks(from)
    /\ UNCHANGED <<Call, endSess, endEnd, rows, files, sessions, coord, starter,
                   recovery>>

EndFlush(e) == EndPass(e, "flush", "commit")

(* waitTailFinal: MeetingRuntime.Stop.  One that has stopped is not stopped *)
(* again, and another meeting's is an error.                               *)
TailNext(m) ==
    IF transcript.last = m THEN "persist"
    ELSE IF transcript.of # m THEN "fail"
    ELSE IF tail[m] = "open" THEN "draining" ELSE "rebuild"

TailKeeps(e) ==
    UNCHANGED <<Call, endSess, endEnd, rows, files, sessions, coord, startPc, startOf,
                recovery>>

EndTranscript(e) ==
    LET m == endOf[e] IN
    /\ endPc[e] = "transcript"
    /\ EndGoto(e, TailNext(m))
    /\ tail' = IF TailNext(m) = "draining" THEN [tail EXCEPT ![m] = "draining"] ELSE tail
    /\ Finalizing(m, "running") /\ Works
    /\ UNCHANGED transcript /\ TailKeeps(e)

(* The first RealtimeCoordinator.Stop waits for the sender, the provider   *)
(* and the finals, and for no time at all.  Then it writes the gap; if that*)
(* fails it is over and has neither ended the session nor closed done.     *)
EndDrain(e) ==
    LET m == endOf[e] IN
    /\ endPc[e] = "draining"
    /\ \/ tail' = [tail EXCEPT ![m] = "done"] /\ EndGoto(e, "rebuild") /\ Works
       \/ tail' = [tail EXCEPT ![m] = "stuck"] /\ EndGoto(e, "fail") /\ Breaks("transcript")
    /\ UNCHANGED <<finalization, transcript>> /\ TailKeeps(e)

(* Any other Stop waits for done.  Then the record is rebuilt, or the gap  *)
(* of a meeting that was only recorded is written; that may be repeated.   *)
EndRebuild(e) ==
    LET m == endOf[e] IN
    /\ endPc[e] = "rebuild" /\ tail[m] = "done"
    /\ \/ TranscriptStopped(m) /\ EndGoto(e, "persist") /\ Works
       \/ UNCHANGED transcript /\ EndGoto(e, "fail") /\ Breaks("transcript")
    /\ UNCHANGED <<finalization, tail>> /\ TailKeeps(e)

(* persistSegments registers the segments the stop returned, whichever     *)
(* meeting they were recorded for.                                         *)
EndPersist(e) ==
    LET m == endOf[e]
        s == endSess[e]
    IN
    /\ endPc[e] = "persist"
    /\ Finalizing(m, "running")
    /\ \/ /\ MicFree(m, s) /\ RegisterMic(m, s, segs[s])
          /\ EndGoto(e, "merge") /\ Works
       \/ /\ ~MicFree(m, s) /\ UNCHANGED <<mic, micOf>>
          /\ EndGoto(e, "fail") /\ Works
       \/ UNCHANGED <<mic, micOf>> /\ EndGoto(e, "fail") /\ Breaks("db")
    /\ UNCHANGED <<Call, endSess, endEnd, life, save, mixed, files, sessions, coord,
                   starter, recovery>>

(* mergeAndPersistFinal and recoverFinalAsset: a recording.wav of the      *)
(* expected length is reused, any other refused; without one the part is   *)
(* created exclusively.                                                    *)
Reusable(m, samples)   == merged[m] = samples
MergeStarts(m)         == merged[m] = NoPart /\ ~mergePart[m]
MergeRefused(m, samples) ==
    \/ merged[m] # NoPart /\ merged[m] # samples
    \/ merged[m] = NoPart /\ mergePart[m]

EndMerge(e) ==
    LET m == endOf[e] IN
    /\ endPc[e] = "merge"
    /\ Finalizing(m, "running")
    /\ \/ Reusable(m, endEnd[e]) /\ EndGoto(e, "asset") /\ UNCHANGED mergePart
       \/ MergeRefused(m, endEnd[e]) /\ EndGoto(e, "fail") /\ UNCHANGED mergePart
       \/ /\ MergeStarts(m) /\ EndGoto(e, "merging")
          /\ mergePart' = [mergePart EXCEPT ![m] = TRUE]
    /\ Works
    /\ UNCHANGED <<Call, endSess, endEnd, rows, segs, closed, hollow, part, synced,
                   merged, sessions, coord, starter, recovery>>

(* Writing and renaming recording.wav.part.  Abort closes the file and     *)
(* leaves it where it is.                                                  *)
MergeDone(m, samples) ==
    /\ merged' = [merged EXCEPT ![m] = samples]
    /\ mergePart' = [mergePart EXCEPT ![m] = FALSE]

MergeBreaks(m, samples) ==
    /\ Breaks("merge")
    /\ \/ UNCHANGED <<merged, mergePart>>
       \/ MergeDone(m, samples)

EndMerging(e) ==
    LET m == endOf[e] IN
    /\ endPc[e] = "merging"
    /\ \/ MergeDone(m, endEnd[e]) /\ EndGoto(e, "asset") /\ Works
       \/ MergeBreaks(m, endEnd[e]) /\ EndGoto(e, "fail")
    /\ UNCHANGED <<Call, endSess, endEnd, finalization, rows, segs, closed, hollow,
                   part, synced, sessions, coord, starter, recovery>>

EndAsset(e) ==
    LET m == endOf[e] IN
    /\ endPc[e] = "asset"
    /\ \/ /\ Registrable(m, endEnd[e]) /\ mixed' = [mixed EXCEPT ![m] = endEnd[e]]
          /\ EndGoto(e, "flush") /\ Works
       \/ /\ ~Registrable(m, endEnd[e]) /\ UNCHANGED mixed
          /\ EndGoto(e, "fail") /\ Works
       \/ UNCHANGED mixed /\ EndGoto(e, "fail") /\ Breaks("db")
    /\ UNCHANGED <<Call, endSess, endEnd, finalization, life, save, mic, micOf, files,
                   sessions, coord, starter, recovery>>

(* commitSaved: CompleteMeeting, then the row is read back.                *)
EndCommit(e) ==
    LET m == endOf[e] IN
    /\ endPc[e] = "commit"
    /\ \/ /\ Claimed(m)
          /\ SetState(m, "ended", "saved")
          /\ \/ Works /\ Finalizing(m, "completed") /\ Return(e, "ok")
             \/ Breaks("db") /\ Finalizing(m, "running") /\ Return(e, "error")
       \/ /\ \/ Breaks("db")
             \/ ~Claimed(m) /\ Works
          /\ EndGoto(e, "fail") /\ Finalizing(m, "running")
          /\ UNCHANGED <<life, save, Call, endSess, endEnd>>
    /\ UNCHANGED <<mic, micOf, mixed, files, sessions, coord, starter, recovery>>

(* failFinalizing: MarkFinalizingFailed, its result ignored.               *)
EndFail(e) ==
    LET m == endOf[e] IN
    /\ endPc[e] = "fail"
    /\ Finalizing(m, "failed")
    /\ \/ /\ Claimed(m)
          /\ SetState(m, "finalizing", "failed") /\ Works
       \/ /\ ~Claimed(m)
          /\ UNCHANGED <<life, save>> /\ Works
       \/ UNCHANGED <<life, save>> /\ Breaks("db")
    /\ Return(e, "error")
    /\ UNCHANGED <<mic, micOf, mixed, files, sessions, coord, starter, recovery>>

-----------------------------------------------------------------------------
(* RecoveryService *)

RecGoto(pc) == recPc' = pc /\ UNCHANGED recOf

(* At boot every active meeting is recovered (there is at most one).       *)
RecoverAtBoot(m) ==
    /\ phase = "booting" /\ recPc = "idle"
    /\ life[m] \in Active
    /\ recPc' = "repair" /\ recOf' = m
    /\ Works
    /\ UNCHANGED <<rows, files, sessions, coord, starter, enders>>

RetryInterrupted(m) ==
    /\ phase = "up" /\ recPc = "idle"
    /\ life[m] = "interrupted"
    /\ recPc' = "repair" /\ recOf' = m
    /\ Works
    /\ UNCHANGED <<rows, files, sessions, coord, starter, enders>>

(* recoverSegments looks for parts among the entries of the directory, and *)
(* RepairWAVPart makes a part a ready segment of its file length.          *)
BugPartAssumed(m) == TRUE

HasPart(m) == part[m] # NoPart

RecoverRepair ==
    LET m == recOf IN
    /\ recPc = "repair"
    /\ \/ ~HasPart(m) /\ UNCHANGED files /\ RecGoto("inspect") /\ Works
       \/ HasPart(m) /\ RenamePart(m) /\ RecGoto("inspect") /\ Works
       \/ UNCHANGED files /\ RecGoto("bad") /\ Breaks("write")
    /\ UNCHANGED <<rows, sessions, coord, starter, enders>>

(* inspectAndPersistSegments registers one segment after the other, up to  *)
(* one that holds no sample.                                               *)
RecoverInspect ==
    LET m == recOf
        sound == segs[m] - (IF hollow[m] THEN 1 ELSE 0)
    IN
    /\ recPc = "inspect"
    /\ \/ /\ MicFree(m, m) /\ sound > 0
          /\ RegisterMic(m, m, sound)
          /\ RecGoto(IF hollow[m] THEN "bad" ELSE "merge") /\ Works
       \/ /\ ~MicFree(m, m) \/ sound = 0
          /\ UNCHANGED <<mic, micOf>> /\ RecGoto("bad") /\ Works
       \/ UNCHANGED <<mic, micOf>> /\ RecGoto("bad") /\ Breaks("db")
    /\ UNCHANGED <<life, save, mixed, files, sessions, coord, starter, enders>>

RecoverMerge ==
    LET m == recOf IN
    /\ recPc = "merge"
    /\ \/ Reusable(m, closed[m]) /\ RecGoto("asset") /\ UNCHANGED mergePart
       \/ MergeRefused(m, closed[m]) /\ RecGoto("bad") /\ UNCHANGED mergePart
       \/ /\ MergeStarts(m) /\ RecGoto("merging")
          /\ mergePart' = [mergePart EXCEPT ![m] = TRUE]
    /\ Works
    /\ UNCHANGED <<rows, segs, closed, hollow, part, synced, merged, sessions, coord,
                   starter, enders>>

RecoverMerging ==
    LET m == recOf IN
    /\ recPc = "merging"
    /\ \/ MergeDone(m, closed[m]) /\ RecGoto("asset") /\ Works
       \/ MergeBreaks(m, closed[m]) /\ RecGoto("bad")
    /\ UNCHANGED <<rows, segs, closed, hollow, part, synced, sessions, coord, starter,
                   enders>>

RecoverAsset ==
    LET m == recOf IN
    /\ recPc = "asset"
    /\ \/ /\ Registrable(m, closed[m]) /\ mixed' = [mixed EXCEPT ![m] = closed[m]]
          /\ RecGoto("transcript") /\ Works
       \/ /\ ~Registrable(m, closed[m]) /\ UNCHANGED mixed
          /\ RecGoto("bad") /\ Works
       \/ UNCHANGED mixed /\ RecGoto("bad") /\ Breaks("db")
    /\ UNCHANGED <<life, save, mic, micOf, files, sessions, coord, starter, enders>>

RecoverTranscript ==
    /\ recPc = "transcript"
    /\ \/ RecGoto("good") /\ Works
       \/ RecGoto("bad") /\ Breaks("transcript")
    /\ UNCHANGED <<rows, files, sessions, coord, starter, enders>>

(* FinishRecovery at boot, UpdateInterruptedRecovery on request.           *)
BugPreparingForgotten ==
    IF phase = "booting" THEN {"recording", "finalizing"} ELSE {"interrupted"}

FinishFrom == IF phase = "booting" THEN Active ELSE {"interrupted"}

RecoverFinish ==
    LET m == recOf
        result == IF recPc = "good" THEN "saved" ELSE "failed"
    IN
    /\ recPc \in {"good", "bad"}
    /\ \/ /\ life[m] \in FinishFrom /\ SetState(m, "interrupted", result)
          /\ UNCHANGED faults
       \/ /\ life[m] \notin FinishFrom /\ UNCHANGED <<life, save, faults>>
       \/ /\ "db" \in FaultKinds /\ faults < MaxFaults
          /\ faults' = faults + 1 /\ UNCHANGED <<life, save>>
    /\ recPc' = "idle" /\ recOf' = None
    /\ phase' = "up" /\ UNCHANGED crashes
    /\ UNCHANGED <<mic, micOf, mixed, files, sessions, coord, starter, enders>>

-----------------------------------------------------------------------------
(* The process or the machine dies: memory is gone, rows and files stay.   *)
(* Of the open part at least the synced samples survive; a part that was   *)
(* just being created may be left without samples.                         *)
Creating(m) ==
    /\ part[m] = NoPart
    /\ \/ runner[m] = "run" /\ Room(m)
       \/ startPc = "frame" /\ startOf = m

ForgetMemory ==
    /\ runner' = AllMeetings("none") /\ failed' = AllMeetings(FALSE)
    /\ cancelled' = AllMeetings(FALSE) /\ writer' = AllMeetings("none")
    /\ stop' = AllMeetings("none") /\ stopOk' = AllMeetings(TRUE)
    /\ starting' = FALSE /\ session' = None /\ last' = NoLast
    /\ startPc' = "idle" /\ startOf' = None
    /\ transcript' = NoTranscript /\ tail' = AllMeetings("none")
    /\ endPc' = AllEnders("idle") /\ endOf' = AllEnders(None)
    /\ endSess' = AllEnders(None) /\ endEnd' = AllEnders(0)
    /\ waitOn' = AllEnders(None) /\ endRes' = AllEnders("none")
    /\ ending' = None /\ lastEnded' = None
    /\ finalization' = AllMeetings("none")
    /\ recPc' = "idle" /\ recOf' = None

Crash ==
    /\ phase # "down" /\ crashes < MaxCrashes
    /\ phase' = "down" /\ crashes' = crashes + 1 /\ UNCHANGED faults
    /\ part' \in [Meetings -> NoPart..SegmentSamples]
    /\ \A m \in Meetings :
          \/ part[m] # NoPart /\ part'[m] \in synced[m]..part[m]
          \/ part[m] = NoPart /\ part'[m] = NoPart
          \/ Creating(m) /\ part'[m] = 0
    /\ ForgetMemory
    /\ UNCHANGED <<rows, segs, closed, hollow, synced, merged, mergePart>>

Boot ==
    /\ phase = "down"
    /\ phase' = IF \E m \in Meetings : life[m] \in Active THEN "booting" ELSE "up"
    /\ UNCHANGED <<faults, crashes, rows, files, sessions, coord, starter, enders,
                   recovery>>

-----------------------------------------------------------------------------
StarterStep ==
    \/ StartPrepare \/ StartDevice \/ StartFirstFrame \/ StartPublish
    \/ StartCommit \/ StartActivate \/ StartAbort \/ StartAborted
    \/ StartTranscriptStops \/ StartDiscard \/ StartInterrupt

RunnerStep(m) ==
    \/ FrameCompletes(m) \/ RegisterSegment(m) \/ RunnerExits(m)
    \/ RunnerStops(m) \/ FailureHandler(m) \/ RunnerClears(m) \/ StopFinish(m)

EnderStep(e) ==
    \/ EndRead(e) \/ EndClaim(e) \/ EndStop(e) \/ EndStopped(e)
    \/ EndTranscript(e) \/ EndDrain(e) \/ EndRebuild(e) \/ EndPersist(e)
    \/ EndMerge(e) \/ EndMerging(e) \/ EndAsset(e)
    \/ EndFlush(e) \/ EndCommit(e) \/ EndFail(e)

RecoveryStep ==
    \/ RecoverRepair \/ RecoverInspect \/ RecoverMerge \/ RecoverMerging
    \/ RecoverAsset \/ RecoverTranscript \/ RecoverFinish
    \/ \E m \in Meetings : RecoverAtBoot(m)

Next ==
    \/ StarterStep
    \/ \E m \in Meetings :
          \/ StartCreate(m) \/ RetryInterrupted(m)
          \/ RunnerStep(m) \/ Frame(m) \/ FrameFails(m) \/ DeviceFails(m)
          \/ \E e \in Enders : EndCall(e, m)
    \/ \E e \in Enders : EnderStep(e)
    \/ RecoveryStep
    \/ Crash \/ Boot

(* Goroutines are scheduled: a step that stays possible is taken.  Nothing *)
(* obliges a user to start, end or retry, a frame to arrive or anything to *)
(* fail, and the provider owes the Stop of a transcript no answer.         *)
Fairness ==
    /\ WF_vars(StarterStep /\ startPc \notin {"quit", "leave"})
    /\ \A m \in Meetings :
          WF_vars(RegisterSegment(m) \/ RunnerExits(m) \/ RunnerStops(m)
                  \/ FailureHandler(m) \/ RunnerClears(m) \/ StopFinish(m))
    /\ \A e \in Enders : WF_vars(EnderStep(e) /\ endPc[e] # "draining")
    /\ WF_vars(RecoveryStep)
    /\ WF_vars(Boot)

Spec == Init /\ [][Next]_vars

FairSpec == Spec /\ Fairness

-----------------------------------------------------------------------------
(* The properties.                                                         *)

(* A meeting whose row says saved, whether it ended or was recovered, has  *)
(* one registered complete recording that holds every recorded sample: no  *)
(* part is left over, every segment is registered as this meeting's own,   *)
(* and recording.wav is as long as all of them (LocalSaveSaved in          *)
(* internal/domain/meeting/state.go).                                      *)
SavedIsComplete ==
    \A m \in Meetings : save[m] = "saved" =>
        /\ mixed[m] = closed[m] /\ merged[m] = closed[m] /\ closed[m] > 0
        /\ part[m] = NoPart /\ mic[m] = segs[m] /\ micOf[m] = m

(* A meeting counts as recording, or as anything later, only over samples  *)
(* that a crash at this moment would not take (StartMeeting).              *)
StartedIsDurable ==
    \A m \in Meetings : life[m] \in {"recording", "finalizing", "ended"} =>
        closed[m] + synced[m] > 0

(* The device of a meeting that is no longer active has been told to stop: *)
(* runSession stops the session before it interrupts the meeting, and      *)
(* every other way out of the active states goes through Stop.             *)
MicrophoneOff ==
    session # None /\ life[session] \notin Active => stop[session] # "none"

(* A caller of EndMeeting is told success, and the page that follows the   *)
(* finalization is told completed, only for a meeting that is ended and    *)
(* saved, cached results included (reserveEnd, completeEnd, commitSaved).  *)
OkMeansSaved ==
    /\ \A e \in Enders :
          endRes[e] = "ok" => life[endOf[e]] = "ended" /\ save[endOf[e]] = "saved"
    /\ \A m \in Meetings :
          finalization[m] = "completed" => life[m] = "ended" /\ save[m] = "saved"

(* Nothing touches the row, the assets or the files of an ended meeting: a *)
(* second finalizer that is still running fails without a trace.           *)
EndedIsFrozen ==
    [][\A m \in Meetings : life[m] = "ended" =>
          /\ life'[m] = life[m] /\ save'[m] = save[m]
          /\ mic'[m] = mic[m] /\ micOf'[m] = micOf[m] /\ mixed'[m] = mixed[m]
          /\ closed'[m] = closed[m] /\ merged'[m] = merged[m]
          /\ part'[m] = part[m]]_vars

(* The rows move as the lifecycle promises, one meeting active at a time,  *)
(* whatever the starter, the runners, the callers and the recovery do.     *)
Lifecycle == INSTANCE MeetingLifecycle WITH
    Meetings <- Meetings, life <- life, save <- save, mixed <- mixed

ImplementsLifecycle == Lifecycle!Spec


(* A meeting whose recording failed does not stay recording: the runner    *)
(* interrupts it without anybody's help.                                   *)
FailureEnds ==
    \A m \in Meetings : failed[m] /\ life[m] = "recording" ~> life[m] # "recording"

(* A meeting that was active when the process died is interrupted by the   *)
(* recovery of the next start.                                             *)
BootRecovers ==
    \A m \in Meetings :
        phase = "booting" /\ life[m] \in Active ~> life[m] \notin Active

-----------------------------------------------------------------------------
(* What a comment or a document says and the code does not do.             *)

(* The end of a meeting waits for the tail of the transcript for fifteen   *)
(* seconds at the most, so every call of it returns, a repeated one too    *)
(* (waitTailFinal).  Even when every Stop that was begun comes to its end: *)
DrainSpec == FairSpec /\ \A e \in Enders : WF_vars(EndDrain(e))

EndAlwaysReturns == \A e \in Enders : endPc[e] # "idle" ~> endPc[e] = "idle"

(* After an interruption a new meeting can be started (COMPONENTS.md 26):  *)
(* the interrupted one gives up the transcript that StartPrepare needs.    *)
InterruptedGivesWay ==
    \A m \in Meetings : life[m] = "interrupted" ~> transcript.of # m

(* A call of EndMeeting stops the recording of its own meeting and         *)
(* registers the segments of that meeting only (persistSegments).          *)
OwnRecording ==
    /\ \A e \in Enders : endPc[e] = "stopping" => endSess[e] = endOf[e]
    /\ \A m \in Meetings : mic[m] > 0 => micOf[m] = m

(* EndMeeting runs one finalizer for a meeting, which concurrent calls     *)
(* share.                                                                  *)
OneFinalizer ==
    \A e, f \in Enders :
        /\ endPc[e] \notin {"idle", "wait"} /\ endPc[f] \notin {"idle", "wait"}
        /\ endOf[e] = endOf[f]
        => e = f

(* Stopping a recording is not a failure of it (runRecording).             *)
NormalStopIsNoFailure == \A m \in Meetings : ~failed[m]

(* Whether the local save has finished, well or badly, it never goes back  *)
(* to saving (state_test.go).                                              *)
SaveStaysFinished ==
    [][\A m \in Meetings :
          save[m] \in {"saved", "failed"} => save'[m] # "saving"]_vars

(* A user who keeps retrying the end of a meeting whose local save failed. *)
UserRetries ==
    \A m \in Meetings :
        WF_vars(\E e \in Enders : life[m] = "finalizing" /\ EndCall(e, m))

RetrySpec == FairSpec /\ UserRetries

(* Then the save succeeds once nothing fails any more (ResumeFinalizing).  *)
FailedSaveIsRetryable ==
    \A m \in Meetings :
        life[m] = "finalizing" /\ save[m] = "failed" ~> save[m] = "saved"

(* The closed segments of a meeting the process died in are recovered.     *)
RecordingRecovers ==
    \A m \in Meetings :
        phase = "booting" /\ life[m] = "recording" /\ segs[m] > 0
            ~> save[m] = "saved"

(* The complete recording of a meeting the process died in while it was    *)
(* being finalized is rebuilt from the segments.                           *)
FinalizingRecovers ==
    \A m \in Meetings :
        phase = "booting" /\ life[m] = "finalizing" /\ ~hollow[m]
            ~> save[m] = "saved"
=============================================================================
