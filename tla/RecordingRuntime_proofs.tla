------------------------ MODULE RecordingRuntime_proofs ------------------------
(***************************************************************************)
(* The invariant of RecordingInvariant holds in every reachable state, and *)
(* the rows implement MeetingLifecycle.  Each action has a lemma with one  *)
(* step for each part of the invariant it can disturb and one last step    *)
(* for all the others.  What a saved recording keeps follows, with an      *)
(* invariant of its own.                                                   *)
(***************************************************************************)
EXTENDS RecordingInvariant, TLAPS

-----------------------------------------------------------------------------
(* The starter.                                                            *)

LEMMA StartCreateKeeps ==
  ASSUME IInv, NEW m \in Meetings, StartCreate(m)
  PROVE  IInv'
<1> USE SizesAssumption DEF IInv, StartCreate, Active, SetState, Works, files,
        sessions, coord, enders, recovery, env
<1>1. RowsOK'
  BY DEF TypeOK, RowsOK
<1>2. CallsOK'
  BY DEF TypeOK, CallsOK
<1>3. CallsPoint'
  BY DEF CallsPoint
<1>4. StarterOwns'
  BY SMTT(40) DEF TypeOK, StarterOwns, Early, Dead, NoPart, RowsOK, LiveIsHeld
<1>5. RecoveryOwns'
  BY DEF RecoveryOwns, Dead
<1>6. HasAudio'
  BY DEF HasAudio, Carries
<1>7. SyncedIsWritten'
  BY DEF SyncedIsWritten, NoPart
<1>8. StartedIsDurable'
  BY DEF StartedIsDurable
<1>9. TailOK' /\ FilesOK' /\ SessionsOK' /\ EnvOK' /\ LiveIsHeld'
  BY DEF TypeOK, FilesOK, NoPart, SessionsOK, EnvOK, LiveIsHeld, Dead, TailOK, tails
<1> QED
  BY <1>1, <1>2, <1>3, <1>4, <1>5, <1>6, <1>7, <1>8, <1>9 DEF TypeOK

LEMMA StartPrepareKeeps ==
  ASSUME IInv, StartPrepare
  PROVE  IInv'
<1> USE SizesAssumption DEF IInv, StartPrepare, StartGoto, Works, Breaks,
        rows, files, sessions, coord, enders, recovery, env
<1>1. CallsOK'
  BY DEF TypeOK, CallsOK
<1>2. TailOK' /\ EnvOK'
  BY DEF TypeOK, TailOK, NoTranscript, EnvOK, CallsPoint, tails
<1>3. CallsPoint'
  BY DEF CallsPoint
<1>4. StarterOwns'
  BY DEF StarterOwns, Early, Dead, NoPart
<1>5. RecoveryOwns'
  BY DEF RecoveryOwns, Active, Dead
<1>6. HasAudio'
  BY DEF HasAudio, Carries
<1>7. SyncedIsWritten'
  BY DEF SyncedIsWritten, NoPart
<1>8. RowsOK' /\ FilesOK' /\ SessionsOK' /\ LiveIsHeld' /\
      StartedIsDurable'
  BY DEF TypeOK, RowsOK, Active, FilesOK, NoPart, SessionsOK, LiveIsHeld,
         Dead, StartedIsDurable
<1> QED
  BY <1>1, <1>2, <1>3, <1>4, <1>5, <1>6, <1>7, <1>8 DEF TypeOK

LEMMA StartDeviceKeeps ==
  ASSUME IInv, StartDevice
  PROVE  IInv'
<1> USE SizesAssumption DEF IInv, StartDevice, StartGoto, Works, Breaks, rows,
        files, sessions, enders, recovery, env
<1>1. SessionsOK'
  BY Zenon DEF TypeOK, SessionsOK
<1>2. CallsOK'
  BY DEF TypeOK, CallsOK
<1>3. EnvOK'
  BY DEF TypeOK, EnvOK
<1>4. CallsPoint'
  BY DEF CallsPoint
<1>5. LiveIsHeld'
  BY DEF LiveIsHeld, Dead, NoPart
<1>6. StarterOwns'
  BY DEF StarterOwns, Early, Dead, NoPart
<1>7. RecoveryOwns'
  BY DEF RecoveryOwns, Active, Dead
<1>8. HasAudio'
  BY DEF HasAudio, Carries
<1>9. SyncedIsWritten'
  BY DEF SyncedIsWritten, NoPart
<1>10. TailOK' /\ RowsOK' /\ FilesOK' /\ StartedIsDurable'
  BY DEF TypeOK, RowsOK, Active, FilesOK, NoPart, StartedIsDurable, TailOK, tails
<1> QED
  BY <1>1, <1>2, <1>3, <1>4, <1>5, <1>6, <1>7, <1>8, <1>9, <1>10 DEF TypeOK

(* The first frame: nobody else has touched the directory before.          *)
LEMMA FirstFrameParts ==
  ASSUME IInv, StartFirstFrame
  PROVE  StarterOwns' /\ HasAudio' /\ SyncedIsWritten'
<1> USE DEF IInv, StartFirstFrame, CheckpointFirst, StartGoto, Works, Breaks,
        NoPart, rows, sessions, enders, recovery, env
<1>1. startOf \in Meetings /\ startPc = "frame"
  BY DEF CallsPoint
<1>2. /\ part[startOf] = NoPart /\ synced[startOf] = 0
      /\ runner[startOf] = "none" /\ life[startOf] = "preparing"
  BY <1>1 DEF StarterOwns, Early
<1>3. /\ part \in [Meetings -> Nat \cup {NoPart}] /\ synced \in [Meetings -> Nat]
      /\ closed \in [Meetings -> Nat]
  BY DEF TypeOK, FilesOK
<1>4. /\ UNCHANGED <<life, mixed, segs, closed, hollow, startOf, session, last>>
      /\ UNCHANGED <<runner, failed, writer, stop, stopOk, recPc, recOf>>
      /\ UNCHANGED <<endPc, endOf, endEnd>>
  BY DEF env
<1>5. \A m \in Meetings \ {startOf} : part'[m] = part[m] /\ synced'[m] = synced[m]
  BY <1>1, <1>3
<1>6. \/ /\ startPc' = "publish" /\ starting' = starting
         /\ part'[startOf] = 1 /\ synced'[startOf] = 1
      \/ /\ startPc' \in {"quit", "leave"}
         /\ part'[startOf] \in {NoPart, 0, 1} /\ synced'[startOf] = 0
         /\ startPc' = "quit" => part'[startOf] = NoPart
  BY <1>1, <1>2, <1>3
<1>7. StarterOwns'
  BY <1>1, <1>2, <1>4, <1>5, <1>6 DEF StarterOwns, Early, Dead
<1>8. HasAudio'
  BY <1>1, <1>2, <1>4, <1>5, <1>6 DEF HasAudio, Carries
<1>9. SyncedIsWritten'
  BY <1>1, <1>2, <1>3, <1>4, <1>5, <1>6 DEF SyncedIsWritten
<1> QED
  BY <1>7, <1>8, <1>9

LEMMA StartFirstFrameKeeps ==
  ASSUME IInv, StartFirstFrame
  PROVE  IInv'
<1> USE SizesAssumption DEF IInv, StartFirstFrame, CheckpointFirst, StartGoto,
        Works, Breaks, rows, sessions, enders, recovery, env
<1>1. FilesOK'
  BY DEF TypeOK, FilesOK, NoPart
<1>2. SessionsOK'
  BY Zenon DEF TypeOK, SessionsOK
<1>3. CallsOK'
  BY DEF TypeOK, CallsOK
<1>4. EnvOK'
  BY DEF TypeOK, EnvOK
<1>5. CallsPoint'
  BY DEF CallsPoint
<1>6. LiveIsHeld'
  BY DEF TypeOK, LiveIsHeld, Dead, NoPart, FilesOK
<1>7. StarterOwns'
  BY FirstFrameParts
<1>8. RecoveryOwns'
  BY DEF RecoveryOwns, Active, Dead
<1>9. HasAudio'
  BY FirstFrameParts
<1>10. SyncedIsWritten'
  BY FirstFrameParts
<1>11. StartedIsDurable'
  BY DEF TypeOK, StartedIsDurable, FilesOK, NoPart
<1>12. TailOK' /\ RowsOK'
  BY DEF TypeOK, RowsOK, Active, TailOK, tails
<1> QED
  BY <1>1, <1>2, <1>3, <1>4, <1>5, <1>6, <1>7, <1>8, <1>9, <1>10, <1>11, <1>12 DEF TypeOK

LEMMA StartPublishKeeps ==
  ASSUME IInv, StartPublish
  PROVE  IInv'
<1> USE SizesAssumption DEF IInv, StartPublish, NoLast, StartGoto, Works,
        rows, files, enders, recovery, env
<1>1. SessionsOK'
  BY Zenon DEF TypeOK, SessionsOK, CallsOK
<1>2. CallsOK'
  BY DEF TypeOK, CallsOK
<1>3. CallsPoint'
  BY DEF CallsPoint
<1>4. LiveIsHeld'
  BY SMTT(40) DEF TypeOK, LiveIsHeld, Dead, NoPart, SessionsOK, StarterOwns,
         Early, HasAudio, Carries
<1>5. StarterOwns'
  BY SMTT(40) DEF TypeOK, StarterOwns, Early, Dead, NoPart, SessionsOK,
         CallsPoint
<1>6. RecoveryOwns'
  BY DEF RecoveryOwns, Active, Dead, StarterOwns, Early, NoPart
<1>7. HasAudio'
  BY DEF TypeOK, HasAudio, Carries, SessionsOK
<1>8. SyncedIsWritten'
  BY DEF SyncedIsWritten, NoPart
<1>9. TailOK' /\ RowsOK' /\ FilesOK' /\ EnvOK' /\ StartedIsDurable'
  BY DEF TypeOK, RowsOK, Active, FilesOK, NoPart, EnvOK, StartedIsDurable, TailOK, tails
<1> QED
  BY <1>1, <1>2, <1>3, <1>4, <1>5, <1>6, <1>7, <1>8, <1>9 DEF TypeOK

LEMMA StartCommitKeeps ==
  ASSUME IInv, StartCommit
  PROVE  IInv'
<1> USE SizesAssumption DEF IInv, StartCommit, CanMove, SetState, StartGoto,
        Works, Breaks, files, sessions, coord, enders, recovery, env
<1>1. RowsOK'
  BY DEF TypeOK, RowsOK, Active
<1>2. CallsOK'
  BY DEF TypeOK, CallsOK
<1>3. EnvOK'
  BY DEF TypeOK, EnvOK
<1>4. CallsPoint'
  BY DEF CallsPoint
<1>5. StarterOwns'
  BY SMTT(40) DEF TypeOK, StarterOwns, Early, Dead, NoPart, RowsOK, Active,
         CallsPoint
<1>6. RecoveryOwns'
  BY SMTT(40) DEF TypeOK, RecoveryOwns, Active, Dead, RowsOK, CallsPoint
<1>7. HasAudio'
  BY SMTT(40) DEF TypeOK, HasAudio, Carries, RowsOK, Active, CallsPoint
<1>8. SyncedIsWritten'
  BY DEF SyncedIsWritten, NoPart
<1>9. StartedIsDurable'
  BY SMTT(40) DEF TypeOK, StartedIsDurable, RowsOK, Active, SyncedIsWritten,
         NoPart
<1>10. TailOK' /\ FilesOK' /\ SessionsOK' /\ LiveIsHeld'
  BY DEF TypeOK, FilesOK, NoPart, SessionsOK, LiveIsHeld, Dead, TailOK, tails
<1> QED
  BY <1>1, <1>2, <1>3, <1>4, <1>5, <1>6, <1>7, <1>8, <1>9, <1>10 DEF TypeOK

(* Activation finds the session of its own meeting, or none.               *)
LEMMA ActivateStarter == ASSUME IInv, StartActivate PROVE StarterOwns'
<1> USE DEF IInv, StartActivate, StartReturn, StartGoto, Works, coord, rows, files, NoPart
<1>1. startOf \in Meetings /\ runner[startOf] # "none" /\ life[startOf] \notin {"none", "preparing", "deleted"}
  BY SizesAssumption DEF StarterOwns, CallsPoint
<1>2. UNCHANGED <<life, part, synced, failed, stop, session, starting>>
  OBVIOUS
<1>3. runner \in [Meetings -> {"none", "await", "run", "register", "exited", "clear", "gone"}]
  BY DEF TypeOK, SessionsOK
<1>4. CASE session = None
  <2>1. Dead(startOf)
    BY <1>1, <1>4, SizesAssumption DEF LiveIsHeld
  <2>2. startPc' = "interrupt" /\ startOf' = startOf /\ runner' = runner
    BY <1>4
  <2> QED BY <1>1, <1>2, <2>1, <2>2 DEF StarterOwns, Dead, Early
<1>5. CASE session # None
  <2>1. session = startOf
    BY <1>5 DEF StarterOwns
  <2>2. startPc' = "idle"
    BY <1>5
  <2>3. runner' = [runner EXCEPT ![startOf] = IF @ = "await" THEN "run" ELSE @]
    BY <1>5, <2>1
  <2>4. \A m \in Meetings : Dead(m) => Dead(m)'
    BY <1>1, <1>2, <1>3, <2>3 DEF Dead
  <2>5. \A m \in Meetings : m # startOf => runner'[m] = runner[m]
    BY <1>3, <2>3
  <2> QED BY <1>1, <1>2, <2>2, <2>4, <2>5 DEF StarterOwns, Early
<1> QED BY <1>4, <1>5

LEMMA StartActivateKeeps ==
  ASSUME IInv, StartActivate
  PROVE  IInv'
<1> USE SizesAssumption DEF IInv, StartActivate, StartReturn, StartGoto,
        Works, rows, files, coord, enders, recovery, env
<1>1. SessionsOK'
  BY DEF TypeOK, SessionsOK
<1>2. CallsOK'
  BY DEF TypeOK, CallsOK
<1>3. CallsPoint'
  BY DEF CallsPoint
<1>4. LiveIsHeld'
  BY DEF TypeOK, LiveIsHeld, Dead, NoPart, SessionsOK
<1>5. StarterOwns'
  BY ActivateStarter
<1>6. RecoveryOwns'
  BY SMTT(40) DEF TypeOK, RecoveryOwns, Active, Dead, SessionsOK, CallsPoint
<1>7. HasAudio'
  BY DEF TypeOK, HasAudio, Carries, SessionsOK
<1>8. SyncedIsWritten'
  BY DEF SyncedIsWritten, NoPart
<1>9. TailOK' /\ RowsOK' /\ FilesOK' /\ EnvOK' /\ StartedIsDurable'
  BY DEF TypeOK, RowsOK, Active, FilesOK, NoPart, EnvOK, StartedIsDurable, TailOK, tails
<1> QED
  BY <1>1, <1>2, <1>3, <1>4, <1>5, <1>6, <1>7, <1>8, <1>9 DEF TypeOK

LEMMA StartAbortKeeps ==
  ASSUME IInv, StartAbort
  PROVE  IInv'
<1> USE SizesAssumption DEF IInv, StartAbort, JoinStop, StartGoto, Works,
        rows, files, coord, enders, recovery, Breaks, env
<1>1. SessionsOK'
  BY Zenon DEF TypeOK, SessionsOK
<1>2. CallsOK'
  BY DEF TypeOK, CallsOK
<1>3. EnvOK'
  BY DEF TypeOK, EnvOK
<1>4. CallsPoint'
  BY DEF CallsPoint
<1>5. LiveIsHeld'
  BY DEF TypeOK, LiveIsHeld, Dead, NoPart, SessionsOK
<1>6. StarterOwns'
  BY SMTT(40) DEF TypeOK, StarterOwns, Early, Dead, NoPart, SessionsOK,
         CallsPoint, LiveIsHeld
<1>7. RecoveryOwns'
  BY SMTT(40) DEF TypeOK, RecoveryOwns, Active, Dead, SessionsOK, CallsPoint
<1>8. HasAudio'
  BY DEF TypeOK, HasAudio, Carries, SessionsOK
<1>9. SyncedIsWritten'
  BY DEF SyncedIsWritten, NoPart
<1>10. TailOK' /\ RowsOK' /\ FilesOK' /\ StartedIsDurable'
  BY DEF TypeOK, RowsOK, Active, FilesOK, NoPart, StartedIsDurable, TailOK, tails
<1> QED
  BY <1>1, <1>2, <1>3, <1>4, <1>5, <1>6, <1>7, <1>8, <1>9, <1>10 DEF TypeOK

LEMMA StartAbortedKeeps ==
  ASSUME IInv, StartAborted
  PROVE  IInv'
<1> USE SizesAssumption DEF IInv, StartAborted, ForgetSession, StartGoto,
        Works, rows, files, sessions, enders, recovery, env
<1>1. SessionsOK'
  BY SMTT(40) DEF TypeOK, SessionsOK, FilesOK, NoPart, CallsPoint
<1>2. CallsOK'
  BY DEF TypeOK, CallsOK
<1>3. CallsPoint'
  BY DEF CallsPoint
<1>4. LiveIsHeld'
  BY DEF LiveIsHeld, Dead, NoPart
<1>5. StarterOwns'
  BY DEF StarterOwns, Early, Dead, NoPart
<1>6. RecoveryOwns'
  BY DEF RecoveryOwns, Active, Dead
<1>7. HasAudio'
  BY DEF HasAudio, Carries, CallsPoint
<1>8. SyncedIsWritten'
  BY DEF SyncedIsWritten, NoPart
<1>9. TailOK' /\ RowsOK' /\ FilesOK' /\ EnvOK' /\ StartedIsDurable'
  BY DEF TypeOK, RowsOK, Active, FilesOK, NoPart, EnvOK, StartedIsDurable, TailOK, tails
<1> QED
  BY <1>1, <1>2, <1>3, <1>4, <1>5, <1>6, <1>7, <1>8, <1>9 DEF TypeOK

LEMMA StartTranscriptStopsKeeps ==
  ASSUME IInv, StartTranscriptStops
  PROVE  IInv'
<1> USE SizesAssumption DEF IInv, StartTranscriptStops, TranscriptStopped, Works,
        Breaks, rows, files, sessions, coord, enders, recovery, env
<1>1. CallsOK'
  BY DEF TypeOK, CallsOK
<1>2. TailOK' /\ EnvOK'
  BY DEF TypeOK, TailOK, EnvOK, CallsPoint
<1>3. CallsPoint'
  BY DEF CallsPoint
<1>4. StarterOwns'
  BY DEF StarterOwns, Early, Dead, NoPart
<1>5. RecoveryOwns'
  BY DEF RecoveryOwns, Active, Dead
<1>6. HasAudio'
  BY DEF HasAudio, Carries
<1>7. SyncedIsWritten'
  BY DEF SyncedIsWritten, NoPart
<1>8. RowsOK' /\ FilesOK' /\ SessionsOK' /\ LiveIsHeld' /\ StartedIsDurable'
  BY DEF TypeOK, RowsOK, Active, FilesOK, NoPart, SessionsOK, LiveIsHeld,
         Dead, StartedIsDurable
<1> QED
  BY <1>1, <1>2, <1>3, <1>4, <1>5, <1>6, <1>7, <1>8 DEF TypeOK

LEMMA StartDiscardKeeps ==
  ASSUME IInv, StartDiscard
  PROVE  IInv'
<1> USE SizesAssumption DEF IInv, StartDiscard, SetState, Works, Breaks,
        StartReturn, files, sessions, coord, enders, recovery, env
<1>1. RowsOK'
  BY DEF TypeOK, RowsOK, Active
<1>2. CallsOK'
  BY DEF TypeOK, CallsOK
<1>3. EnvOK'
  BY DEF TypeOK, EnvOK
<1>4. CallsPoint'
  BY DEF CallsPoint
<1>5. StarterOwns'
  BY DEF TypeOK, StarterOwns, Early, Dead, NoPart, RowsOK, Active
<1>6. RecoveryOwns'
  BY SMTT(40) DEF TypeOK, RecoveryOwns, Active, Dead, RowsOK, CallsPoint
<1>7. HasAudio'
  BY SMTT(40) DEF TypeOK, HasAudio, Carries, RowsOK, Active, CallsPoint
<1>8. SyncedIsWritten'
  BY DEF SyncedIsWritten, NoPart
<1>9. StartedIsDurable'
  BY DEF TypeOK, StartedIsDurable, RowsOK, Active
<1>10. TailOK' /\ FilesOK' /\ SessionsOK' /\ LiveIsHeld'
  BY DEF TypeOK, FilesOK, NoPart, SessionsOK, LiveIsHeld, Dead, TailOK, tails
<1> QED
  BY <1>1, <1>2, <1>3, <1>4, <1>5, <1>6, <1>7, <1>8, <1>9, <1>10 DEF TypeOK

LEMMA StartInterruptKeeps ==
  ASSUME IInv, StartInterrupt
  PROVE  IInv'
<1> USE SizesAssumption DEF IInv, StartInterrupt, InterruptMeeting,
        StartReturn, files, sessions, coord, enders, recovery, Active,
        SetState, Works, Breaks, env
<1>1. RowsOK'
  BY DEF TypeOK, RowsOK
<1>2. CallsOK'
  BY DEF TypeOK, CallsOK
<1>3. EnvOK'
  BY DEF TypeOK, EnvOK
<1>4. CallsPoint'
  BY DEF CallsPoint
<1>5. StarterOwns'
  BY DEF TypeOK, StarterOwns, Early, Dead, NoPart, RowsOK
<1>6. RecoveryOwns'
  BY SMTT(40) DEF TypeOK, RecoveryOwns, Dead, RowsOK, CallsPoint
<1>7. HasAudio'
  BY SMTT(40) DEF TypeOK, HasAudio, Carries, RowsOK, CallsPoint
<1>8. SyncedIsWritten'
  BY DEF SyncedIsWritten, NoPart
<1>9. StartedIsDurable'
  BY DEF TypeOK, StartedIsDurable, RowsOK
<1>10. TailOK' /\ FilesOK' /\ SessionsOK' /\ LiveIsHeld'
  BY DEF TypeOK, FilesOK, NoPart, SessionsOK, LiveIsHeld, Dead, TailOK, tails
<1> QED
  BY <1>1, <1>2, <1>3, <1>4, <1>5, <1>6, <1>7, <1>8, <1>9, <1>10 DEF TypeOK

-----------------------------------------------------------------------------
(* The session of a recording.                                             *)

LEMMA FrameKeeps ==
  ASSUME IInv, NEW m \in Meetings, Frame(m)
  PROVE  IInv'
<1> USE SizesAssumption DEF IInv, Frame, Room, Written, Works, rows, coord,
        starter, enders, recovery, NoPart, env
<1>1. FilesOK'
  BY DEF TypeOK, FilesOK
<1>2. SessionsOK'
  BY DEF TypeOK, SessionsOK
<1>3. LiveIsHeld'
  BY DEF TypeOK, LiveIsHeld, Dead, FilesOK
<1>4. StarterOwns'
  BY DEF StarterOwns, Early, Dead
<1>5. HasAudio'
  BY DEF TypeOK, HasAudio, Carries, FilesOK
<1>6. SyncedIsWritten'
  BY DEF TypeOK, SyncedIsWritten, FilesOK
<1>7. StartedIsDurable'
  BY DEF TypeOK, StartedIsDurable, FilesOK
<1>8. TailOK' /\ RowsOK' /\ CallsOK' /\ EnvOK' /\ CallsPoint' /\ RecoveryOwns'
  BY DEF TypeOK, RowsOK, Active, CallsOK, EnvOK, CallsPoint, RecoveryOwns,
         Dead, TailOK, tails
<1> QED
  BY <1>1, <1>2, <1>3, <1>4, <1>5, <1>6, <1>7, <1>8 DEF TypeOK

LEMMA FrameCompletesKeeps ==
  ASSUME IInv, NEW m \in Meetings, FrameCompletes(m)
  PROVE  IInv'
<1> USE SizesAssumption DEF IInv, FrameCompletes, Room, Written, CloseSegment,
        Works, rows, coord, starter, enders, recovery, NoPart, env
<1>1. FilesOK'
  BY DEF TypeOK, FilesOK
<1>2. SessionsOK'
  BY DEF TypeOK, SessionsOK
<1>3. LiveIsHeld'
  BY DEF TypeOK, LiveIsHeld, Dead, SessionsOK
<1>4. StarterOwns'
  BY DEF StarterOwns, Early, Dead
<1>5. RecoveryOwns'
  BY DEF RecoveryOwns, Active, Dead
<1>6. HasAudio'
  BY SMTT(40) DEF TypeOK, HasAudio, Carries, FilesOK, StarterOwns, Early, Dead
<1>7. SyncedIsWritten'
  BY DEF TypeOK, SyncedIsWritten, FilesOK
<1>8. StartedIsDurable'
  BY DEF TypeOK, StartedIsDurable, FilesOK
<1>9. TailOK' /\ RowsOK' /\ CallsOK' /\ EnvOK' /\ CallsPoint'
  BY DEF TypeOK, RowsOK, Active, CallsOK, EnvOK, CallsPoint, TailOK, tails
<1> QED
  BY <1>1, <1>2, <1>3, <1>4, <1>5, <1>6, <1>7, <1>8, <1>9 DEF TypeOK

LEMMA RegisterSegmentKeeps ==
  ASSUME IInv, NEW m \in Meetings, RegisterSegment(m)
  PROVE  IInv'
<1> USE SizesAssumption DEF IInv, RegisterSegment, MicFree, Works,
        RegisterMic, RunnerFails, Breaks, files, coord, starter, enders,
        recovery, env
<1>1. RowsOK'
  BY DEF TypeOK, RowsOK, Active, FilesOK, NoPart
<1>2. SessionsOK'
  BY Zenon DEF TypeOK, SessionsOK
<1>3. EnvOK'
  BY DEF TypeOK, EnvOK
<1>4. LiveIsHeld'
  BY DEF TypeOK, LiveIsHeld, Dead, NoPart, SessionsOK
<1>5. StarterOwns'
  BY SMTT(40) DEF TypeOK, StarterOwns, Early, Dead, NoPart, SessionsOK,
         CallsPoint
<1>6. RecoveryOwns'
  BY SMTT(40) DEF TypeOK, RecoveryOwns, Active, Dead, SessionsOK, CallsPoint
<1>7. HasAudio'
  BY DEF TypeOK, HasAudio, Carries, SessionsOK
<1>8. TailOK' /\ FilesOK' /\ CallsOK' /\ CallsPoint' /\ SyncedIsWritten' /\
      StartedIsDurable'
  BY DEF TypeOK, FilesOK, NoPart, CallsOK, CallsPoint, SyncedIsWritten,
         StartedIsDurable, TailOK, tails
<1> QED
  BY <1>1, <1>2, <1>3, <1>4, <1>5, <1>6, <1>7, <1>8 DEF TypeOK

LEMMA RunnerExitsKeeps ==
  ASSUME IInv, NEW m \in Meetings, RunnerExits(m)
  PROVE  IInv'
<1> USE SizesAssumption DEF IInv, RunnerExits, Works, rows, files, coord,
        starter, enders, recovery, env
<1>1. SessionsOK'
  BY DEF TypeOK, SessionsOK
<1>2. LiveIsHeld'
  BY DEF LiveIsHeld, Dead, NoPart
<1>3. StarterOwns'
  BY DEF StarterOwns, Early, Dead, NoPart
<1>4. RecoveryOwns'
  BY DEF RecoveryOwns, Active, Dead
<1>5. HasAudio'
  BY DEF HasAudio, Carries
<1>6. TailOK' /\ RowsOK' /\ FilesOK' /\ CallsOK' /\ EnvOK' /\ CallsPoint' /\
      SyncedIsWritten' /\ StartedIsDurable'
  BY DEF TypeOK, RowsOK, Active, FilesOK, NoPart, CallsOK, EnvOK, CallsPoint,
         SyncedIsWritten, StartedIsDurable, TailOK, tails
<1> QED
  BY <1>1, <1>2, <1>3, <1>4, <1>5, <1>6 DEF TypeOK

LEMMA RunnerStopsKeeps ==
  ASSUME IInv, NEW m \in Meetings, RunnerStops(m)
  PROVE  IInv'
<1> USE SizesAssumption DEF IInv, RunnerStops, MustStop, JoinStop, rows,
        files, coord, starter, enders, recovery, Works, Breaks, env
<1>1. SessionsOK'
  BY Zenon DEF TypeOK, SessionsOK
<1>2. EnvOK'
  BY DEF TypeOK, EnvOK
<1>3. LiveIsHeld'
  BY DEF TypeOK, LiveIsHeld, Dead, NoPart, SessionsOK
<1>4. StarterOwns'
  BY SMTT(40) DEF TypeOK, StarterOwns, Early, Dead, NoPart, SessionsOK,
         CallsPoint
<1>5. RecoveryOwns'
  BY SMTT(40) DEF TypeOK, RecoveryOwns, Active, Dead, SessionsOK, CallsPoint
<1>6. HasAudio'
  BY DEF TypeOK, HasAudio, Carries, SessionsOK
<1>7. TailOK' /\ RowsOK' /\ FilesOK' /\ CallsOK' /\ CallsPoint' /\
      SyncedIsWritten' /\ StartedIsDurable'
  BY DEF TypeOK, RowsOK, Active, FilesOK, NoPart, CallsOK, CallsPoint,
         SyncedIsWritten, StartedIsDurable, TailOK, tails
<1> QED
  BY <1>1, <1>2, <1>3, <1>4, <1>5, <1>6, <1>7 DEF TypeOK

LEMMA FailureHandlerKeeps ==
  ASSUME IInv, NEW m \in Meetings, FailureHandler(m)
  PROVE  IInv'
<1> USE SizesAssumption DEF IInv, FailureHandler, MayInterrupt,
        InterruptMeeting, files, coord, starter, enders, recovery, Active,
        SetState, Works, Breaks, env
<1>1. RowsOK'
  BY DEF TypeOK, RowsOK
<1>2. SessionsOK'
  BY DEF TypeOK, SessionsOK
<1>3. EnvOK'
  BY DEF TypeOK, EnvOK
<1>4. LiveIsHeld'
  BY DEF LiveIsHeld, Dead, NoPart
<1>5. StarterOwns'
  BY SMTT(40) DEF TypeOK, StarterOwns, Early, Dead, NoPart, RowsOK, CallsPoint
<1>6. RecoveryOwns'
  BY SMTT(40) DEF TypeOK, RecoveryOwns, Dead, RowsOK, CallsPoint
<1>7. HasAudio'
  BY SMTT(40) DEF TypeOK, HasAudio, Carries, RowsOK, CallsPoint
<1>8. StartedIsDurable'
  BY DEF TypeOK, StartedIsDurable, RowsOK
<1>9. TailOK' /\ FilesOK' /\ CallsOK' /\ CallsPoint' /\ SyncedIsWritten'
  BY DEF TypeOK, FilesOK, NoPart, CallsOK, CallsPoint, SyncedIsWritten, TailOK, tails
<1> QED
  BY <1>1, <1>2, <1>3, <1>4, <1>5, <1>6, <1>7, <1>8, <1>9 DEF TypeOK

LEMMA RunnerClearsKeeps ==
  ASSUME IInv, NEW m \in Meetings, RunnerClears(m)
  PROVE  IInv'
<1> USE SizesAssumption DEF IInv, RunnerClears, ForgetSession, Works, rows,
        files, starter, enders, recovery, env
<1>1. SessionsOK'
  BY DEF TypeOK, SessionsOK, FilesOK, NoPart
<1>2. CallsPoint'
  BY DEF CallsPoint
<1>3. LiveIsHeld'
  BY DEF LiveIsHeld, Dead, NoPart
<1>4. StarterOwns'
  BY DEF StarterOwns, Early, Dead, NoPart
<1>5. RecoveryOwns'
  BY DEF RecoveryOwns, Active, Dead
<1>6. HasAudio'
  BY DEF HasAudio, Carries, LiveIsHeld, Dead, NoPart
<1>7. TailOK' /\ RowsOK' /\ FilesOK' /\ CallsOK' /\ EnvOK' /\ SyncedIsWritten' /\
      StartedIsDurable'
  BY DEF TypeOK, RowsOK, Active, FilesOK, NoPart, CallsOK, EnvOK,
         SyncedIsWritten, StartedIsDurable, TailOK, tails
<1> QED
  BY <1>1, <1>2, <1>3, <1>4, <1>5, <1>6, <1>7 DEF TypeOK

LEMMA StopFinishKeeps ==
  ASSUME IInv, NEW m \in Meetings, StopFinish(m)
  PROVE  IInv'
<1> USE SizesAssumption DEF IInv, StopFinish, RenamePart, Works, Breaks,
        files, rows, coord, starter, enders, recovery, NoPart, env
<1>1. FilesOK'
  BY SMTT(40) DEF TypeOK, FilesOK, SessionsOK, LiveIsHeld, Dead,
         SyncedIsWritten
<1>2. SessionsOK'
  BY Zenon DEF TypeOK, SessionsOK
<1>3. EnvOK'
  BY DEF TypeOK, EnvOK
<1>4. LiveIsHeld'
  BY DEF TypeOK, LiveIsHeld, Dead, SessionsOK
<1>5. StarterOwns'
  BY DEF TypeOK, StarterOwns, Early, Dead, FilesOK
<1>6. RecoveryOwns'
  BY DEF RecoveryOwns, Active, Dead
<1>7. HasAudio'
  BY SMTT(40) DEF TypeOK, HasAudio, Carries, FilesOK, SessionsOK, CallsPoint,
         LiveIsHeld, Dead, StarterOwns, Early
<1>8. SyncedIsWritten'
  BY SMTT(40) DEF TypeOK, SyncedIsWritten, FilesOK, LiveIsHeld, Dead,
         StarterOwns, Early
<1>9. StartedIsDurable'
  BY SMTT(40) DEF TypeOK, StartedIsDurable, FilesOK, LiveIsHeld, Dead,
         SyncedIsWritten
<1>10. TailOK' /\ RowsOK' /\ CallsOK' /\ CallsPoint'
  BY DEF TypeOK, RowsOK, Active, CallsOK, CallsPoint, TailOK, tails
<1> QED
  BY <1>1, <1>2, <1>3, <1>4, <1>5, <1>6, <1>7, <1>8, <1>9, <1>10 DEF TypeOK

(* The types of the files: the provers want booleans and numbers apart.    *)
LEMMA FrameFailsFiles == ASSUME IInv, NEW m \in Meetings, FrameFails(m) PROVE FilesOK'
<1> USE DEF IInv, TypeOK, FilesOK, FrameFails, CloseSegment, Written, NoPart, files
<1>1. hollow' \in [Meetings -> BOOLEAN] /\ mergePart' \in [Meetings -> BOOLEAN]
  BY Zenon
<1>2. Written(m) \in Nat
  OBVIOUS
<1>3. /\ segs' \in [Meetings -> Nat] /\ closed' \in [Meetings -> Nat]
      /\ merged' \in [Meetings -> Nat \cup {NoPart}]
      /\ part' \in [Meetings -> Nat \cup {NoPart}] /\ synced' \in [Meetings -> Nat]
  BY <1>2
<1> QED BY <1>1, <1>3

LEMMA FrameFailsKeeps ==
  ASSUME IInv, NEW m \in Meetings, FrameFails(m)
  PROVE  IInv'
<1> USE SizesAssumption DEF IInv, FrameFails, Room, Breaks, RunnerFails,
        files, NoPart, Written, CloseSegment, rows, coord, starter, enders,
        recovery
<1>1. FilesOK'
  BY FrameFailsFiles
<1>2. SessionsOK'
  BY DEF TypeOK, SessionsOK
<1>3. EnvOK'
  BY DEF TypeOK, EnvOK
<1>4. LiveIsHeld'
  BY SMTT(40) DEF TypeOK, LiveIsHeld, Dead, FilesOK, SessionsOK
<1>5. StarterOwns'
  BY DEF TypeOK, StarterOwns, Early, Dead, FilesOK
<1>6. RecoveryOwns'
  BY DEF RecoveryOwns, Active, Dead
<1>7. HasAudio'
  BY SMTT(40) DEF TypeOK, HasAudio, Carries, FilesOK, SessionsOK, CallsPoint,
         StarterOwns, Early, Dead
<1>8. SyncedIsWritten'
  BY SMTT(40) DEF TypeOK, SyncedIsWritten, FilesOK, LiveIsHeld, Dead,
         StarterOwns, Early
<1>9. StartedIsDurable'
  BY DEF TypeOK, StartedIsDurable, FilesOK
<1>10. TailOK' /\ RowsOK' /\ CallsOK' /\ CallsPoint'
  BY DEF TypeOK, RowsOK, Active, CallsOK, CallsPoint, TailOK, tails
<1> QED
  BY <1>1, <1>2, <1>3, <1>4, <1>5, <1>6, <1>7, <1>8, <1>9, <1>10 DEF TypeOK

LEMMA DeviceFailsKeeps ==
  ASSUME IInv, NEW m \in Meetings, DeviceFails(m)
  PROVE  IInv'
<1> USE SizesAssumption DEF IInv, DeviceFails, Breaks, RunnerFails, rows,
        files, coord, starter, enders, recovery
<1>1. SessionsOK'
  BY DEF TypeOK, SessionsOK
<1>2. EnvOK'
  BY DEF TypeOK, EnvOK
<1>3. LiveIsHeld'
  BY DEF LiveIsHeld, Dead, NoPart
<1>4. StarterOwns'
  BY DEF StarterOwns, Early, Dead, NoPart
<1>5. RecoveryOwns'
  BY DEF RecoveryOwns, Active, Dead
<1>6. HasAudio'
  BY DEF HasAudio, Carries
<1>7. TailOK' /\ RowsOK' /\ FilesOK' /\ CallsOK' /\ CallsPoint' /\
      SyncedIsWritten' /\ StartedIsDurable'
  BY DEF TypeOK, RowsOK, Active, FilesOK, NoPart, CallsOK, CallsPoint,
         SyncedIsWritten, StartedIsDurable, TailOK, tails
<1> QED
  BY <1>1, <1>2, <1>3, <1>4, <1>5, <1>6, <1>7 DEF TypeOK

-----------------------------------------------------------------------------
(* The callers of EndMeeting.                                              *)

LEMMA EndCallKeeps ==
  ASSUME IInv, NEW e \in Enders, NEW m \in Meetings, EndCall(e, m)
  PROVE  IInv'
<1> USE SizesAssumption DEF IInv, EndCall, EndGoto, Works, rows, files,
        sessions, coord, starter, recovery, env
<1>1. CallsOK'
  BY DEF TypeOK, CallsOK
<1>2. CallsPoint'
  BY DEF TypeOK, CallsPoint, CallsOK
<1>3. RecoveryOwns'
  BY DEF RecoveryOwns, Active, Dead
<1>4. HasAudio'
  BY DEF TypeOK, HasAudio, Carries, CallsOK
<1>5. TailOK' /\ RowsOK' /\ FilesOK' /\ SessionsOK' /\ EnvOK' /\ LiveIsHeld' /\
      StarterOwns' /\ SyncedIsWritten' /\ StartedIsDurable'
  BY DEF TypeOK, RowsOK, Active, FilesOK, NoPart, SessionsOK, EnvOK,
         LiveIsHeld, Dead, StarterOwns, Early, SyncedIsWritten,
         StartedIsDurable, TailOK, tails
<1> QED
  BY <1>1, <1>2, <1>3, <1>4, <1>5 DEF TypeOK

LEMMA EndReadKeeps ==
  ASSUME IInv, NEW e \in Enders, EndRead(e)
  PROVE  IInv'
<1> USE SizesAssumption DEF IInv, EndRead, Finalizing, Return, Works, Breaks,
        EndGoto, Call, rows, files, sessions, coord, starter, recovery,
        Served, Remember, env
<1>1. CallsOK'
  BY SMTT(40) DEF TypeOK, CallsOK, CallsPoint
<1>2. EnvOK'
  BY DEF TypeOK, EnvOK
<1>3. CallsPoint'
  BY DEF TypeOK, CallsPoint, CallsOK
<1>4. RecoveryOwns'
  BY DEF RecoveryOwns, Active, Dead
<1>5. HasAudio'
  BY DEF TypeOK, HasAudio, Carries, CallsOK
<1>6. TailOK' /\ RowsOK' /\ FilesOK' /\ SessionsOK' /\ LiveIsHeld' /\
      StarterOwns' /\ SyncedIsWritten' /\ StartedIsDurable'
  BY DEF TypeOK, RowsOK, Active, FilesOK, NoPart, SessionsOK, LiveIsHeld,
         Dead, StarterOwns, Early, SyncedIsWritten, StartedIsDurable, TailOK, tails
<1> QED
  BY <1>1, <1>2, <1>3, <1>4, <1>5, <1>6 DEF TypeOK

LEMMA EndClaimKeeps ==
  ASSUME IInv, NEW e \in Enders, EndClaim(e)
  PROVE  IInv'
<1> USE SizesAssumption DEF IInv, EndClaim, CanMove, SetState, EndGoto, Works,
        Call, Breaks, Return, files, sessions, coord, starter, recovery, env,
        Served, Remember
<1>1. RowsOK'
  BY DEF TypeOK, RowsOK, Active
<1>2. CallsOK'
  BY DEF TypeOK, CallsOK
<1>3. EnvOK'
  BY DEF TypeOK, EnvOK
<1>4. CallsPoint'
  BY DEF TypeOK, CallsPoint, CallsOK
<1>5. StarterOwns'
  BY SMTT(40) DEF TypeOK, StarterOwns, Early, Dead, NoPart, RowsOK, Active,
         CallsPoint
<1>6. RecoveryOwns'
  BY SMTT(40) DEF TypeOK, RecoveryOwns, Active, Dead, RowsOK, CallsPoint
<1>7. HasAudio'
  BY SMTT(40) DEF TypeOK, HasAudio, Carries, RowsOK, Active, CallsOK,
         CallsPoint
<1>8. StartedIsDurable'
  BY DEF TypeOK, StartedIsDurable, RowsOK, Active
<1>9. TailOK' /\ FilesOK' /\ SessionsOK' /\ LiveIsHeld' /\ SyncedIsWritten'
  BY DEF TypeOK, FilesOK, NoPart, SessionsOK, LiveIsHeld, Dead,
         SyncedIsWritten, TailOK, tails
<1> QED
  BY <1>1, <1>2, <1>3, <1>4, <1>5, <1>6, <1>7, <1>8, <1>9 DEF TypeOK

LEMMA EndStopKeeps ==
  ASSUME IInv, NEW e \in Enders, EndStop(e)
  PROVE  IInv'
<1> USE SizesAssumption DEF IInv, EndStop, Finalizing, JoinStop, EndGoto,
        Works, Call, rows, files, coord, starter, recovery, Breaks, env
<1>1. SessionsOK'
  BY Zenon DEF TypeOK, SessionsOK
<1>2. CallsOK'
  BY SMTT(40) DEF TypeOK, CallsOK, SessionsOK, CallsPoint
<1>3. EnvOK'
  BY DEF TypeOK, EnvOK
<1>4. CallsPoint'
  BY SMTT(40) DEF TypeOK, CallsPoint, SessionsOK, CallsOK
<1>5. LiveIsHeld'
  BY DEF TypeOK, LiveIsHeld, Dead, NoPart, SessionsOK
<1>6. StarterOwns'
  BY SMTT(40) DEF TypeOK, StarterOwns, Early, Dead, NoPart, SessionsOK,
         CallsPoint
<1>7. RecoveryOwns'
  BY SMTT(40) DEF TypeOK, RecoveryOwns, Active, Dead, SessionsOK, CallsPoint
<1>8. HasAudio'
  BY SMTT(40) DEF TypeOK, HasAudio, Carries, SessionsOK, CallsOK
<1>9. TailOK' /\ RowsOK' /\ FilesOK' /\ SyncedIsWritten' /\ StartedIsDurable'
  BY DEF TypeOK, RowsOK, Active, FilesOK, NoPart, SyncedIsWritten,
         StartedIsDurable, TailOK, tails
<1> QED
  BY <1>1, <1>2, <1>3, <1>4, <1>5, <1>6, <1>7, <1>8, <1>9 DEF TypeOK

LEMMA EndStoppedKeeps ==
  ASSUME IInv, NEW e \in Enders, EndStopped(e)
  PROVE  IInv'
<1> USE SizesAssumption DEF IInv, EndStopped, ForgetSession, EndGoto,
        StoppedWell, Works, Call, rows, files, sessions, starter, recovery,
        env
<1>1. SessionsOK'
  BY SMTT(40) DEF TypeOK, SessionsOK, FilesOK, NoPart, CallsPoint
<1>2. CallsOK'
  BY SMTT(40) DEF TypeOK, CallsOK, FilesOK, NoPart, CallsPoint
<1>3. CallsPoint'
  BY DEF CallsPoint
<1>4. LiveIsHeld'
  BY DEF LiveIsHeld, Dead, NoPart
<1>5. StarterOwns'
  BY DEF StarterOwns, Early, Dead, NoPart
<1>6. RecoveryOwns'
  BY DEF RecoveryOwns, Active, Dead
<1>7. HasAudio'
  BY SMTT(40) DEF TypeOK, HasAudio, Carries, CallsOK, CallsPoint
<1>8. TailOK' /\ RowsOK' /\ FilesOK' /\ EnvOK' /\ SyncedIsWritten' /\
      StartedIsDurable'
  BY DEF TypeOK, RowsOK, Active, FilesOK, NoPart, EnvOK, SyncedIsWritten,
         StartedIsDurable, TailOK, tails
<1> QED
  BY <1>1, <1>2, <1>3, <1>4, <1>5, <1>6, <1>7, <1>8 DEF TypeOK

LEMMA EndTranscriptKeeps ==
  ASSUME IInv, NEW e \in Enders, EndTranscript(e)
  PROVE  IInv'
<1> USE SizesAssumption DEF IInv, EndTranscript, TailKeeps, Finalizing, TailNext, EndGoto, Works,
        Breaks, Call, rows, files, sessions, coord, recovery, env
<1>1. CallsOK'
  BY DEF TypeOK, CallsOK, CallsPoint
<1>2. TailOK' /\ EnvOK'
  BY DEF TypeOK, TailOK, EnvOK, CallsPoint
<1>3. CallsPoint'
  BY DEF TypeOK, CallsPoint, CallsOK
<1>4. RecoveryOwns'
  BY DEF RecoveryOwns, Active, Dead
<1>5. HasAudio'
  BY DEF TypeOK, HasAudio, Carries, CallsOK
<1>6. RowsOK' /\ FilesOK' /\ SessionsOK' /\ LiveIsHeld' /\
      StarterOwns' /\ SyncedIsWritten' /\ StartedIsDurable'
  BY DEF TypeOK, RowsOK, Active, FilesOK, NoPart, SessionsOK, LiveIsHeld,
         Dead, StarterOwns, Early, SyncedIsWritten, StartedIsDurable
<1> QED
  BY <1>1, <1>2, <1>3, <1>4, <1>5, <1>6 DEF TypeOK

LEMMA EndDrainKeeps ==
  ASSUME IInv, NEW e \in Enders, EndDrain(e)
  PROVE  IInv'
<1> USE SizesAssumption DEF IInv, EndDrain, TailKeeps, EndGoto, Works,
        Breaks, Call, rows, files, sessions, coord, recovery, env
<1>1. CallsOK'
  BY DEF TypeOK, CallsOK, CallsPoint
<1>2. TailOK' /\ EnvOK'
  BY DEF TypeOK, TailOK, EnvOK, CallsPoint
<1>3. CallsPoint'
  BY DEF TypeOK, CallsPoint, CallsOK
<1>4. RecoveryOwns'
  BY DEF RecoveryOwns, Active, Dead
<1>5. HasAudio'
  BY DEF TypeOK, HasAudio, Carries, CallsOK
<1>6. RowsOK' /\ FilesOK' /\ SessionsOK' /\ LiveIsHeld' /\
      StarterOwns' /\ SyncedIsWritten' /\ StartedIsDurable'
  BY DEF TypeOK, RowsOK, Active, FilesOK, NoPart, SessionsOK, LiveIsHeld,
         Dead, StarterOwns, Early, SyncedIsWritten, StartedIsDurable
<1> QED
  BY <1>1, <1>2, <1>3, <1>4, <1>5, <1>6 DEF TypeOK

LEMMA EndRebuildKeeps ==
  ASSUME IInv, NEW e \in Enders, EndRebuild(e)
  PROVE  IInv'
<1> USE SizesAssumption DEF IInv, EndRebuild, TailKeeps, TranscriptStopped, EndGoto, Works,
        Breaks, Call, rows, files, sessions, coord, recovery, env
<1>1. CallsOK'
  BY DEF TypeOK, CallsOK, CallsPoint
<1>2. TailOK' /\ EnvOK'
  BY DEF TypeOK, TailOK, EnvOK, CallsPoint
<1>3. CallsPoint'
  BY DEF TypeOK, CallsPoint, CallsOK
<1>4. RecoveryOwns'
  BY DEF RecoveryOwns, Active, Dead
<1>5. HasAudio'
  BY DEF TypeOK, HasAudio, Carries, CallsOK
<1>6. RowsOK' /\ FilesOK' /\ SessionsOK' /\ LiveIsHeld' /\
      StarterOwns' /\ SyncedIsWritten' /\ StartedIsDurable'
  BY DEF TypeOK, RowsOK, Active, FilesOK, NoPart, SessionsOK, LiveIsHeld,
         Dead, StarterOwns, Early, SyncedIsWritten, StartedIsDurable
<1> QED
  BY <1>1, <1>2, <1>3, <1>4, <1>5, <1>6 DEF TypeOK

LEMMA EndPersistKeeps ==
  ASSUME IInv, NEW e \in Enders, EndPersist(e)
  PROVE  IInv'
<1> USE SizesAssumption DEF IInv, EndPersist, Finalizing, MicFree,
        RegisterMic, EndGoto, Works, Breaks, Call, files, sessions, coord,
        starter, recovery, env
<1>1. RowsOK'
  BY SMTT(40) DEF TypeOK, RowsOK, Active, FilesOK, NoPart, CallsPoint
<1>2. CallsOK'
  BY DEF TypeOK, CallsOK, CallsPoint
<1>3. EnvOK'
  BY DEF TypeOK, EnvOK
<1>4. CallsPoint'
  BY DEF TypeOK, CallsPoint, CallsOK
<1>5. RecoveryOwns'
  BY DEF RecoveryOwns, Active, Dead
<1>6. HasAudio'
  BY DEF TypeOK, HasAudio, Carries, CallsOK
<1>7. TailOK' /\ FilesOK' /\ SessionsOK' /\ LiveIsHeld' /\ StarterOwns' /\
      SyncedIsWritten' /\ StartedIsDurable'
  BY DEF TypeOK, FilesOK, NoPart, SessionsOK, LiveIsHeld, Dead, StarterOwns,
         Early, SyncedIsWritten, StartedIsDurable, TailOK, tails
<1> QED
  BY <1>1, <1>2, <1>3, <1>4, <1>5, <1>6, <1>7 DEF TypeOK

LEMMA EndMergeKeeps ==
  ASSUME IInv, NEW e \in Enders, EndMerge(e)
  PROVE  IInv'
<1> USE SizesAssumption DEF IInv, EndMerge, Finalizing, Reusable, EndGoto,
        MergeRefused, MergeStarts, Works, Call, rows, sessions, coord,
        starter, recovery, NoPart, env
<1>1. FilesOK'
  BY Zenon DEF TypeOK, FilesOK
<1>2. CallsOK'
  BY DEF TypeOK, CallsOK, CallsPoint
<1>3. CallsPoint'
  BY DEF TypeOK, CallsPoint, CallsOK
<1>4. RecoveryOwns'
  BY DEF RecoveryOwns, Active, Dead
<1>5. HasAudio'
  BY DEF TypeOK, HasAudio, Carries, CallsOK
<1>6. TailOK' /\ RowsOK' /\ SessionsOK' /\ EnvOK' /\ LiveIsHeld' /\ StarterOwns' /\
      SyncedIsWritten' /\ StartedIsDurable'
  BY DEF TypeOK, RowsOK, Active, SessionsOK, EnvOK, LiveIsHeld, Dead,
         StarterOwns, Early, SyncedIsWritten, StartedIsDurable, TailOK, tails
<1> QED
  BY <1>1, <1>2, <1>3, <1>4, <1>5, <1>6 DEF TypeOK

(* The same for the merged file.                                           *)
LEMMA EndMergingFiles == ASSUME IInv, NEW e \in Enders, EndMerging(e) PROVE FilesOK'
<1> USE DEF IInv, TypeOK, FilesOK, EndMerging, MergeDone, MergeBreaks
<1>1. mergePart' \in [Meetings -> BOOLEAN]
  BY Zenon
<1>2. merged' \in [Meetings -> Nat \cup {NoPart}]
  BY DEF CallsOK
<1> QED BY <1>1, <1>2

LEMMA EndMergingKeeps ==
  ASSUME IInv, NEW e \in Enders, EndMerging(e)
  PROVE  IInv'
<1> USE SizesAssumption DEF IInv, EndMerging, MergeDone, EndGoto, Works,
        MergeBreaks, Call, rows, sessions, coord, starter, recovery, env,
        Breaks
<1>1. FilesOK'
  BY EndMergingFiles
<1>2. CallsOK'
  BY DEF TypeOK, CallsOK
<1>3. EnvOK'
  BY DEF TypeOK, EnvOK
<1>4. CallsPoint'
  BY DEF TypeOK, CallsPoint, CallsOK
<1>5. RecoveryOwns'
  BY DEF RecoveryOwns, Active, Dead
<1>6. HasAudio'
  BY DEF TypeOK, HasAudio, Carries, CallsOK
<1>7. TailOK' /\ RowsOK' /\ SessionsOK' /\ LiveIsHeld' /\ StarterOwns' /\
      SyncedIsWritten' /\ StartedIsDurable'
  BY DEF TypeOK, RowsOK, Active, SessionsOK, LiveIsHeld, Dead, NoPart,
         StarterOwns, Early, SyncedIsWritten, StartedIsDurable, TailOK, tails
<1> QED
  BY <1>1, <1>2, <1>3, <1>4, <1>5, <1>6, <1>7 DEF TypeOK

LEMMA EndAssetKeeps ==
  ASSUME IInv, NEW e \in Enders, EndAsset(e)
  PROVE  IInv'
<1> USE SizesAssumption DEF IInv, EndAsset, Registrable, EndGoto, Works,
        Breaks, Call, files, sessions, coord, starter, recovery, env
<1>1. RowsOK'
  BY DEF TypeOK, RowsOK, Active, CallsOK
<1>2. CallsOK'
  BY DEF TypeOK, CallsOK
<1>3. EnvOK'
  BY DEF TypeOK, EnvOK
<1>4. CallsPoint'
  BY DEF TypeOK, CallsPoint, CallsOK
<1>5. RecoveryOwns'
  BY DEF RecoveryOwns, Active, Dead
<1>6. HasAudio'
  BY SMTT(40) DEF TypeOK, HasAudio, Carries, RowsOK, Active, CallsOK,
         CallsPoint
<1>7. TailOK' /\ FilesOK' /\ SessionsOK' /\ LiveIsHeld' /\ StarterOwns' /\
      SyncedIsWritten' /\ StartedIsDurable'
  BY DEF TypeOK, FilesOK, NoPart, SessionsOK, LiveIsHeld, Dead, StarterOwns,
         Early, SyncedIsWritten, StartedIsDurable, TailOK, tails
<1> QED
  BY <1>1, <1>2, <1>3, <1>4, <1>5, <1>6, <1>7 DEF TypeOK

LEMMA EndFlushKeeps ==
  ASSUME IInv, NEW e \in Enders, EndFlush(e)
  PROVE  IInv'
<1> USE SizesAssumption DEF IInv, EndFlush, EndPass, Finalizing, EndGoto,
        Works, Breaks, Call, rows, files, sessions, coord, starter, recovery,
        env
<1>1. CallsOK'
  BY DEF TypeOK, CallsOK, CallsPoint
<1>2. EnvOK'
  BY DEF TypeOK, EnvOK
<1>3. CallsPoint'
  BY DEF TypeOK, CallsPoint, CallsOK
<1>4. RecoveryOwns'
  BY DEF RecoveryOwns, Active, Dead
<1>5. HasAudio'
  BY DEF TypeOK, HasAudio, Carries, CallsOK
<1>6. TailOK' /\ RowsOK' /\ FilesOK' /\ SessionsOK' /\ LiveIsHeld' /\
      StarterOwns' /\ SyncedIsWritten' /\ StartedIsDurable'
  BY DEF TypeOK, RowsOK, Active, FilesOK, NoPart, SessionsOK, LiveIsHeld,
         Dead, StarterOwns, Early, SyncedIsWritten, StartedIsDurable, TailOK, tails
<1> QED
  BY <1>1, <1>2, <1>3, <1>4, <1>5, <1>6 DEF TypeOK

LEMMA EndCommitKeeps ==
  ASSUME IInv, NEW e \in Enders, EndCommit(e)
  PROVE  IInv'
<1> USE SizesAssumption DEF IInv, EndCommit, Claimed, SetState, Works,
        Finalizing, Return, Breaks, EndGoto, Call, files, sessions, coord,
        starter, recovery, CanMove, env, Served, Remember
<1>1. RowsOK'
  BY DEF TypeOK, RowsOK, Active
<1>2. CallsOK'
  BY DEF TypeOK, CallsOK
<1>3. EnvOK'
  BY DEF TypeOK, EnvOK
<1>4. CallsPoint'
  BY DEF TypeOK, CallsPoint, CallsOK
<1>5. StarterOwns'
  BY SMTT(40) DEF TypeOK, StarterOwns, Early, Dead, NoPart, RowsOK, Active,
         CallsPoint
<1>6. RecoveryOwns'
  BY SMTT(40) DEF TypeOK, RecoveryOwns, Active, Dead, RowsOK, CallsPoint
<1>7. HasAudio'
  BY SMTT(40) DEF TypeOK, HasAudio, Carries, RowsOK, Active, CallsOK,
         CallsPoint
<1>8. StartedIsDurable'
  BY DEF TypeOK, StartedIsDurable, RowsOK, Active
<1>9. TailOK' /\ FilesOK' /\ SessionsOK' /\ LiveIsHeld' /\ SyncedIsWritten'
  BY DEF TypeOK, FilesOK, NoPart, SessionsOK, LiveIsHeld, Dead,
         SyncedIsWritten, TailOK, tails
<1> QED
  BY <1>1, <1>2, <1>3, <1>4, <1>5, <1>6, <1>7, <1>8, <1>9 DEF TypeOK

LEMMA EndFailKeeps ==
  ASSUME IInv, NEW e \in Enders, EndFail(e)
  PROVE  IInv'
<1> USE SizesAssumption DEF IInv, EndFail, Finalizing, Claimed, SetState,
        Works, Breaks, Return, files, sessions, coord, starter, recovery,
        CanMove, env, Served, Remember
<1>1. RowsOK'
  BY DEF TypeOK, RowsOK, Active
<1>2. CallsOK'
  BY Zenon DEF TypeOK, CallsOK
<1>3. EnvOK'
  BY DEF TypeOK, EnvOK
<1>4. CallsPoint'
  BY DEF CallsPoint
<1>5. StarterOwns'
  BY DEF TypeOK, StarterOwns, Early, Dead, NoPart, RowsOK, Active
<1>6. RecoveryOwns'
  BY DEF TypeOK, RecoveryOwns, Active, Dead, RowsOK
<1>7. HasAudio'
  BY DEF TypeOK, HasAudio, Carries, RowsOK, Active
<1>8. StartedIsDurable'
  BY DEF TypeOK, StartedIsDurable, RowsOK, Active
<1>9. TailOK' /\ FilesOK' /\ SessionsOK' /\ LiveIsHeld' /\ SyncedIsWritten'
  BY DEF TypeOK, FilesOK, NoPart, SessionsOK, LiveIsHeld, Dead,
         SyncedIsWritten, TailOK, tails
<1> QED
  BY <1>1, <1>2, <1>3, <1>4, <1>5, <1>6, <1>7, <1>8, <1>9 DEF TypeOK

-----------------------------------------------------------------------------
(* The recovery.                                                           *)

LEMMA RecoverAtBootKeeps ==
  ASSUME IInv, NEW m \in Meetings, RecoverAtBoot(m)
  PROVE  IInv'
<1> USE SizesAssumption DEF IInv, RecoverAtBoot, Active, Works, rows, files,
        sessions, coord, starter, enders, env
<1>1. CallsOK'
  BY DEF TypeOK, CallsOK
<1>2. CallsPoint'
  BY DEF CallsPoint
<1>3. RecoveryOwns'
  BY DEF RecoveryOwns, Dead
<1>4. HasAudio'
  BY DEF HasAudio, Carries
<1>5. TailOK' /\ RowsOK' /\ FilesOK' /\ SessionsOK' /\ EnvOK' /\ LiveIsHeld' /\
      StarterOwns' /\ SyncedIsWritten' /\ StartedIsDurable'
  BY DEF TypeOK, RowsOK, FilesOK, NoPart, SessionsOK, EnvOK, LiveIsHeld, Dead,
         StarterOwns, Early, SyncedIsWritten, StartedIsDurable, TailOK, tails
<1> QED
  BY <1>1, <1>2, <1>3, <1>4, <1>5 DEF TypeOK

LEMMA RetryInterruptedKeeps ==
  ASSUME IInv, NEW m \in Meetings, RetryInterrupted(m)
  PROVE  IInv'
<1> USE SizesAssumption DEF IInv, RetryInterrupted, Works, rows, files,
        sessions, coord, starter, enders, env
<1>1. CallsOK'
  BY DEF TypeOK, CallsOK
<1>2. CallsPoint'
  BY DEF CallsPoint
<1>3. RecoveryOwns'
  BY DEF RecoveryOwns, Active, Dead, StarterOwns, Early, NoPart
<1>4. HasAudio'
  BY DEF HasAudio, Carries
<1>5. TailOK' /\ RowsOK' /\ FilesOK' /\ SessionsOK' /\ EnvOK' /\ LiveIsHeld' /\
      StarterOwns' /\ SyncedIsWritten' /\ StartedIsDurable'
  BY DEF TypeOK, RowsOK, Active, FilesOK, NoPart, SessionsOK, EnvOK,
         LiveIsHeld, Dead, StarterOwns, Early, SyncedIsWritten,
         StartedIsDurable, TailOK, tails
<1> QED
  BY <1>1, <1>2, <1>3, <1>4, <1>5 DEF TypeOK

(* Renaming a part that a crash left may leave a hollow segment, no less.  *)
LEMMA RepairParts == ASSUME IInv, RecoverRepair PROVE FilesOK' /\ HasAudio'
<1> USE DEF IInv, RecoverRepair, RecGoto, RenamePart, HasPart, Works, NoPart, rows,
   sessions, coord, starter, enders
<1>1. recOf \in Meetings /\ Dead(recOf)
  BY DEF CallsPoint, RecoveryOwns
<1>2. FilesOK
  BY DEF TypeOK
<1>3. CASE UNCHANGED files
  <2>1. FilesOK' BY <1>2, <1>3, Zenon DEF FilesOK, files
  <2>2. HasAudio' BY <1>3 DEF HasAudio, files, Carries, Breaks, env
  <2> QED BY <2>1, <2>2
<1>4. CASE HasPart(recOf) /\ RenamePart(recOf) /\ RecGoto("inspect")
  <2>1. part[recOf] \in Nat
    BY <1>1, <1>2, <1>4 DEF FilesOK
  <2>2. part' = [part EXCEPT ![recOf] = NoPart] /\ synced' = [synced EXCEPT ![recOf] = 0]
    BY <1>4
  <2>3. hollow' = [hollow EXCEPT ![recOf] = (part[recOf] = 0)]
    BY <1>4
  <2>4. hollow' \in [Meetings -> BOOLEAN]
    BY <2>3, <1>2, Zenon DEF FilesOK
  <2>5. FilesOK'
    BY <1>1, <1>2, <1>4, <2>1, <2>2, <2>4 DEF FilesOK
  <2>6. \A m \in Meetings : closed'[m] >= closed[m] /\ (m # recOf => closed'[m] = closed[m] /\ segs'[m] = segs[m] /\ hollow'[m] = hollow[m] /\ part'[m] = part[m])
    BY <1>1, <1>2, <1>4, <2>1 DEF FilesOK
  <2>7. closed'[recOf] > 0 \/ hollow'[recOf]
    <3>1. CASE part[recOf] = 0
      <4>1. hollow'[recOf] = TRUE
        BY <1>1, <1>2, <2>3, <3>1, Zenon DEF FilesOK
      <4> QED BY <4>1
    <3>2. CASE part[recOf] # 0
      BY <1>1, <1>2, <1>4, <2>1, <3>2 DEF FilesOK
    <3> QED BY <3>1, <3>2
  <2>8. startPc = "publish" => startOf \in Meetings /\ startOf # recOf
    BY SizesAssumption DEF StarterOwns, RecoveryOwns, CallsPoint, Active
  <2>9. /\ recPc' = "inspect"
        /\ UNCHANGED <<life, mixed, runner, failed, writer, stop, stopOk, last>>
        /\ UNCHANGED <<startPc, startOf, endPc, endOf, endEnd, recOf>>
    BY <1>4 DEF env
  <2>10. HasAudio'
    BY <1>1, <1>2, <2>5, <2>6, <2>7, <2>8, <2>9 DEF HasAudio, Carries, Dead, FilesOK
  <2> QED BY <2>5, <2>10
<1> QED BY <1>3, <1>4

LEMMA RecoverRepairKeeps ==
  ASSUME IInv, RecoverRepair
  PROVE  IInv'
<1> USE SizesAssumption DEF IInv, RecoverRepair, HasPart, files, RecGoto,
        Works, RenamePart, Breaks, rows, sessions, coord, starter, enders,
        NoPart, env
<1>1. FilesOK'
  BY RepairParts
<1>2. CallsOK'
  BY DEF TypeOK, CallsOK
<1>3. EnvOK'
  BY DEF TypeOK, EnvOK
<1>4. CallsPoint'
  BY DEF CallsPoint
<1>5. LiveIsHeld'
  BY SMTT(40) DEF TypeOK, LiveIsHeld, Dead, FilesOK, RecoveryOwns, Active
<1>6. StarterOwns'
  BY DEF TypeOK, StarterOwns, Early, Dead, FilesOK
<1>7. RecoveryOwns'
  BY DEF RecoveryOwns, Active, Dead
<1>8. HasAudio'
  BY RepairParts
<1>9. SyncedIsWritten'
  BY SMTT(40) DEF TypeOK, SyncedIsWritten, FilesOK, CallsPoint
<1>10. StartedIsDurable'
  BY SMTT(40) DEF TypeOK, StartedIsDurable, FilesOK, SyncedIsWritten
<1>11. TailOK' /\ RowsOK' /\ SessionsOK'
  BY DEF TypeOK, RowsOK, Active, SessionsOK, TailOK, tails
<1> QED
  BY <1>1, <1>2, <1>3, <1>4, <1>5, <1>6, <1>7, <1>8, <1>9, <1>10, <1>11 DEF TypeOK

LEMMA RecoverInspectKeeps ==
  ASSUME IInv, RecoverInspect
  PROVE  IInv'
<1> USE SizesAssumption DEF IInv, RecoverInspect, MicFree, RegisterMic,
        RecGoto, Works, Breaks, files, sessions, coord, starter, enders, env
<1>1. RowsOK'
  BY DEF TypeOK, RowsOK, Active, FilesOK, NoPart
<1>2. CallsOK'
  BY DEF TypeOK, CallsOK
<1>3. EnvOK'
  BY DEF TypeOK, EnvOK
<1>4. CallsPoint'
  BY DEF CallsPoint
<1>5. RecoveryOwns'
  BY DEF RecoveryOwns, Active, Dead
<1>6. HasAudio'
  BY SMTT(40) DEF TypeOK, HasAudio, Carries, FilesOK, NoPart, CallsPoint
<1>7. TailOK' /\ FilesOK' /\ SessionsOK' /\ LiveIsHeld' /\ StarterOwns' /\
      SyncedIsWritten' /\ StartedIsDurable'
  BY DEF TypeOK, FilesOK, NoPart, SessionsOK, LiveIsHeld, Dead, StarterOwns,
         Early, SyncedIsWritten, StartedIsDurable, TailOK, tails
<1> QED
  BY <1>1, <1>2, <1>3, <1>4, <1>5, <1>6, <1>7 DEF TypeOK

LEMMA RecoverMergeKeeps ==
  ASSUME IInv, RecoverMerge
  PROVE  IInv'
<1> USE SizesAssumption DEF IInv, RecoverMerge, Reusable, RecGoto,
        MergeRefused, MergeStarts, Works, rows, sessions, coord, starter,
        enders, NoPart, env
<1>1. FilesOK'
  BY Zenon DEF TypeOK, FilesOK
<1>2. CallsOK'
  BY DEF TypeOK, CallsOK
<1>3. CallsPoint'
  BY DEF CallsPoint
<1>4. RecoveryOwns'
  BY DEF RecoveryOwns, Active, Dead
<1>5. HasAudio'
  BY DEF HasAudio, Carries
<1>6. TailOK' /\ RowsOK' /\ SessionsOK' /\ EnvOK' /\ LiveIsHeld' /\ StarterOwns' /\
      SyncedIsWritten' /\ StartedIsDurable'
  BY DEF TypeOK, RowsOK, Active, SessionsOK, EnvOK, LiveIsHeld, Dead,
         StarterOwns, Early, SyncedIsWritten, StartedIsDurable, TailOK, tails
<1> QED
  BY <1>1, <1>2, <1>3, <1>4, <1>5, <1>6 DEF TypeOK

LEMMA RecoverMergingKeeps ==
  ASSUME IInv, RecoverMerging
  PROVE  IInv'
<1> USE SizesAssumption DEF IInv, RecoverMerging, MergeDone, RecGoto, Works,
        MergeBreaks, rows, sessions, coord, starter, enders, env, Breaks
<1>1. FilesOK'
  BY Zenon DEF TypeOK, FilesOK, NoPart
<1>2. CallsOK'
  BY DEF TypeOK, CallsOK
<1>3. EnvOK'
  BY DEF TypeOK, EnvOK
<1>4. CallsPoint'
  BY DEF CallsPoint
<1>5. RecoveryOwns'
  BY DEF RecoveryOwns, Active, Dead
<1>6. HasAudio'
  BY DEF HasAudio, Carries
<1>7. TailOK' /\ RowsOK' /\ SessionsOK' /\ LiveIsHeld' /\ StarterOwns' /\
      SyncedIsWritten' /\ StartedIsDurable'
  BY DEF TypeOK, RowsOK, Active, SessionsOK, LiveIsHeld, Dead, NoPart,
         StarterOwns, Early, SyncedIsWritten, StartedIsDurable, TailOK, tails
<1> QED
  BY <1>1, <1>2, <1>3, <1>4, <1>5, <1>6, <1>7 DEF TypeOK

LEMMA RecoverAssetKeeps ==
  ASSUME IInv, RecoverAsset
  PROVE  IInv'
<1> USE SizesAssumption DEF IInv, RecoverAsset, Registrable, RecGoto, Works,
        Breaks, files, sessions, coord, starter, enders, env
<1>1. RowsOK'
  BY DEF TypeOK, RowsOK, Active, FilesOK, NoPart
<1>2. CallsOK'
  BY DEF TypeOK, CallsOK
<1>3. EnvOK'
  BY DEF TypeOK, EnvOK
<1>4. CallsPoint'
  BY DEF CallsPoint
<1>5. RecoveryOwns'
  BY DEF RecoveryOwns, Active, Dead
<1>6. HasAudio'
  BY SMTT(40) DEF TypeOK, HasAudio, Carries, RowsOK, Active, CallsPoint
<1>7. TailOK' /\ FilesOK' /\ SessionsOK' /\ LiveIsHeld' /\ StarterOwns' /\
      SyncedIsWritten' /\ StartedIsDurable'
  BY DEF TypeOK, FilesOK, NoPart, SessionsOK, LiveIsHeld, Dead, StarterOwns,
         Early, SyncedIsWritten, StartedIsDurable, TailOK, tails
<1> QED
  BY <1>1, <1>2, <1>3, <1>4, <1>5, <1>6, <1>7 DEF TypeOK

LEMMA RecoverTranscriptKeeps ==
  ASSUME IInv, RecoverTranscript
  PROVE  IInv'
<1> USE SizesAssumption DEF IInv, RecoverTranscript, RecGoto, Works, Breaks,
        rows, files, sessions, coord, starter, enders, env
<1>1. CallsOK'
  BY DEF TypeOK, CallsOK
<1>2. EnvOK'
  BY DEF TypeOK, EnvOK
<1>3. CallsPoint'
  BY DEF CallsPoint
<1>4. RecoveryOwns'
  BY DEF RecoveryOwns, Active, Dead
<1>5. HasAudio'
  BY DEF HasAudio, Carries
<1>6. TailOK' /\ RowsOK' /\ FilesOK' /\ SessionsOK' /\ LiveIsHeld' /\
      StarterOwns' /\ SyncedIsWritten' /\ StartedIsDurable'
  BY DEF TypeOK, RowsOK, Active, FilesOK, NoPart, SessionsOK, LiveIsHeld,
         Dead, StarterOwns, Early, SyncedIsWritten, StartedIsDurable, TailOK, tails
<1> QED
  BY <1>1, <1>2, <1>3, <1>4, <1>5, <1>6 DEF TypeOK

LEMMA RecoverFinishKeeps ==
  ASSUME IInv, RecoverFinish
  PROVE  IInv'
<1> USE SizesAssumption DEF IInv, RecoverFinish, FinishFrom, SetState, files,
        sessions, coord, starter, enders, Active
<1>1. RowsOK'
  BY DEF TypeOK, RowsOK
<1>2. CallsOK'
  BY DEF TypeOK, CallsOK
<1>3. EnvOK'
  BY DEF TypeOK, EnvOK
<1>4. CallsPoint'
  BY DEF CallsPoint
<1>5. StarterOwns'
  BY SMTT(40) DEF TypeOK, StarterOwns, Early, Dead, NoPart, RowsOK,
         RecoveryOwns
<1>6. RecoveryOwns'
  BY DEF RecoveryOwns, Dead
<1>7. HasAudio'
  BY SMTT(40) DEF TypeOK, HasAudio, Carries, RowsOK, RecoveryOwns, Dead
<1>8. StartedIsDurable'
  BY DEF TypeOK, StartedIsDurable, RowsOK
<1>9. TailOK' /\ FilesOK' /\ SessionsOK' /\ LiveIsHeld' /\ SyncedIsWritten'
  BY DEF TypeOK, FilesOK, NoPart, SessionsOK, LiveIsHeld, Dead,
         SyncedIsWritten, TailOK, tails
<1> QED
  BY <1>1, <1>2, <1>3, <1>4, <1>5, <1>6, <1>7, <1>8, <1>9 DEF TypeOK

-----------------------------------------------------------------------------
(* The process.                                                            *)

LEMMA CrashKeeps ==
  ASSUME IInv, Crash
  PROVE  IInv'
<1> USE SizesAssumption DEF IInv, Crash, NoPart, Creating, ForgetMemory, rows,
        Room, AllMeetings, NoLast, AllEnders, Written
<1>1. FilesOK'
  BY DEF TypeOK, FilesOK
<1>2. SessionsOK'
  BY Zenon DEF TypeOK, SessionsOK
<1>3. CallsOK'
  BY DEF TypeOK, CallsOK
<1>4. EnvOK'
  BY DEF TypeOK, EnvOK
<1>5. CallsPoint'
  BY DEF CallsPoint
<1>6. LiveIsHeld'
  BY DEF LiveIsHeld, Dead
<1>7. StarterOwns'
  BY DEF StarterOwns, Early, Dead
<1>8. RecoveryOwns'
  BY DEF RecoveryOwns, Active, Dead
<1>9. HasAudio'
  BY DEF HasAudio, Carries
<1>10. SyncedIsWritten'
  BY DEF TypeOK, SyncedIsWritten, FilesOK
<1>11. TailOK' /\ RowsOK' /\ StartedIsDurable'
  BY DEF TypeOK, RowsOK, Active, StartedIsDurable, TailOK, NoTranscript, tails
<1> QED
  BY <1>1, <1>2, <1>3, <1>4, <1>5, <1>6, <1>7, <1>8, <1>9, <1>10, <1>11 DEF TypeOK

LEMMA BootKeeps ==
  ASSUME IInv, Boot
  PROVE  IInv'
<1> USE SizesAssumption DEF IInv, Boot, Active, rows, files, sessions, coord,
        starter, enders, recovery
<1>1. EnvOK'
  BY DEF TypeOK, EnvOK
<1>2. RecoveryOwns'
  BY DEF RecoveryOwns, Dead
<1>3. TailOK' /\ RowsOK' /\ FilesOK' /\ SessionsOK' /\ CallsOK' /\ CallsPoint' /\
      LiveIsHeld' /\ StarterOwns' /\ HasAudio' /\ SyncedIsWritten' /\
      StartedIsDurable'
  BY DEF TypeOK, RowsOK, FilesOK, NoPart, SessionsOK, CallsOK, CallsPoint,
         LiveIsHeld, Dead, StarterOwns, Early, HasAudio, Carries,
         SyncedIsWritten, StartedIsDurable, TailOK, tails
<1> QED
  BY <1>1, <1>2, <1>3 DEF TypeOK

-----------------------------------------------------------------------------
(* The initial states satisfy the invariant.                               *)
LEMMA InitKeeps ==
  ASSUME Init
  PROVE  IInv
<1> USE SizesAssumption DEF Init, InitMemory, AllMeetings, AllEnders, NoPart, NoLast
<1>1. TypeOK
  <2>1. RowsOK /\ EnvOK
    BY DEF RowsOK, EnvOK, Active
  <2>2. hollow \in [Meetings -> BOOLEAN] /\ mergePart \in [Meetings -> BOOLEAN]
    BY Zenon
  <2>3. FilesOK
    BY <2>2 DEF FilesOK
  <2>4. /\ failed \in [Meetings -> BOOLEAN] /\ cancelled \in [Meetings -> BOOLEAN]
        /\ stopOk \in [Meetings -> BOOLEAN]
    BY Zenon
  <2>5. SessionsOK
    BY <2>4 DEF SessionsOK
  <2>6. CallsOK
    BY DEF CallsOK
  <2>7. TailOK
    BY DEF TailOK, NoTranscript
  <2> QED
    BY <2>1, <2>3, <2>5, <2>6, <2>7 DEF TypeOK
<1>2. CallsPoint /\ StarterOwns /\ RecoveryOwns
  BY DEF CallsPoint, StarterOwns, RecoveryOwns, Early, Dead
<1>3. LiveIsHeld
  BY DEF LiveIsHeld, Dead
<1>4. HasAudio /\ SyncedIsWritten /\ StartedIsDurable
  BY DEF HasAudio, Carries, SyncedIsWritten, StartedIsDurable
<1> QED
  BY <1>1, <1>2, <1>3, <1>4 DEF IInv

(* A step that changes nothing keeps the invariant.                        *)
LEMMA StutterKeeps ==
  ASSUME IInv, UNCHANGED vars
  PROVE  IInv'
<1> USE DEF vars, rows, files, sessions, coord, starter, tails, enders, recovery, env
<1>1. TypeOK'
  BY DEF IInv, TypeOK, RowsOK, FilesOK, SessionsOK, CallsOK, TailOK, EnvOK, Active, tails
<1>2. CallsPoint' /\ StarterOwns' /\ RecoveryOwns'
  BY DEF IInv, CallsPoint, StarterOwns, RecoveryOwns, Early, Dead
<1>3. LiveIsHeld'
  BY DEF IInv, LiveIsHeld, Dead
<1>4. HasAudio' /\ SyncedIsWritten' /\ StartedIsDurable'
  BY DEF IInv, HasAudio, Carries, SyncedIsWritten, StartedIsDurable
<1> QED
  BY <1>1, <1>2, <1>3, <1>4 DEF IInv

LEMMA NextKeeps ==
  ASSUME IInv, [Next]_vars
  PROVE  IInv'
<1>1. CASE StarterStep
  BY <1>1, StartPrepareKeeps, StartDeviceKeeps, StartFirstFrameKeeps,
     StartPublishKeeps, StartCommitKeeps, StartActivateKeeps, StartAbortKeeps,
     StartAbortedKeeps, StartTranscriptStopsKeeps, StartDiscardKeeps,
     StartInterruptKeeps DEF StarterStep
<1>2. ASSUME NEW m \in Meetings,
             \/ StartCreate(m) \/ RetryInterrupted(m)
             \/ RunnerStep(m) \/ Frame(m) \/ FrameFails(m) \/ DeviceFails(m)
             \/ \E e \in Enders : EndCall(e, m)
      PROVE  IInv'
  <2>1. CASE RunnerStep(m)
    BY <2>1, FrameCompletesKeeps, RegisterSegmentKeeps, RunnerExitsKeeps,
       RunnerStopsKeeps, FailureHandlerKeeps, RunnerClearsKeeps,
       StopFinishKeeps DEF RunnerStep
  <2> QED
    BY <1>2, <2>1, StartCreateKeeps, RetryInterruptedKeeps, FrameKeeps,
       FrameFailsKeeps, DeviceFailsKeeps, EndCallKeeps
<1>3. ASSUME NEW e \in Enders, EnderStep(e)
      PROVE  IInv'
  BY <1>3, EndReadKeeps, EndClaimKeeps, EndStopKeeps, EndStoppedKeeps,
     EndTranscriptKeeps, EndDrainKeeps, EndRebuildKeeps, EndPersistKeeps, EndMergeKeeps,
     EndMergingKeeps,
     EndAssetKeeps, EndFlushKeeps, EndCommitKeeps, EndFailKeeps DEF EnderStep
<1>4. CASE RecoveryStep
  BY <1>4, RecoverRepairKeeps, RecoverInspectKeeps, RecoverMergeKeeps,
     RecoverMergingKeeps, RecoverAssetKeeps, RecoverTranscriptKeeps,
     RecoverFinishKeeps, RecoverAtBootKeeps DEF RecoveryStep
<1> QED
  BY <1>1, <1>2, <1>3, <1>4, CrashKeeps, BootKeeps, StutterKeeps DEF Next

(* Every reachable state satisfies the invariant of RecordingInvariant.    *)
THEOREM InvariantHolds == Spec => []IInv
<1>1. Init => IInv
  BY InitKeeps
<1>2. IInv /\ [Next]_vars => IInv'
  BY NextKeeps
<1> QED
  BY <1>1, <1>2, PTL DEF Spec

(* The variables keep their types.                                         *)
THEOREM TypeCorrect == Spec => []TypeOK
<1>1. IInv => TypeOK
  BY DEF IInv
<1> QED
  BY <1>1, InvariantHolds, PTL

(* Whatever fails and whenever the process dies, a meeting that counts as  *)
(* recording, finalizing or ended has samples that survive (StartMeeting). *)
THEOREM DurableOnceStarted == Spec => []StartedIsDurable
<1>1. IInv => StartedIsDurable
  BY DEF IInv
<1> QED
  BY <1>1, InvariantHolds, PTL

-----------------------------------------------------------------------------
(* The rows implement MeetingLifecycle: ten actions move them, the others  *)
(* leave them alone.                                                       *)
LifecycleStep == [Lifecycle!Next]_(Lifecycle!vars)

(* A claim that a row of a table moves is a step of the abstract module.   *)
LEMMA MoveIsStep ==
  ASSUME NEW m \in Meetings, Lifecycle!Step(m)
  PROVE  LifecycleStep
  BY DEF LifecycleStep, Lifecycle!Next

LEMMA QuietIsStep ==
  ASSUME UNCHANGED <<life, save, mixed>>
  PROVE  LifecycleStep
  BY DEF LifecycleStep, Lifecycle!vars

(* InterruptMeeting moves an active meeting or nothing.                    *)
LEMMA InterruptIsStep ==
  ASSUME NEW m \in Meetings, InterruptMeeting(m)
  PROVE  LifecycleStep
<1>1. CASE life[m] \in Active /\ SetState(m, "interrupted", "failed")
  <2>1. Lifecycle!Interrupt(m)
    BY <1>1 DEF InterruptMeeting, SetState, Active, Lifecycle!Interrupt,
                Lifecycle!Move, Lifecycle!Active
  <2> QED
    BY <2>1, MoveIsStep DEF Lifecycle!Step
<1>2. CASE UNCHANGED <<life, save>>
  BY <1>2, QuietIsStep DEF InterruptMeeting
<1> QED
  BY <1>1, <1>2 DEF InterruptMeeting

(* The registration of a complete recording of a meeting that has samples. *)
LEMMA RegisterIsStep ==
  ASSUME IInv, NEW m \in Meetings, NEW n \in Nat \ {0},
         life[m] \in Active \cup {"interrupted", "ended"},
         Registrable(m, n), mixed' = [mixed EXCEPT ![m] = n],
         UNCHANGED <<life, save>>
  PROVE  LifecycleStep
<1>1. mixed \in [Meetings -> Nat] /\ (life[m] = "ended" => mixed[m] > 0)
  BY DEF IInv, TypeOK, RowsOK, HasAudio
<1>2. CASE mixed[m] = n
  <2>1. mixed' = mixed
    BY <1>1, <1>2
  <2> QED
    BY <2>1, QuietIsStep
<1>3. CASE mixed[m] # n
  <2>1. mixed[m] = 0 /\ life[m] # "ended" /\ mixed'[m] = n
    BY <1>1, <1>3 DEF Registrable
  <2>2. Lifecycle!Register(m)
    BY <2>1 DEF Lifecycle!Register, Lifecycle!Active, Active
  <2> QED
    BY <2>2, MoveIsStep DEF Lifecycle!Step
<1> QED
  BY <1>2, <1>3

LEMMA StarterRefines ==
  ASSUME IInv, StarterStep
  PROVE  LifecycleStep
<1>1. startPc # "idle" => startOf \in Meetings
  BY DEF IInv, CallsPoint
<1>2. CASE StartCommit
  <2>1. CASE UNCHANGED <<life, save>>
    BY <1>2, <2>1, QuietIsStep DEF StartCommit
  <2>2. CASE CanMove(startOf, {"preparing"}, {"pending"}) /\ SetState(startOf, "recording", "saving")
    <3>1. startOf \in Meetings /\ Lifecycle!Begin(startOf)
      BY <1>1, <1>2, <2>2 DEF StartCommit, CanMove, SetState, Lifecycle!Begin, Lifecycle!Move
    <3> QED
      BY <3>1, MoveIsStep DEF Lifecycle!Step
  <2> QED
    BY <1>2, <2>1, <2>2 DEF StartCommit
<1>3. CASE StartDiscard
  <2>1. CASE UNCHANGED <<life, save>>
    BY <1>3, <2>1, QuietIsStep DEF StartDiscard
  <2>2. CASE life[startOf] = "preparing" /\ SetState(startOf, "deleted", save[startOf])
    <3>1. startOf \in Meetings /\ Lifecycle!Discard(startOf)
      BY <1>1, <1>3, <2>2 DEF StartDiscard, SetState, Lifecycle!Discard, Lifecycle!Move
    <3> QED
      BY <3>1, MoveIsStep DEF Lifecycle!Step
  <2> QED
    BY <1>3, <2>1, <2>2 DEF StartDiscard
<1>4. CASE StartInterrupt
  BY <1>1, <1>4, InterruptIsStep DEF StartInterrupt
<1>5. CASE \/ StartPrepare \/ StartDevice \/ StartFirstFrame \/ StartPublish
           \/ StartActivate \/ StartAbort \/ StartAborted \/ StartTranscriptStops
  BY <1>5, QuietIsStep DEF StartPrepare, StartDevice, StartFirstFrame,
     StartPublish, StartActivate, StartAbort, StartAborted, StartTranscriptStops, rows
<1> QED
  BY <1>2, <1>3, <1>4, <1>5 DEF StarterStep

LEMMA EnderRefines ==
  ASSUME IInv, NEW e \in Enders, EnderStep(e)
  PROVE  LifecycleStep
<1>1. endPc[e] # "idle" => endOf[e] \in Meetings
  BY DEF IInv, CallsPoint
<1>2. CASE EndClaim(e)
  <2>1. CASE UNCHANGED <<life, save>>
    BY <1>2, <2>1, QuietIsStep DEF EndClaim
  <2>2. CASE ~UNCHANGED <<life, save>>
    <3>1. endOf[e] \in Meetings /\ Lifecycle!Finalize(endOf[e])
      BY <1>1, <1>2, <2>2 DEF EndClaim, CanMove, SetState, Lifecycle!Finalize, Lifecycle!Move
    <3> QED
      BY <3>1, MoveIsStep DEF Lifecycle!Step
  <2> QED
    BY <2>1, <2>2
<1>3. CASE EndAsset(e)
  <2>1. CASE UNCHANGED mixed
    BY <1>3, <2>1, QuietIsStep DEF EndAsset
  <2>2. CASE Registrable(endOf[e], endEnd[e]) /\ mixed' = [mixed EXCEPT ![endOf[e]] = endEnd[e]]
    <3>1. endPc[e] = "asset" /\ UNCHANGED <<life, save>>
      BY <1>3 DEF EndAsset
    <3>2. endOf[e] \in Meetings /\ endEnd[e] \in Nat \ {0}
      BY <1>1, <3>1 DEF IInv, TypeOK, CallsOK, HasAudio, Carries
    <3>3. life[endOf[e]] \in Active \cup {"interrupted", "ended"}
      BY <3>1 DEF IInv, HasAudio, Active
    <3> QED
      BY <2>2, <3>1, <3>2, <3>3, RegisterIsStep
  <2> QED
    BY <1>3, <2>1, <2>2 DEF EndAsset
<1>4. CASE EndCommit(e)
  <2>1. CASE UNCHANGED <<life, save>>
    BY <1>4, <2>1, QuietIsStep DEF EndCommit
  <2>2. CASE Claimed(endOf[e]) /\ SetState(endOf[e], "ended", "saved")
    <3>1. endOf[e] \in Meetings /\ mixed[endOf[e]] > 0
      BY <1>1, <1>4 DEF EndCommit, IInv, HasAudio
    <3>2. Lifecycle!Complete(endOf[e])
      BY <1>4, <2>2, <3>1 DEF EndCommit, Claimed, CanMove, SetState, Lifecycle!Complete,
         Lifecycle!Move
    <3> QED
      BY <3>1, <3>2, MoveIsStep DEF Lifecycle!Step
  <2> QED
    BY <1>4, <2>1, <2>2 DEF EndCommit
<1>5. CASE EndFail(e)
  <2>1. CASE UNCHANGED <<life, save>>
    BY <1>5, <2>1, QuietIsStep DEF EndFail
  <2>2. CASE Claimed(endOf[e]) /\ SetState(endOf[e], "finalizing", "failed")
    <3>1. endOf[e] \in Meetings /\ Lifecycle!Finalize(endOf[e])
      BY <1>1, <1>5, <2>2 DEF EndFail, Claimed, CanMove, SetState, Lifecycle!Finalize,
         Lifecycle!Move
    <3> QED
      BY <3>1, MoveIsStep DEF Lifecycle!Step
  <2> QED
    BY <1>5, <2>1, <2>2 DEF EndFail
<1>6. CASE \/ EndRead(e) \/ EndStop(e) \/ EndStopped(e) \/ EndTranscript(e)
           \/ EndDrain(e) \/ EndRebuild(e)
           \/ EndPersist(e) \/ EndMerge(e) \/ EndMerging(e) \/ EndFlush(e)
  BY <1>6, QuietIsStep DEF EndRead, EndStop, EndStopped, EndTranscript, EndDrain,
     EndRebuild, TailKeeps,
     EndPersist, EndMerge, EndMerging, EndFlush, EndPass, rows
<1> QED
  BY <1>2, <1>3, <1>4, <1>5, <1>6 DEF EnderStep

LEMMA RecoveryRefines ==
  ASSUME IInv, RecoveryStep
  PROVE  LifecycleStep
<1>1. recPc # "idle" => recOf \in Meetings
  BY DEF IInv, CallsPoint
<1>2. CASE RecoverAsset
  <2>1. CASE UNCHANGED mixed
    BY <1>2, <2>1, QuietIsStep DEF RecoverAsset
  <2>2. CASE Registrable(recOf, closed[recOf]) /\ mixed' = [mixed EXCEPT ![recOf] = closed[recOf]]
    <3>1. recPc = "asset" /\ UNCHANGED <<life, save>>
      BY <1>2 DEF RecoverAsset
    <3>2. recOf \in Meetings /\ closed[recOf] \in Nat \ {0}
      BY <1>1, <3>1 DEF IInv, TypeOK, FilesOK, HasAudio
    <3>3. life[recOf] \in Active \cup {"interrupted", "ended"}
      BY <3>1 DEF IInv, RecoveryOwns
    <3> QED
      BY <2>2, <3>1, <3>2, <3>3, RegisterIsStep
  <2> QED
    BY <1>2, <2>1, <2>2 DEF RecoverAsset
<1>3. CASE RecoverFinish
  <2>1. CASE UNCHANGED <<life, save>>
    BY <1>3, <2>1, QuietIsStep DEF RecoverFinish
  <2>2. CASE /\ life[recOf] \in FinishFrom
             /\ SetState(recOf, "interrupted", IF recPc = "good" THEN "saved" ELSE "failed")
    <3>1. recOf \in Meetings /\ (recPc = "good" => mixed[recOf] > 0)
      BY <1>1, <1>3 DEF RecoverFinish, IInv, HasAudio
    <3>2. Lifecycle!Interrupt(recOf)
      BY <1>3, <2>2, <3>1 DEF RecoverFinish, FinishFrom, SetState, Active,
         Lifecycle!Interrupt, Lifecycle!Move, Lifecycle!Active
    <3> QED
      BY <3>1, <3>2, MoveIsStep DEF Lifecycle!Step
  <2> QED
    BY <1>3, <2>1, <2>2 DEF RecoverFinish
<1>4. CASE \/ RecoverRepair \/ RecoverInspect \/ RecoverMerge \/ RecoverMerging
           \/ RecoverTranscript \/ \E m \in Meetings : RecoverAtBoot(m)
  BY <1>4, QuietIsStep DEF RecoverRepair, RecoverInspect, RecoverMerge,
     RecoverMerging, RecoverTranscript, RecoverAtBoot, rows
<1> QED
  BY <1>2, <1>3, <1>4 DEF RecoveryStep

LEMMA NextRefines ==
  ASSUME IInv, [Next]_vars
  PROVE  LifecycleStep
<1>1. ASSUME NEW m \in Meetings,
             \/ StartCreate(m) \/ RetryInterrupted(m)
             \/ RunnerStep(m) \/ Frame(m) \/ FrameFails(m) \/ DeviceFails(m)
             \/ \E e \in Enders : EndCall(e, m)
      PROVE  LifecycleStep
  <2>1. CASE StartCreate(m)
    <3>1. Lifecycle!Create(m)
      BY <2>1 DEF StartCreate, SetState, Active, Lifecycle!Create, Lifecycle!Move, Lifecycle!Active
    <3> QED
      BY <3>1, MoveIsStep DEF Lifecycle!Step
  <2>2. CASE FailureHandler(m)
    BY <2>2, InterruptIsStep DEF FailureHandler
  <2>3. CASE \/ RetryInterrupted(m) \/ Frame(m) \/ FrameFails(m) \/ DeviceFails(m)
             \/ \E e \in Enders : EndCall(e, m)
    BY <2>3, QuietIsStep DEF RetryInterrupted, Frame, FrameFails, DeviceFails, EndCall, rows
  <2>4. CASE \/ FrameCompletes(m) \/ RegisterSegment(m) \/ RunnerExits(m)
             \/ RunnerStops(m) \/ RunnerClears(m) \/ StopFinish(m)
    BY <2>4, QuietIsStep DEF FrameCompletes, RegisterSegment, RunnerExits,
       RunnerStops, RunnerClears, StopFinish, rows
  <2> QED
    BY <1>1, <2>1, <2>2, <2>3, <2>4 DEF RunnerStep
<1>2. CASE Crash \/ Boot \/ UNCHANGED vars
  BY <1>2, QuietIsStep DEF Crash, Boot, vars, rows
<1> QED
  BY <1>1, <1>2, StarterRefines, EnderRefines, RecoveryRefines DEF Next

(* The recording component implements the lifecycle of a meeting: one      *)
(* active meeting, no move the domain does not list, "ended" and "saved"   *)
(* only over a registered recording.                                       *)
THEOREM LifecycleRefined == Spec => ImplementsLifecycle
<1>1. Init => Lifecycle!Init
  BY DEF Init, AllMeetings, Lifecycle!Init
<1>2. IInv /\ [Next]_vars => [Lifecycle!Next]_(Lifecycle!vars)
  BY NextRefines DEF LifecycleStep
<1> QED
  BY <1>1, <1>2, InvariantHolds, PTL DEF Spec, ImplementsLifecycle, Lifecycle!Spec

-----------------------------------------------------------------------------
(***************************************************************************)
(* A saved meeting has its whole recording, the microphone of a meeting    *)
(* that is over is off, and success is only told of a saved meeting.  Each *)
(* group of lemmas says what no step may take away, and what each action   *)
(* must have found to add to it.                                           *)
(***************************************************************************)

(* Which actions touch what.                                               *)

(* The rows are moved by nine actions. *)
LEMMA RowsAside ==
  ASSUME Next
  PROVE  \/ UNCHANGED <<life, save>>
         \/ \E m \in Meetings : StartCreate(m) \/ FailureHandler(m)
         \/ StartCommit \/ StartDiscard \/ StartInterrupt
         \/ \E e \in Enders : EndClaim(e) \/ EndCommit(e) \/ EndFail(e)
         \/ RecoverFinish
<1> USE DEF rows
<1>1. CASE StarterStep
  BY <1>1 DEF StarterStep, StartPrepare, StartDevice, StartFirstFrame, StartPublish,
     StartActivate, StartAbort, StartAborted, StartTranscriptStops
<1>2. ASSUME NEW m \in Meetings,
             \/ RetryInterrupted(m)
             \/ RunnerStep(m) \/ Frame(m) \/ FrameFails(m) \/ DeviceFails(m)
             \/ \E e \in Enders : EndCall(e, m)
      PROVE  UNCHANGED <<life, save>> \/ FailureHandler(m)
  BY <1>2 DEF RunnerStep, RetryInterrupted, Frame, FrameFails, DeviceFails, EndCall,
     FrameCompletes, RegisterSegment, RunnerExits, RunnerStops, RunnerClears, StopFinish
<1>3. ASSUME NEW e \in Enders, EnderStep(e)
      PROVE  UNCHANGED <<life, save>> \/ EndClaim(e) \/ EndCommit(e) \/ EndFail(e)
  BY <1>3 DEF EnderStep, EndRead, EndStop, EndStopped, EndTranscript, EndDrain, EndRebuild,
     TailKeeps, EndFlush, EndPass,
     EndPersist, EndMerge, EndMerging, EndAsset
<1>4. CASE RecoveryStep \/ Crash \/ Boot
  BY <1>4 DEF RecoveryStep, RecoverRepair, RecoverInspect, RecoverMerge, RecoverMerging,
     RecoverAsset, RecoverTranscript, RecoverAtBoot, Crash, Boot
<1> QED
  BY <1>1, <1>2, <1>3, <1>4 DEF Next

(* The recorders: who touches a session or what it writes. *)
Recorders == <<runner, failed, writer, stop, stopOk, segs, closed, hollow, part>>

LEMMA RecordersAside ==
  ASSUME Next
  PROVE  \/ UNCHANGED Recorders
         \/ StartFirstFrame \/ StartPublish \/ StartActivate \/ StartAbort
         \/ \E m \in Meetings : RunnerStep(m) \/ Frame(m) \/ FrameFails(m) \/ DeviceFails(m)
         \/ \E e \in Enders : EndStop(e)
         \/ RecoverRepair \/ Crash
<1> USE DEF Recorders, files, sessions
<1>1. CASE StarterStep
  BY <1>1 DEF StarterStep, StartPrepare, StartDevice, StartCommit, StartAborted,
     StartTranscriptStops,
     StartDiscard, StartInterrupt
<1>2. ASSUME NEW m \in Meetings,
             StartCreate(m) \/ RetryInterrupted(m) \/ \E e \in Enders : EndCall(e, m)
      PROVE  UNCHANGED Recorders
  BY <1>2 DEF StartCreate, RetryInterrupted, EndCall
<1>3. ASSUME NEW e \in Enders, EnderStep(e)
      PROVE  UNCHANGED Recorders \/ EndStop(e)
  BY <1>3 DEF EnderStep, EndRead, EndClaim, EndStopped, EndTranscript, EndDrain,
     EndRebuild, TailKeeps, EndFlush, EndPass,
     EndPersist, EndMerge, EndMerging, EndAsset, EndCommit, EndFail
<1>4. CASE RecoveryStep \/ Boot
  BY <1>4 DEF RecoveryStep, RecoverInspect, RecoverMerge, RecoverMerging,
     RecoverAsset, RecoverTranscript, RecoverFinish, RecoverAtBoot, Boot
<1> QED
  BY <1>1, <1>2, <1>3, <1>4 DEF Next

(* The registered segments. *)
LEMMA MicAside ==
  ASSUME Next
  PROVE  \/ UNCHANGED <<mic, micOf>>
         \/ \E m \in Meetings : RegisterSegment(m)
         \/ \E e \in Enders : EndPersist(e)
         \/ RecoverInspect
<1> USE DEF rows, InterruptMeeting
<1>1. CASE StarterStep
  BY <1>1 DEF StarterStep, StartPrepare, StartDevice, StartFirstFrame, StartPublish,
     StartCommit, StartActivate, StartAbort, StartAborted, StartTranscriptStops,
     StartDiscard, StartInterrupt
<1>2. ASSUME NEW m \in Meetings,
             \/ StartCreate(m) \/ RetryInterrupted(m)
             \/ RunnerStep(m) \/ Frame(m) \/ FrameFails(m) \/ DeviceFails(m)
             \/ \E e \in Enders : EndCall(e, m)
      PROVE  UNCHANGED <<mic, micOf>> \/ RegisterSegment(m)
  BY <1>2 DEF StartCreate, RetryInterrupted, RunnerStep, Frame, FrameFails, DeviceFails,
     EndCall, FrameCompletes, RunnerExits, RunnerStops, FailureHandler, RunnerClears, StopFinish
<1>3. ASSUME NEW e \in Enders, EnderStep(e)
      PROVE  UNCHANGED <<mic, micOf>> \/ EndPersist(e)
  BY <1>3 DEF EnderStep, EndRead, EndClaim, EndStop, EndStopped, EndTranscript, EndDrain,
     EndRebuild, TailKeeps, EndFlush,
     EndPass, EndMerge, EndMerging, EndAsset, EndCommit, EndFail
<1>4. CASE RecoveryStep \/ Crash \/ Boot
  BY <1>4 DEF RecoveryStep, RecoverRepair, RecoverMerge, RecoverMerging, RecoverAsset,
     RecoverTranscript, RecoverFinish, RecoverAtBoot, Crash, Boot
<1> QED
  BY <1>1, <1>2, <1>3, <1>4 DEF Next

(* The complete recording, its part and its registration. *)
LEMMA MergedAside ==
  ASSUME Next
  PROVE  \/ UNCHANGED <<merged, mergePart, mixed>>
         \/ \E e \in Enders : EndMerge(e) \/ EndMerging(e) \/ EndAsset(e)
         \/ RecoverMerge \/ RecoverMerging \/ RecoverAsset
<1> USE DEF rows, files, InterruptMeeting, RenamePart, CloseSegment
<1>1. CASE StarterStep
  BY <1>1 DEF StarterStep, StartPrepare, StartDevice, StartFirstFrame, StartPublish,
     StartCommit, StartActivate, StartAbort, StartAborted, StartTranscriptStops,
     StartDiscard, StartInterrupt
<1>2. ASSUME NEW m \in Meetings,
             \/ StartCreate(m) \/ RetryInterrupted(m)
             \/ RunnerStep(m) \/ Frame(m) \/ FrameFails(m) \/ DeviceFails(m)
             \/ \E e \in Enders : EndCall(e, m)
      PROVE  UNCHANGED <<merged, mergePart, mixed>>
  BY <1>2 DEF StartCreate, RetryInterrupted, RunnerStep, Frame, FrameFails, DeviceFails,
     EndCall, FrameCompletes, RegisterSegment, RunnerExits, RunnerStops, FailureHandler,
     RunnerClears, StopFinish
<1>3. ASSUME NEW e \in Enders, EnderStep(e)
      PROVE  UNCHANGED <<merged, mergePart, mixed>> \/ EndMerge(e) \/ EndMerging(e) \/ EndAsset(e)
  BY <1>3 DEF EnderStep, EndRead, EndClaim, EndStop, EndStopped, EndTranscript, EndDrain,
     EndRebuild, TailKeeps, EndFlush,
     EndPass, EndPersist, EndCommit, EndFail
<1>4. CASE RecoveryStep \/ Crash \/ Boot
  BY <1>4 DEF RecoveryStep, RecoverRepair, RecoverInspect,
     RecoverTranscript, RecoverFinish, RecoverAtBoot, Crash, Boot
<1> QED
  BY <1>1, <1>2, <1>3, <1>4 DEF Next

(* The calls of EndMeeting. *)
LEMMA EndersAside ==
  ASSUME Next
  PROVE  \/ UNCHANGED enders
         \/ \E e \in Enders : EnderStep(e) \/ \E m \in Meetings : EndCall(e, m)
         \/ Crash
<1>1. CASE StarterStep
  BY <1>1 DEF StarterStep, StartPrepare, StartDevice, StartFirstFrame, StartPublish,
     StartCommit, StartActivate, StartAbort, StartAborted, StartTranscriptStops,
     StartDiscard, StartInterrupt
<1>2. ASSUME NEW m \in Meetings,
             \/ StartCreate(m) \/ RetryInterrupted(m)
             \/ RunnerStep(m) \/ Frame(m) \/ FrameFails(m) \/ DeviceFails(m)
      PROVE  UNCHANGED enders
  BY <1>2 DEF StartCreate, RetryInterrupted, RunnerStep, Frame, FrameFails, DeviceFails,
     FrameCompletes, RegisterSegment, RunnerExits, RunnerStops, FailureHandler,
     RunnerClears, StopFinish
<1>4. CASE RecoveryStep \/ Boot
  BY <1>4 DEF RecoveryStep, RecoverRepair, RecoverInspect, RecoverMerge, RecoverMerging,
     RecoverAsset, RecoverTranscript, RecoverFinish, RecoverAtBoot, Boot
<1> QED
  BY <1>1, <1>2, <1>4 DEF Next

(* The recovery. *)
LEMMA RecoveryAside ==
  ASSUME Next
  PROVE  \/ UNCHANGED recovery
         \/ \E m \in Meetings : RetryInterrupted(m)
         \/ RecoveryStep \/ Crash
<1>1. CASE StarterStep
  BY <1>1 DEF StarterStep, StartPrepare, StartDevice, StartFirstFrame, StartPublish,
     StartCommit, StartActivate, StartAbort, StartAborted, StartTranscriptStops,
     StartDiscard, StartInterrupt
<1>2. ASSUME NEW m \in Meetings,
             \/ StartCreate(m)
             \/ RunnerStep(m) \/ Frame(m) \/ FrameFails(m) \/ DeviceFails(m)
             \/ \E e \in Enders : EndCall(e, m)
      PROVE  UNCHANGED recovery
  BY <1>2 DEF StartCreate, EndCall, RunnerStep, Frame, FrameFails, DeviceFails,
     FrameCompletes, RegisterSegment, RunnerExits, RunnerStops, FailureHandler,
     RunnerClears, StopFinish
<1>3. ASSUME NEW e \in Enders, EnderStep(e)
      PROVE  UNCHANGED recovery
  BY <1>3 DEF EnderStep, EndRead, EndClaim, EndStop, EndStopped, EndTranscript, EndDrain,
     EndRebuild, TailKeeps, EndFlush,
     EndPass, EndPersist, EndMerge, EndMerging, EndAsset, EndCommit, EndFail
<1>4. CASE Boot
  BY <1>4 DEF Boot
<1> QED
  BY <1>1, <1>2, <1>3, <1>4 DEF Next

(* The coordinator. *)
LEMMA CoordinatorAside ==
  ASSUME Next
  PROVE  \/ UNCHANGED <<session, last>>
         \/ StartPublish \/ StartAborted
         \/ \E m \in Meetings : RunnerClears(m)
         \/ \E e \in Enders : EndStopped(e)
         \/ Crash
<1> USE DEF coord
<1>1. CASE StarterStep
  BY <1>1 DEF StarterStep, StartPrepare, StartDevice, StartFirstFrame,
     StartCommit, StartActivate, StartAbort, StartTranscriptStops, StartDiscard,
     StartInterrupt
<1>2. ASSUME NEW m \in Meetings,
             \/ StartCreate(m) \/ RetryInterrupted(m)
             \/ RunnerStep(m) \/ Frame(m) \/ FrameFails(m) \/ DeviceFails(m)
             \/ \E e \in Enders : EndCall(e, m)
      PROVE  UNCHANGED <<session, last>> \/ RunnerClears(m)
  BY <1>2 DEF StartCreate, RetryInterrupted, EndCall, RunnerStep, Frame, FrameFails,
     DeviceFails, FrameCompletes, RegisterSegment, RunnerExits, RunnerStops,
     FailureHandler, StopFinish
<1>3. ASSUME NEW e \in Enders, EnderStep(e)
      PROVE  UNCHANGED <<session, last>> \/ EndStopped(e)
  BY <1>3 DEF EnderStep, EndRead, EndClaim, EndStop, EndTranscript, EndDrain, EndRebuild,
     TailKeeps, EndFlush,
     EndPass, EndPersist, EndMerge, EndMerging, EndAsset, EndCommit, EndFail
<1>4. CASE RecoveryStep \/ Boot
  BY <1>4 DEF RecoveryStep, RecoverRepair, RecoverInspect, RecoverMerge, RecoverMerging,
     RecoverAsset, RecoverTranscript, RecoverFinish, RecoverAtBoot, Boot
<1> QED
  BY <1>1, <1>2, <1>3, <1>4 DEF Next

-----------------------------------------------------------------------------
(* What no step takes away.                                                *)

(* A recording that is over has no runner that writes or may still begin.  *)
LEMMA OverMeans ==
  ASSUME IInv, \A n \in Meetings : SessionFits(n), NEW m \in Meetings, Sound(m)
  PROVE  /\ runner[m] \in {"none", "exited", "clear", "gone"}
         /\ stop[m] = IF runner[m] = "none" THEN "none" ELSE "done"
         /\ startPc \in Early \cup {"publish"} => startOf # m
  BY DEF IInv, LiveIsHeld, Sound, Dead, SessionFits, TypeOK, SessionsOK

SoundStays ==
  \A m \in Meetings : Sound(m) => Sound(m)' /\ closed'[m] = closed[m] /\ segs'[m] = segs[m]

LEMMA SoundIsKept ==
  ASSUME IInv, \A n \in Meetings : SessionFits(n), Next
  PROVE  SoundStays
<1> SUFFICES ASSUME NEW m \in Meetings, Sound(m)
             PROVE  Sound(m)' /\ closed'[m] = closed[m] /\ segs'[m] = segs[m]
  BY DEF SoundStays
<1>1. /\ runner[m] \in {"none", "exited", "clear", "gone"}
      /\ stop[m] = IF runner[m] = "none" THEN "none" ELSE "done"
      /\ startPc \in Early \cup {"publish"} => startOf # m
  BY OverMeans
<1>2. /\ part[m] = NoPart /\ ~hollow[m] /\ segs[m] > 0 /\ closed[m] > 0
      /\ Dead(m)
  BY DEF Sound
<1>3. SessionsOK /\ FilesOK /\ CallsPoint /\ LiveIsHeld /\ StarterOwns
  BY DEF IInv, TypeOK
<1>4. CASE UNCHANGED Recorders
  BY <1>4, <1>2 DEF Recorders, Sound, Dead
<1>5. CASE StartFirstFrame
  BY <1>5, <1>1, <1>2, <1>3 DEF StartFirstFrame, Early, sessions, Sound, Dead, FilesOK, CallsPoint
<1>6. CASE StartPublish
  BY <1>6, <1>1, <1>2, <1>3 DEF StartPublish, files, Sound, Dead, SessionsOK, CallsPoint
<1>7. CASE StartActivate
  BY <1>7, <1>1, <1>2, <1>3 DEF StartActivate, files, Sound, Dead, SessionsOK
<1>8. CASE StartAbort
  BY <1>8, <1>1, <1>2, <1>3 DEF StartAbort, JoinStop, files, Sound, Dead, SessionsOK
<1>9. ASSUME NEW n \in Meetings, RunnerStep(n) \/ Frame(n) \/ FrameFails(n) \/ DeviceFails(n)
      PROVE  Sound(m)' /\ closed'[m] = closed[m] /\ segs'[m] = segs[m]
  <2> USE <1>1, <1>2, <1>3 DEF Sound, Dead, SessionsOK, FilesOK, NoPart
  <2>1. CASE FrameCompletes(n)
    BY <2>1 DEF FrameCompletes, CloseSegment
  <2>2. CASE RegisterSegment(n)
    BY <2>2 DEF RegisterSegment, RunnerFails, files
  <2>3. CASE RunnerExits(n) \/ RunnerStops(n) \/ FailureHandler(n) \/ RunnerClears(n) \/ DeviceFails(n)
    BY <2>3 DEF RunnerExits, RunnerStops, JoinStop, FailureHandler, RunnerClears,
       DeviceFails, RunnerFails, files
  <2>4. CASE StopFinish(n)
    BY <2>4 DEF StopFinish, RenamePart, files
  <2>5. CASE Frame(n)
    BY <2>5 DEF Frame
  <2>6. CASE FrameFails(n)
    BY <2>6 DEF FrameFails, RunnerFails, CloseSegment, files
  <2> QED BY <1>9, <2>1, <2>2, <2>3, <2>4, <2>5, <2>6 DEF RunnerStep
<1>10. ASSUME NEW e \in Enders, EndStop(e)
       PROVE  Sound(m)' /\ closed'[m] = closed[m] /\ segs'[m] = segs[m]
  BY <1>10, <1>1, <1>2, <1>3 DEF EndStop, JoinStop, files, Sound, Dead, SessionsOK
<1>11. CASE RecoverRepair
  BY <1>11, <1>1, <1>2, <1>3 DEF RecoverRepair, HasPart, RenamePart, files, sessions,
     Sound, Dead, FilesOK, CallsPoint
<1>12. CASE Crash
  <2>1. part'[m] = NoPart
    BY <1>12, <1>1, <1>2 DEF Crash, Creating, Early
  <2> QED
    BY <1>12, <2>1, <1>2 DEF Crash, ForgetMemory, AllMeetings, Sound, Dead
<1> QED
  BY <1>4, <1>5, <1>6, <1>7, <1>8, <1>9, <1>10, <1>11, <1>12, RecordersAside

(* Segments that are registered from a sound recording are registered once. *)
MicStays ==
  \A m \in Meetings :
    micOf[m] \in Meetings /\ Sound(micOf[m]) /\ mic[m] = segs[micOf[m]]
      => mic'[m] = mic[m] /\ micOf'[m] = micOf[m]

LEMMA MicIsKept ==
  ASSUME IInv, SaveInv, Next
  PROVE  MicStays
<1> SUFFICES ASSUME NEW m \in Meetings, micOf[m] \in Meetings, Sound(micOf[m]), mic[m] = segs[micOf[m]]
             PROVE  mic'[m] = mic[m] /\ micOf'[m] = micOf[m]
  BY DEF MicStays
<1>1. runner[micOf[m]] # "register" /\ mic[m] # 0 /\ ~hollow[micOf[m]]
  BY OverMeans DEF Sound, SaveInv, IInv, TypeOK, FilesOK
<1>2. RowsOK /\ CallsPoint
  BY DEF IInv, TypeOK
<1>3. ASSUME NEW n \in Meetings, RegisterSegment(n)
      PROVE  mic'[m] = mic[m] /\ micOf'[m] = micOf[m]
  BY <1>3, <1>1, <1>2 DEF RegisterSegment, MicFree, RegisterMic, RowsOK
<1>4. ASSUME NEW e \in Enders, EndPersist(e)
      PROVE  mic'[m] = mic[m] /\ micOf'[m] = micOf[m]
  BY <1>4, <1>1, <1>2 DEF EndPersist, MicFree, RegisterMic, RowsOK
<1>5. CASE RecoverInspect
  BY <1>5, <1>1, <1>2 DEF RecoverInspect, MicFree, RegisterMic, RowsOK, IInv, TypeOK, FilesOK
<1> QED
  BY <1>3, <1>4, <1>5, MicAside

(* recording.wav is written once, and registered once. *)
MergedStays ==
  \A m \in Meetings : /\ merged[m] # NoPart => merged'[m] = merged[m]
                      /\ mixed[m] > 0 => mixed'[m] = mixed[m]

LEMMA MergedIsKept ==
  ASSUME IInv, SaveInv, Next
  PROVE  MergedStays
<1> SUFFICES ASSUME NEW m \in Meetings
             PROVE  /\ merged[m] # NoPart => merged'[m] = merged[m]
                    /\ mixed[m] > 0 => mixed'[m] = mixed[m]
  BY DEF MergedStays
<1>1. RowsOK /\ FilesOK /\ CallsPoint
  BY DEF IInv, TypeOK
<1>2. ASSUME NEW e \in Enders, EndMerge(e) \/ EndMerging(e) \/ EndAsset(e)
      PROVE  /\ merged[m] # NoPart => merged'[m] = merged[m]
             /\ mixed[m] > 0 => mixed'[m] = mixed[m]
  BY <1>2, <1>1 DEF EndMerge, EndMerging, EndAsset, MergeDone, MergeBreaks, Registrable,
     rows, files, RowsOK, FilesOK, SaveInv, EnderFits
<1>3. CASE RecoverMerge \/ RecoverMerging \/ RecoverAsset
  BY <1>3, <1>1 DEF RecoverMerge, RecoverMerging, RecoverAsset, MergeDone, MergeBreaks, Registrable,
     rows, files, RowsOK, FilesOK, SaveInv, RecoveryFits
<1> QED
  BY <1>2, <1>3, MergedAside

(* The rows: who is recorded was recorded or is what the starter commits,  *)
(* and what is ended stays as it is.                                       *)
LifeStay(m) ==
  /\ life[m] = "ended" => life'[m] = "ended" /\ save'[m] = save[m]
  /\ life'[m] \in Recorded => \/ life[m] \in Recorded
                              \/ startPc = "commit" /\ startOf = m

LifeStays == \A m \in Meetings : LifeStay(m)

LEMMA LifeIsKept ==
  ASSUME IInv, Next
  PROVE  LifeStays
<1> SUFFICES ASSUME NEW m \in Meetings
             PROVE  LifeStay(m)
  BY DEF LifeStays
<1>1. RowsOK /\ CallsPoint /\ StarterOwns
  BY DEF IInv, TypeOK
<1>2. CASE StartCommit \/ StartDiscard \/ StartInterrupt
  BY <1>1, <1>2 DEF StartCommit, StartDiscard, StartInterrupt, StarterOwns, CallsPoint, LifeStay,
     SetState, CanMove, InterruptMeeting, Active, Recorded, RowsOK
<1>3. ASSUME NEW n \in Meetings, StartCreate(n) \/ FailureHandler(n)
      PROVE  LifeStay(m)
  BY <1>1, <1>3 DEF StartCreate, FailureHandler, LifeStay,
     SetState, InterruptMeeting, Active, Recorded, RowsOK
<1>4. ASSUME NEW e \in Enders, EndClaim(e) \/ EndCommit(e) \/ EndFail(e)
      PROVE  LifeStay(m)
  BY <1>1, <1>4 DEF EndClaim, EndCommit, EndFail, CallsPoint, LifeStay,
     SetState, CanMove, Claimed, Active, Recorded, RowsOK
<1>5. CASE RecoverFinish
  BY <1>1, <1>5 DEF RecoverFinish, FinishFrom, CallsPoint, LifeStay, SetState, Active,
     Recorded, RowsOK
<1>6. CASE UNCHANGED <<life, save>>
  BY <1>6 DEF LifeStay
<1> QED
  BY <1>2, <1>3, <1>4, <1>5, <1>6, RowsAside

-----------------------------------------------------------------------------
(* One meeting is active at a time. *)
LEMMA OneActiveKept ==
  ASSUME IInv, OneActive, Next
  PROVE  OneActive'
<1>1. RowsOK /\ CallsPoint
  BY DEF IInv, TypeOK
<1>2. ASSUME NEW n \in Meetings, StartCreate(n)
      PROVE  OneActive'
  BY <1>1, <1>2 DEF OneActive, StartCreate, SetState, RowsOK
<1>3. ASSUME \A m \in Meetings : life'[m] \in Active => life[m] \in Active
      PROVE  OneActive'
  BY <1>3 DEF OneActive, Active
<1>4. CASE StartCommit \/ StartDiscard \/ StartInterrupt
  BY <1>1, <1>3, <1>4 DEF StartCommit, StartDiscard, StartInterrupt, CallsPoint,
     SetState, CanMove, InterruptMeeting, Active, RowsOK
<1>5. ASSUME NEW n \in Meetings, FailureHandler(n)
      PROVE  OneActive'
  BY <1>1, <1>3, <1>5 DEF FailureHandler, SetState, InterruptMeeting, Active, RowsOK
<1>6. ASSUME NEW e \in Enders, EndClaim(e) \/ EndCommit(e) \/ EndFail(e)
      PROVE  OneActive'
  BY <1>1, <1>3, <1>6 DEF EndClaim, EndCommit, EndFail, CallsPoint,
     SetState, CanMove, Claimed, Active, RowsOK
<1>7. CASE RecoverFinish
  BY <1>1, <1>3, <1>7 DEF RecoverFinish, CallsPoint, SetState, Active, RowsOK
<1>8. CASE UNCHANGED <<life, save>>
  BY <1>3, <1>8
<1> QED
  BY <1>2, <1>4, <1>5, <1>6, <1>7, <1>8, RowsAside

-----------------------------------------------------------------------------
(* The coordinator. *)
LEMMA StarterAside ==
  ASSUME Next
  PROVE  \/ UNCHANGED <<startPc, startOf>>
         \/ StarterStep \/ Crash
         \/ \E m \in Meetings : StartCreate(m)
<1> USE DEF starter
<1>1. ASSUME NEW m \in Meetings,
             \/ RetryInterrupted(m)
             \/ RunnerStep(m) \/ Frame(m) \/ FrameFails(m) \/ DeviceFails(m)
             \/ \E e \in Enders : EndCall(e, m)
      PROVE  UNCHANGED <<startPc, startOf>>
  BY <1>1 DEF RetryInterrupted, EndCall, RunnerStep, Frame, FrameFails, DeviceFails,
     FrameCompletes, RegisterSegment, RunnerExits, RunnerStops, FailureHandler,
     RunnerClears, StopFinish
<1>2. ASSUME NEW e \in Enders, EnderStep(e)
      PROVE  UNCHANGED <<startPc, startOf>>
  BY <1>2 DEF EnderStep, EndRead, EndClaim, EndStop, EndStopped, EndTranscript, EndDrain,
     EndRebuild, TailKeeps, EndFlush,
     EndPass, EndPersist, EndMerge, EndMerging, EndAsset, EndCommit, EndFail
<1>3. CASE RecoveryStep \/ Boot
  BY <1>3 DEF RecoveryStep, RecoverRepair, RecoverInspect, RecoverMerge, RecoverMerging,
     RecoverAsset, RecoverTranscript, RecoverFinish, RecoverAtBoot, Boot
<1> QED
  BY <1>1, <1>2, <1>3 DEF Next

(* The starter comes to its commit by publishing. *)
LEMMA CommitFollows ==
  ASSUME Next, startPc' = "commit"
  PROVE  StartPublish \/ (startPc = "commit" /\ startOf' = startOf)
<1>1. CASE StarterStep
  BY <1>1 DEF StarterStep, StartPrepare, StartDevice, StartFirstFrame, StartCommit,
     StartActivate, StartAbort, StartAborted, StartTranscriptStops, StartDiscard,
     StartInterrupt, StartGoto, StartReturn
<1>2. CASE UNCHANGED <<startPc, startOf>>
  BY <1>2
<1>3. CASE Crash
  BY <1>3 DEF Crash, ForgetMemory
<1>4. ASSUME NEW m \in Meetings, StartCreate(m) PROVE FALSE
  BY <1>4 DEF StartCreate
<1> QED
  BY <1>1, <1>2, <1>3, <1>4, StarterAside

(* What the coordinator remembers of a session that stopped well. *)
LastFits ==
  last.ok => \E s \in Meetings : last.of = s /\ Sound(s) /\ last.end = closed[s]

LEMMA LastIsKept ==
  ASSUME SoundStays, LastFits, UNCHANGED last
  PROVE  LastFits'
<1> SUFFICES ASSUME last.ok
             PROVE  \E s \in Meetings : last'.of = s /\ Sound(s)' /\ last'.end = closed'[s]
  BY DEF LastFits
<1>1. PICK s \in Meetings : last.of = s /\ Sound(s) /\ last.end = closed[s]
  BY DEF LastFits
<1>2. Sound(s)' /\ closed'[s] = closed[s]
  BY <1>1 DEF SoundStays
<1> QED BY <1>1, <1>2

(* The session that is forgotten has stopped. *)
LEMMA Forgets ==
  ASSUME IInv, \A n \in Meetings : SessionFits(n), SoundStays, LastFits,
         NEW m \in Meetings, stop[m] = "done", ForgetSession(m)
  PROVE  session' \in {None, session} /\ last'.of \in {last.of, session} /\ LastFits'
<1>1. stopOk[m] => Sound(m)
  BY DEF SessionFits
<1>2. CASE session = m
  <2>1. last' = [of |-> m, ok |-> stopOk[m], end |-> closed[m]] /\ session' = None
    BY <1>2 DEF ForgetSession
  <2>2. stopOk[m] => Sound(m)' /\ closed'[m] = closed[m]
    BY <1>1 DEF SoundStays
  <2>3. last'.of = m /\ last'.ok = stopOk[m] /\ last'.end = closed[m]
    BY <2>1
  <2>4. LastFits'
    BY <2>2, <2>3 DEF LastFits
  <2> QED BY <1>2, <2>1, <2>3, <2>4
<1>3. CASE session # m
  <2>1. UNCHANGED <<session, last>>
    BY <1>3 DEF ForgetSession
  <2> QED BY <2>1, LastIsKept
<1> QED BY <1>2, <1>3

LEMMA CoordinatorKept ==
  ASSUME IInv, SaveInv, SoundStays, LifeStays, Next
  PROVE  CoordinatorFits'
<1>1. /\ SessionsOK /\ CallsPoint /\ LiveIsHeld /\ StarterOwns
      /\ CoordinatorFits /\ OneActive /\ \A n \in Meetings : SessionFits(n)
  BY DEF IInv, TypeOK, SaveInv
<1>0. LastFits
  BY <1>1 DEF CoordinatorFits, LastFits
<1>2. \A m \in Meetings : life'[m] \in Recorded => session \in {None, m} /\ last.of \in {None, m}
  BY <1>1 DEF LifeStays, LifeStay, CoordinatorFits, StarterOwns
<1>3. CASE StartPublish
  <2>1. /\ session' = startOf /\ last' = NoLast /\ startOf' = startOf /\ UNCHANGED life
        /\ life[startOf] = "preparing" /\ startOf \in Meetings
    BY <1>1, <1>3 DEF StartPublish, StartGoto, rows, StarterOwns, CallsPoint
  <2>2. \A m \in Meetings : life[m] \notin Recorded
    BY <1>1, <2>1 DEF OneActive, Active, Recorded
  <2> QED
    BY <2>1, <2>2 DEF CoordinatorFits, NoLast
<1>4. ASSUME NEW m \in Meetings, stop[m] = "done", ForgetSession(m), ~StartPublish
      PROVE  CoordinatorFits'
  <2>1. /\ session' \in {None, session}
        /\ last'.of \in {last.of, session}
        /\ LastFits'
    BY <1>0, <1>1, <1>4, Forgets
  <2>2. startPc' = "commit" => session \in {None, startOf'} /\ last.of \in {None, startOf'}
    BY <1>1, <1>4, CommitFollows DEF StarterOwns, CoordinatorFits
  <2>3. \A n \in Meetings : life'[n] \in Recorded => session' \in {None, n} /\ last'.of \in {None, n}
    BY <1>2, <2>1
  <2>4. startPc' = "commit" => last'.of \in {None, startOf'}
    BY <2>1, <2>2
  <2> QED
    BY <2>1, <2>3, <2>4 DEF CoordinatorFits, LastFits, Sound, Dead, Recorded
<1>5. CASE StartAborted
  BY <1>1, <1>4, <1>5 DEF StartAborted, StartTranscriptStops, StartPublish, CallsPoint
<1>6. ASSUME NEW m \in Meetings, RunnerClears(m)
      PROVE  CoordinatorFits'
  <2>1. stop[m] = "done" /\ ForgetSession(m)
    BY <1>1, <1>6 DEF RunnerClears, LiveIsHeld
  <2>2. CASE ~StartPublish BY <1>4, <2>1, <2>2
  <2> QED BY <1>3, <2>2
<1>7. ASSUME NEW e \in Enders, EndStopped(e)
      PROVE  CoordinatorFits'
  <2>1. endSess[e] \in Meetings /\ stop[endSess[e]] = "done" /\ ForgetSession(endSess[e])
    BY <1>1, <1>7 DEF EndStopped, CallsPoint
  <2>2. CASE ~StartPublish BY <1>4, <2>1, <2>2
  <2> QED BY <1>3, <2>2
<1>8. CASE UNCHANGED <<session, last>> /\ ~StartPublish
  <2>1. startPc' = "commit" => last.of \in {None, startOf'}
    BY <1>1, <1>8, CommitFollows DEF CoordinatorFits
  <2>2. LastFits'
    BY <1>0, <1>8, LastIsKept
  <2>3. startPc' = "commit" => last'.of \in {None, startOf'}
    BY <1>8, <2>1
  <2>4. \A m \in Meetings : life'[m] \in Recorded => session' \in {None, m} /\ last'.of \in {None, m}
    BY <1>2, <1>8
  <2> QED BY <2>2, <2>3, <2>4 DEF CoordinatorFits, LastFits, Sound, Dead, Recorded
<1>9. CASE Crash
  BY <1>9 DEF Crash, ForgetMemory, NoLast, CoordinatorFits
<1> QED
  BY <1>3, <1>5, <1>6, <1>7, <1>8, <1>9, CoordinatorAside

-----------------------------------------------------------------------------
(* The sessions and what they write. *)

(* Without a runner and without a recovery the ready segments stay. *)
LEMMA ReadyStays ==
  ASSUME IInv, Next, NEW m \in Meetings, runner[m] = "none", ~(recPc = "repair" /\ recOf = m)
  PROVE  closed'[m] = closed[m] /\ segs'[m] = segs[m] /\ hollow'[m] = hollow[m]
<1>1. FilesOK /\ SessionsOK /\ LiveIsHeld /\ CallsPoint
  BY DEF IInv, TypeOK
<1>2. CASE UNCHANGED Recorders
  BY <1>2 DEF Recorders
<1>3. CASE StartFirstFrame \/ StartPublish \/ StartActivate \/ StartAbort \/ Crash
  BY <1>3 DEF StartFirstFrame, StartPublish, StartActivate, StartAbort, Crash, files
<1>4. ASSUME NEW n \in Meetings, RunnerStep(n) \/ Frame(n) \/ FrameFails(n) \/ DeviceFails(n)
      PROVE  closed'[m] = closed[m] /\ segs'[m] = segs[m] /\ hollow'[m] = hollow[m]
  <2> USE <1>1 DEF FilesOK, files
  <2>1. CASE FrameCompletes(n)
    BY <2>1 DEF FrameCompletes, CloseSegment
  <2>2. CASE RegisterSegment(n) \/ RunnerExits(n) \/ RunnerStops(n) \/ FailureHandler(n)
             \/ RunnerClears(n) \/ DeviceFails(n) \/ Frame(n)
    BY <2>2 DEF RegisterSegment, RunnerExits, RunnerStops, FailureHandler, RunnerClears,
       DeviceFails, Frame
  <2>3. CASE StopFinish(n)
    BY <2>3 DEF StopFinish, RenamePart
  <2>4. CASE FrameFails(n)
    BY <2>4 DEF FrameFails, CloseSegment
  <2> QED BY <1>4, <2>1, <2>2, <2>3, <2>4 DEF RunnerStep
<1>5. ASSUME NEW e \in Enders, EndStop(e)
      PROVE  closed'[m] = closed[m] /\ segs'[m] = segs[m] /\ hollow'[m] = hollow[m]
  BY <1>5 DEF EndStop, files
<1>6. CASE RecoverRepair
  BY <1>1, <1>6 DEF RecoverRepair, RenamePart, files, FilesOK, CallsPoint
<1> QED
  BY <1>2, <1>3, <1>4, <1>5, <1>6, RecordersAside

(* A meeting that was not created stays so, and an early starter was one. *)
LEMMA FreshFollows ==
  ASSUME IInv, Next, NEW m \in Meetings,
         life'[m] = "none" \/ (startPc' \in Early \cup {"publish"} /\ startOf' = m)
  PROVE  life[m] = "none" \/ (startPc \in Early \cup {"publish"} /\ startOf = m)
<1>1. RowsOK /\ CallsPoint
  BY DEF IInv, TypeOK
<1>2. CASE life'[m] = "none"
  <2> USE <1>1, <1>2 DEF SetState, RowsOK
  <2>1. CASE StartCommit \/ StartDiscard \/ StartInterrupt
    BY <2>1 DEF StartCommit, StartDiscard, StartInterrupt, InterruptMeeting, CallsPoint
  <2>2. ASSUME NEW n \in Meetings, StartCreate(n) \/ FailureHandler(n)
        PROVE  life[m] = "none"
    BY <2>2 DEF StartCreate, FailureHandler, InterruptMeeting
  <2>3. ASSUME NEW e \in Enders, EndClaim(e) \/ EndCommit(e) \/ EndFail(e)
        PROVE  life[m] = "none"
    BY <2>3 DEF EndClaim, EndCommit, EndFail, CallsPoint
  <2>4. CASE RecoverFinish
    BY <2>4 DEF RecoverFinish, CallsPoint
  <2> QED BY <2>1, <2>2, <2>3, <2>4, RowsAside
<1>3. CASE startPc' \in Early \cup {"publish"} /\ startOf' = m
  <2> USE <1>3 DEF Early
  <2>1. CASE StarterStep
    BY <2>1 DEF StarterStep, StartPrepare, StartDevice, StartFirstFrame, StartPublish, StartCommit,
       StartActivate, StartAbort, StartAborted, StartTranscriptStops, StartDiscard,
       StartInterrupt, StartGoto, StartReturn
  <2>2. CASE UNCHANGED <<startPc, startOf>>
    BY <2>2
  <2>3. CASE Crash
    BY <2>3 DEF Crash, ForgetMemory
  <2>4. ASSUME NEW n \in Meetings, StartCreate(n) PROVE life[m] = "none"
    BY <2>4 DEF StartCreate
  <2> QED BY <2>1, <2>2, <2>3, <2>4, StarterAside
<1> QED BY <1>2, <1>3

LEMMA FreshKept ==
  ASSUME IInv, \A n \in Meetings : SessionFits(n), Next, NEW m \in Meetings,
         life'[m] = "none" \/ (startPc' \in Early \cup {"publish"} /\ startOf' = m)
  PROVE  closed'[m] = 0 /\ ~hollow'[m]
<1>1. life[m] = "none" \/ (startPc \in Early \cup {"publish"} /\ startOf = m)
  BY FreshFollows
<1>2. closed[m] = 0 /\ ~hollow[m]
  BY <1>1 DEF SessionFits
<1>3. runner[m] = "none" /\ ~(recPc = "repair" /\ recOf = m)
  BY <1>1 DEF IInv, StarterOwns, RecoveryOwns, Early, Active
<1>4. closed'[m] = closed[m] /\ hollow'[m] = hollow[m]
  BY <1>3, ReadyStays
<1> QED BY <1>2, <1>4

(* The rest of what fits a session, which does not speak of the starter. *)
RunnerFits(m) ==
  /\ closed[m] > 0 => segs[m] > 0
  /\ runner[m] # "none" /\ stop[m] # "done" /\ ~failed[m] =>
        /\ ~hollow[m]
        /\ writer[m] = "open" => part[m] > 0
        /\ writer[m] # "open" => part[m] = NoPart
  /\ stop[m] = "done" /\ stopOk[m] => Sound(m)

LEMMA RunnerAside ==
  ASSUME SoundStays, NEW m \in Meetings, RunnerFits(m),
         runner'[m] = "none" <=> runner[m] = "none",
         stop'[m] = "done" <=> stop[m] = "done", failed[m] => failed'[m],
         stopOk'[m] => stopOk[m], writer'[m] = writer[m],
         closed'[m] = closed[m], segs'[m] = segs[m], hollow'[m] = hollow[m], part'[m] = part[m]
  PROVE  RunnerFits(m)'
  BY DEF RunnerFits, SoundStays

LEMMA RunnerFitsKept ==
  ASSUME IInv, IInv', SaveInv, SoundStays, Next, NEW m \in Meetings
  PROVE  RunnerFits(m)'
<1>1. /\ FilesOK /\ SessionsOK /\ CallsPoint /\ LiveIsHeld /\ StarterOwns /\ HasAudio
      /\ SessionFits(m) /\ RunnerFits(m) /\ HasAudio' /\ LiveIsHeld'
  BY DEF IInv, TypeOK, SaveInv, SessionFits, RunnerFits
<1>2. CASE UNCHANGED Recorders
  BY <1>1, <1>2, RunnerAside DEF Recorders
<1>3. CASE StartFirstFrame
  BY <1>1, <1>3 DEF StartFirstFrame, sessions, RunnerFits, SoundStays, Early, StarterOwns,
     CallsPoint, FilesOK
<1>4. CASE StartPublish
  BY <1>1, <1>4 DEF StartPublish, files, RunnerFits, SoundStays, SessionFits, StarterOwns,
     CallsPoint,
     SessionsOK, HasAudio, Early, LiveIsHeld
<1>5. CASE StartActivate
  BY <1>1, <1>5, RunnerAside DEF StartActivate, files, SessionsOK
<1>6. CASE StartAbort
  BY <1>1, <1>6, RunnerAside DEF StartAbort, JoinStop, files, SessionsOK
<1>7. ASSUME NEW e \in Enders, EndStop(e)
      PROVE  RunnerFits(m)'
  BY <1>1, <1>7, RunnerAside DEF EndStop, JoinStop, files, SessionsOK
<1>8. ASSUME NEW n \in Meetings, RunnerStep(n) \/ Frame(n) \/ FrameFails(n) \/ DeviceFails(n)
      PROVE  RunnerFits(m)'
  <2>1. CASE FrameCompletes(n)
    BY <1>1, <2>1 DEF FrameCompletes, CloseSegment, FilesOK, SessionsOK, RunnerFits,
       SoundStays, NoPart
  <2>2. CASE RegisterSegment(n) \/ RunnerExits(n) \/ RunnerStops(n) \/ FailureHandler(n)
             \/ RunnerClears(n) \/ DeviceFails(n)
    BY <1>1, <2>2, RunnerAside DEF RegisterSegment, RunnerExits, RunnerStops, JoinStop,
       FailureHandler,
       RunnerClears, DeviceFails, RunnerFails, SessionsOK, files
  <2>3. CASE StopFinish(n)
    <3>1. CASE m # n
      BY <1>1, <2>3, <3>1, RunnerAside DEF StopFinish, RenamePart, FilesOK, SessionsOK, files
    <3>2. CASE m = n
      <4>1. /\ stop[m] = "running" /\ runner[m] = "exited" /\ stop'[m] = "done" /\ runner' = runner
        BY <1>1, <2>3, <3>2 DEF StopFinish, SessionsOK
      <4>2. closed'[m] > 0 => segs'[m] > 0
        BY <1>1, <2>3, <3>2 DEF StopFinish, RenamePart, FilesOK, files, RunnerFits, NoPart
      <4>3. stopOk'[m] => ~failed[m]
        BY <1>1, <2>3, <3>2 DEF StopFinish, SessionsOK
      <4>4. stopOk'[m] => closed'[m] > 0
        BY <1>1, <4>1 DEF HasAudio
      <4>5. stopOk'[m] => part'[m] = NoPart /\ ~hollow'[m]
        BY <1>1, <2>3, <3>2, <4>1, <4>3 DEF StopFinish, RenamePart, FilesOK, SessionsOK,
           files, RunnerFits, NoPart
      <4> QED BY <4>1, <4>2, <4>4, <4>5 DEF RunnerFits, Sound, Dead
    <3> QED BY <3>1, <3>2
  <2>4. CASE Frame(n)
    BY <1>1, <2>4 DEF Frame, Written, FilesOK, SessionsOK, RunnerFits, SoundStays, NoPart
  <2>5. CASE FrameFails(n)
    BY <1>1, <2>5 DEF FrameFails, RunnerFails, CloseSegment, Written, FilesOK, SessionsOK,
       RunnerFits,
       SoundStays, NoPart, files
  <2> QED BY <1>8, <2>1, <2>2, <2>3, <2>4, <2>5 DEF RunnerStep
<1>9. CASE RecoverRepair
  BY <1>1, <1>9 DEF RecoverRepair, RenamePart, FilesOK, SessionsOK, RunnerFits, SoundStays, NoPart,
     files, sessions, IInv, RecoveryOwns, Dead, CallsPoint
<1>10. CASE Crash
  BY <1>1, <1>10 DEF Crash, ForgetMemory, AllMeetings, RunnerFits
<1> QED
  BY <1>2, <1>3, <1>4, <1>5, <1>6, <1>7, <1>8, <1>9, <1>10, RecordersAside

LEMMA SessionKept ==
  ASSUME IInv, IInv', SaveInv, SoundStays, Next, NEW m \in Meetings
  PROVE  SessionFits(m)'
<1>1. \A n \in Meetings : SessionFits(n)
  BY DEF SaveInv
<1> QED
  BY <1>1, RunnerFitsKept, FreshKept DEF SessionFits, RunnerFits, Early

-----------------------------------------------------------------------------
(* The calls of EndMeeting. *)

(* A meeting whose recording was told to stop, or never ran, stays so. *)
LEMMA HaltedStays ==
  ASSUME IInv, Next, NEW m \in Meetings, Halted(m), life[m] # "preparing"
  PROVE  Halted(m)'
<1>1. SessionsOK /\ CallsPoint /\ StarterOwns
  BY DEF IInv, TypeOK
<1>2. CASE UNCHANGED Recorders
  BY <1>2 DEF Recorders, Halted
<1>3. CASE StartFirstFrame \/ StartPublish \/ StartActivate \/ StartAbort
  BY <1>1, <1>3 DEF StartFirstFrame, StartPublish, StartActivate, StartAbort, JoinStop, sessions,
     Halted, SessionsOK, StarterOwns, CallsPoint
<1>4. ASSUME NEW n \in Meetings, RunnerStep(n) \/ Frame(n) \/ FrameFails(n) \/ DeviceFails(n)
      PROVE  Halted(m)'
  BY <1>1, <1>4 DEF RunnerStep, FrameCompletes, RegisterSegment, RunnerExits, RunnerStops, JoinStop,
     FailureHandler, RunnerClears, StopFinish, Frame, FrameFails, DeviceFails, RunnerFails,
     Halted, SessionsOK
<1>5. ASSUME NEW e \in Enders, EndStop(e)
      PROVE  Halted(m)'
  BY <1>1, <1>5 DEF EndStop, JoinStop, Halted, SessionsOK
<1>6. CASE RecoverRepair
  BY <1>6 DEF RecoverRepair, sessions, Halted
<1>7. CASE Crash
  BY <1>7 DEF Crash, ForgetMemory, AllMeetings, Halted
<1> QED
  BY <1>2, <1>3, <1>4, <1>5, <1>6, <1>7, RecordersAside

(* All that a step leaves to those who carry a recording. *)
Steady == SoundStays /\ MicStays /\ MergedStays /\ LifeStays

LEMMA StepsAreSteady == ASSUME IInv, SaveInv, Next PROVE Steady
<1>1. \A n \in Meetings : SessionFits(n)
  BY DEF SaveInv
<1> QED BY <1>1, SoundIsKept, MicIsKept, MergedIsKept, LifeIsKept DEF Steady

(* The parts of EnderFits. *)
Stopping(e) ==
  Halted(endOf[e]) /\ (life[endOf[e]] \in Recorded => endSess[e] = endOf[e])
Carried(e) ==
  endSess[e] \in Meetings /\ Sound(endSess[e]) /\ endEnd[e] = closed[endSess[e]]
Noted(e) ==
  micOf[endOf[e]] = endSess[e] /\ mic[endOf[e]] = segs[endSess[e]]

SameCall(e) == endOf'[e] = endOf[e] /\ endSess'[e] = endSess[e] /\ endEnd'[e] = endEnd[e]

LEMMA StoppingStays ==
  ASSUME IInv, Steady, Next, NEW e \in Enders, endPc[e] \in Carrying \cup {"stopping"},
         Stopping(e), SameCall(e)
  PROVE  Stopping(e)'
<1>1. endOf[e] \in Meetings /\ life[endOf[e]] \in {"recording", "finalizing", "ended", "interrupted"}
  BY DEF IInv, CallsPoint, HasAudio, Carrying, Carries
<1>2. Halted(endOf[e])'
  <2> DEFINE m == endOf[e]
  <2>1. m \in Meetings /\ Halted(m) /\ life[m] # "preparing"
    BY <1>1 DEF Stopping
  <2>2. \A n \in Meetings : Halted(n) /\ life[n] # "preparing" => Halted(n)'
    BY HaltedStays
  <2>3. \A n \in Meetings : n = m => stop'[n] # "none" \/ runner'[n] = "none"
    BY <2>1, <2>2 DEF Halted
  <2> QED BY <2>1, <2>3 DEF Halted, SameCall
<1>3. life'[endOf[e]] \in Recorded => life[endOf[e]] \in Recorded
  BY <1>1 DEF Steady, LifeStays, LifeStay, IInv, StarterOwns
<1> QED BY <1>1, <1>2, <1>3 DEF Stopping, SameCall

LEMMA CarriedStays ==
  ASSUME Steady, NEW e \in Enders, Carried(e), SameCall(e)
  PROVE  Carried(e)'
  BY DEF Steady, SoundStays, Carried, SameCall, Sound, Dead

LEMMA NotedStays ==
  ASSUME IInv, Steady, NEW e \in Enders, endPc[e] # "idle", Carried(e), Noted(e), SameCall(e)
  PROVE  Noted(e)'
<1>1. endOf[e] \in Meetings
  BY DEF IInv, CallsPoint
<1>2. mic'[endOf[e]] = mic[endOf[e]] /\ micOf'[endOf[e]] = micOf[endOf[e]]
  BY <1>1 DEF Steady, MicStays, Carried, Noted
<1>3. segs'[endSess[e]] = segs[endSess[e]]
  BY DEF Steady, SoundStays, Carried
<1> QED BY <1>1, <1>2, <1>3 DEF Noted, SameCall

(* The part of a merge is left alone by everybody else. *)
LEMMA PartStays ==
  ASSUME IInv, SaveInv, Next, NEW e \in Enders, endPc[e] = "merging", endPc'[e] = "merging"
  PROVE  mergePart'[endOf[e]] /\ merged'[endOf[e]] = NoPart
<1>1. /\ CallsPoint /\ FilesOK /\ CallsOK /\ mergePart[endOf[e]] /\ merged[endOf[e]] = NoPart
      /\ endOf[e] \in Meetings /\ OneMerge
  BY DEF IInv, TypeOK, SaveInv, EnderFits, CallsPoint
<1>2. ASSUME NEW d \in Enders, EndMerge(d) \/ EndMerging(d) \/ EndAsset(d)
      PROVE  mergePart'[endOf[e]] /\ merged'[endOf[e]] = NoPart
  <2>1. CASE EndMerge(d)
    BY <1>1, <2>1 DEF EndMerge, FilesOK, CallsPoint
  <2>2. CASE EndMerging(d)
    <3>1. endPc[d] = "merging" /\ d # e
      BY <1>1, <2>2 DEF EndMerging, EndGoto, CallsOK
    <3>2. endOf[d] # endOf[e]
      BY <1>1, <3>1 DEF OneMerge
    <3> QED BY <1>1, <2>2, <3>2 DEF EndMerging, MergeDone, MergeBreaks, FilesOK
  <2>3. CASE EndAsset(d)
    BY <1>1, <2>3 DEF EndAsset, files
  <2> QED BY <1>2, <2>1, <2>2, <2>3
<1>3. CASE RecoverMerge \/ RecoverAsset
  BY <1>1, <1>3 DEF RecoverMerge, RecoverAsset, files, FilesOK, CallsPoint
<1>4. CASE RecoverMerging
  BY <1>1, <1>4 DEF RecoverMerging, MergeDone, MergeBreaks, FilesOK, OneMerge
<1> QED BY <1>1, <1>2, <1>3, <1>4, MergedAside

(* A call that does not move keeps what it had. *)
LEMMA EnderAside ==
  ASSUME IInv, SaveInv, Steady, Next, NEW e \in Enders, endPc'[e] = endPc[e], SameCall(e)
  PROVE  EnderFits(e)'
<1>1. EnderFits(e) /\ CallsPoint /\ HasAudio
  BY DEF SaveInv, IInv
<1>2. endPc[e] # "idle" => endOf[e] \in Meetings
  BY <1>1 DEF CallsPoint
<1>3. endPc[e] \in Carrying \cup {"stopping"} => Stopping(e)'
  BY <1>1, StoppingStays DEF EnderFits, Stopping
<1>4. endPc[e] \in Carrying => Carried(e)'
  BY <1>1, CarriedStays DEF EnderFits, Carried
<1>5. endPc[e] \in Registered => Noted(e)'
  BY <1>1, NotedStays DEF EnderFits, Noted, Carried, Registered, Carrying, Carries
<1>6. endPc[e] = "merging" => mergePart'[endOf[e]] /\ merged'[endOf[e]] = NoPart
  BY PartStays
<1>7. /\ endPc[e] \in {"asset", "flush", "commit"} => merged'[endOf[e]] = endEnd[e]
      /\ endPc[e] \in {"flush", "commit"} => mixed'[endOf[e]] = endEnd[e]
  <2>1. endPc[e] \in {"asset", "flush", "commit"} => endEnd[e] # NoPart /\ endEnd[e] \in Nat
    BY DEF IInv, TypeOK, CallsOK, NoPart
  <2> QED BY <1>1, <1>2, <2>1 DEF EnderFits, HasAudio, Steady, MergedStays
<1> QED
  BY <1>3, <1>4, <1>5, <1>6, <1>7 DEF EnderFits, Stopping, Carried, Noted, SameCall

(* A call that stops the recording, or finds it stopped. *)
LEMMA EndStopFits ==
  ASSUME IInv, IInv', SaveInv, Steady, Next, NEW e \in Enders, EndStop(e)
  PROVE  EnderFits(e)'
<1>1. /\ CallsOK /\ SessionsOK /\ LiveIsHeld /\ CoordinatorFits /\ endPc[e] = "stop"
      /\ endOf[e] \in Meetings /\ UNCHANGED <<endOf, life, closed>>
  BY DEF IInv, TypeOK, SaveInv, EndStop, CallsPoint, Call, rows, files
<1>2. CASE session # None /\ EndGoto(e, "stopping") /\ endSess' = [endSess EXCEPT ![e] = session]
  <2>1. endPc'[e] = "stopping" /\ endSess'[e] = session
    BY <1>1, <1>2 DEF EndGoto, CallsOK
  <2>2. Halted(endOf[e])'
    <3>1. CASE session = endOf[e]
      BY <1>1, <1>2, <3>1 DEF EndStop, JoinStop, Halted, SessionsOK
    <3>2. CASE session # endOf[e]
      BY <1>1, <1>2, <3>2 DEF EndStop, JoinStop, Halted, SessionsOK, LiveIsHeld, Dead
    <3> QED BY <3>1, <3>2
  <2>3. life'[endOf[e]] \in Recorded => endSess'[e] = endOf'[e]
    BY <1>1, <1>2, <2>1 DEF CoordinatorFits
  <2> QED BY <1>1, <2>1, <2>2, <2>3 DEF EnderFits, Carrying, Carries, Registered
<1>3. CASE session = None /\ last.ok /\ EndGoto(e, "transcript")
  <2>1. /\ endPc'[e] = "transcript" /\ endSess'[e] = last.of /\ endEnd'[e] = last.end
        /\ UNCHANGED <<stop, runner>>
    BY <1>1, <1>3 DEF EndStop, EndGoto, CallsOK
  <2>2. Halted(endOf[e])'
    BY <1>1, <1>3, <2>1, SizesAssumption DEF Halted, LiveIsHeld, Dead
  <2>3. life'[endOf[e]] \in Recorded => endSess'[e] = endOf'[e]
    BY <1>1, <1>3, <2>1, SizesAssumption DEF CoordinatorFits
  <2>4. endSess'[e] \in Meetings /\ endEnd'[e] = closed'[endSess'[e]]
    BY <1>1, <1>3, <2>1 DEF CoordinatorFits
  <2>5. Sound(endSess[e])'
    BY <1>1, <1>3, <2>1 DEF CoordinatorFits, Steady, SoundStays, Sound, Dead
  <2> QED BY <1>1, <2>1, <2>2, <2>3, <2>4, <2>5 DEF EnderFits, Carrying, Carries, Registered
<1>4. CASE EndGoto(e, "fail")
  BY <1>1, <1>4 DEF EndGoto, CallsOK, EnderFits, Carrying, Carries, Registered
<1> QED
  BY <1>2, <1>3, <1>4 DEF EndStop

LEMMA EndStoppedFits ==
  ASSUME IInv, SaveInv, Steady, Next, NEW e \in Enders, EndStopped(e)
  PROVE  EnderFits(e)'
<1>1. /\ CallsOK /\ endPc[e] = "stopping" /\ endSess[e] \in Meetings
      /\ endOf'[e] = endOf[e] /\ endSess'[e] = endSess[e] /\ endEnd'[e] = closed[endSess[e]]
      /\ endPc'[e] \in {"transcript", "fail"} /\ (endPc'[e] = "transcript" => stopOk[endSess[e]])
      /\ stop[endSess[e]] = "done" /\ EnderFits(e) /\ SessionFits(endSess[e])
      /\ UNCHANGED <<life, stop, runner>>
  BY DEF IInv, TypeOK, SaveInv, EndStopped, CallsPoint, Call, EndGoto, CallsOK,
     StoppedWell, rows, sessions
<1>2. CASE endPc'[e] = "fail"
  BY <1>2 DEF EnderFits, Carrying, Carries, Registered
<1>3. CASE endPc'[e] = "transcript"
  <2>1. Sound(endSess[e])
    BY <1>1, <1>3 DEF SessionFits
  <2>2. Sound(endSess[e])' /\ closed'[endSess[e]] = closed[endSess[e]]
    BY <1>1, <2>1 DEF Steady, SoundStays, Sound, Dead
  <2>3. Stopping(e)'
    BY <1>1 DEF EnderFits, Stopping, Halted
  <2> QED BY <1>1, <1>3, <2>2, <2>3 DEF EnderFits, Carrying, Carries, Registered, Stopping
<1> QED BY <1>1, <1>2, <1>3

(* The steps after the stop: what was carried is carried on. *)
LEMMA EndCarriesOn ==
  ASSUME IInv, SaveInv, Steady, Next, NEW e \in Enders, endPc[e] \in Carrying, SameCall(e)
  PROVE  /\ endPc[e] \in Carrying => Stopping(e)' /\ Carried(e)'
         /\ endPc[e] \in Registered => Noted(e)'
<1>1. EnderFits(e) /\ endPc[e] # "idle"
  BY DEF SaveInv, Carrying, Carries
<1>2. Stopping(e) /\ Carried(e) /\ (endPc[e] \in Registered => Noted(e))
  BY <1>1 DEF EnderFits, Stopping, Carried, Noted
<1> QED BY <1>1, <1>2, StoppingStays, CarriedStays, NotedStays

LEMMA EndWorksFits ==
  ASSUME IInv, IInv', SaveInv, Steady, Next, NEW e \in Enders,
         \/ EndTranscript(e) \/ EndDrain(e) \/ EndRebuild(e) \/ EndPersist(e) \/ EndMerge(e) \/ EndMerging(e) \/ EndAsset(e)
         \/ EndFlush(e)
  PROVE  EnderFits(e)'
<1>1. /\ CallsOK /\ RowsOK /\ FilesOK /\ EnderFits(e) /\ endPc[e] \in Carrying /\ SameCall(e)
      /\ endOf[e] \in Meetings
  BY DEF IInv, TypeOK, SaveInv, EndTranscript, EndDrain, EndRebuild, TailKeeps, EndPersist,
     EndMerge, EndMerging, EndAsset, EndFlush, EndPass,
     Carrying, Carries, SameCall, Call, CallsPoint
<1>2. Stopping(e)' /\ Carried(e)' /\ (endPc[e] \in Registered => Noted(e)')
  BY <1>1, EndCarriesOn
<1> USE <1>1, <1>2 DEF EnderFits, EndGoto, CallsOK, Carrying, Carries, Registered,
   Stopping, Carried, Noted, SameCall
<1>3. CASE EndTranscript(e) \/ EndDrain(e) \/ EndRebuild(e)
  <2>1. endPc'[e] \in {"draining", "rebuild", "persist", "fail"}
    BY <1>3 DEF EndTranscript, TailNext, EndDrain, EndRebuild
  <2>2. endPc[e] \notin Registered
    BY <1>3 DEF EndTranscript, EndDrain, EndRebuild
  <2> QED BY <2>1, <2>2
<1>4. CASE EndPersist(e)
  <2>1. endPc'[e] \in {"merge", "fail"}
    BY <1>4 DEF EndPersist
  <2>2. endPc'[e] = "merge" => Noted(e)'
    BY <1>4 DEF EndPersist, RegisterMic, RowsOK, files
  <2> QED BY <2>1, <2>2
<1>5. CASE EndMerge(e)
  <2>1. endPc'[e] \in {"asset", "merging", "fail"} /\ endPc[e] = "merge" /\ UNCHANGED merged
    BY <1>5 DEF EndMerge
  <2>2. endPc'[e] = "merging" => mergePart'[endOf[e]] /\ merged[endOf[e]] = NoPart
    BY <1>5 DEF EndMerge, MergeStarts, FilesOK
  <2>3. endPc'[e] = "asset" => merged[endOf[e]] = endEnd[e]
    BY <1>5 DEF EndMerge, Reusable
  <2> QED BY <2>1, <2>2, <2>3
<1>6. CASE EndMerging(e)
  <2>1. endPc'[e] \in {"asset", "fail"} /\ endPc[e] = "merging"
    BY <1>6 DEF EndMerging
  <2>2. endPc'[e] = "asset" => merged'[endOf[e]] = endEnd[e]
    BY <1>6 DEF EndMerging, MergeDone, FilesOK
  <2> QED BY <2>1, <2>2
<1>7. CASE EndAsset(e)
  <2>1. endPc'[e] \in {"flush", "fail"} /\ endPc[e] = "asset" /\ UNCHANGED merged
    BY <1>7 DEF EndAsset, files
  <2>2. endPc'[e] = "flush" => mixed'[endOf[e]] = endEnd[e]
    BY <1>7 DEF EndAsset, RowsOK
  <2> QED BY <2>1, <2>2
<1>8. CASE EndFlush(e)
  BY <1>8 DEF EndFlush, EndPass, rows, files
<1> QED BY <1>3, <1>4, <1>5, <1>6, <1>7, <1>8

LEMMA EnderKept ==
  ASSUME IInv, IInv', SaveInv, Steady, Next, NEW e \in Enders
  PROVE  EnderFits(e)'
<1>1. CallsOK
  BY DEF IInv, TypeOK
<1>2. ASSUME endPc'[e] \in {"idle", "wait", "read", "begin", "resume", "stop", "fail"}
      PROVE  EnderFits(e)'
  BY <1>2 DEF EnderFits, Carrying, Carries, Registered
<1>3. CASE UNCHANGED enders
  BY <1>3, EnderAside DEF enders, SameCall
<1>4. CASE Crash
  BY <1>2, <1>4 DEF Crash, ForgetMemory, AllEnders
<1>5. ASSUME NEW d \in Enders, NEW m \in Meetings, EndCall(d, m)
      PROVE  EnderFits(e)'
  <2>1. CASE d = e
    BY <1>1, <1>2, <1>5, <2>1 DEF EndCall, EndGoto, CallsOK
  <2>2. CASE d # e
    BY <1>1, <1>5, <2>2, EnderAside DEF EndCall, EndGoto, CallsOK, SameCall
  <2> QED BY <2>1, <2>2
<1>6. ASSUME NEW d \in Enders, EnderStep(d), d # e
      PROVE  EnderFits(e)'
  <2>1. SameCall(e) /\ (endPc'[e] = endPc[e] \/ endPc'[e] = "idle")
    BY <1>1, <1>6 DEF EnderStep, EndRead, EndClaim, EndStop, EndStopped, EndTranscript,
       EndDrain, EndRebuild, TailKeeps, EndFlush,
       EndPass, EndPersist, EndMerge, EndMerging, EndAsset, EndCommit, EndFail, Return,
       Call, EndGoto,
       CallsOK, SameCall
  <2> QED BY <1>2, <2>1, EnderAside
<1>7. CASE EnderStep(e)
  <2>1. CASE EndRead(e) \/ EndClaim(e) \/ EndCommit(e) \/ EndFail(e)
    BY <1>1, <1>2, <2>1 DEF EndRead, EndClaim, EndCommit, EndFail, Return, Served, EndGoto, CallsOK
  <2> QED BY <1>7, <2>1, EndStopFits, EndStoppedFits, EndWorksFits DEF EnderStep
<1> QED
  BY <1>3, <1>4, <1>5, <1>6, <1>7, EndersAside

-----------------------------------------------------------------------------
(* The recovery, and the one merge. *)
LEMMA NoPartStays ==
  ASSUME IInv, Next, NEW m \in Meetings, Dead(m), part[m] = NoPart,
         startPc \in Early \cup {"publish"} => startOf # m, ~RecoverRepair, ~Crash
  PROVE  part'[m] = NoPart
<1>1. SessionsOK /\ LiveIsHeld /\ FilesOK /\ CallsPoint
  BY DEF IInv, TypeOK
<1>2. CASE UNCHANGED Recorders
  BY <1>2 DEF Recorders
<1>3. CASE StartPublish \/ StartActivate \/ StartAbort
  BY <1>3 DEF StartPublish, StartActivate, StartAbort, files
<1>4. CASE StartFirstFrame
  BY <1>1, <1>4 DEF StartFirstFrame, Early, FilesOK, CallsPoint
<1>5. ASSUME NEW n \in Meetings, RunnerStep(n) \/ Frame(n) \/ FrameFails(n) \/ DeviceFails(n)
      PROVE  part'[m] = NoPart
  BY <1>1, <1>5 DEF RunnerStep, FrameCompletes, RegisterSegment, RunnerExits, RunnerStops,
     FailureHandler, RunnerClears, StopFinish, Frame, FrameFails, DeviceFails,
     CloseSegment, RenamePart,
     Dead, LiveIsHeld, FilesOK, SessionsOK, files
<1>6. ASSUME NEW e \in Enders, EndStop(e) PROVE part'[m] = NoPart
  BY <1>6 DEF EndStop, files
<1> QED BY <1>2, <1>3, <1>4, <1>5, <1>6, RecordersAside

LEMMA RecoveryKept ==
  ASSUME IInv, IInv', SaveInv, Steady, Next
  PROVE  RecoveryFits'
<1>1. /\ CallsOK /\ RowsOK /\ FilesOK /\ RecoveryFits /\ OneMerge /\ HasAudio
      /\ (recPc # "idle" => recOf \in Meetings /\ Dead(recOf))
  BY DEF IInv, TypeOK, SaveInv, CallsPoint, RecoveryOwns
<1>2. ASSUME recPc' \in {"idle", "repair", "bad"} PROVE RecoveryFits'
  BY <1>2 DEF RecoveryFits
<1>3. ASSUME UNCHANGED recOf, recPc \in {"merge", "merging", "asset", "transcript", "good"}
      PROVE  /\ Sound(recOf)' /\ micOf'[recOf] = recOf /\ mic'[recOf] = segs'[recOf]
             /\ closed'[recOf] = closed[recOf]
             /\ recPc \in {"asset", "transcript", "good"} => merged'[recOf] = closed'[recOf]
             /\ recPc \in {"transcript", "good"} => mixed'[recOf] = closed'[recOf]
  <2>1. /\ recOf \in Meetings /\ Sound(recOf) /\ micOf[recOf] = recOf /\ mic[recOf] = segs[recOf]
        /\ closed[recOf] > 0 /\ closed[recOf] # NoPart
    BY <1>1, <1>3 DEF RecoveryFits, Sound, NoPart
  <2>2. closed'[recOf] = closed[recOf] /\ segs'[recOf] = segs[recOf]
    BY <2>1 DEF Steady, SoundStays
  <2>3. Sound(recOf)'
    BY <1>3, <2>1 DEF Steady, SoundStays, Sound, Dead
  <2>4. micOf'[recOf] = recOf /\ mic'[recOf] = segs'[recOf]
    BY <2>1, <2>2 DEF Steady, MicStays
  <2>5. /\ recPc \in {"asset", "transcript", "good"} => merged'[recOf] = closed'[recOf]
        /\ recPc \in {"transcript", "good"} => mixed'[recOf] = closed'[recOf]
    BY <1>1, <2>1, <2>2 DEF RecoveryFits, Steady, MergedStays
  <2> QED BY <2>2, <2>3, <2>4, <2>5
<1>4. CASE UNCHANGED recovery
  <2>1. UNCHANGED <<recPc, recOf>>
    BY <1>4 DEF recovery
  <2>2. recPc = "inspect" => part'[recOf] = NoPart
    <3>1. ASSUME recPc = "inspect" PROVE part'[recOf] = NoPart
      <4>1. recOf \in Meetings /\ Dead(recOf) /\ part[recOf] = NoPart
        BY <1>1, <3>1 DEF RecoveryFits
      <4>2. startPc \in Early \cup {"publish"} => startOf # recOf
        BY <3>1 DEF IInv, RecoveryOwns, StarterOwns, Early, Active
      <4>3. ~RecoverRepair /\ ~Crash
        BY <2>1, <3>1 DEF RecoverRepair, Crash, ForgetMemory
      <4> QED BY <4>1, <4>2, <4>3, NoPartStays
    <3> QED BY <3>1
  <2>3. recPc = "merging" => mergePart'[recOf] /\ merged'[recOf] = NoPart
    <3>1. ASSUME recPc = "merging" PROVE mergePart'[recOf] /\ merged'[recOf] = NoPart
      <4>1. mergePart[recOf] /\ merged[recOf] = NoPart /\ recOf \in Meetings
        BY <1>1, <3>1 DEF RecoveryFits
      <4>2. ASSUME NEW d \in Enders, EndMerge(d) \/ EndMerging(d) \/ EndAsset(d)
            PROVE  mergePart'[recOf] /\ merged'[recOf] = NoPart
        BY <1>1, <3>1, <4>1, <4>2 DEF EndMerge, EndMerging, EndAsset, MergeDone,
           MergeBreaks, FilesOK, OneMerge,
           files, IInv, CallsPoint
      <4>3. ~RecoverMerge /\ ~RecoverAsset
        BY <3>1 DEF RecoverMerge, RecoverAsset
      <4>4. ~RecoverMerging
        BY <2>1, <3>1 DEF RecoverMerging, RecGoto
      <4> QED BY <4>1, <4>2, <4>3, <4>4, MergedAside
    <3> QED BY <3>1
  <2> QED
    BY <1>3, <2>1, <2>2, <2>3 DEF RecoveryFits, Sound, Dead
<1>5. ASSUME NEW m \in Meetings, RetryInterrupted(m) \/ RecoverAtBoot(m) PROVE RecoveryFits'
  BY <1>2, <1>5 DEF RetryInterrupted, RecoverAtBoot
<1>6. CASE Crash \/ RecoverFinish
  BY <1>2, <1>6 DEF Crash, ForgetMemory, RecoverFinish
<1>7. CASE RecoverRepair
  <2>1. recPc' = "inspect" => part'[recOf] = NoPart /\ recOf' = recOf
    BY <1>1, <1>7 DEF RecoverRepair, RecGoto, RenamePart, HasPart, FilesOK, files
  <2>2. recPc' \in {"inspect", "bad"}
    BY <1>7 DEF RecoverRepair, RecGoto
  <2> QED BY <1>2, <2>1, <2>2 DEF RecoveryFits
<1>8. CASE RecoverInspect
  <2>1. /\ recPc = "inspect" /\ recPc' \in {"merge", "bad"} /\ recOf' = recOf /\ part[recOf] = NoPart
        /\ recOf \in Meetings /\ Dead(recOf)
    BY <1>1, <1>8 DEF RecoverInspect, RecGoto, RecoveryFits
  <2>2. ASSUME recPc' = "merge" PROVE RecoveryFits'
    <3>1. ~hollow[recOf] /\ segs[recOf] > 0 /\ RegisterMic(recOf, recOf, segs[recOf])
      BY <1>1, <1>8, <2>1, <2>2 DEF RecoverInspect, RecGoto, FilesOK
    <3>2. Sound(recOf)
      BY <1>1, <2>1, <3>1 DEF Sound, HasAudio
    <3>3. UNCHANGED <<files, runner, stop>>
      BY <1>8 DEF RecoverInspect, sessions
    <3>4. micOf'[recOf] = recOf /\ mic'[recOf] = segs[recOf]
      BY <1>1, <2>1, <3>1 DEF RegisterMic, RowsOK
    <3> QED BY <2>1, <2>2, <3>2, <3>3, <3>4 DEF RecoveryFits, Sound, Dead, files
  <2> QED BY <1>2, <2>1, <2>2
<1>9. CASE RecoverMerge
  <2>1. /\ recPc = "merge" /\ recPc' \in {"asset", "merging", "bad"} /\ recOf' = recOf /\ UNCHANGED merged
        /\ recPc' = "merging" => mergePart'[recOf] /\ merged[recOf] = NoPart
        /\ recPc' = "asset" => merged[recOf] = closed[recOf]
    BY <1>1, <1>9 DEF RecoverMerge, RecGoto, MergeStarts, Reusable, FilesOK
  <2> QED BY <1>3, <2>1 DEF RecoveryFits, Sound, Dead
<1>10. CASE RecoverMerging
  <2>1. /\ recPc = "merging" /\ recPc' \in {"asset", "bad"} /\ recOf' = recOf
        /\ recPc' = "asset" => merged'[recOf] = closed[recOf]
    BY <1>1, <1>10 DEF RecoverMerging, RecGoto, MergeDone, FilesOK
  <2> QED BY <1>3, <2>1 DEF RecoveryFits, Sound, Dead
<1>11. CASE RecoverAsset
  <2>1. /\ recPc = "asset" /\ recPc' \in {"transcript", "bad"} /\ recOf' = recOf
        /\ recPc' = "transcript" => mixed'[recOf] = closed[recOf]
    BY <1>1, <1>11 DEF RecoverAsset, RecGoto, RowsOK
  <2> QED BY <1>3, <2>1 DEF RecoveryFits, Sound, Dead
<1>12. CASE RecoverTranscript
  <2>1. recPc = "transcript" /\ recPc' \in {"good", "bad"} /\ recOf' = recOf
    BY <1>12 DEF RecoverTranscript, RecGoto
  <2> QED BY <1>3, <2>1 DEF RecoveryFits, Sound, Dead
<1> QED
  BY <1>4, <1>5, <1>6, <1>7, <1>8, <1>9, <1>10, <1>11, <1>12, RecoveryAside DEF RecoveryStep

(* A merge that runs after a step ran before it, or its part was created. *)
LEMMA MergingFollows ==
  ASSUME IInv, Next, NEW e \in Enders, endPc'[e] = "merging"
  PROVE  endOf'[e] = endOf[e] /\ (endPc[e] = "merging" \/ EndMerge(e))
<1>1. CallsOK
  BY DEF IInv, TypeOK
<1>2. CASE UNCHANGED enders
  BY <1>2 DEF enders
<1>3. ~Crash
  BY DEF Crash, ForgetMemory, AllEnders
<1>4. ASSUME NEW d \in Enders, NEW m \in Meetings, EndCall(d, m)
      PROVE  endOf'[e] = endOf[e] /\ endPc[e] = "merging"
  BY <1>1, <1>4 DEF EndCall, EndGoto, CallsOK
<1>5. ASSUME NEW d \in Enders, EnderStep(d)
      PROVE  endOf'[e] = endOf[e] /\ (endPc[e] = "merging" \/ EndMerge(e))
  BY <1>1, <1>5 DEF EnderStep, EndRead, EndClaim, EndStop, EndStopped, EndTranscript,
     EndDrain, EndRebuild, TailKeeps, EndFlush,
     EndPass, EndPersist, EndMerge, EndMerging, EndAsset, EndCommit, EndFail, TailNext,
     Return, Served, Call, EndGoto, CallsOK
<1> QED BY <1>2, <1>3, <1>4, <1>5, EndersAside

LEMMA RecoveryMergeFollows ==
  ASSUME Next, recPc' = "merging"
  PROVE  recOf' = recOf /\ (recPc = "merging" \/ RecoverMerge)
<1>1. CASE UNCHANGED recovery
  BY <1>1 DEF recovery
<1>2. ~Crash /\ \A m \in Meetings : ~RetryInterrupted(m)
  BY DEF Crash, ForgetMemory, RetryInterrupted
<1>3. CASE RecoveryStep
  BY <1>3 DEF RecoveryStep, RecoverRepair, RecoverInspect, RecoverMerge, RecoverMerging,
     RecoverAsset, RecoverTranscript, RecoverFinish, RecoverAtBoot, RecGoto
<1> QED BY <1>1, <1>2, <1>3, RecoveryAside

LEMMA OneMergeKept ==
  ASSUME IInv, SaveInv, Next
  PROVE  OneMerge'
<1>1. /\ CallsOK /\ OneMerge /\ RecoveryFits /\ \A e \in Enders : EnderFits(e)
  BY DEF IInv, TypeOK, SaveInv
<1>2. \A e \in Enders : endPc'[e] = "merging" => endOf'[e] = endOf[e] /\ (endPc[e] = "merging" \/ EndMerge(e))
  BY MergingFollows
<1>3. recPc' = "merging" => recOf' = recOf /\ (recPc = "merging" \/ RecoverMerge)
  BY RecoveryMergeFollows
<1>4. \A e \in Enders : EndMerge(e) /\ endPc'[e] = "merging" =>
         /\ ~mergePart[endOf[e]] /\ UNCHANGED <<recPc, recOf>>
         /\ \A d \in Enders : d # e => endPc'[d] = endPc[d]
  BY <1>1 DEF EndMerge, EndGoto, MergeStarts, CallsOK, recovery
<1>5. RecoverMerge /\ recPc' = "merging" => ~mergePart[recOf] /\ UNCHANGED <<endPc, endOf>>
  BY DEF RecoverMerge, RecGoto, MergeStarts, enders
<1>6. ASSUME NEW e \in Enders, NEW d \in Enders, endPc'[e] = "merging", endPc'[d] = "merging",
             endOf'[e] = endOf'[d]
      PROVE  e = d
  <2>1. CASE endPc[e] = "merging" /\ endPc[d] = "merging"
    BY <1>1, <1>2, <1>6, <2>1 DEF OneMerge
  <2>2. CASE EndMerge(e) /\ d # e
    BY <1>1, <1>2, <1>4, <1>6, <2>2 DEF EnderFits
  <2>3. CASE EndMerge(d) /\ d # e
    BY <1>1, <1>2, <1>4, <1>6, <2>3 DEF EnderFits
  <2> QED BY <1>2, <1>6, <2>1, <2>2, <2>3
<1>7. ASSUME NEW e \in Enders, endPc'[e] = "merging", recPc' = "merging"
      PROVE  endOf'[e] # recOf'
  <2>1. CASE endPc[e] = "merging" /\ recPc = "merging"
    BY <1>1, <1>2, <1>3, <1>7, <2>1 DEF OneMerge
  <2>2. CASE EndMerge(e)
    BY <1>1, <1>2, <1>4, <1>7, <2>2 DEF RecoveryFits
  <2>3. CASE RecoverMerge
    BY <1>1, <1>2, <1>3, <1>5, <1>7, <2>3 DEF EnderFits
  <2> QED BY <1>2, <1>3, <1>7, <2>1, <2>2, <2>3
<1> QED BY <1>6, <1>7 DEF OneMerge

-----------------------------------------------------------------------------
(* What is saved. *)
Complete(m) ==
  /\ Sound(m) /\ micOf[m] = m /\ mic[m] = segs[m] /\ merged[m] = closed[m] /\ mixed[m] = closed[m]

LEMMA CompleteStays ==
  ASSUME Steady, NEW m \in Meetings, Complete(m)
  PROVE  Complete(m)'
<1>1. Sound(m)' /\ closed'[m] = closed[m] /\ segs'[m] = segs[m]
  BY DEF Steady, SoundStays, Complete
<1>2. mic'[m] = mic[m] /\ micOf'[m] = micOf[m]
  BY DEF Steady, MicStays, Complete
<1>3. merged'[m] = merged[m] /\ mixed'[m] = mixed[m]
  BY DEF Steady, MergedStays, Complete, Sound, NoPart
<1> QED BY <1>1, <1>2, <1>3 DEF Complete

LEMMA CommitIsComplete ==
  ASSUME IInv, SaveInv, NEW e \in Enders, EndCommit(e), Claimed(endOf[e])
  PROVE  endOf[e] \in Meetings /\ Complete(endOf[e]) /\ Halted(endOf[e])
  BY DEF IInv, CallsPoint, SaveInv, EndCommit, Claimed, CanMove, EnderFits, Carrying,
     Carries, Registered, Recorded, Complete

LEMMA RecoveredIsComplete ==
  ASSUME IInv, SaveInv, recPc = "good"
  PROVE  recOf \in Meetings /\ Complete(recOf)
  BY DEF IInv, CallsPoint, SaveInv, RecoveryFits, Complete

(* How a row comes to say saved, or ended. *)
RowFits(m) ==
  /\ save'[m] = "saved" => life'[m] \in {"ended", "interrupted"} /\ Complete(m)
  /\ life'[m] = "ended" => save'[m] = "saved"

LEMMA RowKept ==
  ASSUME IInv, SaveInv, Next, NEW m \in Meetings
  PROVE  RowFits(m)
<1>1. RowsOK /\ CallsPoint
  BY DEF IInv, TypeOK
<1>2. /\ save[m] = "saved" => life[m] \in {"ended", "interrupted"} /\ Complete(m)
      /\ life[m] = "ended" => save[m] = "saved"
  BY DEF SaveInv, SavedFits, Complete
<1> USE <1>1, <1>2 DEF RowFits, RowsOK, SetState
<1>3. CASE StartCommit \/ StartDiscard \/ StartInterrupt
  BY <1>3 DEF StartCommit, StartDiscard, StartInterrupt, CallsPoint, InterruptMeeting
<1>4. ASSUME NEW n \in Meetings, StartCreate(n) \/ FailureHandler(n) PROVE RowFits(m)
  BY <1>4 DEF StartCreate, FailureHandler, InterruptMeeting
<1>5. ASSUME NEW e \in Enders, EndClaim(e) \/ EndCommit(e) \/ EndFail(e) PROVE RowFits(m)
  <2>1. CASE EndClaim(e) \/ EndFail(e)
    BY <1>5, <2>1 DEF EndClaim, EndFail, CallsPoint
  <2>2. CASE EndCommit(e)
    <3>1. CASE Claimed(endOf[e]) /\ SetState(endOf[e], "ended", "saved")
      BY <2>2, <3>1, CommitIsComplete
    <3>2. CASE UNCHANGED <<life, save>>
      BY <3>2
    <3> QED BY <2>2, <3>1, <3>2 DEF EndCommit
  <2> QED BY <1>5, <2>1, <2>2
<1>6. CASE RecoverFinish
  <2>1. recOf \in Meetings /\ (recPc = "good" => Complete(recOf))
    BY <1>6, RecoveredIsComplete DEF RecoverFinish, CallsPoint
  <2> QED BY <1>6, <2>1 DEF RecoverFinish
<1>7. CASE UNCHANGED <<life, save>>
  BY <1>7
<1> QED BY <1>3, <1>4, <1>5, <1>6, <1>7, RowsAside

LEMMA SavedKept ==
  ASSUME IInv, SaveInv, Steady, Next
  PROVE  SavedFits'
<1> SUFFICES ASSUME NEW m \in Meetings
             PROVE  /\ save'[m] = "saved" => life'[m] \in {"ended", "interrupted"} /\ Complete(m)'
                    /\ life'[m] = "ended" => save'[m] = "saved"
  BY DEF SavedFits, Complete
<1> QED BY RowKept, CompleteStays DEF RowFits

-----------------------------------------------------------------------------
(* What the callers are told. *)

(* The answers do not change when no call moves. *)
LEMMA AnswersAside ==
  ASSUME IInv, SaveInv, LifeStays, UNCHANGED enders
  PROVE  AnswersFit'
<1>1. AnswersFit /\ CallsOK
  BY DEF IInv, TypeOK, SaveInv
<1> QED BY <1>1, SizesAssumption DEF AnswersFit, enders, LifeStays, LifeStay, CallsOK

(* A call that goes on: its answer and those that wait for it stay. *)
LEMMA AnswersGoOn ==
  ASSUME IInv, SaveInv, LifeStays, NEW e \in Enders, UNCHANGED Call,
         \A d \in Enders : endPc'[d] = endPc[d] \/ d = e,
         endPc[e] \notin {"idle", "wait"}, endPc'[e] \notin {"idle", "wait"},
         \A m \in Meetings : finalization'[m] = "completed" => finalization[m] = "completed"
  PROVE  AnswersFit'
<1>1. AnswersFit /\ CallsOK
  BY DEF IInv, TypeOK, SaveInv
<1>2. UNCHANGED <<endOf, waitOn, endRes, ending, lastEnded>>
  BY DEF Call
<1>3. ASSUME NEW d \in Enders
      PROVE  /\ endPc'[d] = "wait" => /\ waitOn'[d] \in Enders
                                      /\ endPc'[waitOn'[d]] \notin {"idle", "wait"}
                                      /\ endOf'[waitOn'[d]] = endOf'[d]
             /\ endRes'[d] = "ok" => endOf'[d] \in Meetings /\ life'[endOf'[d]] = "ended"
  BY <1>1, <1>2, <1>3 DEF AnswersFit, LifeStays, LifeStay
<1>4. ending' # None => endPc'[ending'] \notin {"idle", "wait"}
  BY <1>1, <1>2 DEF AnswersFit, CallsOK
<1>5. /\ lastEnded' # None => life'[lastEnded'] = "ended"
      /\ \A m \in Meetings : finalization'[m] = "completed" => life'[m] = "ended"
  BY <1>1, <1>2 DEF AnswersFit, LifeStays, LifeStay, CallsOK
<1> QED BY <1>3, <1>4, <1>5 DEF AnswersFit

(* A call that returns: a success is told of an ended meeting only. *)
LEMMA AnswersReturn ==
  ASSUME IInv, SaveInv, LifeStays, NEW e \in Enders, NEW result, Return(e, result),
         endPc[e] \notin {"idle", "wait"},
         result = "ok" => life'[endOf[e]] = "ended",
         \A m \in Meetings : finalization'[m] = "completed" => finalization[m] = "completed" \/ life'[m] = "ended"
  PROVE  AnswersFit'
<1>1. AnswersFit /\ CallsOK /\ endOf[e] \in Meetings
  BY DEF IInv, TypeOK, SaveInv, CallsPoint
<1>2. /\ endOf' = endOf
      /\ ending' = IF ending = e THEN None ELSE ending
      /\ lastEnded' = IF result = "ok" THEN endOf[e] ELSE lastEnded
      /\ \A d \in Enders : /\ endPc'[d] = IF d \in Served(e) THEN "idle" ELSE endPc[d]
                           /\ endRes'[d] = IF d \in Served(e) THEN result ELSE endRes[d]
                           /\ waitOn'[d] = IF d \in Served(e) THEN None ELSE waitOn[d]
  BY DEF Return, Remember
<1>3. ASSUME NEW d \in Enders
      PROVE  endRes'[d] = "ok" => endOf'[d] \in Meetings /\ life'[endOf'[d]] = "ended"
  <2>1. d \in Served(e) => endOf[d] = endOf[e]
    BY <1>1 DEF Served, AnswersFit
  <2> QED BY <1>1, <1>2, <2>1 DEF AnswersFit, LifeStays, LifeStay
<1>4. ASSUME NEW d \in Enders, endPc'[d] = "wait"
      PROVE  /\ waitOn'[d] \in Enders /\ endPc'[waitOn'[d]] \notin {"idle", "wait"}
             /\ endOf'[waitOn'[d]] = endOf'[d]
  <2>1. d \notin Served(e) /\ endPc[d] = "wait" /\ waitOn[d] \in Enders /\ waitOn[d] # e
    BY <1>2, <1>4, <1>1 DEF Served, AnswersFit
  <2>2. endPc[waitOn[d]] \notin {"idle", "wait"} /\ endOf[waitOn[d]] = endOf[d]
    BY <1>1, <2>1 DEF AnswersFit
  <2>3. waitOn[d] \notin Served(e)
    BY <2>1, <2>2 DEF Served
  <2> QED BY <1>2, <2>1, <2>2, <2>3
<1>5. ending' # None => endPc'[ending'] \notin {"idle", "wait"}
  <2>1. ASSUME ending' # None PROVE endPc'[ending'] \notin {"idle", "wait"}
    <3>1. ending' = ending /\ ending # e /\ ending \in Enders /\ endPc[ending] \notin {"idle", "wait"}
      BY <1>1, <1>2, <2>1 DEF AnswersFit, CallsOK
    <3>2. ending \notin Served(e)
      BY <3>1 DEF Served
    <3> QED BY <1>2, <3>1, <3>2
  <2> QED BY <2>1
<1>6. lastEnded' # None => life'[lastEnded'] = "ended"
  BY <1>1, <1>2 DEF AnswersFit, LifeStays, LifeStay, CallsOK
<1>7. \A m \in Meetings : finalization'[m] = "completed" => life'[m] = "ended"
  BY <1>1 DEF AnswersFit, LifeStays, LifeStay
<1> QED BY <1>3, <1>4, <1>5, <1>6, <1>7 DEF AnswersFit

(* A new call: the cached result, the result of another call, or its own. *)
LEMMA AnswersCall ==
  ASSUME IInv, SaveInv, LifeStays, NEW e \in Enders, NEW m \in Meetings, EndCall(e, m)
  PROVE  AnswersFit'
<1>1. AnswersFit /\ CallsOK /\ endPc[e] = "idle" /\ UNCHANGED <<lastEnded, finalization>>
  BY DEF IInv, TypeOK, SaveInv, EndCall
<1>2. /\ endOf'[e] = m
      /\ \A d \in Enders : d # e => /\ endOf'[d] = endOf[d] /\ endPc'[d] = endPc[d]
                                    /\ waitOn'[d] = waitOn[d] /\ endRes'[d] = endRes[d]
  BY <1>1 DEF EndCall, EndGoto, CallsOK
<1>3. \/ /\ lastEnded = m /\ endRes'[e] = "ok" /\ endPc'[e] = "idle" /\ ending' = ending
      \/ /\ ending # None /\ endOf[ending] = m /\ endPc'[e] = "wait" /\ waitOn'[e] = ending
         /\ endRes'[e] = "none" /\ ending' = ending
      \/ /\ endPc'[e] = "read" /\ ending' = e /\ endRes'[e] = "none"
  BY <1>1 DEF EndCall, EndGoto, CallsOK
<1>4. \A d \in Enders : endPc[d] = "wait" => waitOn[d] # e
  BY <1>1 DEF AnswersFit
<1>5. ending # None => ending \in Enders /\ ending # e /\ endPc[ending] \notin {"idle", "wait"}
  BY <1>1 DEF AnswersFit, CallsOK
<1>6. ASSUME NEW d \in Enders
      PROVE  /\ endPc'[d] = "wait" => /\ waitOn'[d] \in Enders
                                      /\ endPc'[waitOn'[d]] \notin {"idle", "wait"}
                                      /\ endOf'[waitOn'[d]] = endOf'[d]
             /\ endRes'[d] = "ok" => endOf'[d] \in Meetings /\ life'[endOf'[d]] = "ended"
  <2>1. CASE d = e
    BY <1>1, <1>2, <1>3, <1>5, <2>1, SizesAssumption DEF AnswersFit, LifeStays, LifeStay
  <2>2. CASE d # e
    BY <1>1, <1>2, <1>4, <2>2 DEF AnswersFit, LifeStays, LifeStay
  <2> QED BY <2>1, <2>2
<1>7. ending' # None => endPc'[ending'] \notin {"idle", "wait"}
  BY <1>2, <1>3, <1>5
<1>8. /\ lastEnded' # None => life'[lastEnded'] = "ended"
      /\ \A n \in Meetings : finalization'[n] = "completed" => life'[n] = "ended"
  BY <1>1 DEF AnswersFit, LifeStays, LifeStay, CallsOK
<1> QED BY <1>6, <1>7, <1>8 DEF AnswersFit

LEMMA AnswersKept ==
  ASSUME IInv, SaveInv, LifeStays, Next
  PROVE  AnswersFit'
<1>1. CallsOK /\ CallsPoint /\ AnswersFit /\ RowsOK
  BY DEF IInv, TypeOK, SaveInv
<1>2. CASE Crash
  BY <1>2 DEF Crash, ForgetMemory, AllEnders, AllMeetings, AnswersFit
<1>3. ASSUME NEW e \in Enders, EnderStep(e)
      PROVE  AnswersFit'
  <2>1. endPc[e] \notin {"idle", "wait"} /\ endOf[e] \in Meetings
    BY <1>1, <1>3 DEF EnderStep, EndRead, EndClaim, EndStop, EndStopped, EndTranscript,
       EndDrain, EndRebuild, TailKeeps, EndFlush,
       EndPass, EndPersist, EndMerge, EndMerging, EndAsset, EndCommit, EndFail, CallsPoint
  <2>2. ASSUME UNCHANGED Call, EndGoto(e, "begin") \/ EndGoto(e, "resume") \/ EndGoto(e, "stop") \/ EndGoto(e, "fail"),
               Finalizing(endOf[e], "running") \/ UNCHANGED finalization
        PROVE  AnswersFit'
    <3>1. /\ \A d \in Enders : endPc'[d] = endPc[d] \/ d = e
          /\ endPc'[e] \notin {"idle", "wait"}
      BY <1>1, <2>2 DEF EndGoto, CallsOK
    <3>2. \A m \in Meetings : finalization'[m] = "completed" => finalization[m] = "completed"
      BY <1>1, <2>2 DEF Finalizing, CallsOK
    <3> QED BY <2>1, <2>2, <3>1, <3>2, AnswersGoOn
  <2>3. ASSUME NEW state \in {"running", "failed"}, Return(e, "error"),
               Finalizing(endOf[e], state) \/ UNCHANGED finalization
        PROVE  AnswersFit'
    <3>1. \A m \in Meetings : finalization'[m] = "completed" => finalization[m] = "completed"
      BY <1>1, <2>3 DEF Finalizing, CallsOK
    <3> QED BY <2>1, <2>3, <3>1, AnswersReturn
  <2>4. ASSUME NEW state, life'[endOf[e]] = "ended", Return(e, "ok"), Finalizing(endOf[e], state)
        PROVE  AnswersFit'
    <3>1. \A m \in Meetings : finalization'[m] = "completed" => finalization[m] = "completed" \/ life'[m] = "ended"
      BY <1>1, <2>4 DEF Finalizing, CallsOK
    <3> QED BY <2>1, <2>4, <3>1, AnswersReturn
  <2>5. CASE EndRead(e)
    <3>1. life' = life /\ Finalizing(endOf[e], "running")
      BY <2>5 DEF EndRead, rows
    <3> QED BY <2>2, <2>3, <2>4, <2>5, <3>1 DEF EndRead
  <2>6. CASE EndClaim(e)
    BY <2>2, <2>3, <2>6 DEF EndClaim
  <2>7. CASE EndCommit(e)
    <3>1. CASE Claimed(endOf[e]) /\ SetState(endOf[e], "ended", "saved")
               /\ \/ Finalizing(endOf[e], "completed") /\ Return(e, "ok")
                  \/ Finalizing(endOf[e], "running") /\ Return(e, "error")
      <4>1. life'[endOf[e]] = "ended"
        BY <1>1, <2>1, <3>1 DEF SetState, RowsOK
      <4> QED BY <2>3, <2>4, <3>1, <4>1
    <3>2. CASE EndGoto(e, "fail") /\ Finalizing(endOf[e], "running") /\ UNCHANGED Call
      BY <2>2, <3>2
    <3>3. \/ /\ Claimed(endOf[e]) /\ SetState(endOf[e], "ended", "saved")
             /\ \/ Finalizing(endOf[e], "completed") /\ Return(e, "ok")
                \/ Finalizing(endOf[e], "running") /\ Return(e, "error")
          \/ EndGoto(e, "fail") /\ Finalizing(endOf[e], "running") /\ UNCHANGED Call
      BY <2>7 DEF EndCommit
    <3> QED BY <3>1, <3>2, <3>3
  <2>8. CASE EndFail(e)
    BY <2>3, <2>8 DEF EndFail
  <2>9. CASE \/ EndStop(e) \/ EndStopped(e) \/ EndTranscript(e) \/ EndDrain(e) \/ EndRebuild(e) \/ EndFlush(e) \/ EndPersist(e)
             \/ EndMerge(e) \/ EndMerging(e) \/ EndAsset(e)
    <3>1. /\ UNCHANGED Call
          /\ \A d \in Enders : endPc'[d] = endPc[d] \/ d = e
          /\ endPc'[e] \notin {"idle", "wait"}
      BY <1>1, <2>9 DEF EndStop, EndStopped, EndTranscript, EndDrain, EndRebuild,
         TailKeeps, EndFlush,
         EndPass, EndPersist, EndMerge, EndMerging, EndAsset, TailNext, EndGoto, CallsOK
    <3>2. \A m \in Meetings : finalization'[m] = "completed" => finalization[m] = "completed"
      BY <1>1, <2>9 DEF EndStop, EndStopped, EndTranscript, EndDrain, EndRebuild,
         TailKeeps, EndFlush,
         EndPass, EndPersist, EndMerge, EndMerging, EndAsset, Finalizing, CallsOK
    <3> QED BY <2>1, <3>1, <3>2, AnswersGoOn
  <2> QED BY <1>3, <2>5, <2>6, <2>7, <2>8, <2>9 DEF EnderStep
<1> QED BY <1>2, <1>3, AnswersAside, AnswersCall, EndersAside

-----------------------------------------------------------------------------
(* The microphone. *)
LEMMA StopIsKept ==
  ASSUME IInv, Next, NEW m \in Meetings, stop[m] # "none", ~Crash
  PROVE  stop'[m] # "none"
<1>1. SessionsOK
  BY DEF IInv, TypeOK
<1>2. CASE UNCHANGED Recorders
  BY <1>2 DEF Recorders
<1>3. CASE StartFirstFrame \/ StartPublish \/ StartActivate \/ StartAbort \/ RecoverRepair
  BY <1>1, <1>3 DEF StartFirstFrame, StartPublish, StartActivate, StartAbort,
     RecoverRepair, JoinStop, sessions,
     SessionsOK
<1>4. ASSUME NEW n \in Meetings, RunnerStep(n) \/ Frame(n) \/ FrameFails(n) \/ DeviceFails(n)
      PROVE  stop'[m] # "none"
  BY <1>1, <1>4 DEF RunnerStep, FrameCompletes, RegisterSegment, RunnerExits, RunnerStops, JoinStop,
     FailureHandler, RunnerClears, StopFinish, Frame, FrameFails, DeviceFails, SessionsOK
<1>5. ASSUME NEW e \in Enders, EndStop(e)
      PROVE  stop'[m] # "none"
  BY <1>1, <1>5 DEF EndStop, JoinStop, SessionsOK
<1> QED
  BY <1>2, <1>3, <1>4, <1>5, RecordersAside

(* A session whose meeting leaves the active states was told to stop. *)
LEMMA LeavesStopped ==
  ASSUME IInv, SaveInv, Next, session \in Meetings,
         life[session] \in Active, life'[session] \notin Active
  PROVE  stop[session] # "none"
<1>1. /\ RowsOK /\ CallsPoint /\ StarterOwns
      /\ runner[session] # "none" /\ (Dead(session) => stop[session] # "none")
      /\ (Halted(session) => stop[session] # "none")
  BY DEF IInv, TypeOK, LiveIsHeld, Dead, Halted
<1>2. CASE StartCommit \/ StartDiscard \/ StartInterrupt
  BY <1>1, <1>2 DEF StartCommit, StartDiscard, StartInterrupt, StarterOwns, CallsPoint,
     SetState, InterruptMeeting, Active, RowsOK
<1>3. ASSUME NEW n \in Meetings, StartCreate(n) \/ FailureHandler(n)
      PROVE  stop[session] # "none"
  BY <1>1, <1>3 DEF StartCreate, FailureHandler, MayInterrupt, SetState, InterruptMeeting,
     Active, RowsOK
<1>4. ASSUME NEW e \in Enders, EndClaim(e) \/ EndFail(e) \/ EndCommit(e)
      PROVE  stop[session] # "none"
  <2>1. ~EndClaim(e) /\ ~EndFail(e)
    BY <1>1 DEF EndClaim, EndFail, SetState, Active, RowsOK
  <2>2. session = endOf[e] /\ Claimed(endOf[e])
    BY <1>1, <1>4, <2>1 DEF EndCommit, SetState, RowsOK
  <2> QED BY <1>1, <1>4, <2>1, <2>2, CommitIsComplete
<1>5. CASE RecoverFinish
  BY <1>1, <1>5 DEF RecoverFinish, IInv, RecoveryOwns, SetState, Active, RowsOK
<1>6. CASE UNCHANGED <<life, save>>
  BY <1>6
<1> QED
  BY <1>2, <1>3, <1>4, <1>5, <1>6, RowsAside

LEMMA MicrophoneKept ==
  ASSUME IInv, SaveInv, Next
  PROVE  MicrophoneOff'
<1>1. SessionsOK /\ CallsPoint /\ StarterOwns /\ MicrophoneOff
  BY DEF IInv, TypeOK, SaveInv
<1>2. CASE Crash
  BY <1>2 DEF Crash, ForgetMemory, MicrophoneOff
<1>3. CASE StartPublish
  BY <1>1, <1>3 DEF StartPublish, StarterOwns, rows, MicrophoneOff, Active
<1>4. CASE session' \in {None, session} /\ ~Crash
  <2>1. ASSUME session' # None, life'[session'] \notin Active
        PROVE  stop'[session'] # "none"
    <3>1. session' = session /\ session \in Meetings
      BY <1>1, <1>4, <2>1 DEF SessionsOK
    <3>2. stop[session] # "none"
      BY <1>1, <2>1, <3>1, LeavesStopped DEF MicrophoneOff
    <3>3. stop'[session] # "none"
      BY <1>4, <3>1, <3>2, StopIsKept
    <3> QED BY <3>1, <3>3
  <2> QED BY <2>1 DEF MicrophoneOff
<1>5. ASSUME NEW m \in Meetings, RunnerClears(m) PROVE session' \in {None, session}
  BY <1>5 DEF RunnerClears, ForgetSession
<1>6. ASSUME NEW e \in Enders, EndStopped(e) PROVE session' \in {None, session}
  BY <1>6 DEF EndStopped, ForgetSession
<1>7. CASE StartAborted
  BY <1>2, <1>4, <1>7 DEF StartAborted, StartTranscriptStops, ForgetSession
<1> QED
  BY <1>2, <1>3, <1>4, <1>5, <1>6, <1>7, CoordinatorAside

-----------------------------------------------------------------------------
(* The invariant of saved meetings. *)
LEMMA SaveInit == ASSUME Init PROVE SaveInv
<1> USE DEF Init, InitMemory, AllMeetings, AllEnders, NoLast, NoPart, Active
<1>1. OneActive /\ CoordinatorFits /\ RecoveryFits /\ OneMerge /\ MicrophoneOff
  BY DEF OneActive, CoordinatorFits, Recorded, RecoveryFits, OneMerge, MicrophoneOff
<1>2. \A m \in Meetings : SessionFits(m)
  BY DEF SessionFits, Early
<1>3. \A e \in Enders : EnderFits(e)
  BY DEF EnderFits, Carrying, Carries, Registered
<1>4. SavedFits /\ AnswersFit
  BY DEF SavedFits, AnswersFit
<1> QED BY <1>1, <1>2, <1>3, <1>4 DEF SaveInv

LEMMA SaveStutter == ASSUME SaveInv, UNCHANGED vars PROVE SaveInv'
<1> USE DEF vars, rows, files, sessions, coord, starter, enders, recovery, env
<1>1. OneActive' /\ CoordinatorFits' /\ RecoveryFits' /\ OneMerge' /\ MicrophoneOff'
  BY DEF SaveInv, OneActive, CoordinatorFits, RecoveryFits, OneMerge, MicrophoneOff, Sound, Dead
<1>2. \A m \in Meetings : SessionFits(m)'
  BY DEF SaveInv, SessionFits, Sound, Dead
<1>3. \A e \in Enders : EnderFits(e)'
  BY DEF SaveInv, EnderFits, Sound, Dead, Halted
<1>4. SavedFits' /\ AnswersFit'
  BY DEF SaveInv, SavedFits, AnswersFit, Sound, Dead
<1> QED BY <1>1, <1>2, <1>3, <1>4 DEF SaveInv

LEMMA SaveNext == ASSUME IInv, IInv', SaveInv, [Next]_vars PROVE SaveInv'
<1>1. CASE Next
  <2>1. Steady
    BY <1>1, StepsAreSteady
  <2>2. SoundStays /\ LifeStays /\ OneActive
    BY <2>1 DEF Steady, SaveInv
  <2>3. OneActive' /\ CoordinatorFits'
    BY <1>1, <2>2, OneActiveKept, CoordinatorKept
  <2>4. \A m \in Meetings : SessionFits(m)'
    BY <1>1, <2>2, SessionKept
  <2>5. \A e \in Enders : EnderFits(e)'
    BY <1>1, <2>1, EnderKept
  <2>6. RecoveryFits' /\ OneMerge'
    BY <1>1, <2>1, RecoveryKept, OneMergeKept
  <2>7. SavedFits' /\ AnswersFit' /\ MicrophoneOff'
    BY <1>1, <2>1, <2>2, SavedKept, AnswersKept, MicrophoneKept
  <2> QED BY <2>3, <2>4, <2>5, <2>6, <2>7 DEF SaveInv
<1>2. CASE UNCHANGED vars
  BY <1>2, SaveStutter
<1> QED BY <1>1, <1>2

(* Every reachable state satisfies the invariant of saved meetings. *)
THEOREM SavingHolds == Spec => []SaveInv
<1>1. Init => SaveInv
  BY SaveInit
<1>2. IInv /\ IInv' /\ SaveInv /\ [Next]_vars => SaveInv'
  BY SaveNext
<1> QED BY <1>1, <1>2, InvariantHolds, PTL DEF Spec

(* A meeting whose row says saved has its whole recording, whoever saved   *)
(* it: commitSaved, FinishRecovery or UpdateInterruptedRecovery.           *)
THEOREM SavedHasAll == Spec => []SavedIsComplete
<1>1. SaveInv => SavedIsComplete
  BY DEF SaveInv, SavedFits, SavedIsComplete, Sound
<1> QED BY <1>1, SavingHolds, PTL

(* The device of a meeting that is not active any more was told to stop.   *)
THEOREM MicrophoneTurnsOff == Spec => []MicrophoneOff
<1>1. SaveInv => MicrophoneOff
  BY DEF SaveInv
<1> QED BY <1>1, SavingHolds, PTL

(* EndMeeting tells success of ended and saved meetings only.              *)
THEOREM SuccessMeansSaved == Spec => []OkMeansSaved
<1>1. SaveInv => OkMeansSaved
  BY DEF SaveInv, SavedFits, AnswersFit, OkMeansSaved
<1> QED BY <1>1, SavingHolds, PTL

(* Nothing touches the row, the assets or the files of an ended meeting,   *)
(* a second finalizer or a late runner included.                           *)
THEOREM EndedStaysFrozen == Spec => EndedIsFrozen
<1> DEFINE Frozen == \A m \in Meetings : life[m] = "ended" =>
          /\ life'[m] = life[m] /\ save'[m] = save[m]
          /\ mic'[m] = mic[m] /\ micOf'[m] = micOf[m] /\ mixed'[m] = mixed[m]
          /\ closed'[m] = closed[m] /\ merged'[m] = merged[m]
          /\ part'[m] = part[m]
<1>1. ASSUME IInv, IInv', SaveInv, [Next]_vars PROVE [Frozen]_vars
  <2>1. CASE Next
    <3>1. Steady /\ LifeStays
      BY <1>1, <2>1, StepsAreSteady DEF Steady
    <3>2. \A m \in Meetings : Complete(m) => Complete(m)' /\ closed'[m] = closed[m] /\ segs'[m] = segs[m]
      BY <3>1, CompleteStays DEF Complete, Steady, SoundStays
    <3>3. \A m \in Meetings : life[m] = "ended" => Complete(m) /\ life'[m] = life[m] /\ save'[m] = save[m]
      BY <1>1, <3>1 DEF SaveInv, SavedFits, Complete, LifeStays, LifeStay
    <3>4. ASSUME NEW m \in Meetings, Complete(m), Complete(m)', closed'[m] = closed[m], segs'[m] = segs[m]
          PROVE  /\ mic'[m] = mic[m] /\ micOf'[m] = micOf[m] /\ mixed'[m] = mixed[m]
                 /\ merged'[m] = merged[m] /\ part'[m] = part[m]
      BY <3>4 DEF Complete, Sound
    <3> QED BY <3>2, <3>3, <3>4
  <2> QED BY <1>1, <2>1
<1> HIDE DEF Frozen
<1>2. IInv /\ IInv' /\ SaveInv /\ [Next]_vars => [Frozen]_vars
  BY <1>1
<1>3. Spec => [][Frozen]_vars
  BY <1>2, InvariantHolds, SavingHolds, PTL DEF Spec
<1> QED BY <1>3 DEF EndedIsFrozen, Frozen
=============================================================================
