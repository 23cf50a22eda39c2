-------------------------- MODULE RecordingInvariant --------------------------
(***************************************************************************)
(* Why RecordingRuntime keeps its promises: an invariant that every step   *)
(* preserves.  It says where the calls point, which session is alive, and  *)
(* from which moment on there are samples to save.                         *)
(***************************************************************************)
EXTENDS RecordingRuntime

(* A call that is under way knows its meeting and, once the recording has  *)
(* been asked to stop, whose segments it carries.                          *)
CallsPoint ==
    /\ startPc # "idle" => startOf \in Meetings
    /\ recPc # "idle" => recOf \in Meetings
    /\ \A e \in Enders :
          /\ endPc[e] # "idle" => endOf[e] \in Meetings
          /\ endPc[e] \in {"stopping", "transcript", "draining", "rebuild", "persist"} =>
                endSess[e] \in Meetings
    /\ last.ok => last.of \in Meetings

(* A session that nobody records into any more.                            *)
Dead(m) == runner[m] = "none" \/ stop[m] = "done"

(* The coordinator holds a session until it has been stopped.              *)
LiveIsHeld ==
    /\ starting => session = None
    /\ \A m \in Meetings :
          /\ ~Dead(m) => session = m
          /\ session = m => runner[m] # "none"
          /\ runner[m] = "none" => stop[m] = "none" /\ ~failed[m]
          /\ runner[m] \in {"clear", "gone"} => stop[m] = "done"
          /\ stop[m] = "done" => runner[m] \in {"exited", "clear", "gone"}
          /\ writer[m] = "open" => Dead(m) \/ part[m] # NoPart
          /\ stop[m] = "running" => cancelled[m]
          /\ runner[m] = "none" => writer[m] = "none"

Early == {"prepare", "device", "frame"}

(* Up to its commit the starter works on a meeting that is preparing and   *)
(* that nobody else moves.                                                 *)
StarterOwns ==
    /\ startPc \in Early \cup {"publish", "commit", "quit", "discard"} => life[startOf] = "preparing"
    /\ startPc \in Early \cup {"publish", "quit", "discard"} => runner[startOf] = "none"
    /\ startPc \in {"frame", "publish"} => starting
    /\ startPc \in {"commit", "activate", "abort", "aborting"} =>
          /\ session \in {None, startOf}
          /\ runner[startOf] # "none"
    /\ startPc \in {"activate", "abort", "aborting", "leave", "interrupt"} =>
          life[startOf] \notin {"none", "deleted"}
    /\ startPc = "activate" => life[startOf] # "preparing"
    /\ startPc \in {"leave", "interrupt"} => Dead(startOf)
    /\ \A m \in Meetings :
          /\ life[m] = "none" => runner[m] = "none" /\ part[m] = NoPart /\ synced[m] = 0
          /\ startPc \in Early /\ startOf = m => part[m] = NoPart /\ synced[m] = 0
          /\ life[m] = "preparing" => runner[m] \in {"none", "await", "exited"} /\ ~failed[m]
          /\ life[m] = "interrupted" => Dead(m)

(* Nothing runs while the process is down or recovering, and the recovery  *)
(* works on a meeting that nobody records.                                 *)
RecoveryOwns ==
    /\ phase # "up" =>
          /\ startPc = "idle"
          /\ \A e \in Enders : endPc[e] = "idle"
          /\ \A m \in Meetings : runner[m] = "none"
    /\ recPc # "idle" =>
          /\ \/ phase = "booting" /\ life[recOf] \in Active
             \/ phase = "up" /\ life[recOf] = "interrupted"
          /\ Dead(recOf)

(* Where there are samples.  The carried length of a stopped recording is  *)
(* positive, so that a registered recording is never empty.                *)
Carries == {"transcript", "draining", "rebuild", "persist", "merge", "merging", "asset"}

HasAudio ==
    /\ \A m \in Meetings :
          /\ segs[m] > 0 /\ ~hollow[m] => closed[m] > 0
          /\ runner[m] # "none" /\ stop[m] # "done" /\ ~failed[m] =>
                \/ closed[m] > 0
                \/ writer[m] = "open" /\ part[m] > 0
          /\ stop[m] = "done" /\ stopOk[m] => closed[m] > 0
          /\ life[m] = "ended" => mixed[m] > 0
    /\ startPc = "publish" => part[startOf] > 0
    /\ last.ok => last.end > 0
    /\ \A e \in Enders :
          /\ endPc[e] \in Carries => endEnd[e] > 0
          /\ endPc[e] \in {"flush", "commit"} => mixed[endOf[e]] > 0
          /\ endPc[e] \notin {"idle", "wait", "read"} =>
                life[endOf[e]] \in {"recording", "finalizing", "ended", "interrupted"}
    /\ recPc \in {"merge", "merging", "asset"} => closed[recOf] > 0
    /\ recPc \in {"transcript", "good"} => mixed[recOf] > 0

(* What is synced is on disk, and the first frame is before the commit.    *)
SyncedIsWritten ==
    /\ \A m \in Meetings :
          /\ part[m] = NoPart => synced[m] = 0
          /\ part[m] # NoPart => synced[m] =< part[m]
    /\ startPc \in {"publish", "commit"} => closed[startOf] + synced[startOf] > 0

(* The inductive invariant of the proofs, also checked by TLC.             *)
IInv ==
    /\ TypeOK
    /\ CallsPoint
    /\ LiveIsHeld
    /\ StarterOwns
    /\ RecoveryOwns
    /\ HasAudio
    /\ SyncedIsWritten
    /\ StartedIsDurable

-----------------------------------------------------------------------------
(* Why a saved recording is complete.  A recording that is over and sound  *)
(* on disk is never touched again, so whoever carries its length through   *)
(* the steps of a finalization or a recovery may rely on it.               *)
Sound(m) ==
    /\ Dead(m)
    /\ part[m] = NoPart /\ ~hollow[m]
    /\ segs[m] > 0 /\ closed[m] > 0

Recorded == {"recording", "finalizing"}

OneActive == \A m, n \in Meetings : life[m] \in Active /\ life[n] \in Active => m = n

(* The coordinator knows no session but the one of the recorded meeting.   *)
CoordinatorFits ==
    /\ \A m \in Meetings : life[m] \in Recorded =>
          session \in {None, m} /\ last.of \in {None, m}
    /\ startPc = "commit" => last.of \in {None, startOf}
    /\ last.ok => last.of \in Meetings /\ Sound(last.of) /\ last.end = closed[last.of]

(* What a session that stops without an error leaves on disk is sound.     *)
SessionFits(m) ==
    /\ life[m] = "none" => closed[m] = 0 /\ ~hollow[m]
    /\ startPc \in Early \cup {"publish"} /\ startOf = m => closed[m] = 0 /\ ~hollow[m]
    /\ closed[m] > 0 => segs[m] > 0
    /\ runner[m] # "none" /\ stop[m] # "done" /\ ~failed[m] =>
          /\ ~hollow[m]
          /\ writer[m] = "open" => part[m] > 0
          /\ writer[m] # "open" => part[m] = NoPart
    /\ stop[m] = "done" /\ stopOk[m] => Sound(m)

Halted(m) == stop[m] # "none" \/ runner[m] = "none"

Carrying   == Carries \cup {"flush", "commit"}
Registered == {"merge", "merging", "asset", "flush", "commit"}

(* A call may have stopped the session of another meeting.  It then        *)
(* carries that one's length, and its own meeting is not recorded any more.*)
EnderFits(e) ==
    /\ endPc[e] \in Carrying \cup {"stopping"} =>
          /\ Halted(endOf[e])
          /\ life[endOf[e]] \in Recorded => endSess[e] = endOf[e]
    /\ endPc[e] \in Carrying =>
          endSess[e] \in Meetings /\ Sound(endSess[e]) /\ endEnd[e] = closed[endSess[e]]
    /\ endPc[e] \in Registered =>
          micOf[endOf[e]] = endSess[e] /\ mic[endOf[e]] = segs[endSess[e]]
    /\ endPc[e] = "merging" => mergePart[endOf[e]] /\ merged[endOf[e]] = NoPart
    /\ endPc[e] \in {"asset", "flush", "commit"} => merged[endOf[e]] = endEnd[e]
    /\ endPc[e] \in {"flush", "commit"} => mixed[endOf[e]] = endEnd[e]

RecoveryFits ==
    /\ recPc = "inspect" => part[recOf] = NoPart
    /\ recPc \in {"merge", "merging", "asset", "transcript", "good"} =>
          Sound(recOf) /\ micOf[recOf] = recOf /\ mic[recOf] = segs[recOf]
    /\ recPc = "merging" => mergePart[recOf] /\ merged[recOf] = NoPart
    /\ recPc \in {"asset", "transcript", "good"} => merged[recOf] = closed[recOf]
    /\ recPc \in {"transcript", "good"} => mixed[recOf] = closed[recOf]

(* recording.wav.part is created exclusively: one merge of a meeting.      *)
OneMerge ==
    /\ \A e, d \in Enders : endPc[e] = "merging" /\ endPc[d] = "merging"
                             /\ endOf[e] = endOf[d] => e = d
    /\ \A e \in Enders : endPc[e] = "merging" /\ recPc = "merging" => endOf[e] # recOf

SavedFits ==
    \A m \in Meetings :
        /\ save[m] = "saved" =>
              /\ life[m] \in {"ended", "interrupted"} /\ Sound(m)
              /\ micOf[m] = m /\ mic[m] = segs[m]
              /\ merged[m] = closed[m] /\ mixed[m] = closed[m]
        /\ life[m] = "ended" => save[m] = "saved"

(* Those that wait for a call wait for the meeting they asked for.         *)
AnswersFit ==
    /\ \A e \in Enders :
          /\ endPc[e] = "wait" => /\ waitOn[e] \in Enders
                                 /\ endPc[waitOn[e]] \notin {"idle", "wait"}
                                 /\ endOf[waitOn[e]] = endOf[e]
          /\ endRes[e] = "ok" => endOf[e] \in Meetings /\ life[endOf[e]] = "ended"
    /\ ending # None => endPc[ending] \notin {"idle", "wait"}
    /\ lastEnded # None => life[lastEnded] = "ended"
    /\ \A m \in Meetings : finalization[m] = "completed" => life[m] = "ended"

(* The inductive invariant, on top of IInv, of what a saved meeting has.   *)
SaveInv ==
    /\ OneActive /\ CoordinatorFits /\ (\A m \in Meetings : SessionFits(m))
    /\ (\A e \in Enders : EnderFits(e)) /\ RecoveryFits /\ OneMerge
    /\ SavedFits /\ AnswersFit /\ MicrophoneOff
=============================================================================
