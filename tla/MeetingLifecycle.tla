--------------------------- MODULE MeetingLifecycle ---------------------------
(***************************************************************************)
(* What the durable record of the meetings promises, whatever goes on in   *)
(* memory, on disk and between the processes: the moves of one row of the  *)
(* table meetings, as internal/domain/meeting/state.go lists them, and     *)
(* what must be true of the registered complete recording when they        *)
(* happen.  RecordingRuntime implements this specification.                *)
(***************************************************************************)
EXTENDS Naturals

CONSTANT Meetings

VARIABLES
    life,   \* lifecycle_state of each meeting, "none" before it exists
    save,   \* local_save_state of each meeting
    mixed   \* samples of the registered complete recording, 0 = none

vars == <<life, save, mixed>>

Active == {"preparing", "recording", "finalizing"}

LifecycleState == Active \cup {"none", "deleted", "ended", "interrupted"}

LocalSaveState == {"pending", "saving", "saved", "failed"}

TypeOK ==
    /\ life \in [Meetings -> LifecycleState]
    /\ save \in [Meetings -> LocalSaveState]
    /\ mixed \in [Meetings -> Nat]

Init ==
    /\ life = [m \in Meetings |-> "none"]
    /\ save = [m \in Meetings |-> "pending"]
    /\ mixed = [m \in Meetings |-> 0]

(* One meeting moves from one pair of states to another.                   *)
Move(m, from, to, result) ==
    /\ life[m] \in from
    /\ life' = [life EXCEPT ![m] = to]
    /\ save' = [save EXCEPT ![m] = result]
    /\ UNCHANGED mixed

(* A second meeting is created only when no meeting is active.             *)
Create(m) ==
    /\ \A n \in Meetings : life[n] \notin Active
    /\ Move(m, {"none"}, "preparing", "pending")

(* A meeting that never got its first frame may vanish again.              *)
Discard(m) == Move(m, {"preparing"}, "deleted", save[m])

Begin(m) == Move(m, {"preparing"}, "recording", "saving")

Finalize(m) ==
    \/ Move(m, {"recording"}, "finalizing", "saving")
    \/ Move(m, {"finalizing"}, "finalizing", "saving")
    \/ Move(m, {"finalizing"}, "finalizing", "failed")

(* "ended" and "saved" are written only over a registered recording.       *)
Complete(m) ==
    /\ mixed[m] > 0
    /\ Move(m, {"finalizing"}, "ended", "saved")

(* An interrupted meeting is never resumed; it counts as saved only over a *)
(* registered recording.                                                   *)
Interrupt(m) ==
    \/ Move(m, Active \cup {"interrupted"}, "interrupted", "failed")
    \/ /\ mixed[m] > 0
       /\ Move(m, Active \cup {"interrupted"}, "interrupted", "saved")

(* The complete recording is registered once, before the meeting ends.     *)
Register(m) ==
    /\ life[m] \in Active \cup {"interrupted"}
    /\ mixed[m] = 0
    /\ mixed'[m] \in Nat \ {0}
    /\ mixed' = [mixed EXCEPT ![m] = mixed'[m]]
    /\ UNCHANGED <<life, save>>

Step(m) ==
    \/ Create(m) \/ Discard(m) \/ Begin(m) \/ Finalize(m)
    \/ Complete(m) \/ Interrupt(m) \/ Register(m)

Next == \E m \in Meetings : Step(m)

Spec == Init /\ [][Next]_vars
=============================================================================
