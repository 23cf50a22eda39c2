------------------------------- MODULE Deletion -------------------------------
(***************************************************************************)
(* The deletion of a meeting, or of its recording alone: a preview the     *)
(* host confirms, a job with the manifest of that preview, the files one   *)
(* by one, the directory, and last the rows.                               *)
(*                                                                         *)
(* Source: service/deletion/service.go, repository/deletion/repository.go, *)
(* domain/deletion, service/lifecycle/coordinator.go and the maintenance   *)
(* and exit paths of app/meeting_module.go and cmd/meetsieve/app.go.          *)
(*                                                                         *)
(* One meeting.  The content of a file is a version; 0: it is not there.   *)
(***************************************************************************)
EXTENDS Naturals, Sequences

CONSTANTS
    Calls,       \* commands of the host that may overlap
    Paths,       \* the paths below the meeting's directory
    Audio,       \* the files of its audio directory
    AudioDir,    \* that directory
    Late,        \* files that are not there at first
    MaxWrites,   \* bound: files written by background tasks
    MaxJobs,     \* bound: jobs there are when the host asks for a preview
    MaxFaults,   \* bound: statements and removals that fail
    MaxCrashes   \* bound: ends of the process

Files == Paths \ {AudioDir}
Kinds == {"recording", "meeting"}

VARIABLES
    disk,      \* the version of each path
    root,      \* whether the meeting's directory is there
    row,       \* whether the meeting's row is there
    spoken,    \* whether an utterance names a speaker track
    jobs,      \* deletion_jobs, by number
    call,      \* each command
    owner,     \* Coordinator.owners: the command that holds the meeting
    task,      \* whether a background task of the meeting runs
    exiting,   \* Service.exiting: beforeClose waits in PrepareExit
    recovered, \* whether RecoverInterrupted ran
    up,        \* whether the process runs
    writes, faults, crashes

files == <<disk, root>>
rows == <<row, spoken, jobs>>
counts == <<writes, faults, crashes>>
vars == <<files, rows, call, owner, task, exiting, recovered, up, counts>>

NoItems == [p \in Paths |-> 0]
NoManifest == [kind |-> "meeting", items |-> NoItems]
Root == "meeting-root"
\* item: what removeManifestItem found as it was confirmed; Root: nothing
NoCall == [pc |-> "idle", shown |-> NoManifest, job |-> 0, todo |-> {}, remaining |-> {}, item |-> Root]
Unfinished == {"pending", "running", "failed"}

TypeOK ==
    /\ disk \in [Paths -> 0..MaxWrites + 1] /\ root \in BOOLEAN
    /\ row \in BOOLEAN /\ spoken \in BOOLEAN
    /\ \A j \in DOMAIN jobs :
          /\ jobs[j].state \in Unfinished \cup {"completed", "removed"}
          /\ jobs[j].left \in {<<>>} \cup {<<s>> : s \in SUBSET (Paths \cup {Root})}
    /\ \A c \in Calls : call[c].pc \in {"idle", "confirm", "stop", "create", "mark", "execute", "remove",
                                        "save", "directory", "fail", "complete"}
    /\ owner \in Calls \cup {"nobody"} /\ task \in BOOLEAN /\ exiting \in BOOLEAN

Init ==
    /\ disk = [p \in Paths |-> IF p \in Late THEN 0 ELSE 1] /\ root = TRUE
    /\ row = TRUE /\ spoken \in BOOLEAN
    /\ jobs = <<>> /\ call = [c \in Calls |-> NoCall] /\ owner = "nobody"
    /\ task = FALSE /\ exiting = FALSE
    /\ recovered = TRUE /\ up = TRUE /\ writes = 0 /\ faults = 0 /\ crashes = 0

-----------------------------------------------------------------------------
Works == UNCHANGED faults
Fails == faults < MaxFaults /\ faults' = faults + 1
Stays == up /\ UNCHANGED <<up, crashes>>
At(c, pc) == call[c].pc = pc
Goes(c, pc) == call' = [call EXCEPT ![c].pc = pc]
\* What a step of a command leaves alone, beside rows and files.
Quiet == UNCHANGED <<task, exiting, recovered, writes>> /\ Stays

\* recordingItems keeps the audio subtree.
InKind(kind) == IF kind = "meeting" THEN Paths ELSE Audio \cup {AudioDir}
\* buildManifest: what Lstat and the hashes say.  The row's revision, which is
\* compared too, only makes a preview stale more often.
Manifest(kind) == [kind |-> kind,
                   items |-> [p \in Paths |-> IF p \in InKind(kind) THEN disk[p] ELSE 0]]
Scannable == row /\ root
Items(manifest) == {p \in Paths : manifest.items[p] # 0}
\* What may come first among items that are still to be removed: files, in an order
\* of their own, before directories.
SortForDeletion(items) == {p \in items : p = AudioDir => items = {p}}

\* Background work of the meeting.  It is started whether or not a deletion holds
\* the meeting: nothing registers with the coordinator's registry.
StartTask ==
    /\ row /\ ~task /\ writes < MaxWrites /\ task' = TRUE
    /\ UNCHANGED <<files, rows, call, owner, exiting, recovered, writes>> /\ Works /\ Stays
\* It writes a file.
Write(p) ==
    /\ task /\ writes < MaxWrites /\ root /\ (p \in Audio => disk[AudioDir] # 0)
    /\ writes' = writes + 1 /\ disk' = [disk EXCEPT ![p] = writes + 2]
    /\ UNCHANGED <<root, rows, call, owner, task, exiting, recovered>> /\ Works /\ Stays
EndTask ==
    /\ task /\ task' = FALSE
    /\ UNCHANGED <<files, rows, call, owner, exiting, recovered, writes>> /\ Works /\ Stays

-----------------------------------------------------------------------------
\* leaveOperation and Release, when the command returns
Return(c) ==
    /\ call' = [call EXCEPT ![c] = NoCall]
    /\ owner' = IF owner = c THEN "nobody" ELSE owner

Preview(c) ==
    /\ At(c, "idle") /\ Scannable /\ Len(jobs) < MaxJobs
    /\ \E k \in Kinds : call' = [call EXCEPT ![c] = [NoCall EXCEPT !.pc = "confirm", !.shown = Manifest(k)]]
    /\ UNCHANGED <<files, rows, owner>> /\ Works /\ Quiet
\* enterOperation and claim; a command that waits for neither is refused.
Enter(c, next) ==
    IF exiting \/ owner # "nobody" THEN Return(c)
    ELSE owner' = c /\ call' = [call EXCEPT ![c] = next]
Start(c) ==
    /\ At(c, "confirm")
    /\ Enter(c, [call[c] EXCEPT !.pc = "stop"])
    /\ UNCHANGED <<files, rows>> /\ Works /\ Quiet

\* failedIDs: without a list every item is tried again.
FailedIDs(job) == IF job.left = <<>> THEN Items(job.manifest) ELSE Items(job.manifest) \cap job.left[1]
\* Retry reads the job before it asks for the meeting.
Retry(c) ==
    /\ At(c, "idle")
    /\ \E j \in DOMAIN jobs :
          /\ jobs[j].state # "removed"
          /\ Enter(c, [NoCall EXCEPT !.pc = "stop", !.job = j, !.todo = FailedIDs(jobs[j])])
    /\ UNCHANGED <<files, rows>> /\ Works /\ Quiet

\* Acquire: the tasks are told to stop and waited for,
Acquire(c) ==
    /\ At(c, "stop") /\ ~task
    /\ Goes(c, IF call[c].job = 0 THEN "create" ELSE "mark")
    /\ UNCHANGED <<files, rows, owner>> /\ Works /\ Quiet
\* Mutant: a task that does not stop in time leaves the meeting claimed.
StopTimesOut_KeepsOwner(c) ==
    /\ At(c, "stop") /\ task /\ call' = [call EXCEPT ![c] = NoCall]
    /\ UNCHANGED <<files, rows, owner>> /\ Works /\ Quiet
\* for five seconds.
StopTimesOut(c) ==
    /\ At(c, "stop") /\ task /\ Return(c)
    /\ UNCHANGED <<files, rows>> /\ Works /\ Quiet

\* The second scan must find what the host confirmed; idx_deletion_jobs_active.
Create(c) ==
    /\ At(c, "create")
    /\ LET shown == call[c].shown IN
       IF ~Scannable \/ Manifest(shown.kind) # shown
          \/ \E j \in DOMAIN jobs : jobs[j].manifest.kind = shown.kind /\ jobs[j].state \in Unfinished
       THEN Return(c) /\ UNCHANGED jobs
       ELSE /\ jobs' = Append(jobs, [state |-> "pending", manifest |-> shown, left |-> <<>>])
            /\ call' = [call EXCEPT ![c].pc = "mark", ![c].job = Len(jobs) + 1,
                                    ![c].todo = Items(shown)]
            /\ UNCHANGED owner
    /\ UNCHANGED <<files, row, spoken>> /\ Works /\ Quiet

Job(c) == jobs[call[c].job]
SetJob(c, state, left) == jobs' = [jobs EXCEPT ![call[c].job].state = state, ![call[c].job].left = left]
MarkRunning(c) ==
    /\ At(c, "mark")
    /\ IF Job(c).state \in {"pending", "failed"}
       THEN SetJob(c, "running", Job(c).left) /\ Goes(c, "execute") /\ UNCHANGED owner
       ELSE Return(c) /\ UNCHANGED jobs
    /\ UNCHANGED <<files, row, spoken>> /\ Works /\ Quiet

HasItems(c) == At(c, "execute") /\ call[c].todo # {}
Takes(c, p) == HasItems(c) /\ ~exiting /\ p \in SortForDeletion(call[c].todo)
Removed(c, p, remaining) ==
    call' = [call EXCEPT ![c].pc = "save", ![c].remaining = remaining, ![c].todo = @ \ {p}, ![c].item = Root]
\* removeManifestItem compares an item with what was confirmed: what is not there
\* counts as removed, and what changed stays;
CheckItem(c, p) ==
    /\ Takes(c, p)
    /\ IF disk[p] = Job(c).manifest.items[p]
       THEN call' = [call EXCEPT ![c].pc = "remove", ![c].item = p]
       ELSE Removed(c, p, call[c].remaining \cup {q \in {p} : disk[q] # 0})
    /\ UNCHANGED <<files, rows, owner>> /\ Works /\ Quiet
\* then os.Remove takes what is there by now, but no directory with files in it.
Removable(p) == disk[p] # 0 /\ (p = AudioDir => \A f \in Audio : disk[f] = 0)
RemoveItem(c) ==
    /\ At(c, "remove")
    /\ LET p == call[c].item IN
       /\ disk' = [disk EXCEPT ![p] = IF Removable(p) THEN 0 ELSE @]
       /\ Removed(c, p, call[c].remaining \cup {q \in {p} : ~Removable(q)})
    /\ UNCHANGED <<root, rows, owner>> /\ Works /\ Quiet
\* The file cannot be read, or not removed.
CheckFails(c, p) ==
    /\ Takes(c, p) /\ disk[p] # 0 /\ Removed(c, p, call[c].remaining \cup {p})
    /\ UNCHANGED <<files, rows, owner>> /\ Fails /\ Quiet
RemoveFails(c) ==
    /\ At(c, "remove") /\ Removed(c, call[c].item, call[c].remaining \cup {call[c].item})
    /\ UNCHANGED <<files, rows, owner>> /\ Fails /\ Quiet
\* An exit keeps the rest for later; that the list is not saved is not noticed.
KeepForLater(c) ==
    /\ HasItems(c) /\ exiting
    /\ LET left == call[c].remaining \cup call[c].todo IN
       /\ call' = [call EXCEPT ![c].pc = "fail", ![c].remaining = left, ![c].todo = {}]
       /\ IF Job(c).state = "running" THEN SetJob(c, "running", <<left>>) ELSE UNCHANGED jobs
    /\ UNCHANGED <<files, row, spoken, owner>> /\ Works /\ Quiet
\* Every item was tried.
EndItems(c) ==
    /\ At(c, "execute") /\ call[c].todo = {}
    /\ Goes(c, IF call[c].remaining # {} THEN "fail"
               ELSE IF Job(c).manifest.kind = "meeting" THEN "directory" ELSE "complete")
    /\ UNCHANGED <<files, rows, owner>> /\ Works /\ Quiet

\* Mutant: only what was not tried is written down.
Checkpoint_Untried(c) ==
    /\ At(c, "save")
    /\ IF Job(c).state = "running"
       THEN SetJob(c, "running", <<call[c].todo>>) /\ Goes(c, "execute") /\ UNCHANGED owner
       ELSE Return(c) /\ UNCHANGED jobs
    /\ UNCHANGED <<files, row, spoken>> /\ Works /\ Quiet
\* The checkpoint after an item; a job that no longer runs ends the command.
Checkpoint(c) ==
    /\ At(c, "save")
    /\ IF Job(c).state = "running"
       THEN SetJob(c, "running", <<call[c].remaining \cup call[c].todo>>) /\ Goes(c, "execute") /\ UNCHANGED owner
       ELSE Return(c) /\ UNCHANGED jobs
    /\ UNCHANGED <<files, row, spoken>> /\ Works /\ Quiet

\* Mutant: the directory is removed with what is in it.
RemoveDirectory_All(c) ==
    /\ At(c, "directory") /\ root' = FALSE /\ Goes(c, "complete") /\ UNCHANGED <<disk, rows, owner>> /\ Works /\ Quiet
\* os.Remove of the meeting's directory
RemoveDirectory(c) ==
    /\ At(c, "directory")
    /\ IF disk = NoItems THEN root' = FALSE /\ Goes(c, "complete")
       ELSE call' = [call EXCEPT ![c].pc = "fail", ![c].remaining = {Root}] /\ UNCHANGED root
    /\ UNCHANGED <<disk, rows, owner>> /\ Works /\ Quiet

\* Mutant: a state that the table does not have.
MarkFailed_State(c) ==
    /\ At(c, "fail") /\ SetJob(c, "delete_failed", <<call[c].remaining>>) /\ Return(c)
    /\ UNCHANGED <<files, row, spoken>> /\ Works /\ Quiet
MarkFailed(c) ==
    /\ At(c, "fail") /\ SetJob(c, "failed", <<call[c].remaining>>) /\ Return(c)
    /\ UNCHANGED <<files, row, spoken>> /\ Works /\ Quiet
CompleteRecording(c) ==
    /\ At(c, "complete") /\ Job(c).manifest.kind = "recording"
    /\ SetJob(c, "completed", <<>>) /\ Return(c)
    /\ UNCHANGED <<files, row, spoken>> /\ Works /\ Quiet
\* ON DELETE RESTRICT: an utterance of a speaker's track, and a job, keep the meeting.
Restricted(c) == spoken \/ \E j \in DOMAIN jobs : j # call[c].job /\ jobs[j].state # "removed"
CompleteMeeting(c) ==
    /\ At(c, "complete") /\ Job(c).manifest.kind = "meeting"
    /\ IF Restricted(c) THEN UNCHANGED rows
       ELSE row' = FALSE /\ SetJob(c, "removed", <<>>) /\ UNCHANGED spoken
    /\ Return(c) /\ UNCHANGED files /\ Works /\ Quiet
\* A statement fails.  Where the error is ignored the command ends as if it had not.
StatementFails(c) ==
    /\ call[c].pc \in {"create", "mark", "save", "fail", "complete"} /\ Return(c)
    /\ UNCHANGED <<files, rows>> /\ Fails /\ Quiet

-----------------------------------------------------------------------------
\* PrepareExit
Busy == \E c \in Calls : call[c].pc \notin {"idle", "confirm"}
PrepareExit ==
    /\ ~exiting /\ exiting' = TRUE
    /\ UNCHANGED <<files, rows, call, owner, task, recovered, writes>> /\ Works /\ Stays
ExitTimesOut ==
    /\ exiting /\ Busy /\ exiting' = FALSE
    /\ UNCHANGED <<files, rows, call, owner, task, recovered, writes>> /\ Works /\ Stays

\* RecoverInterrupted, after the window is open
RecoverInterrupted ==
    /\ ~recovered /\ recovered' = TRUE
    /\ jobs' = [j \in DOMAIN jobs |-> [jobs[j] EXCEPT !.state = IF @ = "running" THEN "failed" ELSE @]]
    /\ UNCHANGED <<files, row, spoken, call, owner, task, exiting, writes>> /\ Works /\ Stays

\* What the process held is lost.
Ends == /\ up' = FALSE
        /\ call' = [c \in Calls |-> NoCall] /\ owner' = "nobody" /\ task' = FALSE
        /\ exiting' = FALSE /\ recovered' = FALSE
        /\ UNCHANGED <<files, rows, writes>> /\ Works
\* The window closes once no command is under way, or the process crashes.
Quit == up /\ exiting /\ ~Busy /\ crashes < MaxCrashes /\ crashes' = crashes + 1 /\ Ends
Crash == up /\ crashes < MaxCrashes /\ crashes' = crashes + 1 /\ Ends

Restart ==
    /\ ~up /\ up' = TRUE
    /\ UNCHANGED <<files, rows, call, owner, task, exiting, recovered, counts>>

Background == StartTask \/ (\E p \in Files : Write(p)) \/ EndTask
Command(c) ==
    \/ Preview(c) \/ Start(c) \/ Retry(c) \/ Acquire(c) \/ StopTimesOut(c) \/ Create(c)
    \/ MarkRunning(c) \/ (\E p \in Paths : CheckItem(c, p) \/ CheckFails(c, p)) \/ RemoveItem(c) \/ RemoveFails(c)
    \/ KeepForLater(c) \/ EndItems(c) \/ Checkpoint(c) \/ RemoveDirectory(c)
    \/ MarkFailed(c) \/ CompleteRecording(c) \/ CompleteMeeting(c) \/ StatementFails(c)
Next ==
    \/ Background \/ (\E c \in Calls : Command(c)) \/ PrepareExit \/ ExitTimesOut \/ RecoverInterrupted
    \/ Quit \/ Crash \/ Restart

Spec == Init /\ [][Next]_vars

-----------------------------------------------------------------------------
\* What removeManifestItem is documented to prevent, with the hash of HashFile: a file
\* that was written after the host confirmed the deletion is never removed with it.
\* It does not hold: background work of the meeting goes on, and may write the file
\* between the comparison and os.Remove.
ScopeKept ==
    [][\A p \in Paths : disk[p] # 0 /\ disk'[p] = 0 =>
          \E c \in Calls : At(c, "remove") /\ Job(c).manifest.items[p] = disk[p]]_vars
\* The row goes last: a meeting that is no longer listed left nothing on the disk
\* that no command could reach (CompleteMeeting).
RowOutlivesFiles == ~row => ~root /\ disk = NoItems
\* Whatever fails or crashes, the next retry of a job tries every item of its
\* manifest that is still as it was confirmed (SaveRemaining, failedIDs).
RetryReachesAll ==
    \A j \in DOMAIN jobs : jobs[j].state \in Unfinished =>
       \A p \in Items(jobs[j].manifest) : disk[p] = jobs[j].manifest.items[p] => p \in FailedIDs(jobs[j])
\* A meeting is held by a command that is still under way, which lets it go when it
\* returns (Acquire, Release): no meeting stays held by nobody.
LeaseHeld == owner # "nobody" => call[owner].pc \notin {"idle", "confirm"}
\* The rows, the files and the claim fit together.
DeletionInv == TypeOK /\ RowOutlivesFiles /\ LeaseHeld
\* What the documents promise of the deletion of a meeting: when its last
\* statement is run, the meeting's row is gone with its files.
FilesGoneRowGone ==
    [][\A c \in Calls : At(c, "complete") /\ Job(c).manifest.kind = "meeting" /\ ~At(c, "complete")'
                        /\ up' /\ faults' = faults => ~row']_vars
===============================================================================
