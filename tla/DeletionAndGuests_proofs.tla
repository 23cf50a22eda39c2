----------------------- MODULE DeletionAndGuests_proofs -----------------------
(***************************************************************************)
(* What the deletion of a meeting, the sharing of a meeting with guests    *)
(* and the page of a guest keep, proved for every value of the constants.  *)
(***************************************************************************)
EXTENDS MC_DeletionAndGuests, FiniteSetTheorems, WellFoundedInduction, TLAPS

(* A function on 1..n is a sequence of length n.                           *)
LEMMA SeqOfFunction ==
    ASSUME NEW S, NEW n \in Nat, NEW s \in [1..n -> S]
    PROVE  s \in Seq(S) /\ Len(s) = n
  OBVIOUS

-----------------------------------------------------------------------------
(***************************************************************************)
(* The deletion of a meeting.                                              *)
(*                                                                         *)
(* A version is never written twice, so a file that changed after it was   *)
(* scanned never matches its manifest again.  What still matches is found  *)
(* in the rest of the command that works on the job, and in the list the   *)
(* job keeps for the next one.                                             *)
(***************************************************************************)
Versions == 0..MaxWrites + 1
Targets == Paths \cup {D!Root}
Lists == {<<>>} \cup {<<s>> : s \in SUBSET Targets}
Manifests == [kind : D!Kinds, items : [Paths -> Versions]]
JobRows == [state : D!Unfinished \cup {"completed", "removed"}, manifest : Manifests, left : Lists]
AtJob == {"mark", "execute", "remove", "save", "directory", "fail", "complete"}
CallStates == [pc : AtJob \cup {"idle", "confirm", "stop", "create"}, shown : Manifests, job : Nat,
               todo : SUBSET Paths, remaining : SUBSET Targets, item : Targets]

\* A path is still as the manifest of a job says.
Matches(j, p) == jobs[j].manifest.items[p] # 0 /\ disk[p] = jobs[j].manifest.items[p]
Tried(j, p) == jobs[j].left # <<>> => p \in jobs[j].left[1]

DiskInv ==
    /\ writes \in 0..MaxWrites /\ disk \in [Paths -> Versions] /\ \A p \in Paths : disk[p] <= writes + 1
    /\ root \in BOOLEAN /\ row \in BOOLEAN /\ spoken \in BOOLEAN /\ task \in BOOLEAN /\ exiting \in BOOLEAN
    /\ ~root => \A p \in Paths : disk[p] = 0
    /\ ~row => ~root
JobInv ==
    /\ jobs \in Seq(JobRows)
    /\ \A j \in 1..Len(jobs), p \in Paths :
          jobs[j].manifest.items[p] <= writes + 1 /\ (Matches(j, p) => Tried(j, p))
CallOK(c) ==
    /\ call[c] \in CallStates /\ call[c].job <= Len(jobs)
    /\ \A p \in Paths : call[c].shown.items[p] <= writes + 1
    /\ call[c].pc \in AtJob => call[c].job # 0
    /\ call[c].job # 0 =>
          \A p \in Paths : Matches(call[c].job, p) => p \in call[c].remaining \cup call[c].todo
    /\ call[c].pc \in {"directory", "complete"} => call[c].remaining = {} /\ call[c].todo = {}
    /\ call[c].pc = "fail" => call[c].todo = {}
    /\ call[c].pc = "remove" => call[c].item \in Paths
    /\ (call[c].pc = "complete" /\ jobs[call[c].job].manifest.kind = "meeting") => ~root
CallInv == DOMAIN call = Calls /\ call = [c \in Calls |-> call[c]] /\ \A c \in Calls : CallOK(c)
\* A command holds the meeting from its claim to its return, and nobody else.
Holds(c) == call[c].pc \notin {"idle", "confirm"}
OwnerInv ==
    /\ owner \in Calls \cup {"nobody"}
    /\ \A c \in Calls : Holds(c) <=> owner = c
DeletionIInv == DiskInv /\ JobInv /\ CallInv /\ OwnerInv

\* What a step may do to the files and the jobs without disturbing a command.
Advances ==
    /\ writes <= writes' /\ Len(jobs) <= Len(jobs')
    /\ \A j \in 1..Len(jobs) : jobs'[j].manifest = jobs[j].manifest
    /\ \A j \in 1..Len(jobs), p \in Paths : Matches(j, p)' => Matches(j, p)
    /\ ~root => ~root'

(* A call that a step leaves alone stays well formed.                      *)
LEMMA OtherCallKept ==
    ASSUME NEW d \in Calls, DiskInv, DiskInv', JobInv, JobInv', CallOK(d), call'[d] = call[d], Advances
    PROVE  CallOK(d)'
  <1>1. /\ writes \in Nat /\ writes' \in Nat /\ Len(jobs) \in Nat /\ Len(jobs') \in Nat
        /\ DOMAIN jobs = 1..Len(jobs)
    BY DeletionAssumption DEF DiskInv, JobInv
  <1>2. call[d] \in CallStates /\ call[d].job <= Len(jobs) /\ call[d].job \in Nat
    BY DEF CallOK, CallStates
  <1>3. ASSUME NEW p \in Paths PROVE call'[d].shown.items[p] <= writes' + 1
    <2>1. call[d].shown.items[p] \in Versions BY <1>2 DEF CallStates, Manifests
    <2> QED BY <1>1, <1>2, <1>3, <2>1, DeletionAssumption DEF CallOK, Advances, Versions
  <1>4. call[d].job # 0 => call[d].job \in 1..Len(jobs) BY <1>1, <1>2
  <1>5. ASSUME call'[d].job # 0, NEW p \in Paths, Matches(call[d].job, p)'
        PROVE  p \in call'[d].remaining \cup call'[d].todo
    <2>1. jobs'[call'[d].job].manifest.items[p] # 0 /\ disk'[p] = jobs'[call'[d].job].manifest.items[p]
      BY <1>5 DEF Matches
    <2>2. PICK j \in 1..Len(jobs) : j = call[d].job BY <1>4, <1>5
    <2>3. Matches(j, p)' BY <2>1, <2>2 DEF Matches
    <2>4. Matches(call[d].job, p) BY <2>2, <2>3, <1>5 DEF Advances
    <2> QED BY <2>4, <1>5 DEF CallOK
  <1>6. ASSUME call'[d].pc = "complete", jobs'[call'[d].job].manifest.kind = "meeting" PROVE ~root'
    <2>1. call[d].job # 0 BY <1>6 DEF CallOK, AtJob
    <2>2. jobs[call[d].job].manifest.kind = "meeting" BY <2>1, <1>4, <1>6 DEF Advances
    <2> QED BY <2>2, <1>6 DEF CallOK, Advances
  <1>7. call'[d].job <= Len(jobs') BY <1>1, <1>2 DEF Advances
  <1>8. \A p \in Paths : Matches(call[d].job, p)' <=>
           (jobs'[call'[d].job].manifest.items[p] # 0 /\ disk'[p] = jobs'[call'[d].job].manifest.items[p])
    BY DEF Matches
  <1> QED BY <1>1, <1>2, <1>3, <1>5, <1>6, <1>7, <1>8 DEF CallOK, Matches

(* A call that has returned is well formed.                                *)
LEMMA ReturnedCallOK ==
    ASSUME NEW c \in Calls, DiskInv', JobInv', call'[c] = D!NoCall
    PROVE  CallOK(c)'
  <1>1. D!NoCall \in CallStates
    BY DeletionAssumption DEF D!NoCall, D!NoManifest, D!NoItems, CallStates, Manifests, Versions, D!Kinds, Targets
  <1>2. Len(jobs') \in Nat /\ writes' \in Nat BY DeletionAssumption DEF JobInv, DiskInv
  <1>3. /\ D!NoCall.job = 0 /\ D!NoCall.pc = "idle" /\ \A p \in Paths : D!NoCall.shown.items[p] = 0
    BY DEF D!NoCall, D!NoManifest, D!NoItems
  <1> QED BY <1>1, <1>2, <1>3 DEF CallOK, AtJob

(* One call changes.                                                       *)
LEMMA OneCallChanges ==
    ASSUME NEW c \in Calls, NEW k, call' = [call EXCEPT ![c] = k], DeletionIInv,
           DiskInv', JobInv', Advances, CallOK(c)'
    PROVE  CallInv'
  <1>1. \A d \in Calls \ {c} : call'[d] = call[d] BY DEF DeletionIInv, CallInv
  <1>2. \A d \in Calls \ {c} : CallOK(d)' BY <1>1, OtherCallKept DEF DeletionIInv, CallInv
  <1>3. DOMAIN call' = Calls /\ call' = [d \in Calls |-> call'[d]] BY DEF DeletionIInv, CallInv
  <1> QED BY <1>2, <1>3 DEF CallInv

(* No call changes.                                                        *)
LEMMA NoCallChanges ==
    ASSUME UNCHANGED <<call, owner>>, DeletionIInv, DiskInv', JobInv', Advances
    PROVE  DeletionIInv'
  <1>1. \A d \in Calls : CallOK(d)' BY OtherCallKept DEF DeletionIInv, CallInv
  <1> QED BY <1>1 DEF DeletionIInv, CallInv, OwnerInv, Holds

(* A command returns, and lets the meeting go if it held it.               *)
LEMMA ReturnKept ==
    ASSUME NEW c \in Calls, D!Return(c), DeletionIInv, DiskInv', JobInv', Advances
    PROVE  DeletionIInv'
  <1>1. call' = [call EXCEPT ![c] = D!NoCall] BY DEF D!Return
  <1>2. call'[c] = D!NoCall /\ \A d \in Calls \ {c} : call'[d] = call[d] BY <1>1 DEF DeletionIInv, CallInv
  <1>3. CallInv' BY <1>1, <1>2, ReturnedCallOK, OneCallChanges
  <1>4. ~Holds(c)' BY <1>2 DEF Holds, D!NoCall
  <1>5. \A d \in Calls \ {c} : Holds(d)' <=> Holds(d) BY <1>2 DEF Holds
  <1>6. OwnerInv' BY <1>4, <1>5, DeletionAssumption DEF D!Return, OwnerInv, DeletionIInv
  <1> QED BY <1>3, <1>6 DEF DeletionIInv

(* A command that holds the meeting goes on.                               *)
LEMMA HolderKept ==
    ASSUME NEW c \in Calls, NEW k, call' = [call EXCEPT ![c] = k], UNCHANGED owner, DeletionIInv,
           Holds(c) <=> k.pc \notin {"idle", "confirm"}, DiskInv', JobInv', Advances, CallOK(c)'
    PROVE  DeletionIInv'
  <1>1. call'[c] = k /\ \A d \in Calls \ {c} : call'[d] = call[d] BY DEF DeletionIInv, CallInv
  <1>2. CallInv' BY OneCallChanges
  <1>3. \A d \in Calls : Holds(d)' <=> Holds(d) BY <1>1 DEF Holds
  <1> QED BY <1>2, <1>3 DEF DeletionIInv, OwnerInv

(* A step that leaves files and jobs alone.                                *)
LEMMA SameFiles ==
    ASSUME DeletionIInv, UNCHANGED <<disk, root, row, spoken, jobs, writes>>, task' \in BOOLEAN, exiting' \in BOOLEAN
    PROVE  DiskInv' /\ JobInv' /\ Advances
  <1>1. writes \in Nat /\ Len(jobs) \in Nat BY DeletionAssumption DEF DeletionIInv, DiskInv, JobInv
  <1> QED BY <1>1 DEF DeletionIInv, DiskInv, JobInv, Matches, Tried, Advances

(* The state and the list of one job are written; the manifest never is.   *)
LEMMA JobWritten ==
    ASSUME DeletionIInv, NEW j \in 1..Len(jobs), NEW s \in D!Unfinished \cup {"completed", "removed"}, NEW l \in Lists,
           jobs' = [jobs EXCEPT ![j].state = s, ![j].left = l], UNCHANGED <<disk, root, writes>>,
           \A p \in Paths : Matches(j, p) => (l # <<>> => p \in l[1])
    PROVE  JobInv' /\ Advances
  <1> DEFINE b == [jobs[j] EXCEPT !.state = s, !.left = l]
  <1>1. jobs \in Seq(JobRows) /\ Len(jobs) \in Nat /\ DOMAIN jobs = 1..Len(jobs) /\ writes \in Nat
    BY DeletionAssumption DEF DeletionIInv, DiskInv, JobInv
  <1>2. jobs[j] \in JobRows BY <1>1
  <1>3. b \in JobRows /\ b.manifest = jobs[j].manifest /\ b.left = l BY <1>2 DEF JobRows
  <1>4. jobs' = [jobs EXCEPT ![j] = b] BY <1>1, <1>2 DEF JobRows
  <1> HIDE DEF b
  <1>5. jobs' \in Seq(JobRows) /\ Len(jobs') = Len(jobs)
    <2>1. jobs \in [1..Len(jobs) -> JobRows] BY <1>1
    <2>2. jobs' \in [1..Len(jobs) -> JobRows] BY <2>1, <1>3, <1>4
    <2>3. \A q \in [1..Len(jobs) -> JobRows] : q \in Seq(JobRows) /\ Len(q) = Len(jobs)
      BY <1>1, SeqOfFunction
    <2> QED BY <2>2, <2>3
  <1>6. jobs'[j] = b /\ \A i \in 1..Len(jobs) \ {j} : jobs'[i] = jobs[i] BY <1>1, <1>4
  <1>7. \A i \in 1..Len(jobs) : jobs'[i].manifest = jobs[i].manifest BY <1>3, <1>6
  <1>8. \A i \in 1..Len(jobs), p \in Paths : Matches(i, p)' <=> Matches(i, p) BY <1>7 DEF Matches
  <1>9. \A i \in 1..Len(jobs), p \in Paths : Matches(i, p)' => Tried(i, p)'
    BY <1>3, <1>6, <1>8 DEF Tried, DeletionIInv, JobInv
  <1> QED BY <1>1, <1>5, <1>7, <1>8, <1>9 DEF DeletionIInv, JobInv, Advances

(* What a command that has a job reads of it.                              *)
LEMMA JobOfCall ==
    ASSUME DeletionIInv, NEW c \in Calls, call[c].job # 0
    PROVE  /\ call[c].job \in 1..Len(jobs) /\ jobs[call[c].job] \in JobRows
           /\ D!Job(c) = jobs[call[c].job] /\ D!Job(c).manifest.items \in [Paths -> Versions]
           /\ D!Job(c).state \in D!Unfinished \cup {"completed", "removed"} /\ D!Job(c).left \in Lists
           /\ \A p \in Paths : D!Job(c).manifest.items[p] <= writes + 1
  <1>1. CallOK(c) /\ jobs \in Seq(JobRows) /\ Len(jobs) \in Nat BY DEF DeletionIInv, CallInv, JobInv
  <1>2. call[c].job \in 1..Len(jobs) BY <1>1 DEF CallOK, CallStates
  <1>3. jobs[call[c].job] \in JobRows BY <1>1, <1>2
  <1>4. D!Job(c) = jobs[call[c].job] BY DEF D!Job
  <1> QED BY <1>2, <1>3, <1>4 DEF JobRows, Manifests, DeletionIInv, JobInv

(* A command at a job: what it is and what it holds.                       *)
LEMMA CallTyped ==
    ASSUME DeletionIInv, NEW c \in Calls
    PROVE  /\ CallOK(c) /\ call[c].pc \in AtJob \cup {"idle", "confirm", "stop", "create"}
           /\ call[c].shown \in Manifests /\ call[c].job \in Nat
           /\ call[c].todo \in SUBSET Paths /\ call[c].remaining \in SUBSET Targets /\ call[c].item \in Targets
           /\ call[c].pc \in AtJob => call[c].job # 0
  BY DEF DeletionIInv, CallInv, CallOK, CallStates

(* The manifest of a preview is what is there.                             *)
LEMMA ManifestOfDisk ==
    ASSUME DeletionIInv, NEW k \in D!Kinds
    PROVE  /\ D!Manifest(k) \in Manifests /\ D!Manifest(k).kind = k
           /\ \A p \in Paths : D!Manifest(k).items[p] <= writes + 1
  BY DeletionAssumption DEF D!Manifest, Manifests, Versions, DeletionIInv, DiskInv

(* Init                                                                    *)
LEMMA DeletionIInvInit == ASSUME D!Init PROVE DeletionIInv
  <1>1. DiskInv
    <2>1. disk \in [Paths -> Versions] /\ \A p \in Paths : disk[p] <= writes + 1
      BY DeletionAssumption DEF D!Init, Versions
    <2>2. writes \in 0..MaxWrites BY DeletionAssumption DEF D!Init
    <2>3. root = TRUE /\ row = TRUE /\ spoken \in BOOLEAN /\ task = FALSE /\ exiting = FALSE BY DEF D!Init
    <2> QED BY <2>1, <2>2, <2>3, Zenon DEF DiskInv
  <1>2. JobInv BY DEF D!Init, JobInv
  <1>3. D!NoCall \in CallStates
    BY DeletionAssumption DEF D!NoCall, D!NoManifest, D!NoItems, CallStates, Manifests, Versions, D!Kinds, Targets
  <1>4. \A c \in Calls : CallOK(c)
    <2>1. /\ D!NoCall.job = 0 /\ D!NoCall.pc = "idle" /\ \A p \in Paths : D!NoCall.shown.items[p] = 0
      BY DEF D!NoCall, D!NoManifest, D!NoItems
    <2>2. /\ \A c \in Calls : call[c] = D!NoCall /\ call[c].job <= Len(jobs)
          /\ \A c \in Calls, p \in Paths : call[c].shown.items[p] <= writes + 1
      BY <2>1 DEF D!Init
    <2> QED BY <1>3, <2>1, <2>2 DEF CallOK, AtJob
  <1>5. CallInv /\ OwnerInv
    BY <1>4, DeletionAssumption DEF D!Init, CallInv, OwnerInv, Holds, D!NoCall
  <1> QED BY <1>1, <1>2, <1>5 DEF DeletionIInv

(* The background work of the meeting, and what the process does.          *)
LEMMA BackgroundKept == ASSUME DeletionIInv, D!Background PROVE DeletionIInv'
  <1>1. CASE D!StartTask
    <2>1. task' \in BOOLEAN /\ exiting' \in BOOLEAN /\ UNCHANGED <<disk, root, row, spoken, jobs, writes, call, owner>>
      BY <1>1 DEF D!StartTask, D!files, D!rows, DeletionIInv, DiskInv
    <2> QED BY <2>1, SameFiles, NoCallChanges
  <1>2. CASE D!EndTask
    <2>1. task' \in BOOLEAN /\ exiting' \in BOOLEAN /\ UNCHANGED <<disk, root, row, spoken, jobs, writes, call, owner>>
      BY <1>2 DEF D!EndTask, D!files, D!rows, DeletionIInv, DiskInv
    <2> QED BY <2>1, SameFiles, NoCallChanges
  <1>3. ASSUME NEW f \in D!Files, D!Write(f) PROVE DeletionIInv'
    <2>1. /\ f \in Paths /\ root /\ writes < MaxWrites /\ writes' = writes + 1
          /\ disk' = [disk EXCEPT ![f] = writes + 2]
          /\ UNCHANGED <<root, row, spoken, jobs, call, owner, task, exiting>>
      BY <1>3 DEF D!Write, D!rows, D!Files
    <2>2. writes \in 0..MaxWrites /\ disk \in [Paths -> Versions] /\ MaxWrites \in Nat
      BY DeletionAssumption DEF DeletionIInv, DiskInv
    <2>3. disk'[f] = writes + 2 /\ \A p \in Paths \ {f} : disk'[p] = disk[p] BY <2>1, <2>2
    <2>4. writes + 2 \in Versions /\ \A p \in Paths : disk'[p] \in Versions BY <2>1, <2>2, <2>3 DEF Versions
    <2>5. \A p \in Paths : disk'[p] <= writes' + 1
      BY <2>1, <2>2, <2>3 DEF Versions, DeletionIInv, DiskInv
    <2>6. DiskInv' BY <2>1, <2>2, <2>4, <2>5 DEF DeletionIInv, DiskInv
    <2>7. \A j \in 1..Len(jobs), p \in Paths :
             jobs[j].manifest.items[p] \in Versions /\ jobs[j].manifest.items[p] <= writes + 1
      <3>1. \A j \in 1..Len(jobs) : jobs[j] \in JobRows BY DEF DeletionIInv, JobInv
      <3> QED BY <3>1 DEF JobRows, Manifests, DeletionIInv, JobInv
    <2>8. \A j \in 1..Len(jobs), p \in Paths : Matches(j, p)' => Matches(j, p)
      BY <2>1, <2>2, <2>3, <2>7 DEF Matches, Versions
    <2>9. \A j \in 1..Len(jobs), p \in Paths : jobs'[j].manifest.items[p] <= writes' + 1
      BY <2>1, <2>2, <2>7 DEF Versions
    <2>10. \A j \in 1..Len(jobs), p \in Paths : Matches(j, p)' => Tried(j, p)'
      BY <2>1, <2>8 DEF DeletionIInv, JobInv, Tried
    <2>11. JobInv' BY <2>1, <2>9, <2>10 DEF DeletionIInv, JobInv
    <2>12. Advances BY <2>1, <2>2, <2>8 DEF Advances, DeletionIInv, JobInv
    <2> QED BY <2>1, <2>6, <2>11, <2>12, NoCallChanges
  <1> QED BY <1>1, <1>2, <1>3 DEF D!Background

Call(pc, manifest, job, todo, remaining, item) ==
    [pc |-> pc, shown |-> manifest, job |-> job, todo |-> todo, remaining |-> remaining, item |-> item]

(* A new call, as a preview and as a retry make it.                        *)
LEMMA NewCall ==
    ASSUME NEW pc, NEW m, NEW j, NEW t
    PROVE  /\ [D!NoCall EXCEPT !.pc = pc, !.shown = m] = Call(pc, m, 0, {}, {}, D!Root)
           /\ [D!NoCall EXCEPT !.pc = pc, !.job = j, !.todo = t] = Call(pc, D!NoManifest, j, t, {}, D!Root)
  <1>1. D!NoCall = Call("idle", D!NoManifest, 0, {}, {}, D!Root) BY DEF D!NoCall, Call
  <1>2. [D!NoCall EXCEPT !.pc = pc, !.shown = m] = [[D!NoCall EXCEPT !.pc = pc] EXCEPT !.shown = m]
    OBVIOUS
  <1>3. [D!NoCall EXCEPT !.pc = pc, !.job = j, !.todo = t]
           = [[[D!NoCall EXCEPT !.pc = pc] EXCEPT !.job = j] EXCEPT !.todo = t]
    OBVIOUS
  <1>4. [D!NoCall EXCEPT !.pc = pc] = Call(pc, D!NoManifest, 0, {}, {}, D!Root) BY <1>1 DEF Call
  <1>5. [Call(pc, D!NoManifest, 0, {}, {}, D!Root) EXCEPT !.shown = m] = Call(pc, m, 0, {}, {}, D!Root) BY DEF Call
  <1>6. [Call(pc, D!NoManifest, 0, {}, {}, D!Root) EXCEPT !.job = j] = Call(pc, D!NoManifest, j, {}, {}, D!Root) BY DEF Call
  <1>7. [Call(pc, D!NoManifest, j, {}, {}, D!Root) EXCEPT !.todo = t] = Call(pc, D!NoManifest, j, t, {}, D!Root) BY DEF Call
  <1> QED BY <1>2, <1>3, <1>4, <1>5, <1>6, <1>7

(* A call by its fields.                                                   *)
LEMMA CallShape ==
    ASSUME DeletionIInv, NEW c \in Calls
    PROVE  /\ DOMAIN call = Calls
           /\ call[c] = Call(call[c].pc, call[c].shown, call[c].job, call[c].todo, call[c].remaining, call[c].item)
  BY DEF DeletionIInv, CallInv, CallOK, CallStates, Call

(* A step to another pc, in the words of the model.                        *)
LEMMA PcWritten ==
    ASSUME DeletionIInv, NEW c \in Calls, NEW pc
    PROVE  [call[c] EXCEPT !.pc = pc] = Call(pc, call[c].shown, call[c].job, call[c].todo, call[c].remaining, call[c].item)
  <1>1. call[c] = Call(call[c].pc, call[c].shown, call[c].job, call[c].todo, call[c].remaining, call[c].item) BY CallShape
  <1> QED BY <1>1 DEF Call

LEMMA GoesTo ==
    ASSUME DeletionIInv, NEW c \in Calls, NEW pc, D!Goes(c, pc)
    PROVE  call' = [call EXCEPT ![c] = Call(pc, call[c].shown, call[c].job, call[c].todo, call[c].remaining, call[c].item)]
  <1>1. call' = [call EXCEPT ![c] = [call[c] EXCEPT !.pc = pc]] BY CallShape DEF D!Goes
  <1> QED BY <1>1, PcWritten

(* A command that enters is refused, or holds the meeting from then on.    *)
LEMMA EnterKept ==
    ASSUME DeletionIInv, NEW c \in Calls, NEW next, D!Enter(c, next), ~Holds(c), next.pc = "stop",
           DiskInv', JobInv', Advances, call'[c] = next => CallOK(c)'
    PROVE  DeletionIInv'
  <1>1. CASE exiting \/ owner # "nobody"
    <2>1. D!Return(c) BY <1>1 DEF D!Enter
    <2> QED BY <2>1, ReturnKept
  <1>2. CASE ~(exiting \/ owner # "nobody")
    <2>1. owner = "nobody" /\ owner' = c /\ call' = [call EXCEPT ![c] = next] BY <1>2 DEF D!Enter
    <2>2. call'[c] = next /\ \A d \in Calls \ {c} : call'[d] = call[d] BY <2>1 DEF DeletionIInv, CallInv
    <2>3. CallInv' BY <2>1, <2>2, OneCallChanges
    <2>4. \A d \in Calls : ~Holds(d) BY <2>1, DeletionAssumption DEF DeletionIInv, OwnerInv
    <2>5. \A d \in Calls : Holds(d)' <=> c = d BY <2>2, <2>4 DEF Holds
    <2> QED BY <2>1, <2>3, <2>5 DEF DeletionIInv, OwnerInv
  <1> QED BY <1>1, <1>2

(* What a step of a command that writes no file and no row leaves alone.   *)
LEMMA QuietStep ==
    ASSUME DeletionIInv, UNCHANGED <<disk, root, row, spoken, jobs>>, D!Quiet
    PROVE  DiskInv' /\ JobInv' /\ Advances /\ UNCHANGED <<disk, root, row, spoken, jobs, writes, task, exiting>>
  <1>1. UNCHANGED <<disk, root, row, spoken, jobs, writes, task, exiting>> BY DEF D!Quiet
  <1>2. task' \in BOOLEAN /\ exiting' \in BOOLEAN BY <1>1 DEF DeletionIInv, DiskInv
  <1> QED BY <1>1, <1>2, SameFiles

LEMMA PreviewKept == ASSUME DeletionIInv, NEW c \in Calls, D!Preview(c) PROVE DeletionIInv'
  <1>1. DiskInv' /\ JobInv' /\ Advances /\ UNCHANGED <<disk, root, row, spoken, jobs, writes, task, exiting>>
    BY QuietStep DEF D!Preview, D!files, D!rows
  <1>2. PICK k \in D!Kinds :
           call' = [call EXCEPT ![c] = [D!NoCall EXCEPT !.pc = "confirm", !.shown = D!Manifest(k)]]
    BY DEF D!Preview
  <1>3. call' = [call EXCEPT ![c] = Call("confirm", D!Manifest(k), 0, {}, {}, D!Root)]
    BY <1>2, NewCall
  <1>4. call'[c] \in CallStates /\ call'[c].job = 0 /\ call'[c].pc = "confirm" /\ call'[c].shown = D!Manifest(k)
    <2>1. D!Manifest(k) \in Manifests BY ManifestOfDisk
    <2>2. /\ "confirm" \in AtJob \cup {"idle", "confirm", "stop", "create"} /\ 0 \in Nat
          /\ {} \in SUBSET Paths /\ {} \in SUBSET Targets /\ D!Root \in Targets
      BY DEF Targets
    <2> QED BY <1>3, <2>1, <2>2, CallShape DEF Call, CallStates
  <1>5. Len(jobs) \in Nat BY DEF DeletionIInv, JobInv
  <1>6. CallOK(c)' BY <1>1, <1>4, <1>5, ManifestOfDisk DEF CallOK, AtJob
  <1>7. ~Holds(c) /\ Call("confirm", D!Manifest(k), 0, {}, {}, D!Root).pc = "confirm" /\ UNCHANGED owner
    BY DEF D!Preview, D!At, Holds, Call
  <1> QED BY <1>1, <1>3, <1>6, <1>7, HolderKept

LEMMA StartKept == ASSUME DeletionIInv, NEW c \in Calls, D!Start(c) PROVE DeletionIInv'
  <1>1. DiskInv' /\ JobInv' /\ Advances /\ UNCHANGED <<disk, root, row, spoken, jobs, writes, task, exiting>>
    BY QuietStep DEF D!Start, D!files, D!rows
  <1>2. D!Enter(c, [call[c] EXCEPT !.pc = "stop"]) /\ ~Holds(c) BY DEF D!Start, D!At, Holds
  <1>3. CallOK(c) /\ call[c] \in CallStates BY DEF DeletionIInv, CallInv, CallOK
  <1>4. [call[c] EXCEPT !.pc = "stop"] = Call("stop", call[c].shown, call[c].job, call[c].todo, call[c].remaining, call[c].item)
    BY <1>3 DEF Call, CallStates
  <1>5. ASSUME call'[c] = [call[c] EXCEPT !.pc = "stop"] PROVE CallOK(c)'
    <2>1. /\ call'[c].pc = "stop" /\ call'[c] \in CallStates /\ call'[c].shown = call[c].shown
          /\ call'[c].job = call[c].job /\ call'[c].todo = call[c].todo /\ call'[c].remaining = call[c].remaining
      BY <1>3, <1>5 DEF CallStates
    <2> QED BY <1>1, <1>3, <2>1 DEF CallOK, AtJob, Matches
  <1>6. [call[c] EXCEPT !.pc = "stop"].pc = "stop" BY <1>4 DEF Call
  <1> QED BY <1>1, <1>2, <1>5, <1>6, EnterKept

LEMMA RetryKept == ASSUME DeletionIInv, NEW c \in Calls, D!Retry(c) PROVE DeletionIInv'
  <1>1. DiskInv' /\ JobInv' /\ Advances /\ UNCHANGED <<disk, root, row, spoken, jobs, writes, task, exiting>>
    BY QuietStep DEF D!Retry, D!files, D!rows
  <1>2. PICK j \in DOMAIN jobs :
           D!Enter(c, [D!NoCall EXCEPT !.pc = "stop", !.job = j, !.todo = D!FailedIDs(jobs[j])])
    BY DEF D!Retry
  <1>3. [D!NoCall EXCEPT !.pc = "stop", !.job = j, !.todo = D!FailedIDs(jobs[j])]
           = Call("stop", D!NoManifest, j, D!FailedIDs(jobs[j]), {}, D!Root)
    BY NewCall
  <1>4. ~Holds(c) BY DEF D!Retry, D!At, Holds
  <1>5. j \in 1..Len(jobs) /\ Len(jobs) \in Nat BY <1>2 DEF DeletionIInv, JobInv
  <1>6. D!NoManifest \in Manifests /\ \A p \in Paths : D!NoManifest.items[p] = 0
    BY DeletionAssumption DEF D!NoManifest, D!NoItems, Manifests, Versions, D!Kinds
  <1>7. D!FailedIDs(jobs[j]) \subseteq Paths BY DEF D!FailedIDs, D!Items
  <1>8. \A p \in Paths : Matches(j, p) => p \in D!FailedIDs(jobs[j])
    BY <1>5 DEF DeletionIInv, JobInv, Matches, Tried, D!FailedIDs, D!Items
  <1> DEFINE k == Call("stop", D!NoManifest, j, D!FailedIDs(jobs[j]), {}, D!Root)
  <1>9. k.pc = "stop" /\ k.shown = D!NoManifest /\ k.job = j /\ k.todo = D!FailedIDs(jobs[j]) /\ k \in CallStates
    BY <1>5, <1>6, <1>7 DEF Call, CallStates, Targets
  <1>10. ASSUME call'[c] = k PROVE CallOK(c)'
    <2>1. writes \in Nat BY DeletionAssumption DEF DeletionIInv, DiskInv
    <2>2. \A p \in Paths : Matches(j, p)' <=> Matches(j, p) BY <1>1 DEF Matches
    <2>3. call'[c].pc = "stop" /\ call'[c].job = j /\ call'[c].todo = D!FailedIDs(jobs[j]) /\ call'[c] \in CallStates
          /\ call'[c].shown = D!NoManifest
      BY <1>9, <1>10
    <2> HIDE DEF k
    <2> QED BY <1>1, <1>5, <1>6, <1>8, <2>1, <2>2, <2>3 DEF CallOK, AtJob, Matches
  <1> HIDE DEF k
  <1>11. D!Enter(c, k) BY <1>2, <1>3 DEF k
  <1> QED BY <1>1, <1>4, <1>9, <1>10, <1>11, EnterKept

(* An item was tried: the command goes to its checkpoint, and every item   *)
(* that is still as it was remains to be tried.                            *)
LEMMA ItemTried ==
    ASSUME DeletionIInv, NEW c \in Calls, NEW p \in Paths, NEW r \in SUBSET {p}, D!Removed(c, p, call[c].remaining \cup r),
           call[c].pc \in {"execute", "remove"}, UNCHANGED owner, DiskInv', JobInv', Advances, UNCHANGED jobs,
           Matches(call[c].job, p)' => p \in r
    PROVE  DeletionIInv'
  <1> DEFINE left == call[c].remaining \cup r
  <1>1. /\ DOMAIN call = Calls /\ call[c].job # 0
        /\ call[c] = Call(call[c].pc, call[c].shown, call[c].job, call[c].todo, call[c].remaining, call[c].item)
    BY CallShape, CallTyped DEF AtJob
  <1>2. call' = [call EXCEPT ![c] = [[[[call[c] EXCEPT !.pc = "save"] EXCEPT !.remaining = left]
                                        EXCEPT !.todo = call[c].todo \ {p}] EXCEPT !.item = D!Root]]
    BY <1>1 DEF D!Removed
  <1>3. [call[c] EXCEPT !.pc = "save"]
           = Call("save", call[c].shown, call[c].job, call[c].todo, call[c].remaining, call[c].item)
    BY <1>1 DEF Call
  <1>4. [[call[c] EXCEPT !.pc = "save"] EXCEPT !.remaining = left]
           = Call("save", call[c].shown, call[c].job, call[c].todo, left, call[c].item)
    <2> HIDE DEF left
    <2>1. [Call("save", call[c].shown, call[c].job, call[c].todo, call[c].remaining, call[c].item) EXCEPT !.remaining = left]
             = Call("save", call[c].shown, call[c].job, call[c].todo, left, call[c].item)
      BY DEF Call
    <2> QED BY <1>3, <2>1
  <1>5. call' = [call EXCEPT ![c] = Call("save", call[c].shown, call[c].job, call[c].todo \ {p}, left, D!Root)]
    <2>1. [Call("save", call[c].shown, call[c].job, call[c].todo, left, call[c].item) EXCEPT !.todo = call[c].todo \ {p}]
             = Call("save", call[c].shown, call[c].job, call[c].todo \ {p}, left, call[c].item)
      BY DEF Call
    <2>2. [Call("save", call[c].shown, call[c].job, call[c].todo \ {p}, left, call[c].item) EXCEPT !.item = D!Root]
             = Call("save", call[c].shown, call[c].job, call[c].todo \ {p}, left, D!Root)
      BY DEF Call
    <2> QED BY <1>2, <1>4, <2>1, <2>2
  <1>6. /\ left \in SUBSET Targets /\ call[c].todo \ {p} \in SUBSET Paths /\ D!Root \in Targets
        /\ call[c].shown \in Manifests /\ call[c].job \in Nat
    BY CallTyped DEF Targets
  <1>7. /\ call'[c].pc = "save" /\ call'[c].shown = call[c].shown /\ call'[c].job = call[c].job
        /\ call'[c].todo = call[c].todo \ {p} /\ call'[c].remaining = left /\ call'[c] \in CallStates
    <2> HIDE DEF left
    <2>1. "save" \in AtJob \cup {"idle", "confirm", "stop", "create"} BY DEF AtJob
    <2> QED BY <1>5, <1>6, <2>1, CallShape DEF Call, CallStates
  <1>8. ASSUME NEW q \in Paths, Matches(call[c].job, q)' PROVE q \in call'[c].remaining \cup call'[c].todo
    <2>1. CASE q = p
      <3>1. Matches(call[c].job, p)' BY <1>8, <2>1 DEF Matches
      <3> QED BY <3>1, <2>1, <1>7
    <2>2. CASE q # p
      <3>1. PICK j \in 1..Len(jobs) : j = call[c].job BY <1>1, JobOfCall
      <3>2. Matches(j, q)' BY <3>1, <1>7, <1>8 DEF Matches
      <3>3. Matches(call[c].job, q) BY <3>1, <3>2 DEF Advances
      <3>4. q \in call[c].remaining \cup call[c].todo BY <3>3, <1>1, CallTyped DEF CallOK
      <3> QED BY <3>4, <2>2, <1>7
    <2> QED BY <2>1, <2>2
  <1> HIDE DEF left
  <1>9. writes \in Nat /\ writes' \in Nat /\ writes <= writes' BY DeletionAssumption DEF DeletionIInv, DiskInv, Advances
  <1>10. \A q \in Paths : call'[c].shown.items[q] <= writes' + 1
    <2>1. \A q \in Paths : call[c].shown.items[q] \in Versions BY CallTyped DEF Manifests
    <2>2. \A q \in Paths : call[c].shown.items[q] <= writes + 1 BY CallTyped DEF CallOK
    <2> QED BY <1>7, <1>9, <2>1, <2>2, DeletionAssumption DEF Versions
  <1>11. CallOK(c)' BY <1>1, <1>7, <1>8, <1>10, CallTyped DEF CallOK, AtJob, Matches
  <1>12. Holds(c) /\ Call("save", call[c].shown, call[c].job, call[c].todo \ {p}, left, D!Root).pc \notin {"idle", "confirm"}
    BY DEF Holds, Call
  <1> QED BY <1>5, <1>11, <1>12, HolderKept

LEMMA AcquireKept == ASSUME DeletionIInv, NEW c \in Calls, D!Acquire(c) PROVE DeletionIInv'
  <1>1. DiskInv' /\ JobInv' /\ Advances /\ UNCHANGED <<disk, root, row, spoken, jobs, writes, task, exiting>>
    BY QuietStep DEF D!Acquire, D!files, D!rows
  <1> DEFINE pc == IF call[c].job = 0 THEN "create" ELSE "mark"
  <1>2. D!Goes(c, pc) /\ UNCHANGED owner /\ call[c].pc = "stop" BY DEF D!Acquire, D!At
  <1>3. call' = [call EXCEPT ![c] = Call(pc, call[c].shown, call[c].job, call[c].todo, call[c].remaining, call[c].item)]
    BY <1>2, GoesTo
  <1>4. pc \in {"create", "mark"} /\ (pc = "mark" => call[c].job # 0) OBVIOUS
  <1> HIDE DEF pc
  <1>5. /\ call'[c].pc = pc /\ call'[c].shown = call[c].shown /\ call'[c].job = call[c].job
        /\ call'[c].todo = call[c].todo /\ call'[c].remaining = call[c].remaining /\ call'[c] \in CallStates
    <2>1. /\ pc \in AtJob \cup {"idle", "confirm", "stop", "create"} /\ call[c].shown \in Manifests
          /\ call[c].job \in Nat /\ call[c].todo \in SUBSET Paths /\ call[c].remaining \in SUBSET Targets /\ call[c].item \in Targets
      BY <1>4, CallTyped DEF AtJob
    <2> QED BY <1>3, <2>1, CallShape DEF Call, CallStates
  <1>6. CallOK(c)' BY <1>1, <1>4, <1>5, CallTyped DEF CallOK, AtJob, Matches
  <1>7. Holds(c) /\ Call(pc, call[c].shown, call[c].job, call[c].todo, call[c].remaining, call[c].item).pc = pc
    BY <1>2 DEF Holds, Call
  <1> QED BY <1>1, <1>2, <1>3, <1>4, <1>6, <1>7, HolderKept

(* A command returns and leaves the files and the rows as they are.        *)
LEMMA QuietReturn ==
    ASSUME DeletionIInv, NEW c \in Calls, D!Return(c), UNCHANGED <<disk, root, row, spoken, jobs>>, D!Quiet
    PROVE  DeletionIInv'
  BY QuietStep, ReturnKept

(* A command that goes on with its job, without a file or a row changed.   *)
LEMMA QuietGoes ==
    ASSUME DeletionIInv, NEW c \in Calls, NEW pc \in AtJob, D!Goes(c, pc), call[c].pc \in AtJob, UNCHANGED owner,
           UNCHANGED <<disk, root, row, spoken, jobs>>, D!Quiet,
           pc \in {"directory", "complete"} => call[c].remaining = {} /\ call[c].todo = {},
           pc = "fail" => call[c].todo = {}, pc # "remove",
           pc = "complete" /\ D!Job(c).manifest.kind = "meeting" => ~root
    PROVE  DeletionIInv'
  <1>1. DiskInv' /\ JobInv' /\ Advances /\ UNCHANGED <<disk, root, row, spoken, jobs, writes, task, exiting>>
    BY QuietStep
  <1>2. call' = [call EXCEPT ![c] = Call(pc, call[c].shown, call[c].job, call[c].todo, call[c].remaining, call[c].item)]
    BY GoesTo
  <1>3. /\ call'[c].pc = pc /\ call'[c].shown = call[c].shown /\ call'[c].job = call[c].job
        /\ call'[c].todo = call[c].todo /\ call'[c].remaining = call[c].remaining /\ call'[c] \in CallStates
    <2>1. /\ pc \in AtJob \cup {"idle", "confirm", "stop", "create"} /\ call[c].shown \in Manifests
          /\ call[c].job \in Nat /\ call[c].todo \in SUBSET Paths /\ call[c].remaining \in SUBSET Targets /\ call[c].item \in Targets
      BY CallTyped
    <2> QED BY <1>2, <2>1, CallShape DEF Call, CallStates
  <1>4. CallOK(c)' BY <1>1, <1>3, CallTyped DEF CallOK, Matches, D!Job
  <1>5. Holds(c) /\ pc \notin {"idle", "confirm"} BY DEF Holds, AtJob
  <1>6. Call(pc, call[c].shown, call[c].job, call[c].todo, call[c].remaining, call[c].item).pc = pc BY DEF Call
  <1> QED BY <1>1, <1>2, <1>4, <1>5, <1>6, HolderKept

LEMMA EndItemsKept == ASSUME DeletionIInv, NEW c \in Calls, D!EndItems(c) PROVE DeletionIInv'
  <1> DEFINE pc == IF call[c].remaining # {} THEN "fail"
                   ELSE IF D!Job(c).manifest.kind = "meeting" THEN "directory" ELSE "complete"
  <1>1. /\ D!Goes(c, pc) /\ call[c].pc = "execute" /\ call[c].todo = {} /\ D!Quiet
        /\ UNCHANGED <<disk, root, row, spoken, jobs, owner>>
    BY DEF D!EndItems, D!At, D!files, D!rows
  <1>2. /\ pc \in AtJob /\ pc # "remove" /\ (pc \in {"directory", "complete"} => call[c].remaining = {})
        /\ (pc = "complete" => D!Job(c).manifest.kind # "meeting")
    BY DEF AtJob
  <1> HIDE DEF pc
  <1>3. call[c].pc \in AtJob BY <1>1 DEF AtJob
  <1> QED BY <1>1, <1>2, <1>3, QuietGoes

LEMMA CheckFailsKept ==
    ASSUME DeletionIInv, NEW c \in Calls, NEW p \in Paths, D!CheckFails(c, p) PROVE DeletionIInv'
  <1>1. /\ call[c].pc = "execute" /\ UNCHANGED owner
        /\ D!Removed(c, p, call[c].remaining \cup {p})
    BY DEF D!CheckFails, D!Takes, D!HasItems, D!At
  <1>2. DiskInv' /\ JobInv' /\ Advances /\ UNCHANGED <<disk, root, row, spoken, jobs, writes, task, exiting>>
    BY QuietStep DEF D!CheckFails, D!files, D!rows
  <1> QED BY <1>1, <1>2, ItemTried DEF Matches

LEMMA RemoveFailsKept ==
    ASSUME DeletionIInv, NEW c \in Calls, D!RemoveFails(c) PROVE DeletionIInv'
  <1> DEFINE p == call[c].item
  <1>1. /\ call[c].pc = "remove" /\ UNCHANGED owner
        /\ D!Removed(c, p, call[c].remaining \cup {p})
    BY DEF D!RemoveFails, D!At
  <1>2. DiskInv' /\ JobInv' /\ Advances /\ UNCHANGED <<disk, root, row, spoken, jobs, writes, task, exiting>>
    BY QuietStep DEF D!RemoveFails, D!files, D!rows
  <1>3. p \in Paths BY <1>1, CallTyped DEF CallOK
  <1> HIDE DEF p
  <1> QED BY <1>1, <1>2, <1>3, ItemTried DEF Matches

(* An item that is as it was confirmed is the next to be removed.          *)
LEMMA CheckItemKept ==
    ASSUME DeletionIInv, NEW c \in Calls, NEW p \in Paths, D!CheckItem(c, p) PROVE DeletionIInv'
  <1>1. call[c].pc = "execute" /\ UNCHANGED owner BY DEF D!CheckItem, D!Takes, D!HasItems, D!At
  <1>2. DiskInv' /\ JobInv' /\ Advances /\ UNCHANGED <<disk, root, row, spoken, jobs, writes, task, exiting>>
    BY QuietStep DEF D!CheckItem, D!files, D!rows
  <1>3. CASE disk[p] = D!Job(c).manifest.items[p]
    <2>1. call' = [call EXCEPT ![c] = [[call[c] EXCEPT !.pc = "remove"] EXCEPT !.item = p]]
      BY <1>3, CallShape DEF D!CheckItem
    <2>2. [call[c] EXCEPT !.pc = "remove"]
             = Call("remove", call[c].shown, call[c].job, call[c].todo, call[c].remaining, call[c].item)
      BY PcWritten
    <2>3. [Call("remove", call[c].shown, call[c].job, call[c].todo, call[c].remaining, call[c].item) EXCEPT !.item = p]
             = Call("remove", call[c].shown, call[c].job, call[c].todo, call[c].remaining, p)
      BY DEF Call
    <2>4. call' = [call EXCEPT ![c] = Call("remove", call[c].shown, call[c].job, call[c].todo, call[c].remaining, p)]
      BY <2>1, <2>2, <2>3
    <2>5. /\ call'[c].pc = "remove" /\ call'[c].shown = call[c].shown /\ call'[c].job = call[c].job
          /\ call'[c].todo = call[c].todo /\ call'[c].remaining = call[c].remaining /\ call'[c].item = p
          /\ call'[c] \in CallStates
      <3>1. /\ "remove" \in AtJob \cup {"idle", "confirm", "stop", "create"} /\ call[c].shown \in Manifests
            /\ call[c].job \in Nat /\ call[c].todo \in SUBSET Paths /\ call[c].remaining \in SUBSET Targets
            /\ p \in Targets
        BY CallTyped DEF AtJob, Targets
      <3> QED BY <2>4, <3>1, CallShape DEF Call, CallStates
    <2>6. call[c].pc \in AtJob BY <1>1 DEF AtJob
    <2>7. CallOK(c)' BY <1>2, <2>5, <2>6, CallTyped DEF CallOK, Matches
    <2>8. Holds(c) /\ Call("remove", call[c].shown, call[c].job, call[c].todo, call[c].remaining, p).pc = "remove"
      BY <1>1 DEF Holds, Call
    <2> QED BY <1>1, <1>2, <2>4, <2>7, <2>8, HolderKept
  <1>4. CASE disk[p] # D!Job(c).manifest.items[p]
    <2>1. D!Removed(c, p, call[c].remaining \cup {q \in {p} : disk[q] # 0}) BY <1>4 DEF D!CheckItem
    <2>2. PICK r \in SUBSET {p} : r = {q \in {p} : disk[q] # 0} OBVIOUS
    <2>3. D!Job(c) = jobs[call[c].job] BY DEF D!Job
    <2>4. call'[c].job = call[c].job
      <3> DEFINE saved == [call[c] EXCEPT !.pc = "save"]
                 left  == [saved EXCEPT !.remaining = call[c].remaining \cup {q \in {p} : disk[q] # 0}]
                 done  == [left EXCEPT !.todo = call[c].todo \ {p}]
      <3>1. call' = [call EXCEPT ![c] = [done EXCEPT !.item = D!Root]] BY <2>1, CallShape DEF D!Removed
      <3>2. call'[c] = [done EXCEPT !.item = D!Root] BY <3>1, CallShape
      <3>3. saved.job = call[c].job /\ left.job = saved.job /\ done.job = left.job
            /\ [done EXCEPT !.item = D!Root].job = done.job
        BY CallShape DEF Call
      <3> QED BY <3>2, <3>3
    <2>5. ~Matches(call[c].job, p)' BY <1>2, <1>4, <2>3, <2>4 DEF Matches
    <2> QED BY <1>1, <1>2, <2>1, <2>2, <2>5, ItemTried
  <1> QED BY <1>3, <1>4

(* A command writes its job.                                               *)
LEMMA SetJobKept ==
    ASSUME DeletionIInv, NEW c \in Calls, call[c].pc \in AtJob, NEW s \in D!Unfinished \cup {"completed", "removed"},
           NEW l \in Lists, D!SetJob(c, s, l), UNCHANGED <<disk, root, row, spoken>>, D!Quiet,
           \A p \in Paths : Matches(call[c].job, p) => (l # <<>> => p \in l[1])
    PROVE  DiskInv' /\ JobInv' /\ Advances /\ UNCHANGED <<disk, root, row, spoken, writes, task, exiting>>
  <1>1. PICK j \in 1..Len(jobs) : j = call[c].job BY CallTyped, JobOfCall
  <1>2. jobs' = [jobs EXCEPT ![j].state = s, ![j].left = l] BY <1>1 DEF D!SetJob
  <1>3. \A p \in Paths : Matches(j, p) => (l # <<>> => p \in l[1]) BY <1>1
  <1>4. UNCHANGED <<disk, root, row, spoken, writes, task, exiting>> BY DEF D!Quiet
  <1>5. JobInv' /\ Advances BY <1>2, <1>3, <1>4, JobWritten
  <1>6. DiskInv' BY <1>4 DEF DeletionIInv, DiskInv
  <1> QED BY <1>4, <1>5, <1>6

(* A command goes on after it wrote its job, with the lists it has.        *)
LEMMA JobGoes ==
    ASSUME DeletionIInv, NEW c \in Calls, NEW pc \in {"execute", "save"}, D!Goes(c, pc), call[c].pc \in AtJob,
           UNCHANGED <<owner, disk, writes>>, DiskInv', JobInv', Advances
    PROVE  DeletionIInv'
  <1>1. call' = [call EXCEPT ![c] = Call(pc, call[c].shown, call[c].job, call[c].todo, call[c].remaining, call[c].item)]
    BY GoesTo
  <1>2. /\ call'[c].pc = pc /\ call'[c].shown = call[c].shown /\ call'[c].job = call[c].job
        /\ call'[c].todo = call[c].todo /\ call'[c].remaining = call[c].remaining /\ call'[c] \in CallStates
    <2>1. /\ pc \in AtJob \cup {"idle", "confirm", "stop", "create"} /\ call[c].shown \in Manifests
          /\ call[c].job \in Nat /\ call[c].todo \in SUBSET Paths /\ call[c].remaining \in SUBSET Targets /\ call[c].item \in Targets
      BY CallTyped DEF AtJob
    <2> QED BY <1>1, <2>1, CallShape DEF Call, CallStates
  <1>3. PICK j \in 1..Len(jobs) : j = call[c].job BY CallTyped, JobOfCall
  <1>4. \A p \in Paths : Matches(call[c].job, p)' => Matches(j, p)
    <2>1. \A p \in Paths : Matches(j, p)' => Matches(j, p) BY DEF Advances
    <2> QED BY <2>1, <1>2, <1>3 DEF Matches
  <1>5. \A p \in Paths : Matches(call[c].job, p)' => p \in call'[c].remaining \cup call'[c].todo
    BY <1>2, <1>3, <1>4, CallTyped DEF CallOK
  <1>6. call'[c].job # 0 /\ call'[c].job <= Len(jobs')
    BY <1>2, <1>3 DEF Advances, DeletionIInv, JobInv
  <1>7. \A p \in Paths : call'[c].shown.items[p] <= writes' + 1 BY <1>2, CallTyped DEF CallOK
  <1>8. CallOK(c)' BY <1>2, <1>5, <1>6, <1>7 DEF CallOK
  <1>9. Holds(c) /\ Call(pc, call[c].shown, call[c].job, call[c].todo, call[c].remaining, call[c].item).pc \notin {"idle", "confirm"}
    BY DEF Holds, AtJob, Call
  <1> QED BY <1>1, <1>8, <1>9, HolderKept

LEMMA MarkRunningKept == ASSUME DeletionIInv, NEW c \in Calls, D!MarkRunning(c) PROVE DeletionIInv'
  <1>1. call[c].pc = "mark" /\ call[c].pc \in AtJob /\ D!Quiet /\ UNCHANGED <<disk, root, row, spoken>>
    BY DEF D!MarkRunning, D!At, AtJob, D!files
  <1>2. CASE D!Job(c).state \in {"pending", "failed"}
    <2>1. D!SetJob(c, "running", D!Job(c).left) /\ D!Goes(c, "execute") /\ UNCHANGED owner
      BY <1>2 DEF D!MarkRunning
    <2>2. D!Job(c).left \in Lists /\ D!Job(c) = jobs[call[c].job] /\ call[c].job \in 1..Len(jobs)
      BY <1>1, CallTyped, JobOfCall
    <2>3. \A p \in Paths : Matches(call[c].job, p) => (D!Job(c).left # <<>> => p \in D!Job(c).left[1])
      BY <2>2 DEF DeletionIInv, JobInv, Tried
    <2>4. PICK l \in Lists : l = D!Job(c).left BY <2>2
    <2>5. D!SetJob(c, "running", l) BY <2>1, <2>4
    <2>6. "running" \in D!Unfinished \cup {"completed", "removed"} BY DEF D!Unfinished
    <2>7. DiskInv' /\ JobInv' /\ Advances /\ UNCHANGED <<disk, writes>>
      BY <1>1, <2>3, <2>4, <2>5, <2>6, SetJobKept
    <2> QED BY <1>1, <2>1, <2>7, JobGoes
  <1>3. CASE D!Job(c).state \notin {"pending", "failed"}
    <2>1. D!Return(c) /\ UNCHANGED jobs BY <1>3 DEF D!MarkRunning
    <2> QED BY <1>1, <2>1, QuietReturn
  <1> QED BY <1>2, <1>3

LEMMA CheckpointKept == ASSUME DeletionIInv, NEW c \in Calls, D!Checkpoint(c) PROVE DeletionIInv'
  <1> DEFINE left == <<call[c].remaining \cup call[c].todo>>
  <1>1. call[c].pc = "save" /\ call[c].pc \in AtJob /\ D!Quiet /\ UNCHANGED <<disk, root, row, spoken>>
    BY DEF D!Checkpoint, D!At, AtJob, D!files
  <1>2. CASE D!Job(c).state = "running"
    <2>1. D!SetJob(c, "running", left) /\ D!Goes(c, "execute") /\ UNCHANGED owner BY <1>2 DEF D!Checkpoint
    <2>2. left \in Lists /\ left[1] = call[c].remaining \cup call[c].todo BY CallTyped DEF Lists, Targets
    <2>3. \A p \in Paths : Matches(call[c].job, p) => p \in left[1] BY <1>1, <2>2, CallTyped DEF CallOK
    <2> HIDE DEF left
    <2>4. PICK l \in Lists : l = left BY <2>2
    <2>5. D!SetJob(c, "running", l) BY <2>1, <2>4
    <2>6. "running" \in D!Unfinished \cup {"completed", "removed"} BY DEF D!Unfinished
    <2>7. DiskInv' /\ JobInv' /\ Advances /\ UNCHANGED <<disk, writes>>
      BY <1>1, <2>3, <2>4, <2>5, <2>6, SetJobKept
    <2> QED BY <1>1, <2>1, <2>7, JobGoes
  <1>3. CASE D!Job(c).state # "running"
    <2>1. D!Return(c) /\ UNCHANGED jobs BY <1>3 DEF D!Checkpoint
    <2> QED BY <1>1, <2>1, QuietReturn
  <1> QED BY <1>2, <1>3

(* A command writes its job for the last time, and returns.                *)
LEMMA JobReturns ==
    ASSUME DeletionIInv, NEW c \in Calls, call[c].pc \in AtJob, NEW s \in D!Unfinished \cup {"completed", "removed"},
           NEW l \in Lists, D!SetJob(c, s, l), UNCHANGED <<disk, root, row, spoken>>, D!Quiet, D!Return(c),
           \A p \in Paths : Matches(call[c].job, p) => (l # <<>> => p \in l[1])
    PROVE  DeletionIInv'
  BY SetJobKept, ReturnKept

LEMMA MarkFailedKept == ASSUME DeletionIInv, NEW c \in Calls, D!MarkFailed(c) PROVE DeletionIInv'
  <1>1. /\ call[c].pc = "fail" /\ call[c].pc \in AtJob /\ D!Quiet /\ UNCHANGED <<disk, root, row, spoken>>
        /\ D!SetJob(c, "failed", <<call[c].remaining>>) /\ D!Return(c)
    BY DEF D!MarkFailed, D!At, AtJob, D!files
  <1>2. PICK l \in Lists : l = <<call[c].remaining>> BY CallTyped DEF Lists
  <1>3. \A p \in Paths : Matches(call[c].job, p) => p \in l[1]
    BY <1>1, <1>2, CallTyped DEF CallOK
  <1>4. D!SetJob(c, "failed", l) /\ "failed" \in D!Unfinished \cup {"completed", "removed"}
    BY <1>1, <1>2 DEF D!Unfinished
  <1> QED BY <1>1, <1>3, <1>4, JobReturns

LEMMA CompleteRecordingKept == ASSUME DeletionIInv, NEW c \in Calls, D!CompleteRecording(c) PROVE DeletionIInv'
  <1>1. /\ call[c].pc \in AtJob /\ D!Quiet /\ UNCHANGED <<disk, root, row, spoken>>
        /\ D!SetJob(c, "completed", <<>>) /\ D!Return(c)
    BY DEF D!CompleteRecording, D!At, AtJob, D!files
  <1>2. <<>> \in Lists BY DEF Lists
  <1> QED BY <1>1, <1>2, JobReturns

LEMMA CompleteMeetingKept == ASSUME DeletionIInv, NEW c \in Calls, D!CompleteMeeting(c) PROVE DeletionIInv'
  <1>1. /\ call[c].pc = "complete" /\ call[c].pc \in AtJob /\ D!Quiet /\ UNCHANGED <<disk, root>>
        /\ D!Job(c).manifest.kind = "meeting" /\ D!Return(c)
    BY DEF D!CompleteMeeting, D!At, AtJob, D!files
  <1>2. CASE D!Restricted(c)
    <2>1. UNCHANGED <<row, spoken, jobs>> BY <1>2 DEF D!CompleteMeeting, D!rows
    <2> QED BY <1>1, <2>1, QuietReturn
  <1>3. CASE ~D!Restricted(c)
    <2>1. row' = FALSE /\ D!SetJob(c, "removed", <<>>) /\ UNCHANGED spoken BY <1>3 DEF D!CompleteMeeting
    <2>2. PICK j \in 1..Len(jobs) : j = call[c].job BY <1>1, CallTyped, JobOfCall
    <2>3. jobs' = [jobs EXCEPT ![j].state = "removed", ![j].left = <<>>] BY <2>1, <2>2 DEF D!SetJob
    <2>4. UNCHANGED <<writes, task, exiting>> BY <1>1 DEF D!Quiet
    <2>5. "removed" \in D!Unfinished \cup {"completed", "removed"} /\ <<>> \in Lists BY DEF Lists
    <2>6. JobInv' /\ Advances BY <1>1, <2>3, <2>4, <2>5, JobWritten
    <2>7. ~root BY <1>1, CallTyped DEF CallOK, D!Job
    <2>8. DiskInv'
      <3>1. row' \in BOOLEAN /\ ~root' BY <1>1, <2>1, <2>7
      <3> QED BY <1>1, <2>1, <2>4, <3>1 DEF DeletionIInv, DiskInv
    <2> QED BY <1>1, <2>6, <2>8, ReturnKept
  <1> QED BY <1>2, <1>3

LEMMA RemoveItemKept ==
    ASSUME DeletionIInv, NEW c \in Calls, D!RemoveItem(c) PROVE DeletionIInv'
  <1>0. PICK p \in Paths : p = call[c].item BY CallTyped DEF CallOK, D!RemoveItem, D!At
  <1>1. /\ call[c].pc = "remove" /\ call[c].pc \in AtJob /\ D!Quiet /\ UNCHANGED <<root, row, spoken, jobs, owner>>
        /\ disk' = [disk EXCEPT ![p] = IF D!Removable(p) THEN 0 ELSE disk[p]]
        /\ D!Removed(c, p, call[c].remaining \cup {q \in {p} : ~D!Removable(q)})
    BY <1>0 DEF D!RemoveItem, D!At, AtJob, D!rows
  <1>2. UNCHANGED <<writes, task, exiting>> BY <1>1 DEF D!Quiet
  <1>3. disk \in [Paths -> Versions] /\ writes \in 0..MaxWrites /\ MaxWrites \in Nat
    BY DeletionAssumption DEF DeletionIInv, DiskInv
  <1>4. /\ disk'[p] \in {0, disk[p]} /\ \A q \in Paths \ {p} : disk'[q] = disk[q]
        /\ (disk'[p] # 0 => ~D!Removable(p))
    BY <1>1, <1>3
  <1>5. DiskInv'
    <2>1. disk' \in [Paths -> Versions] BY <1>1, <1>3 DEF Versions
    <2>2. \A q \in Paths : disk'[q] <= writes' + 1
      BY <1>2, <1>3, <1>4 DEF Versions, DeletionIInv, DiskInv
    <2>3. ~root' => \A q \in Paths : disk'[q] = 0 BY <1>1, <1>4 DEF DeletionIInv, DiskInv
    <2> QED BY <1>1, <1>2, <2>1, <2>2, <2>3 DEF DeletionIInv, DiskInv
  <1>6. \A j \in 1..Len(jobs), q \in Paths : Matches(j, q)' => Matches(j, q) BY <1>1, <1>4 DEF Matches
  <1>7. JobInv' BY <1>1, <1>2, <1>6 DEF DeletionIInv, JobInv, Tried
  <1>8. Advances BY <1>1, <1>2, <1>3, <1>6 DEF Advances, DeletionIInv, JobInv
  <1>9. Matches(call[c].job, p)' => ~D!Removable(p)
    <2>1. Matches(call[c].job, p)' => disk'[p] # 0 BY DEF Matches
    <2> QED BY <1>4, <2>1
  <1>10. PICK r \in SUBSET {p} : r = {q \in {p} : ~D!Removable(q)} OBVIOUS
  <1>11. D!Removed(c, p, call[c].remaining \cup r) /\ (Matches(call[c].job, p)' => p \in r) BY <1>1, <1>9, <1>10
  <1> QED BY <1>1, <1>5, <1>7, <1>8, <1>11, ItemTried

LEMMA KeepForLaterKept == ASSUME DeletionIInv, NEW c \in Calls, D!KeepForLater(c) PROVE DeletionIInv'
  <1> DEFINE left == call[c].remaining \cup call[c].todo
  <1>1. /\ call[c].pc = "execute" /\ call[c].pc \in AtJob /\ D!Quiet /\ UNCHANGED <<disk, root, row, spoken, owner>>
        /\ call' = [call EXCEPT ![c].pc = "fail", ![c].remaining = left, ![c].todo = {}]
    BY DEF D!KeepForLater, D!HasItems, D!At, AtJob, D!files
  <1>2. /\ left \in SUBSET Targets /\ call[c].item \in Targets /\ call[c].shown \in Manifests /\ call[c].job \in Nat /\ call[c].job # 0
        /\ \A p \in Paths : Matches(call[c].job, p) => p \in left
    BY <1>1, CallTyped DEF CallOK, Targets
  <1>3. DiskInv' /\ JobInv' /\ Advances /\ UNCHANGED <<disk, root, writes>>
    <2>1. CASE D!Job(c).state = "running"
      <3>1. D!SetJob(c, "running", <<left>>) BY <2>1 DEF D!KeepForLater
      <3> HIDE DEF left
      <3>2. PICK l \in Lists : l = <<left>> BY <1>2 DEF Lists
      <3>3. D!SetJob(c, "running", l) /\ \A p \in Paths : Matches(call[c].job, p) => p \in l[1]
        BY <1>2, <3>1, <3>2
      <3>4. "running" \in D!Unfinished \cup {"completed", "removed"} BY DEF D!Unfinished
      <3> QED BY <1>1, <3>3, <3>4, SetJobKept
    <2>2. CASE D!Job(c).state # "running"
      <3>1. UNCHANGED jobs BY <2>2 DEF D!KeepForLater
      <3> QED BY <1>1, <3>1, QuietStep
    <2> QED BY <2>1, <2>2
  <1> HIDE DEF left
  <1>4. call' = [call EXCEPT ![c] = [[[call[c] EXCEPT !.pc = "fail"] EXCEPT !.remaining = left] EXCEPT !.todo = {}]]
    BY <1>1, CallShape
  <1>5. [call[c] EXCEPT !.pc = "fail"] = Call("fail", call[c].shown, call[c].job, call[c].todo, call[c].remaining, call[c].item)
    BY PcWritten
  <1>6. [Call("fail", call[c].shown, call[c].job, call[c].todo, call[c].remaining, call[c].item) EXCEPT !.remaining = left]
           = Call("fail", call[c].shown, call[c].job, call[c].todo, left, call[c].item)
    BY DEF Call
  <1>7. [Call("fail", call[c].shown, call[c].job, call[c].todo, left, call[c].item) EXCEPT !.todo = {}]
           = Call("fail", call[c].shown, call[c].job, {}, left, call[c].item)
    BY DEF Call
  <1>8. call' = [call EXCEPT ![c] = Call("fail", call[c].shown, call[c].job, {}, left, call[c].item)]
    BY <1>4, <1>5, <1>6, <1>7
  <1>9. /\ call'[c].pc = "fail" /\ call'[c].shown = call[c].shown /\ call'[c].job = call[c].job
        /\ call'[c].todo = {} /\ call'[c].remaining = left /\ call'[c] \in CallStates
    BY <1>2, <1>8, CallShape DEF Call, CallStates, AtJob
  <1>10. PICK j \in 1..Len(jobs) : j = call[c].job BY <1>2, JobOfCall
  <1>11. \A p \in Paths : Matches(call[c].job, p)' => p \in call'[c].remaining
    <2>1. \A p \in Paths : Matches(j, p)' => Matches(j, p) BY <1>3 DEF Advances
    <2>2. \A p \in Paths : Matches(call[c].job, p)' => Matches(j, p) BY <2>1, <1>9, <1>10 DEF Matches
    <2> QED BY <2>2, <1>2, <1>9, <1>10
  <1>12. call'[c].job # 0 /\ call'[c].job <= Len(jobs')
    BY <1>3, <1>9, <1>10 DEF Advances, DeletionIInv, JobInv
  <1>13. \A p \in Paths : call'[c].shown.items[p] <= writes' + 1 BY <1>3, <1>9, CallTyped DEF CallOK
  <1>14. CallOK(c)' BY <1>9, <1>11, <1>12, <1>13 DEF CallOK
  <1>15. Holds(c) /\ Call("fail", call[c].shown, call[c].job, {}, left, call[c].item).pc \notin {"idle", "confirm"}
    BY <1>1 DEF Holds, Call
  <1> QED BY <1>1, <1>3, <1>8, <1>14, <1>15, HolderKept

LEMMA RemoveDirectoryKept == ASSUME DeletionIInv, NEW c \in Calls, D!RemoveDirectory(c) PROVE DeletionIInv'
  <1>1. /\ call[c].pc = "directory" /\ call[c].pc \in AtJob /\ D!Quiet /\ UNCHANGED <<disk, row, spoken, jobs, owner>>
        /\ call[c].remaining = {} /\ call[c].todo = {} /\ call[c].job # 0
        /\ \A p \in Paths : ~Matches(call[c].job, p)
    BY CallTyped DEF D!RemoveDirectory, D!At, AtJob, D!rows, CallOK
  <1>2. UNCHANGED <<writes, task, exiting>> BY <1>1 DEF D!Quiet
  <1>3. CASE disk = D!NoItems
    <2>1. root' = FALSE /\ D!Goes(c, "complete") BY <1>3 DEF D!RemoveDirectory
    <2>2. \A p \in Paths : disk'[p] = 0 BY <1>1, <1>3 DEF D!NoItems
    <2>3. DiskInv'
      <3>1. root' \in BOOLEAN /\ ~root' BY <2>1
      <3> QED BY <1>1, <1>2, <2>2, <3>1 DEF DeletionIInv, DiskInv
    <2>4. JobInv' /\ Advances
      <3>1. writes \in Nat /\ Len(jobs) \in Nat BY DeletionAssumption DEF DeletionIInv, DiskInv, JobInv
      <3> QED BY <1>1, <1>2, <2>1, <3>1 DEF DeletionIInv, JobInv, Matches, Tried, Advances
    <2>5. call' = [call EXCEPT ![c] = Call("complete", call[c].shown, call[c].job, call[c].todo, call[c].remaining, call[c].item)]
      BY <2>1, GoesTo
    <2>6. /\ call'[c].pc = "complete" /\ call'[c].shown = call[c].shown /\ call'[c].job = call[c].job
          /\ call'[c].todo = call[c].todo /\ call'[c].remaining = call[c].remaining /\ call'[c] \in CallStates
      BY <2>5, CallTyped, CallShape DEF Call, CallStates, AtJob
    <2>7. CallOK(c)' BY <1>1, <1>2, <2>1, <2>6, CallTyped DEF CallOK, AtJob, Matches
    <2>8. Holds(c) /\ Call("complete", call[c].shown, call[c].job, call[c].todo, call[c].remaining, call[c].item).pc \notin {"idle", "confirm"}
      BY <1>1 DEF Holds, Call
    <2> QED BY <1>1, <2>3, <2>4, <2>5, <2>7, <2>8, HolderKept
  <1>4. CASE disk # D!NoItems
    <2>1. call' = [call EXCEPT ![c].pc = "fail", ![c].remaining = {D!Root}] /\ UNCHANGED root
      BY <1>4 DEF D!RemoveDirectory
    <2>2. DiskInv' /\ JobInv' /\ Advances BY <1>1, <2>1, QuietStep
    <2>3. call' = [call EXCEPT ![c] = [[call[c] EXCEPT !.pc = "fail"] EXCEPT !.remaining = {D!Root}]]
      BY <2>1, CallShape
    <2>4. [call[c] EXCEPT !.pc = "fail"] = Call("fail", call[c].shown, call[c].job, call[c].todo, call[c].remaining, call[c].item)
      BY PcWritten
    <2>5. [Call("fail", call[c].shown, call[c].job, call[c].todo, call[c].remaining, call[c].item) EXCEPT !.remaining = {D!Root}]
             = Call("fail", call[c].shown, call[c].job, call[c].todo, {D!Root}, call[c].item)
      BY DEF Call
    <2>6. call' = [call EXCEPT ![c] = Call("fail", call[c].shown, call[c].job, call[c].todo, {D!Root}, call[c].item)]
      BY <2>3, <2>4, <2>5
    <2>7. /\ call'[c].pc = "fail" /\ call'[c].shown = call[c].shown /\ call'[c].job = call[c].job
          /\ call'[c].todo = call[c].todo /\ call'[c].remaining = {D!Root} /\ call'[c] \in CallStates
      <3>1. {D!Root} \in SUBSET Targets BY DEF Targets
      <3> QED BY <2>6, <3>1, CallTyped, CallShape DEF Call, CallStates, AtJob
    <2>8. CallOK(c)' BY <1>1, <1>2, <2>1, <2>7, CallTyped DEF CallOK, AtJob, Matches
    <2>9. Holds(c) /\ Call("fail", call[c].shown, call[c].job, call[c].todo, {D!Root}, call[c].item).pc \notin {"idle", "confirm"}
      BY <1>1 DEF Holds, Call
    <2> QED BY <1>1, <2>2, <2>6, <2>8, <2>9, HolderKept
  <1> QED BY <1>3, <1>4

LEMMA CreateKept == ASSUME DeletionIInv, NEW c \in Calls, D!Create(c) PROVE DeletionIInv'
  <1> DEFINE m == call[c].shown
             refused == \/ ~D!Scannable \/ D!Manifest(m.kind) # m
                        \/ \E j \in DOMAIN jobs : jobs[j].manifest.kind = m.kind /\ jobs[j].state \in D!Unfinished
             b == [state |-> "pending", manifest |-> m, left |-> <<>>]
  <1>1. call[c].pc = "create" /\ D!Quiet /\ UNCHANGED <<disk, root, row, spoken>>
    BY DEF D!Create, D!At, D!files
  <1>n. PICK n \in Nat : n = Len(jobs) + 1
    <2>1. Len(jobs) \in Nat BY DEF DeletionIInv, JobInv
    <2> QED BY <2>1
  <1>2. CASE refused
    <2>1. D!Return(c) /\ UNCHANGED jobs BY <1>2 DEF D!Create
    <2> QED BY <1>1, <2>1, QuietReturn
  <1>3. CASE ~refused
    <2>1. /\ jobs' = Append(jobs, b) /\ UNCHANGED owner
          /\ call' = [call EXCEPT ![c].pc = "mark", ![c].job = n, ![c].todo = D!Items(m)]
      BY <1>n, <1>3 DEF D!Create
    <2>2. UNCHANGED <<writes, task, exiting>> BY <1>1 DEF D!Quiet
    <2>3. /\ m \in Manifests /\ Len(jobs) \in Nat /\ jobs \in Seq(JobRows)
          /\ \A p \in Paths : m.items[p] <= writes + 1
      BY CallTyped DEF CallOK, DeletionIInv, JobInv
    <2>4. b \in JobRows BY <2>3 DEF JobRows, Lists, D!Unfinished
    <2>5. jobs' \in Seq(JobRows) /\ Len(jobs') = n /\ jobs'[n] = b /\ \A j \in 1..Len(jobs) : jobs'[j] = jobs[j]
      BY <1>n, <2>1, <2>3, <2>4
    <2>6. b.manifest = m /\ b.left = <<>> OBVIOUS
    <2> HIDE DEF b, m, refused
    <2>7. 1..Len(jobs') = 1..Len(jobs) \cup {n} BY <1>n, <2>3, <2>5
    <2>8. \A j \in 1..Len(jobs), p \in Paths : Matches(j, p)' <=> Matches(j, p)
      BY <1>1, <2>5 DEF Matches
    <2>9. \A j \in 1..Len(jobs), p \in Paths :
             jobs'[j].manifest.items[p] <= writes' + 1 /\ (Matches(j, p)' => Tried(j, p)')
      BY <2>2, <2>5, <2>8 DEF DeletionIInv, JobInv, Tried
    <2>10. \A p \in Paths : jobs'[n].manifest.items[p] <= writes' + 1 /\ Tried(n, p)'
      BY <2>2, <2>3, <2>5, <2>6 DEF Tried
    <2>11. JobInv' BY <1>n, <2>5, <2>7, <2>9, <2>10 DEF JobInv
    <2>12. DiskInv' BY <1>1, <2>2 DEF DeletionIInv, DiskInv
    <2>13. Advances
      <3>1. writes \in Nat BY DeletionAssumption DEF DeletionIInv, DiskInv
      <3> QED BY <1>n, <1>1, <2>2, <2>3, <2>5, <2>8, <3>1 DEF Advances
    <2>14. call' = [call EXCEPT ![c] = [[[call[c] EXCEPT !.pc = "mark"] EXCEPT !.job = n] EXCEPT !.todo = D!Items(m)]]
      BY <2>1, CallShape
    <2>15. [call[c] EXCEPT !.pc = "mark"] = Call("mark", m, call[c].job, call[c].todo, call[c].remaining, call[c].item)
      BY PcWritten DEF m
    <2>16. [Call("mark", m, call[c].job, call[c].todo, call[c].remaining, call[c].item) EXCEPT !.job = n]
              = Call("mark", m, n, call[c].todo, call[c].remaining, call[c].item)
      BY DEF Call
    <2>17. [Call("mark", m, n, call[c].todo, call[c].remaining, call[c].item) EXCEPT !.todo = D!Items(m)]
              = Call("mark", m, n, D!Items(m), call[c].remaining, call[c].item)
      BY DEF Call
    <2>18. call' = [call EXCEPT ![c] = Call("mark", m, n, D!Items(m), call[c].remaining, call[c].item)]
      BY <2>14, <2>15, <2>16, <2>17
    <2>19. D!Items(m) \in SUBSET Paths /\ call[c].remaining \in SUBSET Targets /\ call[c].item \in Targets BY CallTyped DEF D!Items
    <2>20. /\ call'[c].pc = "mark" /\ call'[c].shown = m /\ call'[c].job = n /\ call'[c].todo = D!Items(m)
           /\ call'[c].remaining = call[c].remaining /\ call'[c] \in CallStates
      BY <1>n, <2>3, <2>18, <2>19, CallShape DEF Call, CallStates, AtJob
    <2>21. \A p \in Paths : Matches(n, p)' => p \in D!Items(m) BY <2>5, <2>6 DEF Matches, D!Items
    <2>22. \A p \in Paths : (jobs[call[c].job].manifest.items[p] # 0 /\ disk[p] = jobs[call[c].job].manifest.items[p])'
                           => p \in call'[c].todo
      BY <2>20, <2>21 DEF Matches
    <2>23. \A p \in Paths : call'[c].shown.items[p] <= writes' + 1 BY <2>2, <2>3, <2>20
    <2>24. CallOK(c)' BY <1>n, <2>3, <2>5, <2>20, <2>22, <2>23 DEF CallOK, AtJob, Matches
    <2>25. Holds(c) /\ Call("mark", m, n, D!Items(m), call[c].remaining, call[c].item).pc \notin {"idle", "confirm"}
      BY <1>1 DEF Holds, Call
    <2> QED BY <2>1, <2>11, <2>12, <2>13, <2>18, <2>24, <2>25, HolderKept
  <1> QED BY <1>2, <1>3

(* A command of the host.                                                  *)
LEMMA CommandKept == ASSUME DeletionIInv, NEW c \in Calls, D!Command(c) PROVE DeletionIInv'
  <1>1. CASE D!StopTimesOut(c) \/ D!StatementFails(c)
    <2>1. D!Return(c) /\ D!Quiet /\ UNCHANGED <<disk, root, row, spoken, jobs>>
      BY <1>1 DEF D!StopTimesOut, D!StatementFails, D!files, D!rows
    <2> QED BY <2>1, QuietReturn
  <1>2. ASSUME NEW p \in Paths, D!CheckItem(c, p) \/ D!CheckFails(c, p) PROVE DeletionIInv'
    BY <1>2, CheckItemKept, CheckFailsKept
  <1> QED
    BY <1>1, <1>2, PreviewKept, StartKept, RetryKept, AcquireKept, CreateKept, MarkRunningKept, KeepForLaterKept,
       RemoveItemKept, RemoveFailsKept, EndItemsKept, CheckpointKept, RemoveDirectoryKept, MarkFailedKept, CompleteRecordingKept, CompleteMeetingKept
    DEF D!Command

(* The exit and the start of the process.                                  *)
LEMMA ProcessKept ==
    ASSUME DeletionIInv, \/ D!PrepareExit \/ D!ExitTimesOut \/ D!RecoverInterrupted \/ D!Quit \/ D!Crash \/ D!Restart
    PROVE  DeletionIInv'
  <1>1. CASE D!PrepareExit \/ D!ExitTimesOut \/ D!Restart
    <2>1. /\ UNCHANGED <<disk, root, row, spoken, jobs, writes, call, owner, task>>
          /\ exiting' = TRUE \/ exiting' = FALSE \/ UNCHANGED exiting
      BY <1>1 DEF D!PrepareExit, D!ExitTimesOut, D!Restart, D!files, D!rows, D!counts
    <2>2. task' \in BOOLEAN /\ exiting' \in BOOLEAN BY <2>1 DEF DeletionIInv, DiskInv
    <2> QED BY <2>1, <2>2, SameFiles, NoCallChanges
  <1>2. CASE D!RecoverInterrupted
    <2>1. /\ UNCHANGED <<disk, root, row, spoken, writes, call, owner, task, exiting>>
          /\ jobs' = [j \in DOMAIN jobs |-> [jobs[j] EXCEPT !.state = IF @ = "running" THEN "failed" ELSE @]]
      BY <1>2 DEF D!RecoverInterrupted, D!files
    <2>2. jobs \in Seq(JobRows) /\ Len(jobs) \in Nat /\ DOMAIN jobs = 1..Len(jobs) /\ writes \in Nat
      BY DeletionAssumption DEF DeletionIInv, JobInv, DiskInv
    <2>3. ASSUME NEW j \in 1..Len(jobs)
          PROVE  jobs'[j] \in JobRows /\ jobs'[j].manifest = jobs[j].manifest /\ jobs'[j].left = jobs[j].left
      <3>1. jobs[j] \in JobRows BY <2>2
      <3>2. jobs'[j] = [jobs[j] EXCEPT !.state = IF jobs[j].state = "running" THEN "failed" ELSE jobs[j].state]
        BY <2>1, <2>2
      <3>3. (IF jobs[j].state = "running" THEN "failed" ELSE jobs[j].state) \in D!Unfinished \cup {"completed", "removed"}
        BY <3>1 DEF JobRows, D!Unfinished
      <3> QED BY <3>1, <3>2, <3>3 DEF JobRows
    <2>4. jobs' \in Seq(JobRows) /\ Len(jobs') = Len(jobs)
      <3>1. jobs' \in [1..Len(jobs) -> JobRows] BY <2>1, <2>2, <2>3
      <3>2. \A q \in [1..Len(jobs) -> JobRows] : q \in Seq(JobRows) /\ Len(q) = Len(jobs) BY <2>2, SeqOfFunction
      <3> QED BY <3>1, <3>2
    <2>5. \A j \in 1..Len(jobs), p \in Paths : (Matches(j, p)' <=> Matches(j, p)) /\ (Tried(j, p)' <=> Tried(j, p))
      BY <2>1, <2>3 DEF Matches, Tried
    <2>6. JobInv' BY <2>1, <2>3, <2>4, <2>5 DEF DeletionIInv, JobInv
    <2>7. Advances BY <2>1, <2>2, <2>3, <2>4, <2>5 DEF Advances
    <2>8. DiskInv' BY <2>1 DEF DeletionIInv, DiskInv
    <2> QED BY <2>1, <2>6, <2>7, <2>8, NoCallChanges
  <1>3. CASE D!Quit \/ D!Crash
    <2>1. /\ UNCHANGED <<disk, root, row, spoken, jobs, writes>> /\ task' = FALSE /\ exiting' = FALSE
          /\ call' = [c \in Calls |-> D!NoCall] /\ owner' = "nobody"
      BY <1>3 DEF D!Quit, D!Crash, D!Ends, D!files, D!rows
    <2>2. task' \in BOOLEAN /\ exiting' \in BOOLEAN BY <2>1
    <2>3. DiskInv' /\ JobInv' BY <2>1, <2>2, SameFiles
    <2>4. \A c \in Calls : call'[c] = D!NoCall BY <2>1
    <2>5. \A c \in Calls : CallOK(c)' BY <2>3, <2>4, ReturnedCallOK
    <2>6. CallInv' BY <2>1, <2>5 DEF CallInv
    <2>7. OwnerInv' BY <2>1, <2>4, DeletionAssumption DEF OwnerInv, Holds, D!NoCall
    <2> QED BY <2>3, <2>6, <2>7 DEF DeletionIInv
  <1> QED BY <1>1, <1>2, <1>3

LEMMA DeletionIInvNext == ASSUME DeletionIInv, D!Next PROVE DeletionIInv'
  BY BackgroundKept, CommandKept, ProcessKept DEF D!Next

(* A deletion in the behaviours of the composition.                        *)
LEMMA DeletionIInvStep == DeletionIInv /\ [Next]_vars => DeletionIInv'
  <1> SUFFICES ASSUME DeletionIInv, [Next]_vars PROVE DeletionIInv'
    OBVIOUS
  <1>1. CASE D!Next BY <1>1, DeletionIInvNext
  <1>2. CASE UNCHANGED deletionVars
    <2>1. UNCHANGED <<disk, root, row, spoken, jobs, call, owner, task, exiting, writes>> BY <1>2 DEF deletionVars
    <2>2. task' \in BOOLEAN /\ exiting' \in BOOLEAN BY <2>1 DEF DeletionIInv, DiskInv
    <2> QED BY <2>1, <2>2, SameFiles, NoCallChanges
  <1> QED BY <1>1, <1>2 DEF Next, vars

(* Whatever the number of commands, paths and jobs, the invariant of a     *)
(* deletion holds in every state.                                          *)
THEOREM DeletionInductive == Spec => []DeletionIInv
  <1>1. Init => DeletionIInv BY DeletionIInvInit DEF Init
  <1> QED BY <1>1, DeletionIInvStep, PTL DEF Spec

(* The rows, the files and the claim of the meeting fit together: the row  *)
(* goes last, and a meeting is held by a command that is under way         *)
(* (CompleteMeeting, Acquire, Release).                                    *)
THEOREM DeletionInvHolds == Spec => []DeletionInv
  <1>1. ASSUME DeletionIInv PROVE DeletionInv
    <2>1. D!TypeOK
      <3>1. /\ disk \in [Paths -> 0..MaxWrites + 1] /\ root \in BOOLEAN /\ row \in BOOLEAN /\ spoken \in BOOLEAN
            /\ owner \in Calls \cup {"nobody"} /\ task \in BOOLEAN /\ exiting \in BOOLEAN
        BY <1>1 DEF DeletionIInv, DiskInv, OwnerInv, Versions
      <3>2. ASSUME NEW j \in DOMAIN jobs
            PROVE  /\ jobs[j].state \in D!Unfinished \cup {"completed", "removed"}
                   /\ jobs[j].left \in {<<>>} \cup {<<s>> : s \in SUBSET (Paths \cup {D!Root})}
        <4>1. jobs[j] \in JobRows BY <1>1 DEF DeletionIInv, JobInv
        <4> QED BY <4>1 DEF JobRows, Lists, Targets
      <3>3. \A c \in Calls : call[c].pc \in AtJob \cup {"idle", "confirm", "stop", "create"} BY <1>1, CallTyped
      <3> QED BY <3>1, <3>2, <3>3 DEF D!TypeOK, AtJob
    <2>2. D!RowOutlivesFiles
      <3>1. ~root => \A p \in Paths : disk[p] = 0 BY <1>1 DEF DeletionIInv, DiskInv
      <3>2. ~root => disk = D!NoItems BY <1>1, <3>1 DEF D!NoItems, DeletionIInv, DiskInv
      <3> QED BY <1>1, <3>2 DEF D!RowOutlivesFiles, DeletionIInv, DiskInv
    <2>3. D!LeaseHeld BY <1>1 DEF D!LeaseHeld, DeletionIInv, OwnerInv, Holds
    <2> QED BY <2>1, <2>2, <2>3 DEF DeletionInv, D!DeletionInv
  <1> QED BY <1>1, DeletionInductive, PTL

(* Two commands are never both under way: one of them holds the meeting    *)
(* (enterOperation, claim).                                                *)
THEOREM OneCommandHolds == Spec => [](\A c, d \in Calls : Holds(c) /\ Holds(d) => c = d)
  <1>1. DeletionIInv => \A c, d \in Calls : Holds(c) /\ Holds(d) => c = d BY DEF DeletionIInv, OwnerInv
  <1> QED BY <1>1, DeletionInductive, PTL

(* Whatever fails or crashes, the next retry of a job tries every item of  *)
(* its manifest that is still as it was confirmed (SaveRemaining,          *)
(* failedIDs).                                                             *)
THEOREM RetryReaches == Spec => []RetryReachesAll
  <1>1. ASSUME DeletionIInv PROVE RetryReachesAll
    <2> SUFFICES ASSUME NEW j \in DOMAIN jobs, NEW p \in D!Items(jobs[j].manifest),
                        disk[p] = jobs[j].manifest.items[p]
                 PROVE  p \in D!FailedIDs(jobs[j])
      BY DEF RetryReachesAll, D!RetryReachesAll
    <2>1. j \in 1..Len(jobs) /\ p \in Paths /\ Matches(j, p) BY <1>1 DEF DeletionIInv, JobInv, D!Items, Matches
    <2>2. Tried(j, p) BY <1>1, <2>1 DEF DeletionIInv, JobInv
    <2> QED BY <2>2 DEF Tried, D!FailedIDs
  <1> QED BY <1>1, DeletionInductive, PTL

-----------------------------------------------------------------------------
(***************************************************************************)
(* The page of a guest.                                                    *)
(*                                                                         *)
(* A page that was answered holds the visible events between the cursor    *)
(* its read started from and the seq it ends with; the cursor has not      *)
(* moved back since, so merging the page leaves no gap below the cursor.   *)
(***************************************************************************)
ReadStates == [pc : {"idle", "asking", "answered"}, kind : {"start", "poll", "send"}, after : Nat,
               seqs : SUBSET Nat, next : Nat, more : BOOLEAN]
EventInv ==
    /\ events \in Seq(BOOLEAN) /\ unpublished \subseteq 1..Len(events) /\ Len(events) <= MaxEvents
    /\ channel \in 0..P!Unsubscribed
    /\ socket \in {"none", "connecting", "open"} /\ server \in {"none", "upgraded", "subscribed"}
    /\ timer \in BOOLEAN /\ reconnect \in BOOLEAN /\ hidden \in BOOLEAN /\ faults \in 0..MaxFaults
ReadOK(r) ==
    /\ read[r] \in ReadStates
    /\ read[r].pc # "idle" => read[r].after <= cursor
    /\ read[r].pc = "answered" =>
          /\ read[r].next <= Len(events) /\ read[r].seqs \subseteq 1..Len(events)
          /\ \A n \in 1..Len(events) :
                n \in read[r].seqs <=> read[r].after < n /\ n <= read[r].next /\ events[n]
ReadInv == DOMAIN read = Reads /\ read = [r \in Reads |-> read[r]] /\ \A r \in Reads : ReadOK(r)
ShownInv ==
    /\ cursor \in 0..Len(events)
    /\ shown \in Seq(Nat) /\ P!Range(shown) \subseteq 1..Len(events) /\ P!Increasing(shown)
    /\ \A n \in 1..cursor : events[n] => n \in P!Range(shown)
TimelineIInv == EventInv /\ ReadInv /\ ShownInv

LessOnNat == {ss \in Nat \X Nat : ss[1] < ss[2]}

LEMMA NatOrder == IsWellFoundedOn(LessOnNat, Nat)
  BY NatLessThanWellFounded, Zenon DEF OpToRel, LessOnNat

(* A set of natural numbers that is not empty has a least member.          *)
LEMMA LeastOf ==
    ASSUME NEW S \in SUBSET Nat, S # {}
    PROVE  \E s \in S : \A r \in S : s <= r
  <1>1. PICK s \in S : \A r \in S : ~ (<<r, s>> \in LessOnNat) BY NatOrder, WFMin, Zenon
  <1>2. \A r, t \in S : r < t => <<r, t>> \in LessOnNat BY DEF LessOnNat
  <1>3. \A r \in S : ~ (r < s) BY <1>1, <1>2
  <1> QED BY <1>3

(* A bounded one has a greatest member, and Max is that.                   *)
LEMMA MaxOf ==
    ASSUME NEW S \in SUBSET Nat, S # {}, NEW b \in Nat, \A s \in S : s <= b
    PROVE  P!Max(S) \in S /\ \A s \in S : s <= P!Max(S)
  <1> DEFINE U == {u \in Nat : \A s \in S : s <= u}
  <1>1. PICK m \in U : \A u \in U : m <= u
    <2>1. U \in SUBSET Nat /\ b \in U OBVIOUS
    <2> HIDE DEF U
    <2> QED BY <2>1, LeastOf
  <1>2. m \in S
    <2> SUFFICES ASSUME m \notin S PROVE FALSE
      OBVIOUS
    <2>1. PICK s \in S : TRUE OBVIOUS
    <2>2. \A t \in S : t < m OBVIOUS
    <2>3. m - 1 \in Nat BY <2>1, <2>2
    <2>4. m - 1 \in U BY <2>2, <2>3
    <2> QED BY <2>4, <1>1, <2>3
  <1>3. \A s \in S : m >= s OBVIOUS
  <1> QED BY <1>2, <1>3 DEF P!Max

(* A set of numbers has an enumeration in increasing order, and Sorted is  *)
(* one.                                                                    *)
Enumerates(S, s) == s \in [1..Cardinality(S) -> S] /\ P!Range(s) = S /\ P!Increasing(s)
Enumerable(n) == \A S \in SUBSET (1..n) : \E s : Enumerates(S, s)

LEMMA EnumerableAll == ASSUME NEW n \in Nat PROVE Enumerable(n)
  <1> DEFINE Bad == {k \in Nat : ~Enumerable(k)}
  <1> SUFFICES ASSUME Bad # {} PROVE FALSE
    OBVIOUS
  <1>1. PICK m \in Bad : \A k \in Bad : m <= k
    <2>1. Bad \in SUBSET Nat OBVIOUS
    <2> HIDE DEF Bad
    <2> QED BY <2>1, LeastOf
  <1>2. PICK S \in SUBSET (1..m) : ~\E s : Enumerates(S, s) BY <1>1 DEF Enumerable
  <1>3. m # 0
    <2> SUFFICES ASSUME m = 0 PROVE FALSE
      OBVIOUS
    <2>1. S = {} BY <1>2
    <2>2. Cardinality(S) = 0 BY <2>1, FS_EmptySet
    <2>3. <<>> \in [1..Cardinality(S) -> S] /\ DOMAIN <<>> = {} BY <2>1, <2>2
    <2>4. P!Range(<<>>) = {} BY <2>3 DEF P!Range
    <2>5. P!Increasing(<<>>) BY <2>3 DEF P!Increasing
    <2> QED BY <1>2, <2>1, <2>3, <2>4, <2>5 DEF Enumerates
  <1>4. m \in Nat /\ m - 1 \in Nat /\ Enumerable(m - 1)
    <2>1. m - 1 \in Nat /\ ~(m <= m - 1) BY <1>3
    <2> QED BY <2>1, <1>1
  <1> DEFINE T == S \ {m}
  <1>5. T \in SUBSET (1..(m - 1)) BY <1>4
  <1>6. m \in S
    <2>1. m \notin S => S \in SUBSET (1..(m - 1)) BY <1>5
    <2> QED BY <2>1, <1>2, <1>4 DEF Enumerable
  <1>7. PICK t : Enumerates(T, t) BY <1>4, <1>5 DEF Enumerable
  <1>8. IsFiniteSet(S)
    <2>1. IsFiniteSet(1..m) BY <1>4, FS_Interval
    <2> QED BY <2>1, FS_Subset
  <1>9. Cardinality(S) \in Nat /\ Cardinality(T) = Cardinality(S) - 1 /\ IsFiniteSet(T)
    BY <1>6, <1>8, FS_RemoveElement, FS_CardinalityType
  <1>10. Cardinality(T) \in Nat BY <1>9, FS_CardinalityType
  <1> DEFINE c == Cardinality(S)
             s == [i \in 1..c |-> IF i = c THEN m ELSE t[i]]
  <1>11. c \in Nat /\ c # 0 /\ Cardinality(T) = c - 1 BY <1>9, <1>10
  <1>12. t \in [1..(c - 1) -> T] /\ P!Range(t) = T /\ P!Increasing(t) BY <1>7, <1>11 DEF Enumerates
  <1> HIDE DEF c
  <1>13. \A i \in 1..c : i # c => i \in 1..(c - 1) /\ t[i] \in T BY <1>11, <1>12
  <1>14. s \in [1..c -> S] BY <1>6, <1>13
  <1>15. P!Range(s) = S
    <2>1. ASSUME NEW x \in S PROVE \E i \in 1..c : s[i] = x
      <3>1. CASE x = m
        <4>1. c \in 1..c BY <1>11
        <4> QED BY <3>1, <4>1
      <3>2. CASE x # m
        <4>1. x \in P!Range(t) BY <1>12, <3>2
        <4>2. PICK i \in 1..(c - 1) : t[i] = x BY <4>1, <1>12 DEF P!Range
        <4>3. i \in 1..c /\ i # c BY <1>11
        <4> QED BY <4>2, <4>3
      <3> QED BY <3>1, <3>2
    <2>2. DOMAIN s = 1..c /\ \A i \in 1..c : s[i] \in S BY <1>14
    <2> HIDE DEF s
    <2> QED BY <2>1, <2>2 DEF P!Range
  <1>16. P!Increasing(s)
    <2> SUFFICES ASSUME NEW i \in 1..c, NEW j \in 1..c, i < j PROVE s[i] < s[j]
      BY DEF P!Increasing
    <2>1. i # c /\ i \in 1..(c - 1) /\ t[i] \in T BY <1>11, <1>13
    <2>2. CASE j = c
      <3>1. t[i] \in 1..(m - 1) BY <2>1, <1>5
      <3> QED BY <2>1, <2>2, <3>1, <1>4
    <2>3. CASE j # c
      <3>1. j \in 1..(c - 1) BY <2>3, <1>13
      <3>2. t[i] < t[j] BY <2>1, <3>1, <1>12 DEF P!Increasing
      <3> QED BY <2>1, <2>3, <3>2
    <2> QED BY <2>2, <2>3
  <1> HIDE DEF s
  <1>17. Enumerates(S, s) BY <1>14, <1>15, <1>16 DEF Enumerates, c
  <1> QED BY <1>17, <1>2

LEMMA SortedEnumerates ==
    ASSUME NEW n \in Nat, NEW S \in SUBSET (1..n)
    PROVE  /\ P!Sorted(S) \in Seq(Nat) /\ P!Range(P!Sorted(S)) = S /\ P!Increasing(P!Sorted(S))
  <1>1. \E s \in [1..Cardinality(S) -> S] : P!Range(s) = S /\ P!Increasing(s)
    <2>1. PICK s : Enumerates(S, s) BY EnumerableAll DEF Enumerable
    <2> QED BY <2>1 DEF Enumerates
  <1>2. /\ P!Sorted(S) \in [1..Cardinality(S) -> S]
        /\ P!Range(P!Sorted(S)) = S /\ P!Increasing(P!Sorted(S))
    <2>1. P!Cardinality(S) = Cardinality(S) BY Zenon DEF P!Cardinality, Cardinality, P!IsFiniteSet, IsFiniteSet
    <2>2. \E s \in [1..P!Cardinality(S) -> S] : P!Range(s) = S /\ P!Increasing(s) BY <1>1, <2>1
    <2>3. /\ P!Sorted(S) \in [1..P!Cardinality(S) -> S]
          /\ P!Range(P!Sorted(S)) = S /\ P!Increasing(P!Sorted(S))
      BY <2>2, Zenon DEF P!Sorted
    <2> QED BY <2>1, <2>3
  <1>3. Cardinality(S) \in Nat
    <2>1. IsFiniteSet(1..n) BY FS_Interval
    <2>2. IsFiniteSet(S) BY <2>1, FS_Subset
    <2> QED BY <2>2, FS_CardinalityType
  <1>4. P!Sorted(S) \in [1..Cardinality(S) -> Nat]
    <2>1. S \subseteq Nat OBVIOUS
    <2> QED BY <1>2, <2>1
  <1>5. \A q \in [1..Cardinality(S) -> Nat] : q \in Seq(Nat) BY <1>3, SeqOfFunction
  <1> QED BY <1>2, <1>4, <1>5

(* The first read of the page has the whole meeting before it.             *)
LEMMA TimelineIInvInit == ASSUME P!Init PROVE TimelineIInv
  <1>1. P!NoRead \in ReadStates /\ P!NoRead.pc = "idle" BY DEF P!NoRead, ReadStates
  <1>2. EventInv
    <2>1. /\ events = <<>> /\ unpublished = {} /\ channel = MaxEvents + 1 /\ socket = "none" /\ server = "none"
          /\ timer = FALSE /\ reconnect = FALSE /\ hidden = FALSE /\ faults = 0
      BY DEF P!Init, P!Unsubscribed
    <2>2. timer \in BOOLEAN /\ reconnect \in BOOLEAN /\ hidden \in BOOLEAN BY <2>1
    <2> QED BY <2>1, <2>2, BoundsAssumption DEF EventInv, P!Unsubscribed
  <1> DEFINE a == [P!NoRead EXCEPT !.pc = "asking", !.kind = "start"]
  <1>3. a \in ReadStates /\ a.pc = "asking" /\ a.after <= 0
    <2>1. a = [[P!NoRead EXCEPT !.pc = "asking"] EXCEPT !.kind = "start"] BY DEF P!NoRead
    <2>2. [P!NoRead EXCEPT !.pc = "asking"] \in ReadStates BY DEF P!NoRead, ReadStates
    <2>3. a \in ReadStates /\ a.pc = "asking" /\ a.after = P!NoRead.after BY <2>1, <2>2 DEF P!NoRead, ReadStates
    <2>4. P!NoRead.after = 0 BY DEF P!NoRead
    <2> HIDE DEF a
    <2> QED BY <2>3, <2>4
  <1>4. ReadInv
    <2>1. \A r \in Reads : read[r] = P!NoRead \/ read[r] = a BY DEF P!Init
    <2> HIDE DEF a
    <2>2. DOMAIN read = Reads /\ read = [r \in Reads |-> read[r]] /\ cursor = 0 BY DEF P!Init
    <2>3. \A r \in Reads : read[r] \in ReadStates /\ read[r].pc # "answered" /\ (read[r].pc # "idle" => read[r].after <= 0)
      BY <1>1, <1>3, <2>1
    <2> QED BY <2>2, <2>3 DEF ReadInv, ReadOK
  <1>5. ShownInv BY DEF P!Init, ShownInv, P!Range, P!Increasing
  <1> QED BY <1>2, <1>4, <1>5 DEF TimelineIInv

(* What the parts of the invariant say of sequences and numbers.           *)
LEMMA TimelineTyped ==
    ASSUME TimelineIInv
    PROVE  /\ events \in Seq(BOOLEAN) /\ Len(events) \in Nat /\ DOMAIN events = 1..Len(events)
           /\ cursor \in Nat /\ cursor <= Len(events) /\ Limit \in Nat /\ Limit > 0 /\ MaxEvents \in Nat /\ MaxFaults \in Nat
           /\ P!Unsubscribed = MaxEvents + 1
  BY TimelineAssumption, BoundsAssumption DEF TimelineIInv, EventInv, ShownInv, P!Unsubscribed

(* Neither the events a read was answered with nor the shown ones are      *)
(* touched by an event that is committed later.                            *)
LEMMA ReadKept ==
    ASSUME TimelineIInv, NEW r \in Reads, read'[r] = read[r], cursor <= cursor', cursor' \in Nat,
           Len(events') \in Nat, Len(events) <= Len(events'), \A n \in 1..Len(events) : events'[n] = events[n]
    PROVE  ReadOK(r)'
  <1>1. ReadOK(r) /\ cursor \in Nat /\ Len(events) \in Nat BY TimelineTyped DEF TimelineIInv, ReadInv
  <1>2. read[r] \in ReadStates BY <1>1 DEF ReadOK
  <1>3. read[r].after \in Nat /\ read[r].next \in Nat BY <1>2 DEF ReadStates
  <1>4. read'[r].pc # "idle" => read'[r].after <= cursor' BY <1>1, <1>3 DEF ReadOK
  <1>5. ASSUME read'[r].pc = "answered"
        PROVE  /\ read'[r].next <= Len(events') /\ read'[r].seqs \subseteq 1..Len(events')
               /\ \A n \in 1..Len(events') :
                     n \in read'[r].seqs <=> read'[r].after < n /\ n <= read'[r].next /\ events'[n]
    <2>1. /\ read[r].next <= Len(events) /\ read[r].seqs \subseteq 1..Len(events)
          /\ \A n \in 1..Len(events) :
                n \in read[r].seqs <=> read[r].after < n /\ n <= read[r].next /\ events[n]
      BY <1>1, <1>5 DEF ReadOK
    <2>2. read[r].next <= Len(events') /\ read[r].seqs \subseteq 1..Len(events') BY <1>1, <1>3, <2>1
    <2>3. ASSUME NEW n \in 1..Len(events')
          PROVE  n \in read[r].seqs <=> read[r].after < n /\ n <= read[r].next /\ events'[n]
      <3>1. CASE n \in 1..Len(events)
        <4>1. events'[n] = events[n] BY <3>1
        <4>2. n \in read[r].seqs <=> read[r].after < n /\ n <= read[r].next /\ events[n] BY <3>1, <2>1
        <4> QED BY <4>1, <4>2
      <3>2. CASE n \notin 1..Len(events)
        <4>1. n \notin read[r].seqs /\ ~(n <= read[r].next) BY <1>1, <1>3, <2>1, <2>3, <3>2
        <4> QED BY <4>1
      <3> QED BY <3>1, <3>2
    <2> QED BY <2>2, <2>3
  <1> QED BY <1>2, <1>4, <1>5 DEF ReadOK

(* The page and its reads stay, while the connection and the timers move.  *)
LEMMA ConnectionStep ==
    ASSUME TimelineIInv, UNCHANGED <<events, read, cursor, shown>>, EventInv'
    PROVE  TimelineIInv'
  <1>1. \A r \in Reads : ReadOK(r)' BY TimelineTyped, ReadKept
  <1>2. ReadInv' BY <1>1 DEF TimelineIInv, ReadInv
  <1>3. ShownInv' BY DEF TimelineIInv, ShownInv
  <1> QED BY <1>2, <1>3 DEF TimelineIInv

(* One read goes back to idle, and the page stays.                         *)
LEMMA ReadStops ==
    ASSUME TimelineIInv, NEW r \in Reads, P!Finish(r), cursor <= cursor', cursor' \in Nat, UNCHANGED events
    PROVE  ReadInv'
  <1>1. read'[r] = P!NoRead /\ \A q \in Reads \ {r} : read'[q] = read[q]
    BY DEF P!Finish, TimelineIInv, ReadInv
  <1>2. P!NoRead \in ReadStates /\ P!NoRead.pc = "idle" BY DEF P!NoRead, ReadStates
  <1>3. ReadOK(r)' BY <1>1, <1>2 DEF ReadOK
  <1>4. \A q \in Reads \ {r} : ReadOK(q)' BY <1>1, TimelineTyped, ReadKept
  <1>5. DOMAIN read' = Reads /\ read' = [q \in Reads |-> read'[q]] BY DEF P!Finish, TimelineIInv, ReadInv
  <1> QED BY <1>3, <1>4, <1>5 DEF ReadInv

(* A read that was idle asks for what follows the cursor.                  *)
LEMMA ReadStarts ==
    ASSUME TimelineIInv, NEW k \in {"poll", "send"}, P!Asks(k), UNCHANGED cursor, Len(events') \in Nat,
           Len(events) <= Len(events'), \A n \in 1..Len(events) : events'[n] = events[n]
    PROVE  ReadInv'
  <1>1. PICK r \in Reads :
           read' = [read EXCEPT ![r] = [P!NoRead EXCEPT !.pc = "asking", !.kind = k, !.after = cursor]]
    BY DEF P!Asks, P!IdleReads
  <1> DEFINE a == [P!NoRead EXCEPT !.pc = "asking", !.kind = k, !.after = cursor]
  <1>2. read'[r] = a /\ \A q \in Reads \ {r} : read'[q] = read[q] BY <1>1 DEF TimelineIInv, ReadInv
  <1>3. a \in ReadStates /\ a.pc = "asking" /\ a.after = cursor
    <2>1. cursor \in Nat BY TimelineTyped
    <2> QED BY <2>1 DEF P!NoRead, ReadStates
  <1> HIDE DEF a
  <1>4. ReadOK(r)' BY <1>2, <1>3, TimelineTyped DEF ReadOK
  <1>5. \A q \in Reads \ {r} : ReadOK(q)' BY <1>2, TimelineTyped, ReadKept
  <1>6. DOMAIN read' = Reads /\ read' = [q \in Reads |-> read'[q]] BY <1>1 DEF TimelineIInv, ReadInv
  <1> QED BY <1>4, <1>5, <1>6 DEF ReadInv

(* An event is committed.                                                  *)
LEMMA CommitStep ==
    ASSUME TimelineIInv, NEW v \in BOOLEAN, P!Commit(v)
    PROVE  /\ events' \in Seq(BOOLEAN) /\ Len(events') = Len(events) + 1 /\ Len(events') <= MaxEvents
           /\ \A n \in 1..Len(events) : events'[n] = events[n]
           /\ unpublished' \subseteq 1..Len(events')
  <1>1. /\ Len(events) < MaxEvents /\ events' = Append(events, v)
        /\ unpublished' = unpublished \cup {Len(events) + 1}
    BY DEF P!Commit
  <1>2. events \in Seq(BOOLEAN) /\ Len(events) \in Nat /\ MaxEvents \in Nat /\ unpublished \subseteq 1..Len(events)
    BY TimelineTyped DEF TimelineIInv, EventInv
  <1>3. events' \in Seq(BOOLEAN) /\ Len(events') = Len(events) + 1 /\ \A n \in 1..Len(events) : events'[n] = events[n]
    BY <1>1, <1>2
  <1>4. unpublished' \subseteq 1..(Len(events) + 1) /\ Len(events) + 1 <= MaxEvents
    <2> DEFINE u == unpublished
               m == Len(events)
    <2>1. m \in Nat /\ m < MaxEvents /\ MaxEvents \in Nat /\ u \subseteq 1..m BY <1>1, <1>2
    <2> HIDE DEF u, m
    <2>2. u \cup {m + 1} \subseteq 1..(m + 1) /\ m + 1 <= MaxEvents BY <2>1
    <2> QED BY <1>1, <2>2 DEF u, m
  <1> QED BY <1>3, <1>4

LEMMA CommittedShown ==
    ASSUME TimelineIInv, NEW v \in BOOLEAN, P!Commit(v), UNCHANGED <<cursor, shown>>
    PROVE  ShownInv'
  <1>1. Len(events) \in Nat /\ cursor \in Nat /\ cursor <= Len(events) BY TimelineTyped
  <1>2. Len(events') = Len(events) + 1 /\ \A n \in 1..Len(events) : events'[n] = events[n] BY CommitStep
  <1>3. \A n \in 1..cursor : events'[n] = events[n] BY <1>1, <1>2
  <1> QED BY <1>1, <1>2, <1>3 DEF TimelineIInv, ShownInv

(* The page of a read: the seq it ends with, and what it holds.            *)
LEMMA PageOf ==
    ASSUME TimelineIInv, NEW a \in Nat, a <= cursor
    PROVE  /\ P!NextSeq(a) \in Nat /\ P!NextSeq(a) <= Len(events)
           /\ \A n \in 1..Len(events) : n \in P!Trimmed(a) <=> a < n /\ n <= P!NextSeq(a)
           /\ P!Trimmed(a) \subseteq 1..Len(events)
  <1>1. Len(events) \in Nat /\ DOMAIN events = 1..Len(events) /\ cursor \in Nat /\ cursor <= Len(events) /\ Limit \in Nat
    BY TimelineTyped
  <1>2. \A n : n \in P!Trimmed(a) <=> n \in 1..Len(events) /\ a < n /\ n <= a + Limit
    BY <1>1 DEF P!Trimmed, P!Scanned
  <1>3. CASE P!Trimmed(a) = {}
    <2>1. P!NextSeq(a) = a BY <1>3 DEF P!NextSeq
    <2> QED BY <1>1, <1>2, <1>3, <2>1
  <1>4. CASE P!Trimmed(a) # {}
    <2>1. P!NextSeq(a) = P!Max(P!Trimmed(a)) BY <1>4 DEF P!NextSeq
    <2>2. P!Trimmed(a) \in SUBSET Nat /\ \A n \in P!Trimmed(a) : n <= Len(events) BY <1>1, <1>2
    <2>3. P!NextSeq(a) \in P!Trimmed(a) /\ \A n \in P!Trimmed(a) : n <= P!NextSeq(a)
      BY <1>1, <1>4, <2>1, <2>2, MaxOf
    <2> QED BY <1>1, <1>2, <2>3
  <1> QED BY <1>3, <1>4

LEMMA ListKept == ASSUME TimelineIInv, NEW r \in Reads, P!List(r) PROVE TimelineIInv'
  <1> DEFINE a == read[r].after
             seqs == {n \in P!Trimmed(a) : events[n]}
             more == P!Cardinality(P!Scanned(a)) > Limit
  <1>1. /\ read[r].pc = "asking" /\ UNCHANGED <<events, unpublished, channel, socket, server, timer, reconnect, hidden>>
        /\ UNCHANGED <<cursor, shown, faults>>
        /\ read' = [read EXCEPT ![r] = [read[r] EXCEPT !.pc = "answered", !.next = P!NextSeq(a), !.seqs = seqs, !.more = more]]
    BY DEF P!List, P!meetingVars, P!connection, P!timers, P!Works
  <1>2. read[r] \in ReadStates /\ a \in Nat /\ a <= cursor BY <1>1 DEF TimelineIInv, ReadInv, ReadOK, ReadStates
  <1>3. more \in BOOLEAN OBVIOUS
  <1>4. /\ P!NextSeq(a) \in Nat /\ P!NextSeq(a) <= Len(events) /\ P!Trimmed(a) \subseteq 1..Len(events)
        /\ \A n \in 1..Len(events) : n \in P!Trimmed(a) <=> a < n /\ n <= P!NextSeq(a)
    BY <1>2, PageOf
  <1>5. seqs \in SUBSET Nat /\ seqs \subseteq 1..Len(events) BY <1>4
  <1>6. \A n \in 1..Len(events) : n \in seqs <=> a < n /\ n <= P!NextSeq(a) /\ events[n] BY <1>4
  <1> HIDE DEF seqs, more
  <1>7. /\ read'[r].pc = "answered" /\ read'[r].after = a /\ read'[r].next = P!NextSeq(a) /\ read'[r].seqs = seqs
        /\ read'[r] \in ReadStates
    <2> DEFINE k1 == [read[r] EXCEPT !.pc = "answered"]
               k2 == [k1 EXCEPT !.next = P!NextSeq(a)]
               k3 == [k2 EXCEPT !.seqs = seqs]
               k4 == [k3 EXCEPT !.more = more]
    <2>1. k1 \in ReadStates /\ k1.pc = "answered" /\ k1.after = a BY <1>2 DEF ReadStates
    <2>2. read'[r] = k4 BY <1>1, <1>2 DEF TimelineIInv, ReadInv
    <2> HIDE DEF k1
    <2>3. k2 \in ReadStates /\ k2.pc = "answered" /\ k2.after = a /\ k2.next = P!NextSeq(a) BY <2>1, <1>4 DEF ReadStates
    <2> HIDE DEF k2
    <2>4. /\ k3 \in ReadStates /\ k3.pc = "answered" /\ k3.after = a /\ k3.next = P!NextSeq(a) /\ k3.seqs = seqs
      BY <2>3, <1>5 DEF ReadStates
    <2> HIDE DEF k3
    <2>5. /\ k4 \in ReadStates /\ k4.pc = "answered" /\ k4.after = a /\ k4.next = P!NextSeq(a) /\ k4.seqs = seqs
      BY <2>4, <1>3 DEF ReadStates
    <2> HIDE DEF k4
    <2> QED BY <2>2, <2>5
  <1>8. ReadOK(r)' BY <1>1, <1>2, <1>4, <1>5, <1>6, <1>7 DEF ReadOK
  <1>9. \A q \in Reads \ {r} : ReadOK(q)'
    <2>1. \A q \in Reads \ {r} : read'[q] = read[q] BY <1>1 DEF TimelineIInv, ReadInv
    <2> QED BY <1>1, <2>1, TimelineTyped, ReadKept
  <1>10. DOMAIN read' = Reads /\ read' = [q \in Reads |-> read'[q]] BY <1>1 DEF TimelineIInv, ReadInv
  <1>11. ReadInv' BY <1>8, <1>9, <1>10 DEF ReadInv
  <1>12. EventInv' /\ ShownInv' BY <1>1 DEF TimelineIInv, EventInv, ShownInv, P!Unsubscribed
  <1> QED BY <1>11, <1>12 DEF TimelineIInv

(* The page of a read is merged: nothing below the new cursor is left out, *)
(* whatever other reads did to the cursor meanwhile.                       *)
LEMMA ApplyKept == ASSUME TimelineIInv, NEW r \in Reads, P!Apply(r) PROVE TimelineIInv'
  <1> DEFINE S == P!Range(shown) \cup read[r].seqs
  <1>1. /\ read[r].pc = "answered" /\ P!Finish(r) /\ shown' = P!Sorted(S) /\ cursor' = P!Max({cursor, read[r].next})
        /\ UNCHANGED <<events, unpublished, channel, server, reconnect, hidden, faults>>
    BY DEF P!Apply, P!Merged, P!meetingVars, P!Works
  <1>2. /\ read[r] \in ReadStates /\ read[r].after <= cursor /\ read[r].next <= Len(events)
        /\ read[r].seqs \subseteq 1..Len(events)
        /\ \A n \in 1..Len(events) :
              n \in read[r].seqs <=> read[r].after < n /\ n <= read[r].next /\ events[n]
    BY <1>1 DEF TimelineIInv, ReadInv, ReadOK
  <1>3. read[r].after \in Nat /\ read[r].next \in Nat BY <1>2 DEF ReadStates
  <1>4. cursor \in Nat /\ cursor <= Len(events) /\ Len(events) \in Nat BY TimelineTyped
  <1>5. cursor' \in {cursor, read[r].next} /\ cursor <= cursor' /\ cursor' <= Len(events) /\ cursor' \in Nat
    <2> DEFINE C == {cursor, read[r].next}
    <2>1. C \in SUBSET Nat /\ C # {} /\ \A n \in C : n <= Len(events) BY <1>2, <1>3, <1>4
    <2>2. cursor' = P!Max(C) /\ cursor \in C BY <1>1
    <2> HIDE DEF C
    <2>3. cursor' \in C /\ cursor <= cursor' BY <1>4, <2>1, <2>2, MaxOf
    <2> QED BY <2>1, <2>3 DEF C
  <1>6. S \subseteq 1..Len(events) BY <1>2 DEF TimelineIInv, ShownInv
  <1> HIDE DEF S
  <1>7. shown' \in Seq(Nat) /\ P!Range(shown') = S /\ P!Increasing(shown')
    BY <1>1, <1>4, <1>6, SortedEnumerates
  <1>8. ASSUME NEW n \in 1..cursor', events[n] PROVE n \in S
    <2>1. CASE n <= cursor
      <3>1. n \in 1..cursor BY <1>4, <1>5, <2>1
      <3> QED BY <3>1, <1>8 DEF TimelineIInv, ShownInv, S
    <2>2. CASE ~(n <= cursor)
      <3>1. cursor' = read[r].next /\ n \in 1..Len(events) /\ read[r].after < n /\ n <= read[r].next
        BY <1>2, <1>3, <1>4, <1>5, <2>2
      <3>2. n \in read[r].seqs BY <1>2, <1>8, <3>1
      <3> QED BY <3>2 DEF S
    <2> QED BY <2>1, <2>2
  <1>9. ShownInv'
    <2>1. P!Range(shown)' = S /\ P!Increasing(shown)' BY <1>7 DEF P!Range, P!Increasing
    <2>2. P!Range(shown)' \subseteq 1..Len(events') /\ cursor' \in 0..Len(events') BY <1>1, <1>4, <1>5, <1>6, <2>1
    <2>3. \A n \in 1..cursor' : events'[n] => n \in P!Range(shown)' BY <1>1, <1>8, <2>1
    <2> QED BY <1>7, <2>1, <2>2, <2>3 DEF ShownInv
  <1>10. ReadInv' BY <1>1, <1>5, ReadStops
  <1>11. EventInv'
    <2>1. timer' \in BOOLEAN BY DEF P!Apply
    <2>2. socket' \in {"none", "connecting", "open"} BY DEF P!Apply, P!Connects, TimelineIInv, EventInv
    <2> QED BY <1>1, <2>1, <2>2 DEF TimelineIInv, EventInv, P!Unsubscribed
  <1> QED BY <1>9, <1>10, <1>11 DEF TimelineIInv

LEMMA ReadFailsKept == ASSUME TimelineIInv, NEW r \in Reads, P!ReadFails(r) PROVE TimelineIInv'
  <1>1. /\ P!Finish(r) /\ UNCHANGED <<events, unpublished, channel, socket, server, reconnect, hidden, cursor, shown>>
        /\ faults < MaxFaults /\ faults' = faults + 1
    BY DEF P!ReadFails, P!Fails, P!meetingVars, P!connection
  <1>2. cursor \in Nat BY TimelineTyped
  <1>3. ReadInv' BY <1>1, <1>2, ReadStops
  <1>4. timer' \in BOOLEAN BY DEF P!ReadFails
  <1>5. faults' \in 0..MaxFaults BY <1>1, TimelineTyped DEF TimelineIInv, EventInv
  <1>6. EventInv' /\ ShownInv' BY <1>1, <1>4, <1>5 DEF TimelineIInv, EventInv, ShownInv, P!Unsubscribed
  <1> QED BY <1>3, <1>6 DEF TimelineIInv

LEMMA PollKept == ASSUME TimelineIInv, P!Poll PROVE TimelineIInv'
  <1>1. /\ P!Asks("poll") /\ timer' = FALSE
        /\ UNCHANGED <<events, unpublished, channel, socket, server, reconnect, hidden, cursor, shown, faults>>
    BY DEF P!Poll, P!Works, P!meetingVars, P!connection
  <1>2. Len(events) \in Nat BY TimelineTyped
  <1>3. ReadInv' BY <1>1, <1>2, ReadStarts
  <1>4. timer' \in BOOLEAN BY <1>1
  <1>5. EventInv' /\ ShownInv' BY <1>1, <1>4 DEF TimelineIInv, EventInv, ShownInv, P!Unsubscribed
  <1> QED BY <1>3, <1>5 DEF TimelineIInv

LEMMA CommitsKept == ASSUME TimelineIInv, P!EventCommitted \/ P!Send PROVE TimelineIInv'
  <1>1. /\ UNCHANGED <<channel, socket, server, timer, reconnect, hidden, cursor, shown, faults>>
        /\ \E v \in BOOLEAN : P!Commit(v)
        /\ UNCHANGED read \/ P!Asks("send")
    BY DEF P!EventCommitted, P!Send, P!connection, P!timers, P!Works
  <1>2. PICK v \in BOOLEAN : P!Commit(v) BY <1>1
  <1>3. /\ events' \in Seq(BOOLEAN) /\ Len(events') = Len(events) + 1 /\ Len(events') <= MaxEvents
        /\ \A n \in 1..Len(events) : events'[n] = events[n]
        /\ unpublished' \subseteq 1..Len(events')
    BY <1>2, CommitStep
  <1>4. Len(events) \in Nat /\ Len(events') \in Nat /\ Len(events) <= Len(events') /\ cursor \in Nat
    BY <1>3, TimelineTyped
  <1>5. ReadInv'
    <2>1. CASE UNCHANGED read
      <3>1. \A r \in Reads : ReadOK(r)' BY <1>1, <1>3, <1>4, <2>1, ReadKept
      <3> QED BY <2>1, <3>1 DEF TimelineIInv, ReadInv
    <2>2. CASE P!Asks("send") BY <1>1, <1>3, <1>4, <2>2, ReadStarts
    <2> QED BY <1>1, <2>1, <2>2
  <1>6. ShownInv' BY <1>1, <1>2, CommittedShown
  <1>7. EventInv' BY <1>1, <1>3 DEF TimelineIInv, EventInv, P!Unsubscribed
  <1> QED BY <1>5, <1>6, <1>7 DEF TimelineIInv

(* The steps of the connection and of the timers.                          *)
LEMMA ConnectionKept ==
    ASSUME TimelineIInv,
           \/ \E n \in 1..MaxEvents : P!Publish(n)
           \/ P!Upgrade \/ P!Subscribe \/ P!SocketOpens \/ P!Receive \/ P!Reconnect
           \/ P!Hide \/ P!Show \/ P!SocketCloses
    PROVE  TimelineIInv'
  <1>1. UNCHANGED <<events, read, cursor, shown>>
    BY DEF P!Publish, P!Upgrade, P!Subscribe, P!SocketOpens, P!Receive, P!Reconnect, P!Hide, P!Show, P!SocketCloses,
       P!meetingVars
  <1>2. /\ unpublished' \subseteq unpublished
        /\ socket' \in {"none", "connecting", "open"} /\ server' \in {"none", "upgraded", "subscribed"}
    BY DEF P!Publish, P!Upgrade, P!Subscribe, P!SocketOpens, P!Receive, P!Reconnect, P!Hide, P!Show, P!SocketCloses,
       P!meetingVars, P!connection, P!Connects, P!Disconnected, TimelineIInv, EventInv
  <1>3. timer' \in BOOLEAN /\ reconnect' \in BOOLEAN /\ hidden' \in BOOLEAN
    BY Zenon DEF P!Publish, P!Upgrade, P!Subscribe, P!SocketOpens, P!Receive, P!Reconnect, P!Hide, P!Show, P!SocketCloses,
       P!timers, P!SchedulePoll, TimelineIInv, EventInv
  <1>4. channel' \in 0..P!Unsubscribed
    BY TimelineTyped
    DEF P!Publish, P!Upgrade, P!Subscribe, P!SocketOpens, P!Receive, P!Reconnect, P!Hide, P!Show, P!SocketCloses,
       P!connection, P!Disconnected, TimelineIInv, EventInv
  <1>5. faults' \in 0..MaxFaults
    BY TimelineTyped
    DEF P!Publish, P!Upgrade, P!Subscribe, P!SocketOpens, P!Receive, P!Reconnect, P!Hide, P!Show, P!SocketCloses,
       P!Works, P!Fails, TimelineIInv, EventInv
  <1>6. EventInv' BY <1>1, <1>2, <1>3, <1>4, <1>5 DEF TimelineIInv, EventInv, P!Unsubscribed
  <1> QED BY <1>1, <1>6, ConnectionStep

LEMMA TimelineIInvStep == TimelineIInv /\ [Next]_vars => TimelineIInv'
  <1> SUFFICES ASSUME TimelineIInv, [Next]_vars PROVE TimelineIInv'
    OBVIOUS
  <1>1. CASE P!Next
    BY <1>1, ListKept, ApplyKept, ReadFailsKept, PollKept, CommitsKept, ConnectionKept DEF P!Next, P!Serves, P!Follows
  <1>2. CASE UNCHANGED pageVars
    <2>1. UNCHANGED <<events, unpublished, channel, socket, server, timer, reconnect, hidden, read, cursor, shown, faults>>
      BY <1>2 DEF pageVars
    <2>2. EventInv' BY <2>1 DEF TimelineIInv, EventInv, P!Unsubscribed
    <2> QED BY <2>1, <2>2, ConnectionStep
  <1> QED BY <1>1, <1>2 DEF Next, vars

(* Whatever the number of reads, rows of a page and events, the invariant  *)
(* of the page holds in every state.                                       *)
THEOREM TimelineInductive == Spec => []TimelineIInv
  <1>1. Init => TimelineIInv BY TimelineIInvInit DEF Init
  <1> QED BY <1>1, TimelineIInvStep, PTL DEF Spec

(* Whatever reads overlap, the page shows every visible event its cursor   *)
(* has passed, once and in the order of seq (List, refreshEvents).         *)
THEOREM TimelineHolds == Spec => []TimelineInv
  <1>1. ASSUME TimelineIInv PROVE TimelineInv
    <2>1. P!TypeOK
      <3>1. \A r \in Reads : read[r].pc \in {"idle", "asking", "answered"}
        BY <1>1 DEF TimelineIInv, ReadInv, ReadOK, ReadStates
      <3>2. unpublished \subseteq DOMAIN events /\ cursor \in 0..Len(events)
        BY <1>1, TimelineTyped DEF TimelineIInv, EventInv, ShownInv
      <3> QED BY <1>1, <3>1, <3>2 DEF P!TypeOK, TimelineIInv, EventInv
    <2>2. P!CursorSkipsNothing BY <1>1 DEF P!CursorSkipsNothing, TimelineIInv, ShownInv
    <2>3. P!InOrder BY <1>1 DEF P!InOrder, TimelineIInv, ShownInv
    <2> QED BY <2>1, <2>2, <2>3 DEF TimelineInv, P!TimelineInv
  <1> QED BY <1>1, TimelineInductive, PTL

-----------------------------------------------------------------------------
(***************************************************************************)
(* The sharing of a meeting with guests.                                   *)
(*                                                                         *)
(* A request being served belongs to a session that was active when it     *)
(* arrived: such a session is active with a generation nobody has revoked, *)
(* or revoked.  And an upload has a file to itself, its .part and from the *)
(* rename on its final file: it is there until the upload returns, and     *)
(* named by a row once committed.                                          *)
(***************************************************************************)
LanStates == [state : {"disabled", "serving", "stopping", "stopped", "failed"}, current : Nat, built : Nat]
ThreadStates == [pc : {"idle", "stop", "revoke", "shutdown", "start", "after", "done"},
                 again : BOOLEAN, failed : BOOLEAN]
SessionStates == [row : {"none", "joining", "active", "revoked"}, generation : Nat]
Asked == Requests \cup {G!Idle.request}
HandlerStates == [pc : {"idle", "message"} \cup G!Uploading, by : G!Owners, request : Asked,
                  live : BOOLEAN, file : Nat, committed : BOOLEAN]
Entities == [by : G!Owners, request : Asked, kind : {"message", "attachment"}, file : Nat]

ListenerInv ==
    /\ lan \in LanStates /\ lan.current <= lan.built /\ lan.built <= MaxGenerations
    /\ lock \in G!Threads \cup {"free"} /\ thread \in [G!Threads -> ThreadStates]
    /\ lifecycle \in {"recording", "finalizing", "interrupted"}
    /\ lan.current # 0 => lan.state \in {"serving", "stopping"}
    /\ lan.state = "stopping" => lock # "free"
    /\ lifecycle = "interrupted" => thread["end"].pc = "done"
RevokedInv ==
    /\ revoked \subseteq 1..lan.built
    /\ G!Serving(lan.current) => lan.current \notin revoked
SessionInv == session \in [Guests -> SessionStates]
SessionOK(h) ==
    handler[h].pc # "idle" /\ handler[h].by # Host =>
        /\ session[handler[h].by].row \in {"active", "revoked"}
        /\ session[handler[h].by].row = "active" => session[handler[h].by].generation \notin revoked
HasFile(h) == handler[h].pc \in G!Uploading
FileThere(h) ==
    IF handler[h].pc \in {"queued", "answered"} THEN handler[h].file \in files ELSE handler[h].file \in parts
FileOK(h) ==
    /\ HasFile(h) => FileThere(h)
    /\ ~HasFile(h) => handler[h].file = 0
    /\ handler[h].committed => handler[h].pc = "answered" /\ handler[h].file \in G!Referenced
    /\ (HasFile(h) /\ ~handler[h].committed) => handler[h].file \notin G!Referenced
HandlerInv == handler \in [Handlers -> HandlerStates]
FileInv ==
    /\ \A h \in Handlers : FileOK(h)
    /\ \A h, k \in Handlers : HasFile(h) /\ HasFile(k) /\ handler[h].file = handler[k].file => h = k
EntityInv ==
    entities \in Seq(Entities) /\ IsFiniteSet(G!Referenced) /\ G!OnePerRequest /\ G!FilesBehindRows
StoreOK ==
    /\ parts \subseteq Nat \ {0} /\ files \subseteq Nat \ {0} /\ abandoned \subseteq Nat \ {0}
    /\ IsFiniteSet(parts) /\ IsFiniteSet(files) /\ IsFiniteSet(abandoned)
    /\ parts \cap files = {}
StoreInv ==
    /\ StoreOK /\ errors \in Nat
    /\ lifecycle # "interrupted" => Cardinality(G!Strays) <= errors
GuestIInv ==
    /\ ListenerInv /\ RevokedInv /\ SessionInv /\ \A h \in Handlers : SessionOK(h)
    /\ HandlerInv /\ FileInv /\ EntityInv /\ StoreInv

(* A handler that serves nothing has no file.                              *)
LEMMA IdleHandler ==
    /\ G!Idle \in HandlerStates /\ G!Idle.pc = "idle" /\ G!Idle.by = Host /\ G!Idle.file = 0 /\ G!Idle.committed = FALSE
    /\ G!Idle.live = TRUE
  <1> DEFINE r == CHOOSE q \in Requests : TRUE
  <1>1. G!Idle = [pc |-> "idle", by |-> Host, request |-> r, live |-> TRUE, file |-> 0, committed |-> FALSE]
    BY DEF G!Idle
  <1> HIDE DEF r
  <1>2. G!Idle.request = r BY <1>1
  <1>3. r \in Asked BY <1>2 DEF Asked
  <1> QED BY <1>1, <1>3 DEF HandlerStates, G!Owners

LEMMA NoCallTyped == G!NoCall \in ThreadStates /\ G!NoCall.pc = "idle"
  BY DEF G!NoCall, ThreadStates

LEMMA GuestTyped ==
    ASSUME GuestIInv
    PROVE  /\ lan.state \in {"disabled", "serving", "stopping", "stopped", "failed"}
           /\ lan.current \in Nat /\ lan.built \in Nat /\ MaxGenerations \in Nat
           /\ lan = [state |-> lan.state, current |-> lan.current, built |-> lan.built]
           /\ \A g \in Guests : session[g] \in SessionStates
           /\ \A h \in Handlers : handler[h] \in HandlerStates
           /\ \A t \in G!Threads : thread[t] \in ThreadStates
           /\ DOMAIN entities = 1..Len(entities) /\ Len(entities) \in Nat
           /\ \A n \in 1..Len(entities) : entities[n] \in Entities
  <1>1. lan \in LanStates /\ MaxGenerations \in Nat BY GuestAssumption DEF GuestIInv, ListenerInv
  <1>2. \A g \in Guests : session[g] \in SessionStates BY DEF GuestIInv, SessionInv
  <1>3. \A h \in Handlers : handler[h] \in HandlerStates BY DEF GuestIInv, HandlerInv
  <1>4. \A t \in G!Threads : thread[t] \in ThreadStates BY DEF GuestIInv, ListenerInv
  <1>5. entities \in Seq(Entities) BY DEF GuestIInv, EntityInv
  <1>6. /\ lan.state \in {"disabled", "serving", "stopping", "stopped", "failed"} /\ lan.current \in Nat /\ lan.built \in Nat
        /\ lan = [state |-> lan.state, current |-> lan.current, built |-> lan.built]
    BY <1>1 DEF LanStates
  <1>7. DOMAIN entities = 1..Len(entities) /\ Len(entities) \in Nat /\ \A n \in 1..Len(entities) : entities[n] \in Entities
    BY <1>5
  <1> QED BY <1>1, <1>2, <1>3, <1>4, <1>6, <1>7

LEMMA GuestIInvInit == ASSUME G!Init PROVE GuestIInv
  <1>1. /\ lan = [state |-> "disabled", current |-> 0, built |-> 0] /\ lock = "free" /\ lifecycle = "recording"
        /\ session = [g \in Guests |-> G!NoSession] /\ revoked = {} /\ handler = [h \in Handlers |-> G!Idle]
        /\ entities = <<>> /\ parts = {} /\ files = {} /\ abandoned = {}
    BY DEF G!Init
  <1>2. ListenerInv
    <2>1. thread \in [G!Threads -> ThreadStates]
      <3>1. [G!NoCall EXCEPT !.pc = "start"] \in ThreadStates BY DEF G!NoCall, ThreadStates
      <3> QED BY <3>1, NoCallTyped DEF G!Init
    <2>2. lan \in LanStates /\ lan.current = 0 /\ lan.built = 0 /\ lan.state = "disabled" BY <1>1 DEF LanStates
    <2> QED BY <1>1, <2>1, <2>2, GuestAssumption DEF ListenerInv
  <1>3. RevokedInv BY <1>1 DEF RevokedInv
  <1>4. SessionInv BY <1>1 DEF SessionInv, SessionStates, G!NoSession
  <1>5. HandlerInv /\ \A h \in Handlers : handler[h] = G!Idle BY <1>1, IdleHandler DEF HandlerInv
  <1>6. \A h \in Handlers : SessionOK(h) BY <1>5, IdleHandler DEF SessionOK
  <1>7. FileInv
    <2>1. \A h \in Handlers : ~HasFile(h) BY <1>5, IdleHandler DEF HasFile, G!Uploading
    <2> QED BY <1>5, <2>1, IdleHandler DEF FileInv, FileOK
  <1>8. EntityInv
    <2>1. G!Referenced = {} BY <1>1 DEF G!Referenced
    <2> QED BY <1>1, <2>1, FS_EmptySet DEF EntityInv, G!OnePerRequest, G!FilesBehindRows
  <1>9. StoreInv
    <2>1. G!Strays = {} /\ errors = 0 BY <1>1 DEF G!Strays, G!Init
    <2> QED BY <1>1, <2>1, FS_EmptySet DEF StoreInv, StoreOK
  <1> QED BY <1>2, <1>3, <1>4, <1>5, <1>6, <1>7, <1>8, <1>9 DEF GuestIInv

-----------------------------------------------------------------------------
(* The handler still has the request and the file it had.                  *)
SameRequest(h) ==
    /\ handler'[h].pc = handler[h].pc /\ handler'[h].by = handler[h].by
    /\ handler'[h].file = handler[h].file /\ handler'[h].committed = handler[h].committed

(* A step that fails is counted.                                           *)
Counted == errors' \in Nat /\ errors <= errors'
LEMMA CountedStep == ASSUME GuestIInv, G!Works \/ G!Fails PROVE Counted
  <1>1. errors \in Nat BY DEF GuestIInv, StoreInv
  <1>2. errors' = errors \/ errors' = errors + 1 BY DEF G!Works, G!Fails
  <1> QED BY <1>1, <1>2 DEF Counted

(* There is no new stray file without a failure.                           *)
LEMMA StraysCounted ==
    ASSUME GuestIInv, StoreOK', Counted, lifecycle = "interrupted" => lifecycle' = "interrupted",
           NEW f, G!Strays' \subseteq G!Strays \/ (G!Strays' \subseteq G!Strays \cup {f} /\ errors' = errors + 1)
    PROVE  StoreInv'
  <1>1. IsFiniteSet(G!Strays)
    <2>1. IsFiniteSet(files) /\ IsFiniteSet(parts) BY DEF GuestIInv, StoreInv, StoreOK
    <2>2. IsFiniteSet(files \cup parts) BY <2>1, FS_Union
    <2>3. G!Strays \subseteq files \cup parts BY DEF G!Strays
    <2> QED BY <2>2, <2>3, FS_Subset
  <1>2. errors' \in Nat /\ errors \in Nat /\ errors <= errors' BY DEF Counted, GuestIInv, StoreInv
  <1> DEFINE S == G!Strays
             T == G!Strays'
  <1>3. Cardinality(S) \in Nat BY <1>1, FS_CardinalityType
  <1>4. ASSUME lifecycle' # "interrupted" PROVE Cardinality(T) <= errors'
    <2>1. Cardinality(S) <= errors BY <1>4 DEF GuestIInv, StoreInv
    <2>2. CASE T \subseteq S
      <3>1. Cardinality(T) <= Cardinality(S) /\ Cardinality(T) \in Nat BY <1>1, <2>2, FS_Subset, FS_CardinalityType
      <3> HIDE DEF S, T
      <3> QED BY <1>2, <1>3, <2>1, <3>1
    <2>3. CASE T \subseteq S \cup {f} /\ errors' = errors + 1
      <3>1. IsFiniteSet(S \cup {f}) /\ Cardinality(S \cup {f}) \in {Cardinality(S), Cardinality(S) + 1}
        BY <1>1, FS_AddElement
      <3>2. Cardinality(T) <= Cardinality(S \cup {f}) /\ Cardinality(T) \in Nat BY <2>3, <3>1, FS_Subset, FS_CardinalityType
      <3> HIDE DEF S, T
      <3> QED BY <1>2, <1>3, <2>1, <2>3, <3>1, <3>2
    <2> QED BY <2>2, <2>3
  <1> HIDE DEF T
  <1> QED BY <1>2, <1>4 DEF StoreInv, T

(* The files and rows stay as long as every handler keeps its own; the     *)
(* meeting may end meanwhile.                                              *)
LEMMA FilesStay ==
    ASSUME GuestIInv, \A h \in Handlers : SameRequest(h), UNCHANGED <<entities, parts, files, abandoned>>, Counted,
           lifecycle = "interrupted" => lifecycle' = "interrupted"
    PROVE  FileInv' /\ EntityInv' /\ StoreInv'
  <1>1. G!Referenced' = G!Referenced BY DEF G!Referenced
  <1>2. \A h \in Handlers : HasFile(h)' = HasFile(h) /\ FileThere(h)' = FileThere(h)
    BY DEF HasFile, FileThere, SameRequest
  <1>3. FileInv'
    <2>1. \A h \in Handlers : FileOK(h)' BY <1>1, <1>2 DEF GuestIInv, FileInv, FileOK, SameRequest
    <2>2. \A h, k \in Handlers : (HasFile(h) /\ HasFile(k) /\ handler[h].file = handler[k].file)' => h = k
      BY <1>2 DEF GuestIInv, FileInv, SameRequest
    <2> QED BY <2>1, <2>2 DEF FileInv
  <1>4. EntityInv' BY <1>1 DEF GuestIInv, EntityInv, G!OnePerRequest, G!FilesBehindRows
  <1>5. StoreInv'
    <2>1. {handler'[h].file : h \in Handlers} = {handler[h].file : h \in Handlers} BY DEF SameRequest
    <2>2. G!Strays' = G!Strays BY <1>1, <2>1 DEF G!Strays
    <2>3. StoreOK' BY DEF GuestIInv, StoreInv, StoreOK
    <2> QED BY <2>2, <2>3, StraysCounted
  <1> QED BY <1>3, <1>4, <1>5

(* CancelMeeting and CancelRequest end contexts and nothing else.          *)
LEMMA CancelledKeeps ==
    ASSUME GuestIInv, NEW S, handler' = G!Cancelled(S)
    PROVE  HandlerInv' /\ \A h \in Handlers : SameRequest(h)
  <1>1. ASSUME NEW h \in Handlers
        PROVE  handler'[h] \in HandlerStates /\ SameRequest(h)
    <2>1. handler[h] \in HandlerStates BY GuestTyped
    <2>2. handler'[h] = handler[h] \/ handler'[h] = [handler[h] EXCEPT !.live = FALSE] BY DEF G!Cancelled
    <2> DEFINE a == handler[h]
               b == [a EXCEPT !.live = FALSE]
    <2>3. b \in HandlerStates /\ b.pc = a.pc /\ b.by = a.by /\ b.file = a.file /\ b.committed = a.committed
      BY <2>1 DEF HandlerStates
    <2>4. CASE handler'[h] = handler[h] BY <2>1, <2>4 DEF SameRequest
    <2>5. CASE handler'[h] = b
      <3> HIDE DEF b
      <3> QED BY <2>3, <2>5 DEF SameRequest
    <2> QED BY <2>2, <2>4, <2>5
  <1>2. HandlerInv' BY <1>1 DEF G!Cancelled, HandlerInv
  <1> QED BY <1>1, <1>2

LEMMA HandlersStay == ASSUME GuestIInv, UNCHANGED handler PROVE HandlerInv' /\ \A h \in Handlers : SameRequest(h)
  BY DEF GuestIInv, HandlerInv, SameRequest

LEMMA SessionsStay ==
    ASSUME GuestIInv, \A h \in Handlers : SameRequest(h), UNCHANGED <<session, revoked>>
    PROVE  SessionInv' /\ \A h \in Handlers : SessionOK(h)'
  BY DEF GuestIInv, SessionInv, SessionOK, SameRequest

(* A step of the listener that leaves the guests alone.                    *)
LEMMA GuestlessStep ==
    ASSUME GuestIInv, ListenerInv', RevokedInv', G!Guestless, Counted,
           lifecycle = "interrupted" => lifecycle' = "interrupted"
    PROVE  GuestIInv'
  <1>1. UNCHANGED <<session, revoked, handler, entities, parts, files, abandoned>> BY DEF G!Guestless, G!content
  <1> QED BY <1>1, HandlersStay, SessionsStay, FilesStay DEF GuestIInv

-----------------------------------------------------------------------------
(* A thread of the listener goes on.                                       *)
LEMMA ThreadGoes ==
    ASSUME GuestIInv, NEW t \in G!Threads, NEW pc \in {"idle", "stop", "revoke", "shutdown", "start", "after", "done"},
           G!Goes(t, pc)
    PROVE  /\ thread' \in [G!Threads -> ThreadStates] /\ thread'[t].pc = pc
           /\ \A u \in G!Threads \ {t} : thread'[u] = thread[u]
  <1> DEFINE a == [thread[t] EXCEPT !.pc = pc]
  <1>1. thread' = [thread EXCEPT ![t] = a] BY DEF G!Goes, GuestIInv, ListenerInv
  <1>2. thread[t] \in ThreadStates BY GuestTyped
  <1>3. a \in ThreadStates /\ a.pc = pc BY <1>2 DEF ThreadStates
  <1> HIDE DEF a
  <1> QED BY <1>1, <1>3 DEF GuestIInv, ListenerInv

LEMMA ThreadTakes ==
    ASSUME GuestIInv, NEW t \in G!Threads, NEW a \in ThreadStates, thread' = [thread EXCEPT ![t] = a]
    PROVE  /\ thread' \in [G!Threads -> ThreadStates] /\ thread'[t] = a
           /\ \A u \in G!Threads \ {t} : thread'[u] = thread[u]
  BY DEF GuestIInv, ListenerInv

LEMMA OnwardTyped == ASSUME NEW t, NEW failed PROVE G!Onward(t, failed) \in ThreadStates
  <1>1. ASSUME NEW pc \in {"idle", "stop", "revoke", "shutdown", "start", "after", "done"}
        PROVE  [G!NoCall EXCEPT !.pc = pc] \in ThreadStates
    BY DEF G!NoCall, ThreadStates
  <1>2. G!Onward(t, failed) = [G!NoCall EXCEPT !.pc = "after"] \/ G!Onward(t, failed) = [G!NoCall EXCEPT !.pc = "start"]
        \/ G!Onward(t, failed) = [G!NoCall EXCEPT !.pc = "idle"]
    BY DEF G!Onward
  <1> QED BY <1>1, <1>2

(* The end of the recording has gone through its stop once the meeting is  *)
(* interrupted: it is at none of the steps before.                         *)
LEMMA EndStays ==
    ASSUME GuestIInv, NEW t \in G!Threads, thread[t].pc # "done", \A u \in G!Threads \ {t} : thread'[u] = thread[u],
           UNCHANGED lifecycle
    PROVE  lifecycle' = "interrupted" => thread'["end"].pc = "done"
  <1>1. "end" \in G!Threads BY DEF G!Threads
  <1>2. lifecycle = "interrupted" => thread["end"].pc = "done" BY DEF GuestIInv, ListenerInv
  <1>3. CASE t = "end" BY <1>2, <1>3
  <1>4. CASE t # "end" BY <1>1, <1>2, <1>4
  <1> QED BY <1>3, <1>4

(* The snapshot of the listener.                                           *)
LEMMA SnapshotTyped ==
    ASSUME NEW s \in {"disabled", "serving", "stopping", "stopped", "failed"}, NEW n \in Nat, NEW b \in Nat,
           NEW x, x = [state |-> s, current |-> n, built |-> b]
    PROVE  x \in LanStates /\ x.state = s /\ x.current = n /\ x.built = b
  BY DEF LanStates

LEMMA StopCurrentKept == ASSUME GuestIInv, NEW t \in G!Threads, G!StopCurrent(t) PROVE GuestIInv'
  <1>1. G!At(t, "stop") /\ lock = "free" /\ UNCHANGED lifecycle /\ G!Guestless /\ Counted
    BY CountedStep DEF G!StopCurrent
  <1>2. thread[t].pc = "stop" BY <1>1 DEF G!At
  <1>3. lan.current \in Nat /\ lan.built \in Nat /\ lan = [state |-> lan.state, current |-> lan.current, built |-> lan.built]
    BY GuestTyped
  <1>4. UNCHANGED revoked BY <1>1 DEF G!Guestless
  <1>5. t # "free" BY DEF G!Threads
  <1>6. CASE lan.current = 0
    <2> DEFINE s == IF lan.state = "disabled" THEN "disabled" ELSE "stopped"
    <2>1. lan' = [lan EXCEPT !.state = s] /\ thread' = [thread EXCEPT ![t] = G!Onward(t, FALSE)] /\ UNCHANGED lock
      BY <1>6 DEF G!StopCurrent
    <2>2. s \in {"disabled", "stopped"} OBVIOUS
    <2> HIDE DEF s
    <2>3. lan' = [state |-> s, current |-> lan.current, built |-> lan.built] BY <1>3, <2>1
    <2>4. lan' \in LanStates /\ lan'.state = s /\ lan'.current = lan.current /\ lan'.built = lan.built
      BY <1>3, <2>2, <2>3, SnapshotTyped
    <2>5. thread' \in [G!Threads -> ThreadStates] /\ \A u \in G!Threads \ {t} : thread'[u] = thread[u]
      BY <2>1, OnwardTyped, ThreadTakes
    <2>6. lifecycle' = "interrupted" => thread'["end"].pc = "done" BY <1>1, <1>2, <2>5, EndStays
    <2>7. ListenerInv' BY <1>1, <1>6, <2>1, <2>2, <2>4, <2>5, <2>6 DEF GuestIInv, ListenerInv
    <2>8. RevokedInv' BY <1>4, <1>6, <2>4 DEF GuestIInv, RevokedInv, G!Serving
    <2> QED BY <1>1, <2>7, <2>8, GuestlessStep
  <1>7. CASE lan.current # 0
    <2>1. lan' = [lan EXCEPT !.state = "stopping"] /\ lock' = t /\ G!Goes(t, "revoke") BY <1>7 DEF G!StopCurrent
    <2>3. lan' = [state |-> "stopping", current |-> lan.current, built |-> lan.built] BY <1>3, <2>1
    <2>4. lan' \in LanStates /\ lan'.state = "stopping" /\ lan'.current = lan.current /\ lan'.built = lan.built
      BY <1>3, <2>3, SnapshotTyped
    <2>5. thread' \in [G!Threads -> ThreadStates] /\ \A u \in G!Threads \ {t} : thread'[u] = thread[u]
      BY <2>1, ThreadGoes
    <2>6. lifecycle' = "interrupted" => thread'["end"].pc = "done" BY <1>1, <1>2, <2>5, EndStays
    <2>7. ListenerInv' BY <1>1, <1>5, <2>1, <2>4, <2>5, <2>6 DEF GuestIInv, ListenerInv
    <2>8. RevokedInv' BY <1>4, <2>4 DEF GuestIInv, RevokedInv, G!Serving
    <2> QED BY <1>1, <2>7, <2>8, GuestlessStep
  <1> QED BY <1>6, <1>7

LEMMA ListenerStartKept == ASSUME GuestIInv, NEW t \in G!Threads, G!Start(t) PROVE GuestIInv'
  <1>1. /\ G!At(t, "start") /\ lock = "free" /\ lan.current = 0 /\ lan.built < MaxGenerations
        /\ G!Goes(t, "idle") /\ UNCHANGED <<lock, lifecycle>> /\ G!Guestless /\ Counted
        /\ \/ lan' = [state |-> "serving", current |-> lan.built + 1, built |-> lan.built + 1]
           \/ lan' = [lan EXCEPT !.state = "failed"]
    BY CountedStep DEF G!Start
  <1>2. thread[t].pc = "start" BY <1>1 DEF G!At
  <1>3. lan.current \in Nat /\ lan.built \in Nat /\ MaxGenerations \in Nat
        /\ lan = [state |-> lan.state, current |-> lan.current, built |-> lan.built]
    BY GuestTyped
  <1>4. thread' \in [G!Threads -> ThreadStates] /\ \A u \in G!Threads \ {t} : thread'[u] = thread[u]
    BY <1>1, ThreadGoes
  <1>5. lifecycle' = "interrupted" => thread'["end"].pc = "done" BY <1>1, <1>2, <1>4, EndStays
  <1>6. UNCHANGED revoked /\ revoked \subseteq 1..lan.built BY <1>1 DEF G!Guestless, GuestIInv, RevokedInv
  <1>7. CASE lan' = [state |-> "serving", current |-> lan.built + 1, built |-> lan.built + 1]
    <2>1. lan.built + 1 \in Nat BY <1>3
    <2>2. lan' \in LanStates /\ lan'.state = "serving" /\ lan'.current = lan.built + 1 /\ lan'.built = lan.built + 1
      BY <1>7, <2>1, SnapshotTyped
    <2>3. lan.built + 1 \notin revoked /\ revoked \subseteq 1..(lan.built + 1) BY <1>3, <1>6
    <2>4. ListenerInv' BY <1>1, <1>3, <1>4, <1>5, <2>2 DEF GuestIInv, ListenerInv
    <2>5. RevokedInv' BY <1>6, <2>2, <2>3 DEF RevokedInv
    <2> QED BY <1>1, <2>4, <2>5, GuestlessStep
  <1>8. CASE lan' = [lan EXCEPT !.state = "failed"]
    <2>1. lan' = [state |-> "failed", current |-> lan.current, built |-> lan.built] BY <1>3, <1>8
    <2>2. lan' \in LanStates /\ lan'.state = "failed" /\ lan'.current = lan.current /\ lan'.built = lan.built
      BY <1>3, <2>1, SnapshotTyped
    <2>4. ListenerInv' BY <1>1, <1>4, <1>5, <2>2 DEF GuestIInv, ListenerInv
    <2>5. RevokedInv' BY <1>6, <2>2 DEF RevokedInv, G!Serving
    <2> QED BY <1>1, <2>4, <2>5, GuestlessStep
  <1> QED BY <1>1, <1>7, <1>8

LEMMA ListenerFailsKept == ASSUME GuestIInv, G!ListenerFails PROVE GuestIInv'
  <1>1. /\ G!At("serve", "idle") /\ G!Goes("serve", "revoke") /\ UNCHANGED <<lock, lifecycle>> /\ G!Guestless
        /\ lan' = [lan EXCEPT !.current = 0, !.state = "failed"] /\ Counted
    BY CountedStep DEF G!ListenerFails
  <1>2. "serve" \in G!Threads /\ thread["serve"].pc = "idle" BY <1>1 DEF G!At, G!Threads
  <1>3. lan.built \in Nat /\ lan = [state |-> lan.state, current |-> lan.current, built |-> lan.built] BY GuestTyped
  <1>4. thread' \in [G!Threads -> ThreadStates] /\ \A u \in G!Threads \ {"serve"} : thread'[u] = thread[u]
    BY <1>1, <1>2, ThreadGoes
  <1>5. lifecycle' = "interrupted" => thread'["end"].pc = "done" BY <1>1, <1>2, <1>4, EndStays
  <1>6. lan' = [state |-> "failed", current |-> 0, built |-> lan.built] BY <1>1, <1>3
  <1>7. lan' \in LanStates /\ lan'.state = "failed" /\ lan'.current = 0 /\ lan'.built = lan.built
    BY <1>3, <1>6, SnapshotTyped
  <1>8. ListenerInv' BY <1>1, <1>3, <1>4, <1>5, <1>7 DEF GuestIInv, ListenerInv
  <1>9. RevokedInv' BY <1>1, <1>7 DEF GuestIInv, RevokedInv, G!Serving, G!Guestless
  <1> QED BY <1>1, <1>8, <1>9, GuestlessStep

LEMMA CallsKept == ASSUME GuestIInv, G!Command \/ G!EndMeeting \/ G!AfterStop PROVE GuestIInv'
  <1>1. /\ UNCHANGED <<lan, lock>> /\ G!Guestless /\ lifecycle' \in {"recording", "finalizing", "interrupted"}
        /\ lifecycle = "interrupted" => lifecycle' = "interrupted"
        /\ thread' \in [G!Threads -> ThreadStates] /\ (lifecycle' = "interrupted" => thread'["end"].pc = "done")
    <2>1. lifecycle \in {"recording", "finalizing", "interrupted"} BY DEF GuestIInv, ListenerInv
    <2>2. "host" \in G!Threads /\ "end" \in G!Threads BY DEF G!Threads
    <2>3. CASE G!Command
      <3>1. PICK again \in BOOLEAN : thread' = [thread EXCEPT !["host"] = [G!NoCall EXCEPT !.pc = "stop", !.again = again]]
        BY <2>3 DEF G!Command
      <3> DEFINE a == [G!NoCall EXCEPT !.pc = "stop", !.again = again]
      <3>2. a \in ThreadStates BY DEF G!NoCall, ThreadStates
      <3> HIDE DEF a
      <3>3. thread' \in [G!Threads -> ThreadStates] BY <2>2, <3>1, <3>2, ThreadTakes DEF a
      <3> QED BY <2>1, <2>3, <3>3 DEF G!Command
    <2>4. CASE G!EndMeeting
      <3>1. G!Goes("end", "stop") /\ UNCHANGED <<lan, lock, lifecycle>> /\ thread["end"].pc = "idle" /\ G!Guestless
        BY <2>4 DEF G!EndMeeting, G!At
      <3>2. thread' \in [G!Threads -> ThreadStates] BY <2>2, <3>1, ThreadGoes
      <3>3. lifecycle # "interrupted" BY <3>1 DEF GuestIInv, ListenerInv
      <3> QED BY <2>1, <3>1, <3>2, <3>3
    <2>5. CASE G!AfterStop
      <3>1. G!Goes("end", "done") /\ UNCHANGED <<lan, lock>> /\ lifecycle' \in {"finalizing", "interrupted"} /\ G!Guestless
            /\ thread["end"].pc = "after"
        BY <2>5 DEF G!AfterStop, G!At
      <3>2. thread' \in [G!Threads -> ThreadStates] /\ thread'["end"].pc = "done" BY <2>2, <3>1, ThreadGoes
      <3>3. lifecycle # "interrupted" BY <3>1 DEF GuestIInv, ListenerInv
      <3> QED BY <3>1, <3>2, <3>3
    <2> QED BY <2>3, <2>4, <2>5
  <1>2. ListenerInv' BY <1>1 DEF GuestIInv, ListenerInv
  <1>3. RevokedInv' BY <1>1 DEF GuestIInv, RevokedInv, G!Serving, G!Guestless
  <1>4. Counted BY CountedStep DEF G!Command, G!EndMeeting, G!AfterStop
  <1> QED BY <1>1, <1>2, <1>3, <1>4, GuestlessStep

(* The sessions a stop revokes: none of them is active any longer.         *)
LEMMA RevokedSessions ==
    ASSUME GuestIInv
    PROVE  /\ G!Revoked \in [Guests -> SessionStates]
           /\ \A g \in Guests : G!Revoked[g].row # "active"
           /\ \A g \in Guests : session[g].row \in {"active", "revoked"} => G!Revoked[g].row = "revoked"
           /\ \A g \in Guests : G!Revoked[g].row \in {"none", "joining", "revoked"}
  <1>1. ASSUME NEW g \in Guests
        PROVE  /\ G!Revoked[g] \in SessionStates /\ G!Revoked[g].row \in {"none", "joining", "revoked"}
               /\ session[g].row \in {"active", "revoked"} => G!Revoked[g].row = "revoked"
    <2>1. session[g] \in SessionStates BY GuestTyped
    <2> DEFINE a == session[g]
               b == [a EXCEPT !.row = "revoked"]
    <2>2. b \in SessionStates /\ b.row = "revoked" BY <2>1 DEF SessionStates
    <2>3. a \in SessionStates /\ a.row \in {"none", "joining", "active", "revoked"} BY <2>1 DEF SessionStates
    <2>4. G!Revoked[g] = IF a.row = "active" THEN b ELSE a BY DEF G!Revoked
    <2> HIDE DEF b
    <2> QED BY <2>2, <2>3, <2>4
  <1>2. G!Revoked = [g \in Guests |-> G!Revoked[g]] BY DEF G!Revoked
  <1> QED BY <1>1, <1>2

LEMMA RevokeKept == ASSUME GuestIInv, NEW t \in G!Threads, G!Revoke(t) PROVE GuestIInv'
  <1>1. /\ G!At(t, "revoke") /\ handler' = G!Cancelled(G!Uploads)
        /\ UNCHANGED <<lan, lock, lifecycle, entities, parts, files, abandoned>> /\ Counted
    BY CountedStep DEF G!Revoke, G!content
  <1>2. thread[t].pc = "revoke" BY <1>1 DEF G!At
  <1>3. HandlerInv' /\ \A h \in Handlers : SameRequest(h) BY <1>1, CancelledKeeps
  <1>4. FileInv' /\ EntityInv' /\ StoreInv' BY <1>1, <1>3, FilesStay
  <1>5. thread' \in [G!Threads -> ThreadStates] /\ \A u \in G!Threads \ {t} : thread'[u] = thread[u]
    <2> DEFINE pc == IF t = "serve" THEN "idle" ELSE "shutdown"
               b == [thread[t] EXCEPT !.pc = "shutdown", !.failed = TRUE]
               a == IF t = "serve" THEN G!NoCall ELSE b
    <2>1. CASE G!Goes(t, pc)
      <3>1. pc \in {"idle", "stop", "revoke", "shutdown", "start", "after", "done"} OBVIOUS
      <3> HIDE DEF pc
      <3> QED BY <2>1, <3>1, ThreadGoes
    <2>2. CASE thread' = [thread EXCEPT ![t] = IF t = "serve" THEN G!NoCall ELSE [@ EXCEPT !.pc = "shutdown", !.failed = TRUE]]
      <3>1. thread' = [thread EXCEPT ![t] = a] BY <2>2 DEF GuestIInv, ListenerInv
      <3>2. b \in ThreadStates
        <4>1. thread[t] \in ThreadStates BY GuestTyped
        <4> QED BY <4>1 DEF ThreadStates
      <3> HIDE DEF b
      <3>3. a \in ThreadStates BY <3>2, NoCallTyped
      <3> HIDE DEF a
      <3> QED BY <3>1, <3>3, ThreadTakes
    <2> QED BY <1>1, <2>1, <2>2 DEF G!Revoke
  <1>6. lifecycle' = "interrupted" => thread'["end"].pc = "done" BY <1>1, <1>2, <1>5, EndStays
  <1>7. ListenerInv' BY <1>1, <1>5, <1>6 DEF GuestIInv, ListenerInv
  <1>8. CASE G!RevokeSessions
    <2>1. session' = G!Revoked /\ revoked' = {g \in 1..lan.built : ~G!Serving(g)} BY <1>8 DEF G!RevokeSessions
    <2>2. RevokedInv'
      <3>1. revoked' \subseteq 1..lan'.built BY <1>1, <2>1
      <3>2. (G!Serving(lan.current))' => G!Serving(lan.current) BY <1>1 DEF G!Serving
      <3> QED BY <1>1, <2>1, <3>1, <3>2 DEF RevokedInv
    <2>3. SessionInv' BY <2>1, RevokedSessions DEF SessionInv
    <2>4. ASSUME NEW h \in Handlers PROVE SessionOK(h)'
      <3> SUFFICES ASSUME handler'[h].pc # "idle", handler'[h].by # Host
                   PROVE  session'[handler'[h].by].row = "revoked"
        BY DEF SessionOK
      <3>1. handler[h].pc # "idle" /\ handler[h].by # Host /\ handler'[h].by = handler[h].by BY <1>3 DEF SameRequest
      <3>2. handler[h].by \in Guests
        <4>1. handler[h] \in HandlerStates BY GuestTyped
        <4> QED BY <3>1, <4>1 DEF HandlerStates, G!Owners
      <3>3. session[handler[h].by].row \in {"active", "revoked"} BY <3>1 DEF GuestIInv, SessionOK
      <3> QED BY <2>1, <3>1, <3>2, <3>3, RevokedSessions
    <2> QED BY <1>3, <1>4, <1>7, <2>2, <2>3, <2>4 DEF GuestIInv
  <1>9. CASE UNCHANGED <<session, revoked>>
    <2>1. RevokedInv' BY <1>1, <1>9 DEF GuestIInv, RevokedInv, G!Serving
    <2> QED BY <1>3, <1>4, <1>7, <1>9, <2>1, SessionsStay DEF GuestIInv
  <1> QED BY <1>8, <1>9 DEF G!Revoke

LEMMA ShutdownKept == ASSUME GuestIInv, NEW t \in G!Threads, G!Shutdown(t) PROVE GuestIInv'
  <1>1. /\ G!At(t, "shutdown") /\ lock' = "free" /\ handler' = G!Cancelled(G!AsGuest)
        /\ thread' = [thread EXCEPT ![t] = G!Onward(t, thread[t].failed \/ G!AsGuest # {})]
        /\ lan' = [lan EXCEPT !.current = 0, !.state = "stopped"]
        /\ UNCHANGED <<lifecycle, session, revoked, entities, parts, files, abandoned>> /\ Counted
    BY CountedStep DEF G!Shutdown, G!content
  <1>2. thread[t].pc = "shutdown" BY <1>1 DEF G!At
  <1>3. HandlerInv' /\ \A h \in Handlers : SameRequest(h) BY <1>1, CancelledKeeps
  <1>4. FileInv' /\ EntityInv' /\ StoreInv' BY <1>1, <1>3, FilesStay
  <1>5. SessionInv' /\ \A h \in Handlers : SessionOK(h)' BY <1>1, <1>3, SessionsStay
  <1>6. thread' \in [G!Threads -> ThreadStates] /\ \A u \in G!Threads \ {t} : thread'[u] = thread[u]
    BY <1>1, OnwardTyped, ThreadTakes
  <1>7. lifecycle' = "interrupted" => thread'["end"].pc = "done" BY <1>1, <1>2, <1>6, EndStays
  <1>8. lan.built \in Nat /\ lan = [state |-> lan.state, current |-> lan.current, built |-> lan.built] BY GuestTyped
  <1>9. lan' = [state |-> "stopped", current |-> 0, built |-> lan.built] BY <1>1, <1>8
  <1>10. lan' \in LanStates /\ lan'.state = "stopped" /\ lan'.current = 0 /\ lan'.built = lan.built
    BY <1>8, <1>9, SnapshotTyped
  <1>11. ListenerInv' BY <1>1, <1>6, <1>7, <1>8, <1>10 DEF GuestIInv, ListenerInv
  <1>12. RevokedInv' BY <1>1, <1>10 DEF GuestIInv, RevokedInv, G!Serving
  <1> QED BY <1>3, <1>4, <1>5, <1>11, <1>12 DEF GuestIInv

-----------------------------------------------------------------------------
(* A session is inserted: no request of it is under way yet, since only an *)
(* active session is authenticated.                                        *)
LEMMA VisitKept ==
    ASSUME GuestIInv, NEW g \in Guests, G!ResolveMeetingToken(g) \/ G!CreateSession(g)
    PROVE  GuestIInv'
  <1>1. UNCHANGED <<lan, lock, thread, lifecycle, revoked, handler, entities, parts, files, abandoned>> /\ Counted
    BY CountedStep DEF G!ResolveMeetingToken, G!CreateSession, G!Unshared, G!sharing, G!content
  <1>2. session[g].row \in {"none", "joining"} BY DEF G!ResolveMeetingToken, G!CreateSession
  <1>3. session[g] \in SessionStates /\ lan.current \in Nat BY GuestTyped
  <1>4. SessionInv' /\ \A u \in Guests \ {g} : session'[u] = session[u]
    <2> DEFINE a == session[g]
               b == [a EXCEPT !.row = "active"]
               c == [row |-> "joining", generation |-> lan.current]
    <2>1. b \in SessionStates /\ c \in SessionStates /\ G!NoSession \in SessionStates
      BY <1>3 DEF SessionStates, G!NoSession
    <2>2. \/ session' = [session EXCEPT ![g] = c] \/ session' = [session EXCEPT ![g] = b]
          \/ session' = [session EXCEPT ![g] = G!NoSession]
      BY DEF G!ResolveMeetingToken, G!CreateSession, GuestIInv, SessionInv
    <2> HIDE DEF b, c
    <2> QED BY <2>1, <2>2 DEF GuestIInv, SessionInv
  <1>5. ASSUME NEW h \in Handlers PROVE SessionOK(h)'
    <2> SUFFICES ASSUME handler[h].pc # "idle", handler[h].by # Host
                 PROVE  /\ session'[handler[h].by].row \in {"active", "revoked"}
                        /\ session'[handler[h].by].row = "active" => session'[handler[h].by].generation \notin revoked
      BY <1>1 DEF SessionOK
    <2>1. handler[h] \in HandlerStates BY GuestTyped
    <2>2. handler[h].by \in Guests BY <2>1 DEF HandlerStates, G!Owners
    <2>3. /\ session[handler[h].by].row \in {"active", "revoked"}
          /\ session[handler[h].by].row = "active" => session[handler[h].by].generation \notin revoked
      BY DEF GuestIInv, SessionOK
    <2>4. handler[h].by # g BY <1>2, <2>3
    <2> QED BY <1>4, <2>2, <2>3, <2>4
  <1>6. HandlerInv' /\ \A h \in Handlers : SameRequest(h) BY <1>1, HandlersStay
  <1>7. FileInv' /\ EntityInv' /\ StoreInv' BY <1>1, <1>6, FilesStay
  <1>8. ListenerInv' /\ RevokedInv' BY <1>1 DEF GuestIInv, ListenerInv, RevokedInv, G!Serving
  <1> QED BY <1>4, <1>5, <1>6, <1>7, <1>8 DEF GuestIInv

-----------------------------------------------------------------------------
(* One handler goes on with another state.                                 *)
LEMMA OneHandler ==
    ASSUME GuestIInv, NEW h \in Handlers, NEW a \in HandlerStates, handler' = [handler EXCEPT ![h] = a]
    PROVE  HandlerInv' /\ handler'[h] = a /\ \A k \in Handlers \ {h} : handler'[k] = handler[k]
  BY DEF GuestIInv, HandlerInv

(* The name of a new file is nobody's.                                     *)
LEMMA FreshFile == ASSUME GuestIInv PROVE G!Fresh \in Nat \ {0} /\ G!Fresh \notin G!Used
  <1>1. IsFiniteSet(G!Used)
    <2>1. IsFiniteSet(files) /\ IsFiniteSet(parts) /\ IsFiniteSet(abandoned) /\ IsFiniteSet(G!Referenced)
      BY DEF GuestIInv, StoreInv, StoreOK, EntityInv
    <2>2. IsFiniteSet(files \cup parts) BY <2>1, FS_Union
    <2>3. IsFiniteSet(files \cup parts \cup abandoned) BY <2>1, <2>2, FS_Union
    <2> QED BY <2>1, <2>3, FS_Union DEF G!Used
  <1> DEFINE U == G!Used
             c == Cardinality(U)
  <1>2. c \in Nat BY <1>1, FS_CardinalityType
  <1>3. ~(1..c + 1 \subseteq U)
    <2> SUFFICES ASSUME 1..c + 1 \subseteq U PROVE FALSE
      OBVIOUS
    <2>1. 1..c + 1 \in SUBSET U OBVIOUS
    <2>2. Cardinality(1..c + 1) <= c BY <1>1, <2>1, FS_Subset
    <2> HIDE DEF c
    <2>3. Cardinality(1..c + 1) = c + 1 BY <1>2, FS_Interval
    <2> QED BY <1>2, <2>2, <2>3
  <1>4. G!Cardinality(U) = c BY Zenon DEF G!Cardinality, Cardinality, G!IsFiniteSet, IsFiniteSet
  <1>5. \E f \in 1..c + 1 : f \notin U BY <1>3
  <1>6. \E f \in 1..G!Cardinality(G!Used) + 1 : f \notin G!Used BY <1>4, <1>5
  <1>7. G!Fresh \in 1..G!Cardinality(G!Used) + 1 /\ G!Fresh \notin G!Used BY <1>6, Zenon DEF G!Fresh
  <1>8. G!Fresh \in 1..c + 1 BY <1>4, <1>7
  <1> HIDE DEF c
  <1> QED BY <1>2, <1>7, <1>8

(* An entity is added: what the rows name grows by its file.               *)
LEMMA Appended ==
    ASSUME GuestIInv, NEW e \in Entities, entities' = Append(entities, e)
    PROVE  /\ entities' \in Seq(Entities) /\ DOMAIN entities' = 1..Len(entities) + 1
           /\ entities'[Len(entities) + 1] = e /\ \A n \in 1..Len(entities) : entities'[n] = entities[n]
           /\ G!Referenced' = G!Referenced \cup {e.file} /\ IsFiniteSet(G!Referenced')
  <1>1. entities \in Seq(Entities) /\ DOMAIN entities = 1..Len(entities) /\ Len(entities) \in Nat
    BY GuestTyped DEF GuestIInv, EntityInv
  <1>2. /\ entities' \in Seq(Entities) /\ DOMAIN entities' = 1..Len(entities) + 1
        /\ entities'[Len(entities) + 1] = e /\ \A n \in 1..Len(entities) : entities'[n] = entities[n]
    BY <1>1
  <1>3. G!Referenced' = G!Referenced \cup {e.file}
    <2> DEFINE m == Len(entities)
    <2>1. m \in Nat /\ 1..m + 1 = 1..m \cup {m + 1} BY <1>1
    <2>2. G!Referenced' = {entities'[n].file : n \in 1..m + 1} /\ G!Referenced = {entities[n].file : n \in 1..m}
      BY <1>1, <1>2 DEF G!Referenced
    <2>3. entities'[m + 1] = e /\ \A n \in 1..m : entities'[n] = entities[n] BY <1>2
    <2> HIDE DEF m
    <2>4. {entities'[n].file : n \in 1..m} = {entities[n].file : n \in 1..m} BY <2>3
    <2>5. {entities'[n].file : n \in 1..m \cup {m + 1}} = {entities'[n].file : n \in 1..m} \cup {entities'[m + 1].file}
      OBVIOUS
    <2> QED BY <2>1, <2>2, <2>3, <2>4, <2>5
  <1>4. IsFiniteSet(G!Referenced')
    <2>1. IsFiniteSet(G!Referenced) BY DEF GuestIInv, EntityInv
    <2>2. IsFiniteSet(G!Referenced \cup {e.file}) BY <2>1, FS_AddElement
    <2> QED BY <1>3, <2>2
  <1> QED BY <1>2, <1>3, <1>4

(* What a handler adds is its request's, and the first of it.              *)
LEMMA Added ==
    ASSUME GuestIInv, NEW h \in Handlers, G!MayCommit(h), NEW kind \in {"message", "attachment"},
           entities' = Append(entities, G!Entity(h, kind)), kind = "attachment" => handler[h].file \in files,
           files \subseteq files' \cup abandoned', abandoned \subseteq abandoned'
    PROVE  EntityInv' /\ G!Referenced' = G!Referenced \cup {handler[h].file}
  <1> DEFINE e == G!Entity(h, kind)
  <1>1. /\ e \in Entities /\ e.by = handler[h].by /\ e.request = handler[h].request
        /\ e.file = handler[h].file /\ e.kind = kind
    <2>1. handler[h] \in HandlerStates BY GuestTyped
    <2> QED BY <2>1 DEF G!Entity, Entities, HandlerStates
  <1>2. entities' = Append(entities, e) OBVIOUS
  <1> HIDE DEF e
  <1>3. /\ entities' \in Seq(Entities) /\ DOMAIN entities' = 1..Len(entities) + 1
        /\ entities'[Len(entities) + 1] = e /\ \A n \in 1..Len(entities) : entities'[n] = entities[n]
        /\ G!Referenced' = G!Referenced \cup {e.file} /\ IsFiniteSet(G!Referenced')
    BY <1>1, <1>2, Appended
  <1>4. DOMAIN entities = 1..Len(entities) /\ Len(entities) \in Nat BY GuestTyped
  <1>5. \A n \in DOMAIN entities : ~(entities[n].by = e.by /\ entities[n].request = e.request)
    BY <1>1 DEF G!MayCommit, G!Existing
  <1> DEFINE m == Len(entities)
  <1>6. DOMAIN entities' = 1..m + 1 /\ 1..m + 1 = 1..m \cup {m + 1} /\ entities'[m + 1] = e
        /\ \A n \in 1..m : entities'[n] = entities[n]
    BY <1>3, <1>4
  <1>7. G!OnePerRequest /\ G!FilesBehindRows /\ DOMAIN entities = 1..m BY <1>4 DEF GuestIInv, EntityInv
  <1> HIDE DEF m
  <1>8. G!OnePerRequest' BY <1>5, <1>6, <1>7 DEF G!OnePerRequest
  <1>9. G!FilesBehindRows' BY <1>1, <1>6, <1>7 DEF G!FilesBehindRows
  <1> QED BY <1>1, <1>3, <1>8, <1>9 DEF EntityInv

(* One handler's request has moved on: its file is its own, and the rows   *)
(* name the files of the others as they did.                               *)
LEMMA OthersFiles ==
    ASSUME GuestIInv, NEW h \in Handlers, \A k \in Handlers \ {h} : handler'[k] = handler[k], FileOK(h)',
           files \subseteq files' \cup {handler[h].file}, parts \subseteq parts' \cup {handler[h].file},
           \A k \in Handlers \ {h} : HasFile(k) =>
               /\ handler[k].file \in G!Referenced' <=> handler[k].file \in G!Referenced
               /\ HasFile(h)' => handler[k].file # handler'[h].file
    PROVE  FileInv'
  <1>1. ASSUME NEW k \in Handlers \ {h} PROVE FileOK(k)'
    <2>1. FileOK(k) /\ handler'[k] = handler[k] /\ HasFile(k)' = HasFile(k) BY DEF GuestIInv, FileInv, HasFile
    <2>2. HasFile(k) => handler[k].file # handler[h].file
      <3>1. CASE HasFile(h) BY <3>1 DEF GuestIInv, FileInv
      <3>2. CASE ~HasFile(h)
        <4>1. handler[h].file = 0 BY <3>2 DEF GuestIInv, FileInv, FileOK
        <4>2. HasFile(k) => handler[k].file # 0
          BY <2>1 DEF FileOK, FileThere, GuestIInv, StoreInv, StoreOK
        <4> QED BY <4>1, <4>2
      <3> QED BY <3>1, <3>2
    <2>3. HasFile(k) => FileThere(k)' BY <2>1, <2>2 DEF FileOK, FileThere
    <2>4. handler[k].committed => HasFile(k) BY <2>1 DEF FileOK, HasFile, G!Uploading
    <2> QED BY <2>1, <2>3, <2>4 DEF FileOK
  <1>2. ASSUME NEW j \in Handlers, NEW k \in Handlers, (HasFile(j) /\ HasFile(k) /\ handler[j].file = handler[k].file)'
        PROVE  j = k
    <2>1. CASE j # h /\ k # h BY <1>2, <2>1 DEF GuestIInv, FileInv, HasFile
    <2>2. CASE j = h /\ k # h BY <1>2, <2>2 DEF HasFile
    <2>3. CASE k = h /\ j # h BY <1>2, <2>3 DEF HasFile
    <2> QED BY <2>1, <2>2, <2>3
  <1> QED BY <1>1, <1>2 DEF FileInv

(* What one handler did leaves its file behind only if that failed.        *)
LEMMA NothingStray ==
    ASSUME GuestIInv, NEW h \in Handlers, \A k \in Handlers \ {h} : handler'[k] = handler[k], UNCHANGED lifecycle,
           files' \cup parts' \subseteq files \cup parts \cup {handler'[h].file}, G!Referenced \subseteq G!Referenced',
           \/ handler[h].file \in files' \cup parts' => handler[h].file \in G!Referenced' \cup {handler'[h].file}
           \/ G!Fails,
           StoreOK', G!Works \/ G!Fails
    PROVE  StoreInv'
  <1>1. ASSUME NEW f \in G!Strays' PROVE f \in G!Strays \/ f = handler[h].file
    <2>1. /\ f \in files' \cup parts' /\ f \notin G!Referenced' /\ \A k \in Handlers : f # handler'[k].file
      BY DEF G!Strays
    <2>2. f \in files \cup parts /\ f \notin G!Referenced BY <2>1
    <2>3. \A k \in Handlers \ {h} : f # handler[k].file BY <2>1
    <2> QED BY <2>2, <2>3 DEF G!Strays
  <1>2. CASE handler[h].file \in files' \cup parts' => handler[h].file \in G!Referenced' \cup {handler'[h].file}
    <2>1. handler[h].file \notin G!Strays' BY <1>2 DEF G!Strays
    <2>2. G!Strays' \subseteq G!Strays BY <1>1, <2>1
    <2> QED BY <2>2, CountedStep, StraysCounted
  <1>3. CASE G!Fails
    <2>1. G!Strays' \subseteq G!Strays \cup {handler[h].file} /\ errors' = errors + 1 BY <1>1, <1>3 DEF G!Fails
    <2> QED BY <2>1, CountedStep, StraysCounted
  <1> QED BY <1>2, <1>3

(* A step of one handler leaves the listener and the sessions alone.       *)
LEMMA RequestStep ==
    ASSUME GuestIInv, NEW h \in Handlers, \A k \in Handlers \ {h} : handler'[k] = handler[k], G!Quiet,
           SessionOK(h)', HandlerInv', FileInv', EntityInv', StoreInv'
    PROVE  GuestIInv'
  <1>1. UNCHANGED <<lan, lock, thread, lifecycle, session, revoked>> BY DEF G!Quiet, G!Unshared, G!sharing
  <1>2. ListenerInv' /\ RevokedInv' /\ SessionInv'
    BY <1>1 DEF GuestIInv, ListenerInv, RevokedInv, SessionInv, G!Serving
  <1>3. \A k \in Handlers \ {h} : SessionOK(k)' BY <1>1 DEF GuestIInv, SessionOK
  <1> QED BY <1>2, <1>3 DEF GuestIInv

(* A request that goes on is its session's still.                          *)
LEMMA SessionKept ==
    ASSUME GuestIInv, NEW h \in Handlers, G!Quiet,
           handler'[h].pc = "idle" \/ (handler[h].pc # "idle" /\ handler'[h].by = handler[h].by)
    PROVE  SessionOK(h)'
  <1>1. UNCHANGED <<session, revoked>> BY DEF G!Quiet
  <1> QED BY <1>1 DEF GuestIInv, SessionOK

(* A handler goes on with the request it has.                              *)
LEMMA StepTo ==
    ASSUME GuestIInv, NEW h \in Handlers, NEW pc \in {"idle", "message"} \cup G!Uploading, G!Step(h, pc)
    PROVE  /\ HandlerInv' /\ \A k \in Handlers \ {h} : handler'[k] = handler[k]
           /\ handler'[h].pc = pc /\ handler'[h].by = handler[h].by /\ handler'[h].file = handler[h].file
           /\ handler'[h].committed = handler[h].committed
  <1> DEFINE a == [handler[h] EXCEPT !.pc = pc]
  <1>1. handler' = [handler EXCEPT ![h] = a] BY DEF G!Step, GuestIInv, HandlerInv
  <1>2. handler[h] \in HandlerStates BY GuestTyped
  <1>3. /\ a \in HandlerStates /\ a.pc = pc /\ a.by = handler[h].by /\ a.file = handler[h].file
        /\ a.committed = handler[h].committed
    BY <1>2 DEF HandlerStates
  <1> HIDE DEF a
  <1> QED BY <1>1, <1>3, OneHandler

(* What the invariant says of a handler's file.                            *)
LEMMA FileOf ==
    ASSUME GuestIInv, NEW h \in Handlers
    PROVE  /\ ~HasFile(h) => handler[h].file = 0 /\ ~handler[h].committed
           /\ HasFile(h) => FileThere(h) /\ handler[h].file # 0
           /\ handler[h].committed => handler[h].pc = "answered" /\ handler[h].file \in G!Referenced
           /\ (HasFile(h) /\ ~handler[h].committed) => handler[h].file \notin G!Referenced
           /\ \A k \in Handlers \ {h} : HasFile(k) /\ HasFile(h) => handler[k].file # handler[h].file
           /\ \A k \in Handlers : HasFile(k) => handler[k].file \in files \cup parts
           /\ files \subseteq Nat \ {0} /\ IsFiniteSet(files) /\ abandoned \subseteq Nat \ {0} /\ IsFiniteSet(abandoned)
           /\ parts \subseteq Nat \ {0} /\ IsFiniteSet(parts) /\ parts \cap files = {}
  <1>1. /\ FileOK(h) /\ StoreOK /\ \A k \in Handlers \ {h} : HasFile(k) /\ HasFile(h) => handler[k].file # handler[h].file
        /\ \A k \in Handlers : FileOK(k)
    BY DEF GuestIInv, FileInv, StoreInv
  <1>2. /\ files \subseteq Nat \ {0} /\ IsFiniteSet(files) /\ abandoned \subseteq Nat \ {0} /\ IsFiniteSet(abandoned)
        /\ parts \subseteq Nat \ {0} /\ IsFiniteSet(parts) /\ parts \cap files = {}
    BY <1>1 DEF StoreOK
  <1>3. handler[h].committed => HasFile(h) BY <1>1 DEF FileOK, HasFile, G!Uploading
  <1>4. \A k \in Handlers : HasFile(k) => handler[k].file \in files \cup parts BY <1>1 DEF FileOK, FileThere
  <1>5. HasFile(h) => handler[h].file # 0 BY <1>2, <1>4
  <1> QED BY <1>1, <1>2, <1>3, <1>4, <1>5 DEF FileOK

LEMMA IdleFile == ASSUME NEW h \in Handlers, handler'[h] = G!Idle PROVE FileOK(h)' /\ ~HasFile(h)'
  <1>1. ~HasFile(h)' BY IdleHandler DEF HasFile, G!Uploading
  <1> QED BY <1>1, IdleHandler DEF FileOK

LEMMA ArriveKept ==
    ASSUME GuestIInv, NEW h \in Handlers, NEW o \in G!Owners, NEW r \in Requests, G!Arrive(h, o, r)
    PROVE  GuestIInv'
  <1>1. PICK f : f = G!Fresh OBVIOUS
  <1>2. /\ handler[h].pc = "idle" /\ (o # Host => G!Authentic(o)) /\ G!Quiet /\ G!Works
        /\ UNCHANGED <<entities, files, abandoned>>
        /\ \/ G!Request(h, o, r, "message", 0) /\ UNCHANGED parts
           \/ G!Request(h, o, r, "streaming", f) /\ parts' = parts \cup {f}
    BY <1>1 DEF G!Arrive, G!Waits
  <1>3. f \in Nat \ {0} /\ f \notin files /\ f \notin parts /\ f \notin G!Referenced BY <1>1, FreshFile DEF G!Used
  <1>4. PICK pc \in {"message", "streaming"}, n \in {0, f} :
           /\ G!Request(h, o, r, pc, n)
           /\ pc = "message" => n = 0 /\ UNCHANGED parts
           /\ pc = "streaming" => n = f /\ parts' = parts \cup {f}
    BY <1>2
  <1> DEFINE a == [G!Idle EXCEPT !.pc = pc, !.by = o, !.request = r, !.file = n]
  <1>5. /\ a \in HandlerStates /\ a.pc = pc /\ a.by = o /\ a.file = n /\ ~a.committed
    <2> DEFINE k1 == [G!Idle EXCEPT !.pc = pc]
               k2 == [k1 EXCEPT !.by = o]
               k3 == [k2 EXCEPT !.request = r]
               k4 == [k3 EXCEPT !.file = n]
    <2>1. pc \in {"idle", "message"} \cup G!Uploading /\ r \in Asked /\ n \in Nat BY <1>3 DEF G!Uploading, Asked
    <2>2. k1 \in HandlerStates /\ k1.pc = pc /\ k1.committed = FALSE
      BY <2>1, IdleHandler DEF HandlerStates
    <2>3. a = k4 BY IdleHandler DEF HandlerStates
    <2> HIDE DEF k1
    <2>4. k2 \in HandlerStates /\ k2.pc = pc /\ k2.by = o /\ k2.committed = FALSE
      BY <2>2 DEF HandlerStates
    <2> HIDE DEF k2
    <2>5. k3 \in HandlerStates /\ k3.pc = pc /\ k3.by = o /\ k3.committed = FALSE
      BY <2>1, <2>4 DEF HandlerStates
    <2> HIDE DEF k3
    <2>6. k4 \in HandlerStates /\ k4.pc = pc /\ k4.by = o /\ k4.file = n /\ k4.committed = FALSE
      BY <2>1, <2>5 DEF HandlerStates
    <2> HIDE DEF k4, a
    <2> QED BY <2>3, <2>6
  <1>6. handler' = [handler EXCEPT ![h] = a] BY <1>4 DEF G!Request
  <1> HIDE DEF a
  <1>7. HandlerInv' /\ handler'[h] = a /\ \A k \in Handlers \ {h} : handler'[k] = handler[k]
    BY <1>5, <1>6, OneHandler
  <1>8. UNCHANGED <<lan, session, revoked, lifecycle>> BY <1>2 DEF G!Quiet, G!Unshared, G!sharing
  <1>9. SessionOK(h)'
    <2>1. o # Host =>
            session[o].row = "active" /\ G!Serving(session[o].generation) /\ session[o].generation = lan.current
      BY <1>2 DEF G!Authentic, G!Serving
    <2>2. o # Host => session[o].row = "active" /\ session[o].generation \notin revoked
      BY <2>1 DEF GuestIInv, RevokedInv
    <2> QED BY <1>5, <1>7, <1>8, <2>2 DEF SessionOK
  <1>10. G!Referenced' = G!Referenced BY <1>2 DEF G!Referenced
  <1>11. ~HasFile(h) /\ handler[h].file = 0 /\ 0 \notin files \cup parts BY <1>2, FileOf DEF HasFile, G!Uploading
  <1>12. FileOK(h)' BY <1>3, <1>4, <1>5, <1>7, <1>10 DEF FileOK, FileThere, HasFile, G!Uploading
  <1>13. FileInv'
    <2>1. HasFile(h)' => handler'[h].file = f BY <1>4, <1>5, <1>7 DEF HasFile, G!Uploading
    <2>2. \A k \in Handlers \ {h} : HasFile(k) => handler[k].file # f BY <1>3, FileOf
    <2>3. parts \subseteq parts' BY <1>4
    <2> QED BY <1>2, <1>7, <1>10, <1>12, <2>1, <2>2, <2>3, OthersFiles
  <1>14. EntityInv' BY <1>2, <1>10 DEF GuestIInv, EntityInv, G!OnePerRequest, G!FilesBehindRows
  <1>15. StoreInv'
    <2>1. files' \cup parts' \subseteq files \cup parts \cup {handler'[h].file} BY <1>2, <1>4, <1>5, <1>7
    <2>2. handler[h].file \notin files' \cup parts' BY <1>2, <1>3, <1>4, <1>11
    <2>3. StoreOK'
      <3>1. IsFiniteSet(parts \cup {f}) BY FileOf, FS_AddElement
      <3> QED BY <1>2, <1>3, <1>4, <3>1, FileOf DEF StoreOK
    <2> QED BY <1>2, <1>7, <1>8, <1>10, <2>1, <2>2, <2>3, NothingStray
  <1> QED BY <1>2, <1>7, <1>9, <1>13, <1>14, <1>15, RequestStep

LEMMA CommitMessageKept == ASSUME GuestIInv, NEW h \in Handlers, G!CommitMessage(h) PROVE GuestIInv'
  <1>1. /\ handler[h].pc = "message" /\ handler' = [handler EXCEPT ![h] = G!Idle] /\ G!Quiet /\ G!Works
        /\ UNCHANGED <<parts, files, abandoned>>
        /\ UNCHANGED entities \/ (G!MayCommit(h) /\ entities' = Append(entities, G!Entity(h, "message")))
    BY DEF G!CommitMessage, G!Waits, G!Finish
  <1>2. HandlerInv' /\ handler'[h] = G!Idle /\ \A k \in Handlers \ {h} : handler'[k] = handler[k]
    BY <1>1, IdleHandler, OneHandler
  <1>3. SessionOK(h)' BY <1>1, <1>2, IdleHandler, SessionKept
  <1>4. ~HasFile(h) /\ handler[h].file = 0 BY <1>1, FileOf DEF HasFile, G!Uploading
  <1>5. EntityInv' /\ (G!Referenced' = G!Referenced \/ G!Referenced' = G!Referenced \cup {0})
    <2>1. CASE UNCHANGED entities
      <3>1. G!Referenced' = G!Referenced BY <2>1 DEF G!Referenced
      <3> QED BY <1>1, <2>1, <3>1 DEF GuestIInv, EntityInv, G!OnePerRequest, G!FilesBehindRows
    <2>2. CASE G!MayCommit(h) /\ entities' = Append(entities, G!Entity(h, "message"))
      <3>1. files \subseteq files' \cup abandoned' /\ abandoned \subseteq abandoned' BY <1>1
      <3>2. EntityInv' /\ G!Referenced' = G!Referenced \cup {handler[h].file} BY <2>2, <3>1, Added
      <3> QED BY <1>4, <3>2
    <2> QED BY <1>1, <2>1, <2>2
  <1>6. FileInv'
    <2>1. 0 \notin files \cup parts BY FileOf
    <2>2. \A k \in Handlers \ {h} : HasFile(k) => (handler[k].file \in G!Referenced' <=> handler[k].file \in G!Referenced)
      BY <1>5, <2>1, FileOf
    <2> QED BY <1>1, <1>2, <2>2, IdleFile, OthersFiles
  <1>7. StoreInv'
    <2>1. 0 \notin files \cup parts BY FileOf
    <2>2. G!Referenced \subseteq G!Referenced' /\ UNCHANGED lifecycle BY <1>1, <1>5 DEF G!Quiet, G!Unshared, G!sharing
    <2>3. StoreOK' BY <1>1 DEF GuestIInv, StoreInv, StoreOK
    <2> QED BY <1>1, <1>2, <1>4, <2>1, <2>2, <2>3, NothingStray
  <1> QED BY <1>1, <1>2, <1>3, <1>5, <1>6, <1>7, RequestStep

(* A handler gives up its upload, which no row names: its file goes, or    *)
(* stays because of a failure.                                             *)
LEMMA GivenUp ==
    ASSUME GuestIInv, NEW h \in Handlers, HasFile(h), G!Finish(h), G!Quiet, UNCHANGED entities, EntityInv', StoreOK',
           files' \subseteq files, files \subseteq files' \cup {handler[h].file},
           parts' \subseteq parts, parts \subseteq parts' \cup {handler[h].file},
           handler[h].file \in (files' \cup parts') \ G!Referenced => G!Fails, G!Works \/ G!Fails
    PROVE  GuestIInv'
  <1>1. HandlerInv' /\ handler'[h] = G!Idle /\ \A k \in Handlers \ {h} : handler'[k] = handler[k]
    BY IdleHandler, OneHandler DEF G!Finish
  <1>2. SessionOK(h)' BY <1>1, IdleHandler, SessionKept
  <1>3. G!Referenced' = G!Referenced BY DEF G!Referenced
  <1>4. FileInv' BY <1>1, <1>3, IdleFile, OthersFiles
  <1>5. UNCHANGED lifecycle BY DEF G!Quiet, G!Unshared, G!sharing
  <1>6. StoreInv' BY <1>1, <1>3, <1>5, NothingStray
  <1> QED BY <1>1, <1>2, <1>4, <1>6, RequestStep

(* A .part goes, or it stays and something failed.                         *)
LEMMA PartGivenUp ==
    ASSUME GuestIInv, NEW h \in Handlers, handler[h].pc \in {"streaming", "staged"}, G!Finish(h), G!Quiet,
           UNCHANGED <<entities, files, abandoned>>, G!CleanUp(h) \/ (UNCHANGED parts /\ G!Fails), G!Works \/ G!Fails
    PROVE  GuestIInv'
  <1>1. HasFile(h) BY DEF HasFile, G!Uploading
  <1>2. handler[h].file \in parts /\ handler[h].file \notin files BY <1>1, FileOf DEF FileThere
  <1>3. parts' = parts \ {handler[h].file} \/ (parts' = parts /\ G!Fails) BY DEF G!CleanUp
  <1>4. EntityInv'
    <2>1. G!Referenced' = G!Referenced BY DEF G!Referenced
    <2> QED BY <2>1 DEF GuestIInv, EntityInv, G!OnePerRequest, G!FilesBehindRows
  <1>5. StoreOK'
    <2>1. IsFiniteSet(parts \ {handler[h].file}) BY FileOf, FS_RemoveElement
    <2> QED BY <1>3, <2>1, FileOf DEF StoreOK
  <1> QED BY <1>1, <1>2, <1>3, <1>4, <1>5, GivenUp

LEMMA StageKept == ASSUME GuestIInv, NEW h \in Handlers, G!Stage(h) \/ G!RenameFails(h) PROVE GuestIInv'
  <1>1. CASE /\ G!Stage(h) \/ G!RenameFails(h)
             /\ G!Finish(h)
             /\ (G!CleanUp(h) /\ (G!Works \/ G!Fails)) \/ (UNCHANGED parts /\ G!Fails)
    <2>1. handler[h].pc \in {"streaming", "staged"} /\ G!Quiet /\ UNCHANGED <<entities, files, abandoned>>
      BY <1>1 DEF G!Stage, G!RenameFails, G!Waits
    <2> QED BY <1>1, <2>1, PartGivenUp
  <1>2. CASE G!Stage(h) /\ G!Step(h, "staged") /\ UNCHANGED parts /\ G!Works
    <2>1. handler[h].pc = "streaming" /\ G!Quiet /\ UNCHANGED <<entities, files, abandoned, parts>>
      BY <1>2 DEF G!Stage, G!Waits
    <2>2. "staged" \in {"idle", "message"} \cup G!Uploading BY DEF G!Uploading
    <2>3. /\ HandlerInv' /\ \A k \in Handlers \ {h} : handler'[k] = handler[k]
          /\ handler'[h].pc = "staged" /\ handler'[h].by = handler[h].by /\ handler'[h].file = handler[h].file
          /\ handler'[h].committed = handler[h].committed
      BY <1>2, <2>2, StepTo
    <2>4. SessionOK(h)' BY <2>1, <2>3, SessionKept
    <2>5. G!Referenced' = G!Referenced BY <2>1 DEF G!Referenced
    <2>6. HasFile(h) /\ HasFile(h)' BY <2>1, <2>3 DEF HasFile, G!Uploading
    <2>7. FileOK(h)' BY <2>1, <2>3, <2>5, <2>6, FileOf DEF FileOK, FileThere
    <2>8. FileInv' BY <2>1, <2>3, <2>5, <2>6, <2>7, FileOf, OthersFiles
    <2>9. EntityInv' BY <2>1, <2>5 DEF GuestIInv, EntityInv, G!OnePerRequest, G!FilesBehindRows
    <2>10. StoreInv'
      <3>1. UNCHANGED lifecycle BY <2>1 DEF G!Quiet, G!Unshared, G!sharing
      <3>2. StoreOK' BY <2>1 DEF GuestIInv, StoreInv, StoreOK
      <3> QED BY <1>2, <2>1, <2>3, <2>5, <3>1, <3>2, NothingStray
    <2> QED BY <2>1, <2>3, <2>4, <2>8, <2>9, <2>10, RequestStep
  <1> QED BY <1>1, <1>2 DEF G!Stage, G!RenameFails

LEMMA RenameKept == ASSUME GuestIInv, NEW h \in Handlers, G!Rename(h) PROVE GuestIInv'
  <1> DEFINE pc == IF handler[h].live THEN "queued" ELSE "answered"
             f == handler[h].file
  <1>1. /\ handler[h].pc = "staged" /\ G!Quiet /\ UNCHANGED <<entities, abandoned>> /\ G!Works
        /\ parts' = parts \ {f} /\ files' = files \cup {f} /\ G!Step(h, pc)
    BY DEF G!Rename, G!Waits, G!CleanUp
  <1>2. pc \in {"queued", "answered"} /\ pc \in {"idle", "message"} \cup G!Uploading BY DEF G!Uploading
  <1>3. HasFile(h) /\ f \in parts /\ f \notin files /\ ~handler[h].committed
    <2>1. HasFile(h) BY <1>1 DEF HasFile, G!Uploading
    <2> QED BY <1>1, <2>1, FileOf DEF FileThere
  <1> HIDE DEF pc, f
  <1>4. /\ HandlerInv' /\ \A k \in Handlers \ {h} : handler'[k] = handler[k]
        /\ handler'[h].pc = pc /\ handler'[h].by = handler[h].by /\ handler'[h].file = f
        /\ handler'[h].committed = handler[h].committed
    BY <1>1, <1>2, StepTo DEF f
  <1>5. SessionOK(h)' BY <1>1, <1>4, SessionKept
  <1>6. G!Referenced' = G!Referenced BY <1>1 DEF G!Referenced
  <1>7. HasFile(h)' BY <1>2, <1>4 DEF HasFile, G!Uploading
  <1>8. f \notin G!Referenced /\ f # 0 BY <1>3, FileOf DEF f
  <1>9. FileOK(h)' BY <1>1, <1>2, <1>3, <1>4, <1>6, <1>7, <1>8 DEF FileOK, FileThere
  <1>10. FileInv'
    <2>1. \A k \in Handlers \ {h} : HasFile(k) => handler[k].file # handler'[h].file BY <1>3, <1>4, FileOf DEF f
    <2>2. files \subseteq files' /\ parts \subseteq parts' \cup {handler[h].file} BY <1>1 DEF f
    <2> QED BY <1>4, <1>6, <1>9, <2>1, <2>2, OthersFiles
  <1>11. EntityInv' BY <1>1, <1>6 DEF GuestIInv, EntityInv, G!OnePerRequest, G!FilesBehindRows
  <1>12. StoreInv'
    <2>1. UNCHANGED lifecycle BY <1>1 DEF G!Quiet, G!Unshared, G!sharing
    <2>2. files' \cup parts' \subseteq files \cup parts \cup {handler'[h].file} BY <1>1, <1>4
    <2>3. StoreOK'
      <3>1. IsFiniteSet(files \cup {f}) /\ IsFiniteSet(parts \ {f}) BY FileOf, FS_AddElement, FS_RemoveElement
      <3> QED BY <1>1, <1>3, <3>1, FileOf DEF StoreOK
    <2> QED BY <1>1, <1>4, <1>6, <2>1, <2>2, <2>3, NothingStray DEF f
  <1> QED BY <1>1, <1>4, <1>5, <1>10, <1>11, <1>12, RequestStep

LEMMA ExecuteKept == ASSUME GuestIInv, NEW h \in Handlers, G!Execute(h) PROVE GuestIInv'
  <1>1. handler[h].pc = "queued" /\ G!Quiet /\ UNCHANGED <<parts, files, abandoned>> /\ (G!Works \/ G!Fails)
    BY DEF G!Execute, G!Waits
  <1>2. HasFile(h) /\ ~handler[h].committed /\ handler[h].file \in files /\ handler[h].file \notin G!Referenced
    <2>1. HasFile(h) /\ ~handler[h].committed BY <1>1, FileOf DEF HasFile, G!Uploading
    <2> QED BY <1>1, <2>1, FileOf DEF FileThere
  <1>3. "answered" \in {"idle", "message"} \cup G!Uploading BY DEF G!Uploading
  <1>4. UNCHANGED lifecycle BY <1>1 DEF G!Quiet, G!Unshared, G!sharing
  <1>5. ASSUME NEW b \in BOOLEAN, HandlerInv', \A k \in Handlers \ {h} : handler'[k] = handler[k],
               handler'[h].pc = "answered", handler'[h].by = handler[h].by, handler'[h].file = handler[h].file,
               handler'[h].committed = b, EntityInv',
               G!Referenced' = IF b THEN G!Referenced \cup {handler[h].file} ELSE G!Referenced
        PROVE  GuestIInv'
    <2>1. SessionOK(h)' BY <1>1, <1>5, SessionKept
    <2>2. HasFile(h)' BY <1>5 DEF HasFile, G!Uploading
    <2>3. FileOK(h)' BY <1>1, <1>2, <1>5, <2>2 DEF FileOK, FileThere
    <2>4. \A k \in Handlers \ {h} : HasFile(k) =>
             /\ (handler[k].file \in G!Referenced' <=> handler[k].file \in G!Referenced)
             /\ handler[k].file # handler'[h].file
      BY <1>1, <1>2, <1>5, FileOf
    <2>5. FileInv' BY <1>1, <1>5, <2>3, <2>4, OthersFiles
    <2>6. StoreInv'
      <3>1. StoreOK' BY <1>1 DEF GuestIInv, StoreInv, StoreOK
      <3>2. G!Referenced \subseteq G!Referenced' BY <1>5
      <3> QED BY <1>1, <1>4, <1>5, <3>1, <3>2, NothingStray
    <2> QED BY <1>1, <1>5, <2>1, <2>5, <2>6, RequestStep
  <1>6. CASE /\ G!MayCommit(h) /\ entities' = Append(entities, G!Entity(h, "attachment"))
             /\ handler' = [handler EXCEPT ![h].pc = "answered", ![h].committed = TRUE]
    <2> DEFINE k1 == [handler[h] EXCEPT !.pc = "answered"]
               a == [k1 EXCEPT !.committed = TRUE]
    <2>1. handler' = [handler EXCEPT ![h] = a] BY <1>6 DEF GuestIInv, HandlerInv
    <2>2. handler[h] \in HandlerStates BY GuestTyped
    <2>3. k1 \in HandlerStates /\ k1.pc = "answered" /\ k1.by = handler[h].by /\ k1.file = handler[h].file
      BY <1>3, <2>2 DEF HandlerStates
    <2> HIDE DEF k1
    <2>4. a \in HandlerStates /\ a.pc = "answered" /\ a.by = handler[h].by /\ a.file = handler[h].file /\ a.committed = TRUE
      BY <2>3 DEF HandlerStates
    <2> HIDE DEF a
    <2>5. HandlerInv' /\ handler'[h] = a /\ \A k \in Handlers \ {h} : handler'[k] = handler[k]
      BY <2>1, <2>4, OneHandler
    <2>6. files \subseteq files' \cup abandoned' /\ abandoned \subseteq abandoned' BY <1>1
    <2>7. EntityInv' /\ G!Referenced' = G!Referenced \cup {handler[h].file} BY <1>2, <1>6, <2>6, Added
    <2> QED BY <1>5, <2>4, <2>5, <2>7
  <1>7. CASE G!Step(h, "answered") /\ UNCHANGED entities
    <2>1. /\ HandlerInv' /\ \A k \in Handlers \ {h} : handler'[k] = handler[k]
          /\ handler'[h].pc = "answered" /\ handler'[h].by = handler[h].by /\ handler'[h].file = handler[h].file
          /\ handler'[h].committed = handler[h].committed
      BY <1>3, <1>7, StepTo
    <2>2. G!Referenced' = G!Referenced BY <1>7 DEF G!Referenced
    <2>3. EntityInv' BY <1>1, <1>7, <2>2 DEF GuestIInv, EntityInv, G!OnePerRequest, G!FilesBehindRows
    <2>4. handler[h].committed \in BOOLEAN
      <3>1. handler[h] \in HandlerStates BY GuestTyped
      <3> QED BY <3>1 DEF HandlerStates
    <2>5. handler'[h].committed = FALSE BY <1>2, <2>1, <2>4
    <2> QED BY <1>5, <2>1, <2>2, <2>3, <2>5
  <1> QED BY <1>6, <1>7 DEF G!Execute

(* The file of an upload that returns is named by a row, removed, or could *)
(* not be; and no other handler has it.                                    *)
LEMMA AnsweredKept == ASSUME GuestIInv, NEW h \in Handlers, G!Answered(h) \/ G!RemoveFails(h) PROVE GuestIInv'
  <1>1. /\ handler[h].pc \in {"queued", "answered"} /\ G!Finish(h) /\ G!Quiet /\ UNCHANGED <<entities, parts>>
        /\ \/ handler[h].committed /\ UNCHANGED <<files, abandoned>> /\ G!Works
           \/ UNCHANGED <<files, abandoned>> /\ G!Fails
           \/ /\ files' = files \ {handler[h].file} /\ G!Works
              /\ abandoned' = IF handler[h].committed THEN abandoned \cup {handler[h].file} ELSE abandoned
    BY DEF G!Answered, G!RemoveFails, G!Refused, G!Waits, G!Removes, G!content
  <1>2. HasFile(h) /\ handler[h].file \in files /\ handler[h].file \notin parts
    <2>1. HasFile(h) BY <1>1 DEF HasFile, G!Uploading
    <2> QED BY <1>1, <2>1, FileOf DEF FileThere
  <1>3. handler[h].committed <=> handler[h].file \in G!Referenced
    <2>1. handler[h].committed \in BOOLEAN
      <3>1. handler[h] \in HandlerStates BY GuestTyped
      <3> QED BY <3>1 DEF HandlerStates
    <2> QED BY <1>2, <2>1, FileOf
  <1>4. G!Referenced' = G!Referenced BY <1>1 DEF G!Referenced
  <1>5. EntityInv'
    <2>1. G!FilesBehindRows'
      <3> SUFFICES ASSUME NEW n \in DOMAIN entities, entities[n].kind = "attachment"
                   PROVE  entities[n].file \in files' \cup abandoned'
        BY <1>1 DEF G!FilesBehindRows
      <3>1. entities[n].file \in files \cup abandoned BY DEF GuestIInv, EntityInv, G!FilesBehindRows
      <3>2. entities[n].file \in G!Referenced BY DEF G!Referenced
      <3>3. CASE entities[n].file = handler[h].file BY <1>1, <1>3, <3>1, <3>2, <3>3
      <3>4. CASE entities[n].file # handler[h].file BY <1>1, <3>1, <3>4
      <3> QED BY <3>3, <3>4
    <2> QED BY <1>1, <1>4, <2>1 DEF GuestIInv, EntityInv, G!OnePerRequest
  <1>6. StoreOK'
    <2>1. handler[h].file \in Nat \ {0} BY <1>2, FileOf
    <2>2. IsFiniteSet(files \ {handler[h].file}) BY FileOf, FS_RemoveElement
    <2>3. IsFiniteSet(abandoned \cup {handler[h].file}) BY FileOf, FS_AddElement
    <2>4. IsFiniteSet(files') /\ IsFiniteSet(abandoned') /\ files' \subseteq files BY <1>1, <2>2, <2>3, FileOf
    <2>5. abandoned' \subseteq Nat \ {0} BY <1>1, <2>1, FileOf
    <2> QED BY <1>1, <2>4, <2>5, FileOf DEF StoreOK
  <1>7. handler[h].file \in (files' \cup parts') \ G!Referenced => G!Fails BY <1>1, <1>2, <1>3
  <1>8. /\ files' \subseteq files /\ files \subseteq files' \cup {handler[h].file}
        /\ parts' \subseteq parts /\ parts \subseteq parts' \cup {handler[h].file}
    BY <1>1
  <1> QED BY <1>1, <1>2, <1>5, <1>6, <1>7, <1>8, GivenUp

LEMMA CancelKept == ASSUME GuestIInv, NEW h \in Handlers, G!Cancel(h) PROVE GuestIInv'
  <1>1. /\ handler' = G!Cancelled({h}) /\ G!Quiet /\ UNCHANGED <<entities, parts, files, abandoned>> /\ Counted
    BY CountedStep DEF G!Cancel, G!content
  <1>2. UNCHANGED <<lan, lock, thread, lifecycle, session, revoked>> BY <1>1 DEF G!Quiet, G!Unshared, G!sharing
  <1>3. HandlerInv' /\ \A k \in Handlers : SameRequest(k) BY <1>1, CancelledKeeps
  <1>4. FileInv' /\ EntityInv' /\ StoreInv' BY <1>1, <1>2, <1>3, FilesStay
  <1>5. SessionInv' /\ \A k \in Handlers : SessionOK(k)' BY <1>2, <1>3, SessionsStay
  <1>6. ListenerInv' /\ RevokedInv' BY <1>2 DEF GuestIInv, ListenerInv, RevokedInv, G!Serving
  <1> QED BY <1>3, <1>4, <1>5, <1>6 DEF GuestIInv

-----------------------------------------------------------------------------
LEMMA GuestRestartKept == ASSUME GuestIInv, G!Restart PROVE GuestIInv'
  <1>1. /\ UNCHANGED <<entities, abandoned>> /\ lan' = [lan EXCEPT !.state = "disabled", !.current = 0] /\ lock' = "free"
        /\ thread' = [t \in G!Threads |-> [G!NoCall EXCEPT !.pc = "done"]]
        /\ handler' = [h \in Handlers |-> G!Idle]
        /\ session' = [g \in Guests |-> [row |-> IF session[g].row \in {"joining", "none"} THEN "none" ELSE
                                                 G!Revoked[g].row, generation |-> 0]]
        /\ revoked' = 1..lan.built /\ lifecycle' = "interrupted"
        /\ UNCHANGED <<parts, files>> \/ (parts' = {} /\ files' = files \cap G!Referenced)
        /\ Counted
    BY CountedStep DEF G!Restart, G!RecoverFiles
  <1>2. lan.built \in Nat /\ lan = [state |-> lan.state, current |-> lan.current, built |-> lan.built] BY GuestTyped
  <1>3. lan' = [state |-> "disabled", current |-> 0, built |-> lan.built] BY <1>1, <1>2
  <1>4. lan' \in LanStates /\ lan'.state = "disabled" /\ lan'.current = 0 /\ lan'.built = lan.built
    BY <1>2, <1>3, SnapshotTyped
  <1>5. ListenerInv'
    <2> DEFINE a == [G!NoCall EXCEPT !.pc = "done"]
    <2>1. a \in ThreadStates /\ a.pc = "done" BY DEF G!NoCall, ThreadStates
    <2> HIDE DEF a
    <2>2. thread' \in [G!Threads -> ThreadStates] /\ "end" \in G!Threads /\ thread'["end"].pc = "done"
      BY <1>1, <2>1 DEF G!Threads, a
    <2> QED BY <1>1, <1>2, <1>4, <2>2 DEF GuestIInv, ListenerInv
  <1>6. RevokedInv' BY <1>1, <1>4 DEF RevokedInv, G!Serving
  <1>7. SessionInv'
    <2>1. \A g \in Guests : G!Revoked[g].row \in {"none", "joining", "revoked"} BY RevokedSessions
    <2> QED BY <1>1, <2>1 DEF SessionInv, SessionStates
  <1>8. HandlerInv' /\ \A h \in Handlers : handler'[h] = G!Idle BY <1>1, IdleHandler DEF HandlerInv
  <1>9. \A h \in Handlers : SessionOK(h)' BY <1>8, IdleHandler DEF SessionOK
  <1>10. FileInv' BY <1>8, IdleFile DEF FileInv
  <1>11. G!Referenced' = G!Referenced BY <1>1 DEF G!Referenced
  <1>12. EntityInv'
    <2>1. G!FilesBehindRows'
      <3> SUFFICES ASSUME NEW n \in DOMAIN entities, entities[n].kind = "attachment"
                   PROVE  entities[n].file \in files' \cup abandoned'
        BY <1>1 DEF G!FilesBehindRows
      <3>1. entities[n].file \in files \cup abandoned BY DEF GuestIInv, EntityInv, G!FilesBehindRows
      <3>2. entities[n].file \in G!Referenced BY DEF G!Referenced
      <3> QED BY <1>1, <3>1, <3>2
    <2> QED BY <1>1, <1>11, <2>1 DEF GuestIInv, EntityInv, G!OnePerRequest
  <1>13. StoreInv'
    <2>1. StoreOK BY DEF GuestIInv, StoreInv
    <2>2. IsFiniteSet(files) BY <2>1 DEF StoreOK
    <2>3. IsFiniteSet(files \cap G!Referenced) BY <2>2, FS_Subset
    <2>4. IsFiniteSet(parts') BY <1>1, <2>1, FS_EmptySet DEF StoreOK
    <2>5. IsFiniteSet(files') BY <1>1, <2>2, <2>3
    <2>6. StoreOK' BY <1>1, <2>1, <2>4, <2>5 DEF StoreOK
    <2> QED BY <1>1, <2>6 DEF StoreInv, Counted
  <1> QED BY <1>5, <1>6, <1>7, <1>8, <1>9, <1>10, <1>12, <1>13 DEF GuestIInv

LEMMA GuestIInvNext == ASSUME GuestIInv, G!Next PROVE GuestIInv'
  <1>1. CASE G!Listener
    <2>1. CASE G!EndMeeting \/ G!AfterStop \/ G!Command BY <2>1, CallsKept
    <2>2. CASE G!ListenerFails BY <2>2, ListenerFailsKept
    <2>3. ASSUME NEW t \in G!Threads, G!StopCurrent(t) \/ G!Revoke(t) \/ G!Shutdown(t) \/ G!Start(t) PROVE GuestIInv'
      BY <2>3, StopCurrentKept, RevokeKept, ShutdownKept, ListenerStartKept
    <2> QED BY <1>1, <2>1, <2>2, <2>3 DEF G!Listener
  <1>2. CASE G!Visit BY <1>2, VisitKept DEF G!Visit
  <1>3. CASE G!Serve
    BY <1>3, ArriveKept, CommitMessageKept, StageKept, RenameKept, ExecuteKept, AnsweredKept, CancelKept DEF G!Serve
  <1>4. CASE G!Restart BY <1>4, GuestRestartKept
  <1> QED BY <1>1, <1>2, <1>3, <1>4 DEF G!Next

LEMMA GuestIInvStep == GuestIInv /\ [Next]_vars => GuestIInv'
  <1> SUFFICES ASSUME GuestIInv, [Next]_vars PROVE GuestIInv'
    OBVIOUS
  <1>1. CASE G!Next BY <1>1, GuestIInvNext
  <1>2. CASE UNCHANGED guestVars
    <2>1. UNCHANGED <<lan, lock, thread, lifecycle, session, revoked, handler, entities, parts, files, abandoned>>
      BY <1>2 DEF guestVars
    <2>2. ListenerInv' /\ RevokedInv' BY <2>1 DEF GuestIInv, ListenerInv, RevokedInv, G!Serving
    <2>3. Counted BY <1>2, CountedStep DEF guestVars, G!Works
    <2> QED BY <2>1, <2>2, <2>3, GuestlessStep DEF G!Guestless, G!content
  <1> QED BY <1>1, <1>2 DEF Next, vars

(* Whatever the number of guests, requests, uploads and listeners, the     *)
(* invariant of the sharing holds in every state.                          *)
THEOREM GuestInductive == Spec => []GuestIInv
  <1>1. Init => GuestIInv BY GuestIInvInit DEF Init
  <1> QED BY <1>1, GuestIInvStep, PTL DEF Spec

(* A request is committed once, every attachment has its file or the       *)
(* upload that removed it, an upload leaves a file behind only where       *)
(* removing it failed, and the listener is one generation's                *)
(* (createWithinTransaction, commitStaged, cleanup, stopCurrent).          *)
THEOREM GuestInvHolds == Spec => []GuestInv
  <1>1. ASSUME GuestIInv PROVE GuestInv
    <2>1. G!TypeOK
      <3>1. /\ lan.state \in {"disabled", "serving", "stopping", "stopped", "failed"}
            /\ lan.current \in 0..lan.built /\ lan.built \in 0..MaxGenerations
        BY <1>1, GuestTyped DEF GuestIInv, ListenerInv
      <3>2. /\ lock \in G!Threads \cup {"free"} /\ thread \in [G!Threads -> ThreadStates]
            /\ lifecycle \in {"recording", "finalizing", "interrupted"}
            /\ parts \subseteq Nat \ {0} /\ files \subseteq Nat \ {0} /\ abandoned \subseteq Nat \ {0}
        BY <1>1 DEF GuestIInv, ListenerInv, StoreInv, StoreOK
      <3>3. \A g \in Guests : session[g].row \in {"none", "joining", "active", "revoked"}
        BY <1>1, GuestTyped DEF SessionStates
      <3>4. \A h \in Handlers : handler[h].pc \in {"idle", "message"} \cup G!Uploading
        BY <1>1, GuestTyped DEF HandlerStates
      <3> QED BY <3>1, <3>2, <3>3, <3>4 DEF G!TypeOK, ThreadStates
    <2>2. G!OnePerRequest /\ G!FilesBehindRows BY <1>1 DEF GuestIInv, EntityInv
    <2>3. G!StraysAreFailures
      <3>1. G!Cardinality(G!Strays) = Cardinality(G!Strays)
        BY Zenon DEF G!Cardinality, Cardinality, G!IsFiniteSet, IsFiniteSet
      <3> QED BY <1>1, <3>1 DEF GuestIInv, StoreInv, G!StraysAreFailures
    <2>4. G!OneListener BY <1>1 DEF GuestIInv, ListenerInv, G!OneListener
    <2> QED BY <2>1, <2>2, <2>3, <2>4 DEF GuestInv, G!GuestInv
  <1> QED BY <1>1, GuestInductive, PTL

(* Nothing is added by a guest whose generation's sessions were revoked,   *)
(* however long before its request was authenticated (Authenticate,        *)
(* GetWritableSession, RevokeMeeting).                                     *)
THEOREM ContentIsFromSharers == Spec => ContentFromSharers
  <1> DEFINE Act == \A n \in DOMAIN entities' \ DOMAIN entities :
                       entities'[n].by # Host => session[entities'[n].by].generation \notin revoked
  <1>1. GuestIInv /\ [Next]_vars => [Act]_G!vars
    <2> SUFFICES ASSUME GuestIInv, [Next]_vars PROVE Act
      OBVIOUS
    <2>1. CASE UNCHANGED entities BY <2>1
    <2>2. ASSUME NEW h \in Handlers, NEW kind \in {"message", "attachment"}, handler[h].pc # "idle", G!MayCommit(h),
                 entities' = Append(entities, G!Entity(h, kind))
          PROVE  Act
      <3>1. G!Entity(h, kind) \in Entities /\ G!Entity(h, kind).by = handler[h].by
        <4>1. handler[h] \in HandlerStates BY GuestTyped
        <4> QED BY <4>1 DEF G!Entity, Entities, HandlerStates
      <3>2. /\ DOMAIN entities' = 1..Len(entities) + 1 /\ entities'[Len(entities) + 1] = G!Entity(h, kind)
        BY <2>2, <3>1, Appended
      <3>3. DOMAIN entities = 1..Len(entities) /\ Len(entities) \in Nat BY GuestTyped
      <3>4. \A n \in DOMAIN entities' \ DOMAIN entities : n = Len(entities) + 1
        <4> DEFINE m == Len(entities)
        <4>1. m \in Nat /\ DOMAIN entities = 1..m /\ DOMAIN entities' = 1..m + 1 BY <3>2, <3>3
        <4> HIDE DEF m
        <4>2. \A n \in 1..m + 1 : n \notin 1..m => n = m + 1 BY <4>1
        <4> QED BY <4>1, <4>2 DEF m
      <3>5. handler[h].by # Host => session[handler[h].by].row = "active" BY <2>2 DEF G!MayCommit, G!Writable
      <3>6. handler[h].by # Host => session[handler[h].by].generation \notin revoked
        BY <2>2, <3>5 DEF GuestIInv, SessionOK
      <3> QED BY <3>1, <3>2, <3>4, <3>6
    <2>3. CASE G!Next
      <3>1. CASE G!Listener \/ G!Visit \/ G!Restart
        BY <3>1, <2>1 DEF G!Listener, G!Visit, G!Restart, G!StopCurrent, G!Revoke, G!Shutdown, G!Start, G!EndMeeting,
           G!AfterStop, G!Command, G!ListenerFails, G!ResolveMeetingToken, G!CreateSession, G!Guestless, G!content
      <3>2. CASE G!Serve
        <4>1. ASSUME NEW h \in Handlers, G!CommitMessage(h) PROVE Act
          <5>1. handler[h].pc # "idle" BY <4>1 DEF G!CommitMessage, G!Waits
          <5> QED BY <2>1, <2>2, <4>1, <5>1 DEF G!CommitMessage
        <4>2. ASSUME NEW h \in Handlers, G!Execute(h) PROVE Act
          <5>1. handler[h].pc # "idle" BY <4>2 DEF G!Execute, G!Waits
          <5> QED BY <2>1, <2>2, <4>2, <5>1 DEF G!Execute
        <4>3. ASSUME NEW h \in Handlers, G!Stage(h) \/ G!Rename(h) \/ G!RenameFails(h) \/ G!Answered(h) \/ G!RemoveFails(h)
                                       \/ G!Cancel(h)
              PROVE Act
          BY <4>3, <2>1 DEF G!Stage, G!Rename, G!RenameFails, G!Answered, G!RemoveFails, G!Cancel, G!content
        <4>4. ASSUME NEW h \in Handlers, NEW o \in G!Owners, NEW r \in Requests, G!Arrive(h, o, r) PROVE Act
          BY <4>4, <2>1 DEF G!Arrive, G!content
        <4> QED BY <3>2, <4>1, <4>2, <4>3, <4>4 DEF G!Serve
      <3> QED BY <2>3, <3>1, <3>2 DEF G!Next
    <2>4. CASE UNCHANGED guestVars BY <2>4, <2>1 DEF guestVars
    <2> QED BY <2>3, <2>4 DEF Next, vars
  <1> HIDE DEF Act
  <1>2. Spec => [][Act]_G!vars BY <1>1, GuestInductive, PTL DEF Spec
  <1> QED BY <1>2 DEF Act, ContentFromSharers, G!ContentFromSharers
===============================================================================
