-------------------------- MODULE SpeakerCorrection --------------------------
(***************************************************************************)
(* What the host corrects by hand after the meeting, while the workers of  *)
(* SpeakerIdentification go on: a text, the speaker of one utterance, the  *)
(* member a whole cluster is, the description of a resource.  A command    *)
(* carries a request id and the revision the host saw.                     *)
(*                                                                         *)
(* Source: service/correction/service.go,                                  *)
(* repository/correction/repository.go.  There is one resource.            *)
(***************************************************************************)
EXTENDS SpeakerIdentification

CONSTANTS
    Requests,   \* request ids; each command may be sent twice
    Texts,      \* texts and descriptions, the original among them
    Original,
    Corrected,  \* finals whose text and speaker may be corrected
    Kinds       \* kinds of command the host gives

ASSUME CorrectionAssumption ==
    /\ Original \in Texts
    /\ Corrected \subseteq Utts
    /\ Kinds \subseteq {"text", "speaker", "cluster", "resource"}

VARIABLES
    text,      \* current_text and text_revision of utterances
    resource,  \* current_description and description_revision
    audit,     \* corrections with their items, in order of their events
    commands   \* what the host was shown and asks for, and the last answer

correctionVars == <<text, resource, audit, commands>>
vars == <<speakerVars, correctionVars>>

NoCommand == [kind |-> "none", target |-> None, value |-> Original, rev |-> 0, shown |-> {},
              sent |-> 0, saved |-> FALSE, answer |-> "none"]
Assigned(u) == [who |-> utt[u].who, src |-> utt[u].src]

\* What a field holds: a text, or an assignment.
Contents == Texts \cup [who : Participants \cup {Nobody},
                        src : Manual \cup {"unassigned", "automatic_member", "automatic_cluster"}]
ItemSets == SUBSET ((Utts \cup {None}) \X Contents)
VersionedText == [value : Texts, rev : Nat]
AuditRow == [request : Requests, kind : Kinds, items : ItemSets, after : Contents]
CommandRow == [kind : Kinds \cup {"none"}, target : Nat, value : Texts \cup Participants, rev : Nat,
               shown : ItemSets, sent : 0..2, saved : BOOLEAN,
               answer : {"none", "saved", "flush_failed", "duplicate", "noop", "revision", "conflict"}]

TypeOK ==
    /\ SpeakerTypeOK
    /\ text \in [Utts -> VersionedText] /\ resource \in VersionedText
    /\ audit \in Seq(AuditRow)
    /\ commands \in [Requests -> CommandRow]

Init ==
    /\ SpeakerInit
    /\ text = [u \in Utts |-> [value |-> Original, rev |-> 1]]
    /\ resource = [value |-> Original, rev |-> 1]
    /\ audit = <<>>
    /\ commands = [r \in Requests |-> NoCommand]

-----------------------------------------------------------------------------
\* ListClusterUtterances
Rows(c) == {u \in Utts : utt[u].cluster = c}

\* The target of a command: its revision, and the rows it stands for.
Revision(kind, t) == CASE kind = "text" -> text[t].rev
                       [] kind = "speaker" -> utt[t].rev
                       [] kind = "cluster" -> clusters[t].rev
                       [] kind = "resource" -> resource.rev
Scope(kind, t) == IF kind = "cluster" THEN Rows(t) ELSE IF kind = "resource" THEN {} ELSE {t}
\* What a field holds, as before_json and after_json show it.
Content(kind, u) == IF kind = "text" THEN text[u].value ELSE IF kind = "resource" THEN resource.value ELSE Assigned(u)

Shown(kind, t) == {<<u, Content(kind, u)>> : u \in Scope(kind, t)}
               \cup (IF kind = "resource" THEN {<<None, resource.value>>} ELSE {})

\* The host opens the correction page of the meeting (PreviewCluster for a
\* cluster), sees a target with its revision, and decides on a value.
Targeted(kind) == IF kind = "cluster" THEN {c \in DOMAIN clusters : Rows(c) # {}}
                  ELSE IF kind = "resource" THEN {None} ELSE {u \in Corrected : ev[u].routing # "absent"}
Values(kind) == IF kind \in {"text", "resource"} THEN Texts ELSE Participants
Open(r) ==
    /\ meeting = "ended" /\ commands[r] = NoCommand
    /\ \E kind \in Kinds : \E t \in Targeted(kind), v \in Values(kind) :
         commands' = [commands EXCEPT ![r] = [NoCommand EXCEPT !.kind = kind, !.target = t, !.value = v,
                                              !.rev = Revision(kind, t), !.shown = Shown(kind, t)]]
    /\ UNCHANGED <<speakerVars, text, resource, audit>>

-----------------------------------------------------------------------------
After(cmd) == IF cmd.kind = "speaker" THEN [who |-> cmd.value, src |-> "manual_single"]
              ELSE IF cmd.kind = "cluster" THEN [who |-> cmd.value, src |-> "manual_cluster"] ELSE cmd.value

\* Mutant: a request that was saved is not looked for.
Recorded_None(r) == {}
\* FindByRequest
Recorded(r) == {i \in DOMAIN audit : audit[i].request = r}

\* Mutant: what the host was shown is not compared.
AsShown_Unchecked(cmd) == TRUE
\* The revision the host saw, and for a cluster the number of its rows
AsShown(cmd) ==
    /\ Revision(cmd.kind, cmd.target) = cmd.rev
    /\ cmd.kind = "cluster" => Cardinality(Rows(cmd.target)) = Cardinality(cmd.shown)

\* Everything is already as the command wants it: nothing is recorded.
NoOp(cmd) ==
    /\ \A u \in Scope(cmd.kind, cmd.target) : Content(cmd.kind, u) = After(cmd)
    /\ cmd.kind = "cluster" => clusters[cmd.target].src = "manual" /\ clusters[cmd.target].who = cmd.value
    /\ cmd.kind = "resource" => resource.value = cmd.value

\* UpdateUtteranceText, UpdateResourceDescription
UpdateText(cmd) ==
    /\ text' = IF cmd.kind # "text" THEN text
               ELSE [text EXCEPT ![cmd.target] = [value |-> cmd.value, rev |-> @.rev + 1]]
    /\ resource' = IF cmd.kind # "resource" THEN resource ELSE [value |-> cmd.value, rev |-> resource.rev + 1]
\* UpdateUtteranceSpeaker keeps the cluster; AssignCluster takes every row of it.
UpdateSpeaker(cmd) ==
    /\ utt' = [u \in Utts |-> IF cmd.kind \in {"speaker", "cluster"} /\ u \in Scope(cmd.kind, cmd.target)
                 THEN [utt[u] EXCEPT !.who = cmd.value, !.src = After(cmd).src, !.rev = @ + 1] ELSE utt[u]]
    /\ clusters' = IF cmd.kind # "cluster" THEN clusters
                   ELSE [clusters EXCEPT ![cmd.target] = [who |-> cmd.value, src |-> "manual", rev |-> @.rev + 1]]
\* CreateAudit, CreateBatchAudit: one item for every row that changes
AuditItems(cmd) == IF cmd.kind = "resource" THEN {<<None, resource.value>>} ELSE Shown(cmd.kind, cmd.target)
\* Mutant: the items are those the host was shown.
CreateAudit_Shown(r, cmd) ==
    audit' = Append(audit, [request |-> r, kind |-> cmd.kind, items |-> cmd.shown, after |-> After(cmd)])
CreateAudit(r, cmd) ==
    audit' = Append(audit, [request |-> r, kind |-> cmd.kind, items |-> AuditItems(cmd), after |-> After(cmd)])

Answer(r, a) == commands' = [commands EXCEPT ![r].sent = @ + 1, ![r].answer = a, ![r].saved = @ \/ a \in {"saved", "flush_failed"}]

\* execute and CorrectCluster: one transaction, then the raw record is flushed;
\* a flush that fails leaves the correction saved.
Submit(r) ==
    LET cmd == commands[r]
    IN /\ cmd.kind # "none" /\ cmd.sent < 2 /\ meeting = "ended"
       /\ IF Recorded(r) # {} THEN Answer(r, "duplicate") /\ UNCHANGED <<utt, clusters, text, resource, audit, faults>>
          ELSE IF ~AsShown(cmd) THEN Answer(r, "revision") /\ UNCHANGED <<utt, clusters, text, resource, audit, faults>>
          ELSE IF NoOp(cmd) THEN Answer(r, "noop") /\ UNCHANGED <<utt, clusters, text, resource, audit, faults>>
          ELSE /\ UpdateText(cmd) /\ UpdateSpeaker(cmd) /\ CreateAudit(r, cmd)
               /\ \/ Answer(r, "saved") /\ Works
                  \/ Answer(r, "flush_failed") /\ Fails
    /\ UNCHANGED <<meeting, observing, ev, tracks, pool, work, retry, ready, crashes, retries>>

Automatic == SpeakerNext /\ UNCHANGED correctionVars
ByHost    == HostDriven /\ UNCHANGED correctionVars
Correcting == \E r \in Requests : Open(r) \/ Submit(r)
Next == Automatic \/ ByHost \/ Correcting
Spec == Init /\ [][Next]_vars

-----------------------------------------------------------------------------
\* What was assigned by hand is changed by hand only: no worker, however late it
\* commits, takes it back (projectMemberDecision, AssignTrackToCluster,
\* inheritTrackProjection).
ManualKept == [][\A u \in Utts :
    utt[u].src \in Manual /\ utt'[u] # utt[u] => audit' # audit]_vars

\* The audit tells the whole story of what is assigned by hand or rewritten: what
\* a correction found is what the one before it left, and what the last one left
\* is what is there.
About(row, kind, u) == /\ (row.kind \in {"speaker", "cluster"}) = (kind = "speaker")
                       /\ kind \in {"text", "resource"} => row.kind = kind
                       /\ \E x \in row.items : x[1] = u
Before(row, u) == (CHOOSE x \in row.items : x[1] = u)[2]
ChainOf(log, kind, u, now) == \A i \in DOMAIN log : About(log[i], kind, u) =>
    LET later == {j \in DOMAIN log : j > i /\ About(log[j], kind, u)}
    IN (IF later = {} THEN now ELSE Before(log[Min(later)], u)) = log[i].after
AuditChain ==
    /\ \A u \in Utts : ChainOf(audit, "speaker", u, Assigned(u)) /\ ChainOf(audit, "text", u, text[u].value)
    /\ ChainOf(audit, "resource", None, resource.value)

\* A batch changes the utterances the host confirmed and no others, although the
\* workers may have changed the cluster meanwhile.
BatchAsConfirmed == [][\A r \in Requests :
    ~commands[r].saved /\ commands'[r].saved /\ commands[r].kind = "cluster"
      => {u \in Utts : utt'[u] # utt[u]} = {x[1] : x \in commands[r].shown}]_vars

\* Nobody overwrites a member or a text nobody has shown him.
EditsWhatWasShown == [][\A r \in Requests :
    ~commands[r].saved /\ commands'[r].saved
      => IF commands[r].kind = "speaker" THEN \A x \in commands[r].shown : utt[x[1]].who = x[2].who
         ELSE commands[r].kind # "cluster" => Shown(commands[r].kind, commands[r].target) = commands[r].shown]_vars

\* A command that was saved once is answered as saved however often it is sent
\* (the request id, looked up before the revision).
SavedStaysSaved == \A r \in Requests :
    commands[r].saved => Cardinality({i \in DOMAIN audit : audit[i].request = r}) = 1
                         /\ commands[r].answer \in {"saved", "flush_failed", "duplicate"}

\* A command names a row there is; as long as the revision is the one the host
\* saw, the row holds what he was shown, and a cluster has got no other row.
First(items) == {x[1] : x \in items}
SingleValued(items) == \A x, y \in items : x[1] = y[1] => x = y
TextFits(cmd) == cmd.kind = "text" =>
    /\ cmd.value \in Texts /\ cmd.target \in Utts /\ cmd.rev <= text[cmd.target].rev
    /\ cmd.rev = text[cmd.target].rev => cmd.shown = {<<cmd.target, text[cmd.target].value>>}
ResourceFits(cmd) == cmd.kind = "resource" =>
    /\ cmd.value \in Texts /\ cmd.rev <= resource.rev
    /\ cmd.rev = resource.rev => cmd.shown = {<<None, resource.value>>}
SpeakerFits(cmd) == cmd.kind = "speaker" =>
    /\ cmd.value \in Participants /\ cmd.target \in Utts /\ cmd.rev <= utt[cmd.target].rev
    /\ \A x \in cmd.shown : x[1] = cmd.target /\ (cmd.rev = utt[cmd.target].rev => utt[cmd.target].who = x[2].who)
ClusterFits(cmd) == cmd.kind = "cluster" =>
    /\ cmd.value \in Participants /\ cmd.target \in DOMAIN clusters /\ cmd.rev <= clusters[cmd.target].rev
    /\ cmd.rev = clusters[cmd.target].rev => Rows(cmd.target) \subseteq First(cmd.shown)
    /\ cmd.shown # {} /\ First(cmd.shown) \subseteq Utts /\ SingleValued(cmd.shown)
CommandsFit == \A r \in Requests :
    /\ TextFits(commands[r]) /\ ResourceFits(commands[r]) /\ SpeakerFits(commands[r]) /\ ClusterFits(commands[r])
    /\ commands[r].kind # "none" => meeting = "ended"

\* What the log says was assigned by hand is.
AuditFits == \A i \in DOMAIN audit :
    /\ audit[i].items # {} /\ SingleValued(audit[i].items)
    /\ audit[i].kind \in {"speaker", "cluster"} => \A x \in audit[i].items :
          x[1] \in Utts /\ audit[i].after.src \in Manual /\ utt[x[1]].src \in Manual

\* Decisions, commands and the log of corrections fit together.
CorrectionInv ==
    /\ TypeOK /\ SpeakerInv /\ CommandsFit /\ AuditFits
    /\ DecidedOnce /\ AuditChain /\ SavedStaysSaved
=============================================================================
