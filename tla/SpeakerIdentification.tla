------------------------ MODULE SpeakerIdentification ------------------------
(***************************************************************************)
(* Who is speaking: each final of the transcript becomes evidence of a     *)
(* provisional track, is routed to the acoustic segment it sounds like,    *)
(* and the segment, once it has enough evidence, is decided to be a member *)
(* or a cluster of unknown speech.  Two pools work from SQLite: one routes *)
(* evidence, one decides tracks; the host may run both by hand.            *)
(*                                                                         *)
(* Source: service/speaker/{observer,continuity_router,runner,runner_pool, *)
(* unknown_assigner,evidence_builder}.go, repository/speaker/*.go,         *)
(* app/{speaker_automation,meeting_module,correction_workspace}.go.        *)
(*                                                                         *)
(* Scores are abstract: any routed segment, any member and any unassigned  *)
(* cluster may win.  A final is one unit of evidence.  A revision is       *)
(* modelled by whether the row changed since the worker read it.           *)
(***************************************************************************)
EXTENDS Naturals, Sequences, FiniteSets, FiniteSetsExt

CONSTANTS
    Finals,         \* number of finals of the meeting; their number is their seq
    Label,          \* the provider's label of each final, or NoLabel
    NoLabel,
    Participants,   \* participants of the meeting with a voice print
    Nobody,
    Least, Target,  \* units of evidence: at the end, and while recording
    Workers,        \* the workers of the pools that run, and the host's retry
    QueueCapacity,  \* of the wake channels and job queues, and recovery batch
    MaxTracks,      \* bound: rows of speaker_tracks
    MaxClusters,    \* bound: rows of speaker_clusters
    MaxFaults,      \* bound: statements, reads and encodings that fail
    MaxCrashes,     \* bound: crashes of the process
    MaxRetries      \* bound: retries by the host

Utts == 1..Finals
ASSUME SpeakerAssumption ==
    /\ Finals \in Nat /\ DOMAIN Label = Utts
    /\ Least \in 1..Target /\ QueueCapacity \in Nat \ {0}
    /\ Nobody \notin Participants /\ {Target, MaxTracks, MaxClusters} \subseteq Nat
    /\ Workers \subseteq {"router", "runner", "host"}

PoolOf(w) == IF w = "router" THEN "routing" ELSE "track"
Pools == {PoolOf(w) : w \in Workers \ {"host"}}
None  == 0

VARIABLES
    meeting,    \* "recording" or "ended"
    observing,  \* the final whose OnPersisted callback runs
    ev,         \* speaker_track_evidence, by utterance
    utt,        \* the speaker columns of utterances
    tracks,     \* speaker_tracks; a track's index is its display number
    clusters,   \* speaker_clusters; likewise
    pool,       \* wake channel, jobs and reservations of each RunnerPool
    work,       \* what each worker has read
    retry,      \* RetrySpeaker: the phase and the ids still to process
    ready,      \* whether model and profile are available
    faults, crashes, retries

speakerRows == <<ev, utt, tracks, clusters>>
speakerVars == <<meeting, observing, speakerRows, pool, work, retry, ready, faults, crashes, retries>>

Manual    == {"manual_single", "manual_cluster"}
Terminal  == {"matched", "clustered", "insufficient", "unavailable"}
Routable  == {"pending", "failed"}
NoPool    == [wake |-> {}, jobs |-> {}, reserved |-> {}]
Idle      == [pc |-> "idle", id |-> None, target |-> None, fresh |-> TRUE, seen |-> {}, final |-> FALSE]
NoRetry   == [phase |-> "none", todo |-> {}]
Unknown   == [who |-> Nobody, cluster |-> None, src |-> "unassigned", rev |-> 1]
NoTrack(l, seg) == [label |-> l, segment |-> seg, state |-> "collecting", member |-> Nobody,
                    cluster |-> None, events |-> 0]

InTrack(t) == {u \in Utts : ev[u].track = t}
Routed(t)  == {u \in InTrack(t) : ev[u].routing = "routed"}
Segments(l) == {t \in DOMAIN tracks : l # NoLabel /\ tracks[t].label = l}

Labels == {Label[u] : u \in Utts}
EvidenceRow == [routing : {"absent", "final", "pending", "routed", "failed", "insufficient"},
                track : 0..MaxTracks, order : Nat]
SpeakerRow == [who : Participants \cup {Nobody}, cluster : 0..MaxClusters,
               src : Manual \cup {"unassigned", "automatic_member", "automatic_cluster"}, rev : Nat]
TrackRow == [label : Labels, segment : Nat, state : Terminal \cup {"collecting", "pending", "failed"},
             member : Participants \cup {Nobody}, cluster : 0..MaxClusters, events : Nat]
ClusterRow == [who : Participants \cup {Nobody}, src : {"unassigned", "manual"}, rev : Nat]
PoolRow == [wake : SUBSET Nat, jobs : SUBSET Nat, reserved : SUBSET Nat]
WorkRow == [pc : {"idle", "route", "skip", "decide"}, id : Nat, target : 0..MaxTracks,
            fresh : BOOLEAN, seen : SUBSET Utts, final : BOOLEAN]

SpeakerTypeOK ==
    /\ meeting \in {"recording", "ended"} /\ observing \in Utts \cup {None}
    /\ ev \in [Utts -> EvidenceRow] /\ utt \in [Utts -> SpeakerRow]
    /\ tracks \in Seq(TrackRow) /\ Len(tracks) <= MaxTracks
    /\ clusters \in Seq(ClusterRow) /\ Len(clusters) <= MaxClusters
    /\ pool \in [Pools -> PoolRow]
    /\ work \in [Workers -> WorkRow]
    /\ ready \in BOOLEAN

SpeakerInit ==
    /\ meeting = "recording" /\ observing = None
    /\ ev = [u \in Utts |-> [routing |-> "absent", track |-> None, order |-> 0]]
    /\ utt = [u \in Utts |-> Unknown]
    /\ tracks = <<>> /\ clusters = <<>>
    /\ pool = [p \in Pools |-> NoPool]
    /\ work = [w \in Workers |-> Idle]
    /\ retry = NoRetry
    /\ ready \in BOOLEAN
    /\ faults = 0 /\ crashes = 0 /\ retries = 0

-----------------------------------------------------------------------------
Fails == faults < MaxFaults /\ faults' = faults + 1
Works == UNCHANGED faults
Bounds == UNCHANGED <<crashes, retries>>

\* NextEvidenceOrder
NextOrder(t) == Max({ev[u].order : u \in InTrack(t)} \cup {0}) + 1
\* NextProviderSegmentNo
NextSegment(l) == Max({tracks[t].segment : t \in Segments(l)} \cup {0}) + 1

\* A send that does not wait: what does not fit is lost.
Sent(p, id) == IF p \in Pools /\ Cardinality(pool[p].wake) < QueueCapacity
               THEN [pool EXCEPT ![p].wake = @ \cup {id}] ELSE pool

-----------------------------------------------------------------------------
\* Observer

\* A final is committed; the callback that follows runs before the next final.
Persist(u) ==
    /\ meeting = "recording" /\ observing = None
    /\ ev[u].routing = "absent" /\ \A v \in 1..(u - 1) : ev[v].routing # "absent"
    /\ ev' = [ev EXCEPT ![u].routing = "final"]
    /\ observing' = u
    /\ UNCHANGED <<meeting, utt, tracks, clusters, pool, work, retry, ready>> /\ Works /\ Bounds

\* findOrCreateTrack: the first segment of the label, or a track of the final's own.
ProvisionalTrack(u) ==
    LET own == Segments(Label[u])
    IN IF own = {} THEN Len(tracks) + 1
       ELSE CHOOSE t \in own : \A s \in own : tracks[t].segment <= tracks[s].segment

\* Observe: the evidence is pending, so the track's decision is not inherited.
Observe ==
    /\ observing # None
    /\ LET t == ProvisionalTrack(observing)
       IN /\ t <= MaxTracks
          /\ tracks' = IF t > Len(tracks) THEN Append(tracks, NoTrack(Label[observing], 1)) ELSE tracks
          /\ ev' = [ev EXCEPT ![observing] = [routing |-> "pending", track |-> t, order |-> NextOrder(t)]]
          /\ pool' = Sent("routing", observing)
    /\ observing' = None
    /\ UNCHANGED <<meeting, utt, clusters, work, retry, ready>> /\ Works /\ Bounds

\* The error is logged; nothing in the database says that the final has no evidence.
ObserveFails ==
    /\ observing # None /\ observing' = None
    /\ UNCHANGED <<meeting, speakerRows, pool, work, retry, ready>> /\ Fails /\ Bounds

-----------------------------------------------------------------------------
\* RunnerPool

\* ListRecoverableEvidenceIDs and ListRecoverableTrackIDs, by first final
Recoverable(p) ==
    IF p = "routing" THEN {u \in Utts : ev[u].routing \in Routable}
    ELSE {t \in DOMAIN tracks : Routed(t) # {} /\ tracks[t].state \in {"collecting", "pending"}}
Position(p, id) == IF p = "routing" THEN id ELSE Min(Routed(id))
FirstOf(p, ids, n) == CHOOSE S \in SUBSET ids :
    /\ Cardinality(S) = Min({n, Cardinality(ids)})
    /\ \A x \in S, y \in ids \ S : Position(p, x) < Position(p, y)

\* Mutant: an id that does not fit stays reserved.
Enqueued_KeepsReserved(p, ids) ==
    LET new == FirstOf(p, ids \ pool[p].reserved, QueueCapacity - Cardinality(pool[p].jobs))
    IN [pool[p] EXCEPT !.jobs = @ \cup new, !.reserved = @ \cup ids]
\* Mutant: what is enqueued is not reserved.
Enqueued_NotReserved(p, ids) ==
    LET new == FirstOf(p, ids \ pool[p].reserved, QueueCapacity - Cardinality(pool[p].jobs))
    IN [pool[p] EXCEPT !.jobs = @ \cup new]
\* enqueueTrack, for each id in turn: what is reserved or does not fit is left out.
Enqueued(p, ids) ==
    LET new == FirstOf(p, ids \ pool[p].reserved, QueueCapacity - Cardinality(pool[p].jobs))
    IN [pool[p] EXCEPT !.jobs = @ \cup new, !.reserved = @ \cup new]

\* Run receives a wake-up: it is dropped while the model is not ready.
Wake(p, id) ==
    /\ id \in pool[p].wake
    /\ LET gone == [pool EXCEPT ![p].wake = @ \ {id}]
       IN pool' = IF ready /\ Enqueued(p, {id}).jobs # pool[p].jobs
                  THEN [gone EXCEPT ![p].jobs = @ \cup {id}, ![p].reserved = @ \cup {id}] ELSE gone
    /\ UNCHANGED <<meeting, observing, speakerRows, work, retry, ready>> /\ Works /\ Bounds

\* enqueueRecoveryWhenReady, at the start and every five seconds
Poll(p) ==
    /\ ready
    /\ LET batch == FirstOf(p, Recoverable(p), QueueCapacity)
       IN pool' = [pool EXCEPT ![p] = Enqueued(p, batch)]
    /\ pool' # pool
    /\ UNCHANGED <<meeting, observing, speakerRows, work, retry, ready>> /\ Works /\ Bounds

\* The ids a worker may start next.
Offered(w, phase) ==
    IF w = "host" THEN {id \in retry.todo : retry.phase = phase /\ id = Min(retry.todo)}
    ELSE IF PoolOf(w) = phase THEN pool[phase].jobs ELSE {}
\* The worker takes the id, reads, and has something to commit; or it is done.
Reads(w, id, read) ==
    /\ work' = [work EXCEPT ![w] = read]
    /\ IF w = "host" THEN retry' = [retry EXCEPT !.todo = @ \ {id}] /\ UNCHANGED pool
       ELSE /\ pool' = [pool EXCEPT ![PoolOf(w)].jobs = @ \ {id},
                                    ![PoolOf(w)].reserved = IF read = Idle THEN @ \ {id} ELSE @]
            /\ UNCHANGED retry
\* Process returns: the pool releases the reservation, the host stops at an error.
Returned(w, ok) ==
    IF w = "host"
    THEN retry' = (IF ok THEN retry ELSE NoRetry) /\ UNCHANGED pool
    ELSE pool' = [pool EXCEPT ![PoolOf(w)].reserved = @ \ {work[w].id}] /\ UNCHANGED retry
Done(w, ok) == work' = [work EXCEPT ![w] = Idle] /\ Returned(w, ok)

-----------------------------------------------------------------------------
\* ContinuityRouter

\* selectTarget over loadCandidates: the segment that sounds alike, or none does;
\* without a routed candidate the evidence stays where it is.
Targets(u) ==
    LET candidates == {t \in Segments(Label[u]) : Routed(t) # {}}
    IN IF Label[u] = NoLabel \/ candidates = {} THEN {ev[u].track} ELSE candidates \cup {None}

\* Process: the snapshot and the choice are made outside the transaction.
Route(w, u) ==
    /\ work[w] = Idle /\ u \in Offered(w, "routing")
    /\ IF ev[u].routing \notin Routable THEN Reads(w, u, Idle)
       ELSE \/ utt[u].src \in Manual /\ Reads(w, u, [Idle EXCEPT !.pc = "skip", !.id = u])
            \/ utt[u].src \notin Manual /\ \E t \in Targets(u) :
                 Reads(w, u, [Idle EXCEPT !.pc = "route", !.id = u, !.target = t])
            \* the audio is not there yet
            \/ utt[u].src \notin Manual /\ meeting = "recording" /\ Reads(w, u, Idle)
    /\ UNCHANGED <<meeting, observing, speakerRows, ready>> /\ Works /\ Bounds

\* Mutant: only a member is inherited.
Inherited_MembersOnly(u, t, cs) ==
    IF t \notin DOMAIN tracks \/ utt[u].src # "unassigned" \/ tracks[t].state # "matched" THEN <<utt, cs>>
    ELSE <<[utt EXCEPT ![u] = [@ EXCEPT !.who = tracks[t].member, !.src = "automatic_member", !.rev = @ + 1]], cs>>
\* inheritTrackProjection: what a decided track gives to an unassigned utterance
Inherited(u, t, cs) ==
    LET tr == tracks[t]
        c  == tr.cluster
        to(who, cluster, src) == [utt EXCEPT ![u] = [who |-> who, cluster |-> cluster, src |-> src, rev |-> @.rev + 1]]
        counted == [cs EXCEPT ![c].rev = @ + 1]
    IN IF t \notin DOMAIN tracks \/ utt[u].src # "unassigned" THEN <<utt, cs>>
       ELSE IF tr.state = "matched" THEN <<to(tr.member, utt[u].cluster, "automatic_member"), cs>>
       ELSE IF c = None THEN <<utt, cs>>
       ELSE IF cs[c].src = "manual" THEN <<to(cs[c].who, c, "manual_cluster"), counted>>
       ELSE <<to(utt[u].who, c, "automatic_cluster"), counted>>

\* CommitRouting: only evidence that is still pending or failed is routed.
CommitRouting(w) ==
    LET u == work[w].id
        t == IF work[w].target = None THEN Len(tracks) + 1 ELSE work[w].target
    IN /\ work[w].pc = "route" /\ t <= MaxTracks
       /\ IF ev[u].routing \notin Routable THEN UNCHANGED <<speakerRows>> /\ Done(w, TRUE)
          ELSE /\ tracks' = IF t > Len(tracks) THEN Append(tracks, NoTrack(Label[u], NextSegment(Label[u]))) ELSE tracks
               /\ ev' = [ev EXCEPT ![u] = [routing |-> "routed", track |-> t, order |-> NextOrder(t)]]
               /\ LET inherited == Inherited(u, t, clusters)
                  IN utt' = inherited[1] /\ clusters' = inherited[2]
               /\ work' = [work EXCEPT ![w] = Idle]
               /\ IF w = "host" THEN UNCHANGED <<pool, retry>>
                  ELSE /\ pool' = [Sent("track", t) EXCEPT !["routing"].reserved = @ \ {u}]
                       /\ UNCHANGED retry
    /\ UNCHANGED <<meeting, observing, ready>> /\ Works /\ Bounds

\* SkipManualRouting
SkipManualRouting(w) ==
    /\ work[w].pc = "skip"
    /\ LET u == work[w].id
       IN ev' = IF ev[u].routing \in Routable THEN [ev EXCEPT ![u].routing = "insufficient"] ELSE ev
    /\ Done(w, TRUE)
    /\ UNCHANGED <<meeting, observing, utt, tracks, clusters, ready>> /\ Works /\ Bounds

\* The audio or the encoder failed: MarkRoutingFailure, to be tried again.
RouteFails(w) ==
    /\ work[w].pc = "route"
    /\ LET u == work[w].id
       IN ev' = IF ev[u].routing \in Routable THEN [ev EXCEPT ![u].routing = "failed"] ELSE ev
    /\ Done(w, FALSE)
    /\ UNCHANGED <<meeting, observing, utt, tracks, clusters, ready>> /\ Fails /\ Bounds

-----------------------------------------------------------------------------
\* Runner

\* LoadProcessingSnapshot: only what was routed to the track counts.
Load(w, t) ==
    /\ work[w] = Idle /\ t \in Offered(w, "track")
    /\ Reads(w, t, IF tracks[t].state \in Terminal THEN Idle
                   ELSE [Idle EXCEPT !.pc = "decide", !.id = t, !.seen = Routed(t),
                                     !.final = w = "host" \/ meeting = "ended"])
    /\ UNCHANGED <<meeting, observing, speakerRows, ready>> /\ Works /\ Bounds

\* Build: the first finals of the track, up to the target
Items(w) == FirstOf("routing", work[w].seen, Target)
\* resolveEvidenceState
EvidenceState(w) ==
    LET n == Cardinality(Items(w))
    IN IF n >= Target THEN "ready" ELSE IF ~work[w].final THEN "collecting"
       ELSE IF n >= Least THEN "ready" ELSE "insufficient"

Place(items, u) == Cardinality({v \in items : v <= u})
\* updateEvidenceItems renumbers row by row under UNIQUE(speaker_track_id,
\* evidence_order): no other row may have the number when its turn comes.
OrdersFree(t, items) == \A u \in items, v \in InTrack(t) :
    v # u /\ ev[v].order = Place(items, u) => v \in items /\ v < u
Renumbered(items) == [u \in Utts |-> IF u \in items THEN [ev[u] EXCEPT !.order = Place(items, u)] ELSE ev[u]]

Deciding(w) == work[w].pc = "decide"
\* Mutant: the row is written whatever its revision.
Current_Always(w) == TRUE
\* The revision of the row is still the one that was read.
Current(w) == work[w].fresh /\ tracks[work[w].id].cluster = None

\* A transaction of the runner on the track it read: everybody else's copy is stale.
CommitTrack(w, items, row) ==
    LET t == work[w].id
    IN /\ Deciding(w) /\ Current(w) /\ OrdersFree(t, items)
       /\ ev' = Renumbered(items)
       /\ tracks' = [tracks EXCEPT ![t] = row]
       /\ work' = [x \in Workers |-> IF x = w THEN Idle
            ELSE IF work[x].pc = "decide" /\ work[x].id = t THEN [work[x] EXCEPT !.fresh = FALSE] ELSE work[x]]
       /\ UNCHANGED <<meeting, observing, ready>> /\ Bounds

\* UpdateEvidenceState: not enough, or the audio of one of them is not there yet.
UpdateEvidenceState(w) ==
    \E state \in ({EvidenceState(w)} \ {"ready"}) \cup (IF meeting = "recording" THEN {"pending"} ELSE {}) :
      \E n \in IF state = "pending" THEN 0..(Target - 1) ELSE {Target} :
        /\ CommitTrack(w, FirstOf("routing", Items(w), n), [tracks[work[w].id] EXCEPT !.state = state])
        /\ Returned(w, TRUE) /\ UNCHANGED <<utt, clusters>> /\ Works

\* MarkTrackFailure: the encoder failed, or its model is not the profile's.
MarkTrackFailure(w) ==
    \E state \in {"failed", "unavailable"} :
      /\ EvidenceState(w) = "ready"
      /\ CommitTrack(w, Items(w), [tracks[work[w].id] EXCEPT !.state = state])
      /\ Returned(w, FALSE) /\ UNCHANGED <<utt, clusters>> /\ Fails

\* Mutant: assignments by hand are overwritten.
MemberProjection_All(t, who) ==
    [u \in Utts |-> IF ev[u].track # t THEN utt[u]
                    ELSE [who |-> who, cluster |-> None, src |-> "automatic_member", rev |-> utt[u].rev + 1]]
\* projectMemberDecision: every utterance that points at the track, except
\* those assigned by hand
MemberProjection(t, who) ==
    [u \in Utts |-> IF ev[u].track # t \/ utt[u].src \in Manual THEN utt[u]
                    ELSE [who |-> who, cluster |-> None, src |-> "automatic_member", rev |-> utt[u].rev + 1]]

\* CommitEmbeddingDecision of a member, with its event
CommitMatched(w) ==
    \E who \in Participants :
      /\ EvidenceState(w) = "ready"
      /\ CommitTrack(w, Items(w), [tracks[work[w].id] EXCEPT !.state = "matched", !.member = who, !.events = @ + 1])
      /\ utt' = MemberProjection(work[w].id, who)
      /\ Returned(w, TRUE) /\ UNCHANGED clusters /\ Works

\* AssignTrackToCluster: of the utterances, those nobody is assigned to; their
\* revision stays.
ClusterProjection(t, c) ==
    [u \in Utts |-> IF ev[u].track = t /\ utt[u].src = "unassigned"
                    THEN [utt[u] EXCEPT !.cluster = c, !.src = "automatic_cluster"] ELSE utt[u]]
\* joinCluster or createCluster
JoinedClusters(c) ==
    IF c > Len(clusters) THEN Append(clusters, [who |-> Nobody, src |-> "unassigned", rev |-> 1])
    ELSE [clusters EXCEPT ![c].rev = @ + 1]

\* AssignPrepared: no member; an unassigned cluster that sounds alike, or a new one.
AssignPrepared(w) ==
    \E c \in {k \in DOMAIN clusters : clusters[k].src = "unassigned"} \cup {Len(clusters) + 1} :
      /\ c <= MaxClusters
      /\ EvidenceState(w) = "ready"
      /\ CommitTrack(w, Items(w), [tracks[work[w].id] EXCEPT !.state = "clustered", !.cluster = c, !.events = @ + 1])
      /\ clusters' = JoinedClusters(c)
      /\ utt' = ClusterProjection(work[w].id, c)
      /\ Returned(w, TRUE) /\ Works

\* A commit that finds another revision or a number that is taken, or fails.
Rejected(w) ==
    /\ Deciding(w)
    /\ IF Current(w) /\ OrdersFree(work[w].id, Items(w)) THEN Fails ELSE Works
    /\ Done(w, FALSE)
    /\ UNCHANGED <<meeting, observing, speakerRows, ready>> /\ Bounds

-----------------------------------------------------------------------------
\* RetrySpeaker: the recoverable evidence of the meeting, then its tracks.
RetrySpeaker ==
    /\ "host" \in Workers /\ retry = NoRetry /\ work["host"] = Idle /\ ready /\ retries < MaxRetries
    /\ retry' = [phase |-> "routing", todo |-> Recoverable("routing")]
    /\ retries' = retries + 1
    /\ UNCHANGED <<meeting, observing, speakerRows, pool, work, ready, crashes>> /\ Works
RetryTracks ==
    /\ retry.phase # "none" /\ retry.todo = {} /\ work["host"] = Idle
    /\ retry' = IF retry.phase = "routing" THEN [phase |-> "track", todo |-> Recoverable("track")] ELSE NoRetry
    /\ UNCHANGED <<meeting, observing, speakerRows, pool, work, ready>> /\ Works /\ Bounds

\* speakerAutomation finds the model and its profile
BecomesReady ==
    /\ ~ready /\ ready' = TRUE
    /\ UNCHANGED <<meeting, observing, speakerRows, pool, work, retry>> /\ Works /\ Bounds

EndMeeting ==
    /\ meeting = "recording" /\ observing = None /\ meeting' = "ended"
    /\ UNCHANGED <<observing, speakerRows, pool, work, retry, ready>> /\ Works /\ Bounds

\* The process stops; when it starts again the meeting is interrupted.
SpeakerCrash ==
    /\ crashes < MaxCrashes /\ crashes' = crashes + 1
    /\ meeting' = "ended" /\ observing' = None /\ retry' = NoRetry
    /\ pool' = [p \in Pools |-> NoPool] /\ work' = [w \in Workers |-> Idle]
    /\ ready' \in BOOLEAN
    /\ UNCHANGED <<speakerRows, retries>> /\ Works

Observing == Observe \/ ObserveFails \/ \E u \in Utts : Persist(u)
Pooling   == \E p \in Pools : Poll(p) \/ \E id \in pool[p].wake : Wake(p, id)
Routing(w)  == \/ \E u \in Utts : Route(w, u)
               \/ CommitRouting(w) \/ RouteFails(w)
Running(w)  == \/ \E t \in DOMAIN tracks : Load(w, t)
               \/ UpdateEvidenceState(w) \/ MarkTrackFailure(w) \/ CommitMatched(w)
               \/ AssignPrepared(w) \/ Rejected(w)
\* What starts with the host: his retry, and evidence he assigned by hand.
HostDriven == RetrySpeaker \/ RetryTracks \/ \E w \in Workers : SkipManualRouting(w)
SpeakerNext ==
    \/ Observing \/ Pooling \/ BecomesReady \/ EndMeeting \/ SpeakerCrash
    \/ \E w \in Workers : Routing(w) \/ Running(w)

\* Without the host: the goroutines of the pools run, the ticker ticks, and the model arrives.
SpeakerSpec ==
    /\ SpeakerInit /\ [][SpeakerNext]_speakerVars
    /\ WF_speakerVars(Observe) /\ WF_speakerVars(BecomesReady)
    /\ \A p \in Pools : WF_speakerVars(Poll(p))
    /\ \A w \in Workers \ {"host"} : WF_speakerVars(Routing(w)) /\ WF_speakerVars(Running(w))

-----------------------------------------------------------------------------
\* Only the utterances of an undecided track are unassigned: a decision reaches
\* what is routed to the track while it is made and after it
\* (projectMemberDecision, AssignTrackToCluster, inheritTrackProjection).
NoneLeftBehind == \A u \in Utts :
    ev[u].routing = "routed" /\ utt[u].src = "unassigned" => tracks[ev[u].track].state \notin {"matched", "clustered"}

\* A track is decided once, although the pool and the host's retry may both
\* have its evidence in hand (the revision of speaker_tracks).
DecidedOnce == \A t \in DOMAIN tracks : tracks[t].events <= 1

\* A track is what its decision made it, and rows point at rows there are.
TracksFit == \A t \in DOMAIN tracks :
    /\ tracks[t].state = "matched" <=> tracks[t].member # Nobody
    /\ tracks[t].state = "clustered" <=> tracks[t].cluster # None
    /\ tracks[t].events = IF tracks[t].state \in {"matched", "clustered"} THEN 1 ELSE 0
    /\ tracks[t].cluster <= Len(clusters)
EvidenceFits == \A u \in Utts :
    ev[u].routing \notin {"absent", "final"} => ev[u].track \in DOMAIN tracks

\* A queue holds what fits, and nothing a worker has in hand; as long as the
\* worker's copy of a track is fresh the track is undecided.
PoolsFit ==
    /\ \A p \in Pools : /\ pool[p].jobs \subseteq pool[p].reserved
                        /\ IsFiniteSet(pool[p].jobs) /\ Cardinality(pool[p].jobs) <= QueueCapacity
    /\ \A w \in Workers \ {"host"} :
         work[w] # Idle => work[w].id \in pool[PoolOf(w)].reserved \ pool[PoolOf(w)].jobs
WorkFits == \A w \in Workers :
    /\ work[w].pc \in {"route", "skip"} =>
          w # "runner" /\ work[w].id \in Utts /\ ev[work[w].id].routing \notin {"absent", "final"}
    /\ work[w].pc = "route" => work[w].target \in {None} \cup DOMAIN tracks
    /\ work[w].pc = "decide" =>
          /\ w # "router" /\ work[w].id \in DOMAIN tracks
          /\ work[w].fresh => tracks[work[w].id].state \notin Terminal

SpeakerInv == TracksFit /\ EvidenceFits /\ PoolsFit /\ WorkFits /\ NoneLeftBehind

\* After the meeting no evidence stays unrouted, whatever wake-ups, jobs and runs
\* of the process were lost on the way (ListRecoverableEvidenceIDs, polled).
EvidenceRouted == meeting = "ended" ~> \A u \in Utts : ev[u].routing \notin Routable

\* After the meeting every final that was observed ends with a decided track or
\* one that says why not.
Settled(u) == \/ ev[u].routing \in {"absent", "final", "insufficient"}
              \/ ev[u].routing = "routed" /\ tracks[ev[u].track].state \in Terminal \cup {"failed"}
FinalsSettle == meeting = "ended" ~> \A u \in Utts : Settled(u)
=============================================================================
