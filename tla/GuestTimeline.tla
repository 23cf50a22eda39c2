----------------------------- MODULE GuestTimeline -----------------------------
(***************************************************************************)
(* How a guest's page follows the meeting's timeline: pages read over HTTP *)
(* by seq, a timer that polls while no socket is open, and notifications   *)
(* of the socket that are to set that timer off.                           *)
(*                                                                         *)
(* Source: frontend/src/guest/GuestApp.vue, service/guest/timeline_service *)
(* .go, transport/http/guest/hub.go and routes.go.                         *)
(***************************************************************************)
EXTENDS Naturals, Sequences, FiniteSets, FiniteSetsExt, Functions

CONSTANTS
    Reads,      \* reads of the page under way at the same time
    Limit,      \* rows of a page
    MaxEvents,  \* bound: events of the meeting
    MaxFaults   \* bound: reads and connections that fail

VARIABLES
    events,       \* the committed events, TRUE those a guest may see
    unpublished,  \* seqs committed whose notification is still to be published
    channel,      \* the subscription's channel: "none", 0 when empty, or a seq
    socket,       \* of the page
    server,       \* the handler of that socket
    timer,        \* pollTimer is set
    reconnect,    \* socketReconnectTimer is set
    hidden,       \* document.hidden
    read,         \* each call of refreshEvents
    cursor,       \* nextSeq
    shown,        \* events.value
    faults

meetingVars == <<events, unpublished>>
connection == <<channel, socket, server>>
timers == <<timer, reconnect>>
vars == <<meetingVars, connection, timers, hidden, read, cursor, shown, faults>>

NoRead == [pc |-> "idle", kind |-> "poll", after |-> 0, seqs |-> {}, next |-> 0, more |-> FALSE]
Unsubscribed == MaxEvents + 1
First == CHOOSE r \in Reads : TRUE

TypeOK ==
    /\ events \in Seq(BOOLEAN) /\ unpublished \subseteq DOMAIN events
    /\ channel \in 0..Unsubscribed
    /\ socket \in {"none", "connecting", "open"} /\ server \in {"none", "upgraded", "subscribed"}
    /\ timer \in BOOLEAN /\ reconnect \in BOOLEAN /\ hidden \in BOOLEAN
    /\ \A r \in Reads : read[r].pc \in {"idle", "asking", "answered"}
    /\ cursor \in 0..Len(events) /\ faults \in 0..MaxFaults

\* The guest has joined and reads the first page.
Init ==
    /\ events = <<>> /\ unpublished = {}
    /\ channel = Unsubscribed /\ socket = "none" /\ server = "none"
    /\ timer = FALSE /\ reconnect = FALSE /\ hidden = FALSE
    /\ read = [r \in Reads |-> IF r = First THEN [NoRead EXCEPT !.pc = "asking", !.kind = "start"] ELSE NoRead]
    /\ cursor = 0 /\ shown = <<>> /\ faults = 0

Works == UNCHANGED faults
Fails == faults < MaxFaults /\ faults' = faults + 1

-----------------------------------------------------------------------------
(* The server *)
Commit(visible) == Len(events) < MaxEvents /\ events' = Append(events, visible) /\ unpublished' = unpublished \cup {Len(events) + 1}
\* anything of the meeting: a final, an answer, a message of somebody else
EventCommitted ==
    /\ \E visible \in BOOLEAN : Commit(visible)
    /\ UNCHANGED <<connection, timers, hidden, read, cursor, shown>> /\ Works
\* Publish follows each commit, in no order of its own, and keeps one notification.
Publish(n) ==
    /\ n \in unpublished /\ unpublished' = unpublished \ {n}
    /\ channel' = IF channel = Unsubscribed THEN channel ELSE n
    /\ UNCHANGED <<events, socket, server, timers, hidden, read, cursor, shown>> /\ Works
\* serveWebSocket
Upgrade ==
    /\ socket = "connecting" /\ server = "none" /\ server' = "upgraded"
    /\ UNCHANGED <<meetingVars, channel, socket, timers, hidden, read, cursor, shown>> /\ Works
Subscribe ==
    /\ server = "upgraded" /\ server' = "subscribed" /\ channel' = 0
    /\ UNCHANGED <<meetingVars, socket, timers, hidden, read, cursor, shown>> /\ Works
\* List reads one row more than the page holds, and passes what no guest may see.
Scanned(after) == {n \in DOMAIN events : after < n /\ n <= after + Limit + 1}
Trimmed(after) == {n \in Scanned(after) : n <= after + Limit}
NextSeq_Untrimmed(after) == IF Scanned(after) = {} THEN after ELSE Max(Scanned(after))
NextSeq(after) == IF Trimmed(after) = {} THEN after ELSE Max(Trimmed(after))
List(r) ==
    /\ read[r].pc = "asking"
    /\ read' = [read EXCEPT ![r] = [@ EXCEPT !.pc = "answered", !.next = NextSeq(read[r].after),
                                              !.seqs = {n \in Trimmed(read[r].after) : events[n]},
                                              !.more = Cardinality(Scanned(read[r].after)) > Limit]]
    /\ UNCHANGED <<meetingVars, connection, timers, hidden, cursor, shown>> /\ Works

-----------------------------------------------------------------------------
(* The page *)
IdleReads == {r \in Reads : read[r].pc = "idle"}
Asks(kind) == \E r \in IdleReads : read' = [read EXCEPT ![r] = [NoRead EXCEPT !.pc = "asking", !.kind = kind, !.after = cursor]]
Finish(r) == read' = [read EXCEPT ![r] = NoRead]
SchedulePoll == timer' = ~hidden
Listening == socket = "open" /\ server = "subscribed"
Connects == IF hidden \/ socket # "none" THEN UNCHANGED socket ELSE socket' = "connecting"

\* refreshEvents applies its page, and each caller does what follows.
Increasing(s) == \A i, j \in DOMAIN s : i < j => s[i] < s[j]
Sorted(S) == CHOOSE s \in [1..Cardinality(S) -> S] : Range(s) = S /\ Increasing(s)
Merged(r) == Sorted(Range(shown) \cup read[r].seqs)
Apply(r) ==
    /\ read[r].pc = "answered" /\ Finish(r)
    /\ shown' = Merged(r) /\ cursor' = Max({cursor, read[r].next})
    /\ timer' = (timer \/ (~hidden /\ (read[r].more \/ (read[r].kind = "poll" /\ socket # "open"))))
    /\ IF read[r].kind = "start" THEN Connects ELSE UNCHANGED socket
    /\ UNCHANGED <<meetingVars, channel, server, reconnect, hidden>> /\ Works
\* Only poll tries again: a first read that fails leaves the page without timer or socket.
ReadFails(r) ==
    /\ read[r].pc # "idle" /\ Finish(r) /\ Fails
    /\ timer' = (timer \/ (~hidden /\ read[r].kind = "poll" /\ socket # "open"))
    /\ UNCHANGED <<meetingVars, connection, reconnect, hidden, cursor, shown>>
Poll ==
    /\ timer /\ timer' = FALSE /\ Asks("poll")
    /\ UNCHANGED <<meetingVars, connection, reconnect, hidden, cursor, shown>> /\ Works
\* submitContent, whose answer comes after the commit
Send ==
    /\ Commit(TRUE) /\ Asks("send")
    /\ UNCHANGED <<connection, timers, hidden, cursor, shown>> /\ Works
SocketOpens ==
    /\ socket = "connecting" /\ server # "none" /\ socket' = "open" /\ timer' = FALSE
    /\ UNCHANGED <<meetingVars, channel, server, reconnect, hidden, read, cursor, shown>> /\ Works
\* The page knows the meeting by the id buildMeetingProjection gives it, which is
\* the generation's; Publish names the meeting's row.
ProjectedID == "generation"
NotifiedID == "meeting"
\* serveWebSocket writes the notification that waits, and the page reads it.
Receive ==
    /\ Listening /\ channel \in DOMAIN events /\ channel' = 0
    /\ IF NotifiedID = ProjectedID /\ channel > cursor THEN SchedulePoll ELSE UNCHANGED timer
    /\ UNCHANGED <<meetingVars, socket, server, reconnect, hidden, read, cursor, shown>> /\ Works
Disconnected == socket' = "none" /\ server' = "none" /\ channel' = Unsubscribed
\* scheduleWebSocketRecovery
SocketCloses ==
    /\ socket # "none" /\ Disconnected /\ Fails /\ SchedulePoll /\ reconnect' = ~hidden
    /\ UNCHANGED <<meetingVars, hidden, read, cursor, shown>>
Reconnect ==
    /\ reconnect /\ reconnect' = FALSE /\ Connects
    /\ UNCHANGED <<meetingVars, channel, server, timer, hidden, read, cursor, shown>> /\ Works
\* handleVisibilityChange
Hide ==
    /\ ~hidden /\ hidden' = TRUE /\ timer' = FALSE /\ reconnect' = FALSE /\ Disconnected
    /\ UNCHANGED <<meetingVars, read, cursor, shown>> /\ Works
Show ==
    /\ hidden /\ hidden' = FALSE /\ timer' = TRUE /\ socket' = "connecting"
    /\ UNCHANGED <<meetingVars, channel, server, reconnect, read, cursor, shown>> /\ Works

Serves == \/ \E n \in 1..MaxEvents : Publish(n)
          \/ Upgrade \/ Subscribe \/ \E r \in Reads : List(r)
Follows == (\E r \in Reads : Apply(r)) \/ Poll \/ SocketOpens \/ Receive \/ Reconnect
Next == Serves \/ Follows \/ EventCommitted \/ Send \/ Hide \/ Show \/ SocketCloses \/ \E r \in Reads : ReadFails(r)
Spec == Init /\ [][Next]_vars
\* Requests are answered, timers fire and goroutines run.
FairSpec ==
    /\ Spec /\ WF_vars(Upgrade) /\ WF_vars(Subscribe) /\ WF_vars(Poll)
    /\ WF_vars(SocketOpens) /\ WF_vars(Receive) /\ WF_vars(Reconnect)
    /\ \A n \in 1..MaxEvents : WF_vars(Publish(n))
    /\ \A r \in Reads : WF_vars(List(r)) /\ WF_vars(Apply(r))

-----------------------------------------------------------------------------
(* Whatever reads overlap, the page shows every visible event its cursor   *)
(* has passed, once and in the order of seq (timeline_service.go:58,       *)
(* GuestApp.vue:186).                                                      *)
CursorSkipsNothing == \A n \in 1..cursor : events[n] => n \in Range(shown)
InOrder == Increasing(shown)
TimelineInv == TypeOK /\ CursorSkipsNothing /\ InOrder

(* What the notification channel is there for: without a failure, a        *)
(* visible event that is published while the page is connected and         *)
(* subscribed reaches a page that is looked at (GuestApp.vue:220,          *)
(* routes.go:86).  The code does not keep it.                              *)
PublishedArrives == \A n \in 1..MaxEvents :
    (n \in unpublished /\ events[n] /\ Listening) ~> (n \in Range(shown) \/ hidden)
=============================================================================
