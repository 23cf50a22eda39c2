-------------------------- MODULE RealtimeTranscript --------------------------
(***************************************************************************)
(* internal/service/transcript: the RealtimeCoordinator of one meeting.    *)
(* Recorded audio goes through a bounded queue to one physical session at  *)
(* a time; results come back, are persisted, and what could not be sent is *)
(* written down as a gap.  The processes are                               *)
(*   - the recording  which offers frames and finally calls Stop,          *)
(*   - the connectors connectInitial, the supervisor and Retry, all of     *)
(*                    which may run connect,                               *)
(*   - one sender and one reader for each physical session,                *)
(*   - the final processor,                                                *)
(*   - the provider, with the adapter's reader of the connection.          *)
(* The unit of audio is one packet, and a frame is one packet.  A session  *)
(* is known by its generation.                                             *)
(***************************************************************************)
EXTENDS Integers, Sequences

CONSTANTS
    QueueSlots,   \* PCMQueueSamples, in packets
    FailureSlots, \* capacity of the channel failures
    EventSlots,   \* adapterEventCapacity
    FinalSlots,   \* FinalQueueCapacity
    Checkpoint,   \* sentCheckpointSamples, in packets
    Budget,       \* len(Backoff)
    MaxSamples,   \* bound: packets recorded
    MaxSessions,  \* bound: physical sessions
    MaxRetries,   \* bound: manual retries
    FaultKinds,   \* what may go wrong in the environment
    MaxFaults,    \* bound: how often it does
    MaxCrashes    \* bound: crashes of the process

ASSUME CapacityAssumption ==
    /\ {QueueSlots, FailureSlots, EventSlots, FinalSlots, Checkpoint} \subseteq Nat \ {0}
    /\ {Budget, MaxSamples, MaxSessions, MaxRetries, MaxFaults, MaxCrashes} \subseteq Nat

VARIABLES
    recorded,                   \* packets in the WAV file
    (* PCMQueue: the packets [head, tail); it is closed when stopping is set *)
    head, tail, wake,
    (* RealtimeCoordinator *)
    gen, current, count, lastSent, lastFinal, gapStart, unavailable, failures,
    (* connect, one record for each goroutine that may run it *)
    conn,
    (* supervise and handleFailure *)
    sup,
    (* physical sessions: the connection, sendFrames, readEvents *)
    link, start, sent, told, events,
    snd, frame, rd, got,
    (* FinalProcessor *)
    finals, finClosed,
    (* Stop *)
    stopPc, stopOf, tailFailure,
    (* database *)
    row, rowSent, rowFinal, utterances, gaps, asr,
    (* environment *)
    boot, faults, crashes, retries

queue    == <<head, tail, wake>>
coord    == <<gen, current, count, lastSent, lastFinal, gapStart, unavailable, failures>>
wire     == <<link, start, sent, told, events>>
sender   == <<snd, frame>>
reader   == <<rd, got>>
final    == <<finals, finClosed>>
stop     == <<stopPc, stopOf, tailFailure>>
database == <<row, rowSent, rowFinal, utterances, gaps, asr>>
env      == <<boot, faults, crashes, retries>>

vars == <<recorded, queue, coord, conn, sup, wire, sender, reader, final, stop,
          database, env>>

Gens       == 1 .. MaxSessions
Connectors == {"initial", "supervisor", "retry"}
NoSample   == -1
Samples    == Nat \cup {NoSample}

stopping  == stopPc # "none"
cancelled == stopPc = "done"
running   == boot = "up"

Event == [kind : {"final", "conflict", "failed"}, gen : Gens, from : Nat, to : Nat, last : Nat]
Failure == [gen : 0 .. MaxSessions, retry : BOOLEAN, resume : Nat]
Connection == [pc : {"idle", "create", "dial", "adopt", "mark", "close", "failed"},
               gen : 0 .. MaxSessions, start : Nat, count : 0 .. Budget]
Handling == [pc : {"idle", "close", "backoff", "connect"}, gen : 0 .. MaxSessions,
             from : Nat, resume : Nat, retry : BOOLEAN, attempt : 0 .. Budget]

QueueType ==
    /\ recorded \in Nat /\ head \in Nat /\ tail \in Nat /\ tail - head \in 0 .. QueueSlots
    /\ wake \in BOOLEAN
CoordType ==
    /\ gen \in 0 .. MaxSessions /\ current \in 0 .. gen /\ count \in 0 .. Budget
    /\ lastSent \in Nat /\ lastFinal \in Nat /\ gapStart \in Samples
    /\ unavailable \in BOOLEAN
    /\ failures \in Seq(Failure) /\ Len(failures) =< FailureSlots
ConnectType == conn \in [Connectors -> Connection] /\ sup \in Handling
WireType ==
    /\ link \in [Gens -> {"none", "open", "ending", "gone"}]
    /\ start \in [Gens -> Nat] /\ sent \in [Gens -> Nat] /\ told \in [Gens -> Nat]
    /\ events \in [Gens -> Seq(Event)] /\ \A g \in Gens : Len(events[g]) =< EventSlots
SessionType ==
    /\ snd \in [Gens -> {"none", "take", "wait", "write", "advance", "done"}]
    /\ frame \in [Gens -> Samples]
    /\ rd \in [Gens -> {"none", "started", "read", "submit", "done"}]
    /\ got \in [Gens -> Event]
    /\ finals \in Seq(Event) /\ Len(finals) =< FinalSlots /\ finClosed \in BOOLEAN
StopType ==
    /\ stopPc \in {"none", "sender", "remote", "answer", "drain", "finals", "gap",
                   "finish", "error", "again", "done"}
    /\ stopOf \in 0 .. MaxSessions /\ tailFailure \in BOOLEAN
DatabaseType ==
    /\ row \in [Gens -> {"none", "connecting", "streaming", "failed", "stopped"}]
    /\ rowSent \in [Gens -> Nat] /\ rowFinal \in [Gens -> Nat]
    /\ utterances \subseteq Gens \X Nat \X Nat /\ gaps \subseteq Nat \X Nat
    /\ asr \in {"idle", "connecting", "streaming", "reconnecting", "unavailable", "stopped"}
    /\ boot \in {"up", "down", "recover", "over"} /\ retries \in Nat
TypeOK ==
    /\ QueueType /\ CoordType /\ ConnectType /\ WireType /\ SessionType /\ StopType
    /\ DatabaseType

NoEvent == [kind |-> "failed", gen |-> 1, from |-> 0, to |-> 0, last |-> 0]
IdleConnect == [pc |-> "idle", gen |-> 0, start |-> 0, count |-> 0]
IdleSupervisor == [pc |-> "idle", gen |-> 0, from |-> 0, resume |-> 0,
                   retry |-> FALSE, attempt |-> 0]

(* NewRealtimeCoordinator and Start: the first connection is opened in the *)
(* background, from the first sample.                                      *)
Fresh ==
    /\ head = 0 /\ tail = 0 /\ wake = FALSE
    /\ gen = 0 /\ current = 0 /\ count = 0 /\ lastSent = 0 /\ lastFinal = 0
    /\ gapStart = NoSample /\ unavailable = FALSE /\ failures = <<>>
    /\ conn = [c \in Connectors |->
                 [IdleConnect EXCEPT !.pc = IF c = "initial" THEN "create" ELSE "idle"]]
    /\ sup = IdleSupervisor
    /\ finals = <<>> /\ finClosed = FALSE
    /\ stopPc = "none" /\ stopOf = 0 /\ tailFailure = FALSE

Init ==
    /\ Fresh
    /\ recorded = 0
    /\ link = [g \in Gens |-> "none"] /\ start = [g \in Gens |-> 0]
    /\ sent = [g \in Gens |-> 0] /\ told = [g \in Gens |-> 0]
    /\ events = [g \in Gens |-> <<>>]
    /\ snd = [g \in Gens |-> "none"] /\ frame = [g \in Gens |-> NoSample]
    /\ rd = [g \in Gens |-> "none"] /\ got = [g \in Gens |-> NoEvent]
    /\ row = [g \in Gens |-> "none"]
    /\ rowSent = [g \in Gens |-> 0] /\ rowFinal = [g \in Gens |-> 0]
    /\ utterances = {} /\ gaps = {} /\ asr = "idle"
    /\ boot = "up" /\ faults = 0 /\ crashes = 0 /\ retries = 0

-----------------------------------------------------------------------------
(* Helpers *)

\* The environment fails an operation.
Breaks(kind) ==
    /\ kind \in FaultKinds /\ faults < MaxFaults
    /\ faults' = faults + 1
    /\ UNCHANGED <<boot, crashes, retries>>

\* An operation under the coordinator's context also fails when that is
\* cancelled.
Fails(kind) == Breaks(kind) \/ (cancelled /\ UNCHANGED env)

Larger(a, b) == IF a > b THEN a ELSE b

\* reportFailure: never blocks; a full channel makes the transcript unavailable.
\* A failure without a generation is one of the generation of the moment.
BugReportDropped(f) ==
    LET report == IF f.gen = 0 THEN [f EXCEPT !.gen = gen] ELSE f
    IN  /\ failures' = IF Len(failures) < FailureSlots THEN Append(failures, report)
                       ELSE failures
        /\ UNCHANGED <<unavailable, asr>>
Report(f) ==
    LET report == IF f.gen = 0 THEN [f EXCEPT !.gen = gen] ELSE f
    IN  IF Len(failures) < FailureSlots
        THEN /\ failures' = Append(failures, report)
             /\ UNCHANGED <<unavailable, asr>>
        ELSE /\ unavailable' = TRUE
             /\ asr' = IF unavailable THEN asr ELSE "unavailable"
             /\ UNCHANGED failures

\* isCurrentGeneration.
IsCurrent(g) == current = g /\ gen = g

\* openGap: the first start of an open gap stays.
OpenGap(s) == gapStart' = IF gapStart = NoSample THEN s ELSE gapStart

-----------------------------------------------------------------------------
(* The recording *)

\* TryAcceptFrame, called with each frame that was written.  The queue takes
\* a frame only if it follows the last one it took; the first one may be any.
Active == ~stopping /\ ~unavailable
BugRoomForOneMore == tail - head =< QueueSlots
HasRoom == tail - head < QueueSlots
Follows == tail \in {0, recorded}

Frame ==
    /\ running /\ ~stopping /\ recorded < MaxSamples
    /\ recorded' = recorded + 1
    /\ \/ /\ Active /\ HasRoom /\ Follows
          /\ head' = (IF tail = 0 THEN recorded ELSE head) /\ tail' = recorded'
          /\ wake' = TRUE
          /\ UNCHANGED <<failures, unavailable, asr>>
       \/ /\ Active /\ ~(HasRoom /\ Follows)
          /\ Report([gen |-> gen, retry |-> FALSE, resume |-> 0])
          /\ UNCHANGED <<head, tail, wake>>
       \/ /\ ~Active
          /\ UNCHANGED <<head, tail, wake, failures, unavailable, asr>>
    /\ UNCHANGED <<gen, current, count, lastSent, lastFinal, gapStart, conn, sup,
                   wire, sender, reader, final, stop, row, rowSent, rowFinal,
                   utterances, gaps, env>>

-----------------------------------------------------------------------------
(* connect *)

At(c, pc) == running /\ conn[c].pc = pc

Goto(c, pc) == conn' = [conn EXCEPT ![c].pc = pc]

\* generation++, and the row of the session.  The transaction may fail.
ConnectCreate(c) ==
    LET g == gen + 1
        s == conn[c].start
    IN  /\ At(c, "create") /\ gen < MaxSessions
        /\ gen' = g
        /\ \/ /\ ~cancelled
              /\ conn' = [conn EXCEPT ![c].pc = "dial", ![c].gen = g]
              /\ row' = [row EXCEPT ![g] = "connecting"]
              /\ rowSent' = [rowSent EXCEPT ![g] = s]
              /\ rowFinal' = [rowFinal EXCEPT ![g] = s]
              /\ asr' = "connecting"
              /\ UNCHANGED env
           \/ /\ Fails("db")
              /\ conn' = [conn EXCEPT ![c].pc = "failed", ![c].gen = g]
              /\ UNCHANGED <<row, rowSent, rowFinal, asr>>
        /\ start' = [start EXCEPT ![g] = s]
        /\ sent' = [sent EXCEPT ![g] = s] /\ told' = [told EXCEPT ![g] = s]
        /\ UNCHANGED <<recorded, queue, current, count, lastSent, lastFinal, gapStart,
                       unavailable, failures, sup, link, events, sender, reader, final,
                       stop, utterances, gaps>>

\* startTranscriber, bounded by ConnectTimeout.  A failure finishes the row
\* and moves the meeting to reconnecting, whatever happened meanwhile.
ConnectDial(c) ==
    LET g == conn[c].gen
    IN  /\ At(c, "dial")
        /\ \/ /\ ~cancelled
              /\ link' = [link EXCEPT ![g] = "open"]
              /\ Goto(c, "adopt")
              /\ UNCHANGED <<row, asr, env>>
           \/ /\ Fails("dial")
              /\ row' = [row EXCEPT ![g] = "failed"]
              /\ asr' = "reconnecting"
              /\ Goto(c, "failed")
              /\ UNCHANGED link
        /\ UNCHANGED <<recorded, queue, coord, sup, start, sent, told, events, sender,
                       reader, final, stop, rowSent, rowFinal, utterances, gaps>>

\* The session becomes the current one unless Stop has begun.
ConnectAdopt(c) ==
    LET g == conn[c].gen
    IN  /\ At(c, "adopt")
        /\ IF stopping
           THEN /\ link' = [link EXCEPT ![g] = "gone"]
                /\ Goto(c, "failed")
                /\ UNCHANGED <<current, count>>
           ELSE /\ current' = g
                /\ count' = conn[c].count
                /\ Goto(c, "mark")
                /\ UNCHANGED link
        /\ UNCHANGED <<recorded, queue, gen, lastSent, lastFinal, gapStart, unavailable,
                       failures, sup, start, sent, told, events, sender, reader, final,
                       stop, database, env>>

\* markStreaming.
MarkStreaming(g) ==
    LET marks == IsCurrent(g) /\ Active /\ row[g] \in {"connecting", "streaming"}
    IN  /\ row' = IF marks THEN [row EXCEPT ![g] = "streaming"] ELSE row
        /\ asr' = IF marks THEN "streaming" ELSE asr

ConnectMark(c) ==
    /\ At(c, "mark")
    /\ Goto(c, "close")
    /\ MarkStreaming(conn[c].gen)
    /\ UNCHANGED <<recorded, queue, coord, sup, wire, sender, reader, final, stop,
                   rowSent, rowFinal, utterances, gaps, env>>

\* closeOpenGap at the first sample of the session, then the sender and the
\* reader.  A gap that cannot be written is forgotten, and the session stays
\* the current one without a sender or a reader.
ConnectCloseGap(c) ==
    LET g == conn[c].gen
        s == conn[c].start
        pending == gapStart # NoSample /\ gapStart < s
    IN  /\ At(c, "close")
        /\ gapStart' = NoSample
        /\ \/ /\ ~(pending /\ cancelled)
              /\ gaps' = IF pending THEN gaps \cup {<<gapStart, s>>} ELSE gaps
              /\ snd' = [snd EXCEPT ![g] = "take"]
              /\ rd' = [rd EXCEPT ![g] = "started"]
              /\ conn' = [conn EXCEPT ![c] = IdleConnect]
              /\ sup' = IF c = "supervisor" THEN IdleSupervisor ELSE sup
              /\ UNCHANGED <<link, env>>
           \/ /\ pending /\ Fails("db")
              /\ link' = [link EXCEPT ![g] = "gone"]
              /\ Goto(c, "failed")
              /\ UNCHANGED <<gaps, snd, rd, sup>>
        /\ UNCHANGED <<recorded, queue, gen, current, count, lastSent, lastFinal,
                       unavailable, failures, start, sent, told, events, frame, got,
                       final, stop, row, rowSent, rowFinal, utterances, asr>>

\* What connectInitial and Retry do with an error of connect.
ConnectFails(c) ==
    /\ At(c, "failed") /\ c # "supervisor"
    /\ conn' = [conn EXCEPT ![c] = IdleConnect]
    /\ IF c = "initial" THEN OpenGap(conn[c].start) ELSE UNCHANGED gapStart
    /\ Report([gen |-> 0, retry |-> TRUE, resume |-> conn[c].start])
    /\ UNCHANGED <<recorded, queue, gen, current, count, lastSent, lastFinal, sup, wire,
                   sender, reader, final, stop, row, rowSent, rowFinal, utterances,
                   gaps, env>>

-----------------------------------------------------------------------------
(* supervise and handleFailure *)

\* A failure counts only if it is one of the current generation.
BugOthersHandled(f) == ~stopping /\ ~unavailable /\ f.gen # gen
Handled(f) == ~stopping /\ ~unavailable /\ f.gen \in {0, gen}

Supervise ==
    /\ running /\ ~cancelled /\ sup.pc = "idle" /\ failures # <<>>
    /\ failures' = Tail(failures)
    /\ LET f == Head(failures)
       IN  IF Handled(f)
           THEN /\ sup' = [pc |-> "close", gen |-> current, from |-> lastSent,
                           resume |-> Larger(f.resume, lastSent), retry |-> f.retry,
                           attempt |-> count]
                /\ current' = 0
           ELSE UNCHANGED <<sup, current>>
    /\ UNCHANGED <<recorded, queue, gen, count, lastSent, lastFinal, gapStart,
                   unavailable, conn, wire, sender, reader, final, stop, database, env>>

\* The old connection is stopped, its row finished, and a gap opened where
\* the sending stopped.  What cannot be retried is over here.
GiveUp ==
    /\ unavailable' = TRUE
    /\ sup' = IdleSupervisor

CloseFailed ==
    LET g == sup.gen
    IN  /\ running /\ sup.pc = "close"
        /\ IF g = 0
           THEN UNCHANGED <<link, row, gapStart>>
           ELSE /\ link' = [link EXCEPT ![g] = "gone"]
                /\ row' = [row EXCEPT ![g] = "failed"]
                /\ OpenGap(sup.from)
        /\ IF sup.retry /\ sup.attempt < Budget
           THEN /\ sup' = [sup EXCEPT !.pc = "backoff"]
                /\ asr' = IF g = 0 THEN asr ELSE "reconnecting"
                /\ UNCHANGED unavailable
           ELSE /\ GiveUp
                /\ asr' = IF ~unavailable THEN "unavailable"
                          ELSE IF g = 0 THEN asr ELSE "reconnecting"
        /\ UNCHANGED <<recorded, queue, gen, current, count, lastSent, lastFinal, failures,
                       conn, start, sent, told, events, sender, reader, final, stop,
                       rowSent, rowFinal, utterances, gaps, env>>

\* The attempts that the next connection will have taken.
BugAttemptNotCounted == sup.attempt
Attempts == sup.attempt + 1

\* Wait, then connect; the wait ends without a connection when the context
\* is cancelled.
Backoff ==
    /\ running /\ sup.pc = "backoff"
    /\ IF cancelled
       THEN sup' = IdleSupervisor /\ UNCHANGED conn
       ELSE /\ sup' = [sup EXCEPT !.pc = "connect"]
            /\ conn' = [conn EXCEPT !["supervisor"] =
                          [pc |-> "create", gen |-> 0, start |-> sup.resume,
                           count |-> Attempts]]
    /\ UNCHANGED <<recorded, queue, coord, wire, sender, reader, final, stop, database, env>>

\* connect failed: the next attempt, or none is left.
NextAttempt ==
    /\ At("supervisor", "failed")
    /\ conn' = [conn EXCEPT !["supervisor"] = IdleConnect]
    /\ IF Attempts < Budget
       THEN /\ sup' = [sup EXCEPT !.pc = "backoff", !.attempt = Attempts]
            /\ UNCHANGED <<unavailable, asr>>
       ELSE /\ GiveUp
            /\ asr' = IF unavailable THEN asr ELSE "unavailable"
    /\ UNCHANGED <<recorded, queue, gen, current, count, lastSent, lastFinal, gapStart,
                   failures, wire, sender, reader, final, stop, row, rowSent, rowFinal,
                   utterances, gaps, env>>

\* Retry, on request of the user.
Retry ==
    /\ running /\ ~stopping /\ unavailable /\ conn["retry"].pc = "idle"
    /\ retries < MaxRetries /\ retries' = retries + 1
    /\ unavailable' = FALSE /\ count' = 0
    /\ conn' = [conn EXCEPT !["retry"] = [IdleConnect EXCEPT !.pc = "create", !.start = lastSent]]
    /\ UNCHANGED <<recorded, queue, gen, current, lastSent, lastFinal, gapStart, failures,
                   sup, wire, sender, reader, final, stop, database, boot, faults, crashes>>

-----------------------------------------------------------------------------
(* sendFrames *)

SenderAt(g, pc) == running /\ snd[g] = pc

\* Take: a token in wake is left behind only when packets remain.
Take(g) ==
    /\ SenderAt(g, "take")
    /\ IF head < tail
       THEN /\ frame' = [frame EXCEPT ![g] = head]
            /\ head' = head + 1
            /\ wake' = (wake \/ head + 1 < tail)
            /\ snd' = [snd EXCEPT ![g] = "write"]
       ELSE /\ snd' = [snd EXCEPT ![g] = IF stopping THEN "done" ELSE "wait"]
            /\ UNCHANGED <<frame, head, wake>>
    /\ UNCHANGED <<recorded, tail, coord, conn, sup, wire, reader, final, stop, database, env>>

Woken(g) ==
    /\ SenderAt(g, "wait")
    /\ \/ /\ wake /\ wake' = FALSE
          /\ snd' = [snd EXCEPT ![g] = "take"]
       \/ /\ cancelled
          /\ snd' = [snd EXCEPT ![g] = "done"]
          /\ UNCHANGED wake
    /\ UNCHANGED <<recorded, head, tail, coord, conn, sup, wire, frame, reader, final,
                   stop, database, env>>

\* session.WriteFrame: only the packet that follows the last one is sent.
BugGapsWritten(g) == link[g] = "open" /\ ~cancelled
Writable(g) == link[g] = "open" /\ frame[g] = sent[g] /\ ~cancelled

Write(g) ==
    /\ SenderAt(g, "write")
    /\ \/ /\ Writable(g)
          /\ sent' = [sent EXCEPT ![g] = frame[g] + 1]
          /\ snd' = [snd EXCEPT ![g] = "advance"]
          /\ UNCHANGED <<link, failures, unavailable, asr, env>>
       \/ /\ \/ /\ ~Writable(g)
                /\ UNCHANGED <<link, env>>
             \/ /\ Writable(g) /\ Breaks("write")
                /\ link' = [link EXCEPT ![g] = "gone"]
          /\ Report([gen |-> g, retry |-> TRUE, resume |-> frame[g] + 1])
          /\ snd' = [snd EXCEPT ![g] = "done"]
          /\ UNCHANGED sent
    /\ frame' = [frame EXCEPT ![g] = NoSample]
    /\ UNCHANGED <<recorded, queue, gen, current, count, lastSent, lastFinal, gapStart,
                   conn, sup, start, told, events, reader, final, stop, row, rowSent,
                   rowFinal, utterances, gaps>>

\* advanceSent: the database learns of the progress at every checkpoint.
BugSaveToCurrent(g, s) ==
    rowSent' = IF current # 0 /\ rowSent[current] =< s
               THEN [rowSent EXCEPT ![current] = s] ELSE rowSent
SaveSent(g, s) ==
    rowSent' = IF rowSent[g] =< s THEN [rowSent EXCEPT ![g] = s] ELSE rowSent

Advance(g) ==
    LET s == sent[g]
        due == s - lastSent >= Checkpoint \/ s % Checkpoint = 0
    IN  /\ SenderAt(g, "advance")
        /\ snd' = [snd EXCEPT ![g] = "take"]
        /\ lastSent' = Larger(lastSent, s)
        /\ IF due /\ ~cancelled THEN SaveSent(g, s) ELSE UNCHANGED rowSent
        /\ UNCHANGED <<recorded, queue, gen, current, count, lastFinal, gapStart,
                       unavailable, failures, conn, sup, wire, frame, reader, final, stop,
                       row, rowFinal, utterances, gaps, asr, env>>

-----------------------------------------------------------------------------
(* The provider and the adapter's reader of the connection *)

Connected(g) == running /\ link[g] \in {"open", "ending"}

\* The adapter publishes an event; when the channel is full the connection
\* ends, and the failure event is lost as well.
Publish(g, e) ==
    IF Len(events[g]) < EventSlots
    THEN /\ events' = [events EXCEPT ![g] = Append(@, e)]
         /\ UNCHANGED link
    ELSE /\ link' = [link EXCEPT ![g] = "gone"]
         /\ UNCHANGED events

\* A final result for audio that was sent.  The event carries how much had
\* been sent when it arrived.
ProviderFinal(g) ==
    /\ Connected(g)
    /\ \E to \in told[g] + 1 .. sent[g] :
          /\ Publish(g, [kind |-> "final", gen |-> g, from |-> told[g], to |-> to,
                         last |-> sent[g]])
          /\ told' = [told EXCEPT ![g] = to]
    /\ UNCHANGED <<recorded, queue, coord, conn, sup, start, sent, sender, reader, final,
                   stop, database, env>>

\* A final whose result id was used before, with another text.
ProviderConflict(g) ==
    /\ Connected(g) /\ Breaks("conflict")
    /\ \E u \in utterances :
          /\ u[1] = g
          /\ Publish(g, [kind |-> "conflict", gen |-> g, from |-> u[2], to |-> u[3],
                         last |-> sent[g]])
    /\ UNCHANGED <<recorded, queue, coord, conn, sup, start, sent, told, sender, reader,
                   final, stop, database>>

\* The connection breaks: a failure event unless Stop asked for the end.
ProviderBreaks(g) ==
    /\ Connected(g) /\ Breaks("break")
    /\ link' = [link EXCEPT ![g] = "gone"]
    /\ events' = IF link[g] = "open" /\ Len(events[g]) < EventSlots
                 THEN [events EXCEPT ![g] = Append(@, [NoEvent EXCEPT !.gen = g])]
                 ELSE events
    /\ UNCHANGED <<recorded, queue, coord, conn, sup, start, sent, told, sender, reader,
                   final, stop, database>>

\* The last answer to a session that was stopped.
ProviderEnds(g) ==
    /\ running /\ link[g] = "ending"
    /\ link' = [link EXCEPT ![g] = "gone"]
    /\ UNCHANGED <<recorded, queue, coord, conn, sup, start, sent, told, events, sender,
                   reader, final, stop, database, env>>

-----------------------------------------------------------------------------
(* readEvents *)

ReaderAt(g, pc) == running /\ rd[g] = pc

\* The adapter's first event says that the session has started.  An event of
\* another generation ends the reader.
ReadStarted(g) ==
    /\ ReaderAt(g, "started")
    /\ rd' = [rd EXCEPT ![g] = IF IsCurrent(g) THEN "read" ELSE "done"]
    /\ MarkStreaming(g)
    /\ UNCHANGED <<recorded, queue, coord, conn, sup, wire, sender, got, final, stop,
                   rowSent, rowFinal, utterances, gaps, env>>

Read(g) ==
    /\ ReaderAt(g, "read") /\ events[g] # <<>>
    /\ events' = [events EXCEPT ![g] = Tail(@)]
    /\ LET e == Head(events[g])
       IN  \/ /\ ~IsCurrent(g)
              /\ rd' = [rd EXCEPT ![g] = "done"]
              /\ UNCHANGED <<got, failures, unavailable, asr>>
           \/ /\ IsCurrent(g) /\ e.kind = "failed"
              /\ rd' = [rd EXCEPT ![g] = "done"]
              /\ Report([gen |-> g, retry |-> TRUE, resume |-> 0])
              /\ UNCHANGED got
           \/ /\ IsCurrent(g) /\ e.kind # "failed"
              /\ rd' = [rd EXCEPT ![g] = "submit"]
              /\ got' = [got EXCEPT ![g] = e]
              /\ UNCHANGED <<failures, unavailable, asr>>
    /\ UNCHANGED <<recorded, queue, gen, current, count, lastSent, lastFinal, gapStart,
                   conn, sup, link, start, sent, told, sender, final, stop, row, rowSent,
                   rowFinal, utterances, gaps, env>>

\* The events ended.
ReadClosed(g) ==
    /\ ReaderAt(g, "read") /\ events[g] = <<>> /\ link[g] = "gone"
    /\ rd' = [rd EXCEPT ![g] = "done"]
    /\ IF stopping
       THEN UNCHANGED <<failures, unavailable, asr>>
       ELSE Report([gen |-> g, retry |-> TRUE, resume |-> 0])
    /\ UNCHANGED <<recorded, queue, gen, current, count, lastSent, lastFinal, gapStart,
                   conn, sup, wire, sender, got, final, stop, row, rowSent, rowFinal,
                   utterances, gaps, env>>

\* TrySubmit.
Submit(g) ==
    /\ ReaderAt(g, "submit")
    /\ got' = [got EXCEPT ![g] = NoEvent]
    /\ IF ~finClosed /\ Len(finals) < FinalSlots
       THEN /\ finals' = Append(finals, got[g])
            /\ rd' = [rd EXCEPT ![g] = "read"]
            /\ UNCHANGED <<failures, unavailable, asr>>
       ELSE /\ Report([gen |-> g, retry |-> FALSE, resume |-> 0])
            /\ rd' = [rd EXCEPT ![g] = "done"]
            /\ UNCHANGED finals
    /\ UNCHANGED <<recorded, queue, gen, current, count, lastSent, lastFinal, gapStart,
                   conn, sup, wire, sender, finClosed, stop, row, rowSent, rowFinal,
                   utterances, gaps, env>>

-----------------------------------------------------------------------------
(* FinalProcessor *)

\* PersistFinal is one transaction: it advances what was sent, which must
\* not go back, inserts the utterance, and advances the last final.
Persistable(e) ==
    e.kind = "final" /\ rowSent[e.gen] =< e.last /\ rowFinal[e.gen] =< e.to

Persist ==
    /\ running /\ finals # <<>> /\ Persistable(Head(finals))
    /\ LET e == Head(finals)
       IN  /\ utterances' = utterances \cup {<<e.gen, e.from, e.to>>}
           /\ rowSent' = [rowSent EXCEPT ![e.gen] = e.last]
           /\ rowFinal' = [rowFinal EXCEPT ![e.gen] = e.to]
           /\ lastFinal' = Larger(lastFinal, e.to)
    /\ finals' = Tail(finals)
    /\ UNCHANGED <<recorded, queue, gen, current, count, lastSent, gapStart, unavailable,
                   failures, conn, sup, wire, sender, reader, finClosed, stop, row, gaps,
                   asr, env>>

\* The last attempt failed: a failure of the generation of the moment.  A
\* conflicting final should become a gap of its own, but the table of gaps
\* does not admit its reason, so it ends here too.
PersistFails ==
    /\ running /\ finals # <<>>
    /\ \/ ~Persistable(Head(finals)) /\ UNCHANGED env
       \/ Persistable(Head(finals)) /\ Breaks("final")
    /\ finals' = Tail(finals)
    /\ Report([gen |-> 0, retry |-> TRUE, resume |-> 0])
    /\ UNCHANGED <<recorded, queue, gen, current, count, lastSent, lastFinal, gapStart,
                   conn, sup, wire, sender, reader, finClosed, stop, row, rowSent,
                   rowFinal, utterances, gaps>>

-----------------------------------------------------------------------------
(* Stop, called with a context that has no deadline *)

StopAt(pc) == running /\ stopPc = pc

\* PCMQueue.Close: a sender that waits for packets is to find out.
BugWakeForgotten == UNCHANGED wake
CloseQueue == wake' = TRUE

\* From here on no frame is accepted and the queue is closed.
StopCall ==
    /\ StopAt("none")
    /\ stopOf' = current
    /\ stopPc' = IF current = 0 THEN "drain" ELSE "sender"
    /\ tailFailure' = (current = 0)
    /\ CloseQueue
    /\ UNCHANGED <<recorded, head, tail, coord, conn, sup, wire, sender, reader, final,
                   database, env>>

StopSender ==
    /\ StopAt("sender") /\ snd[stopOf] = "done"
    /\ stopPc' = "remote"
    /\ UNCHANGED <<recorded, queue, coord, conn, sup, wire, sender, reader, final, stopOf,
                   tailFailure, database, env>>

\* session.Stop: the empty last packet.
StopRemote ==
    /\ StopAt("remote")
    /\ IF link[stopOf] = "open"
       THEN /\ link' = [link EXCEPT ![stopOf] = "ending"]
            /\ stopPc' = "answer"
            /\ UNCHANGED tailFailure
       ELSE /\ stopPc' = "drain" /\ tailFailure' = TRUE
            /\ UNCHANGED link
    /\ UNCHANGED <<recorded, queue, coord, conn, sup, start, sent, told, events, sender,
                   reader, final, stopOf, database, env>>

\* The provider answered, or the connection broke while Stop waited, which
\* the adapter does not tell apart; checkpointSent.
StopAnswered ==
    /\ StopAt("answer") /\ link[stopOf] = "gone"
    /\ stopPc' = "drain"
    /\ lastSent' = Larger(lastSent, sent[stopOf])
    /\ SaveSent(stopOf, sent[stopOf])
    /\ UNCHANGED <<recorded, queue, gen, current, count, lastFinal, gapStart, unavailable,
                   failures, conn, sup, wire, sender, reader, final, stopOf, tailFailure,
                   row, rowFinal, utterances, gaps, asr, env>>

\* finals.CloseAndWait.
StopDrain ==
    /\ StopAt("drain")
    /\ finClosed' = TRUE
    /\ stopPc' = "finals"
    /\ UNCHANGED <<recorded, queue, coord, conn, sup, wire, sender, reader, finals, stopOf,
                   tailFailure, database, env>>

\* openTailGap.
BugTailOfSessionOnly == tailFailure /\ stopOf # 0 /\ lastFinal < recorded
TailMissing == tailFailure /\ lastFinal < recorded

StopFinals ==
    /\ StopAt("finals") /\ finals = <<>>
    /\ IF TailMissing THEN OpenGap(lastFinal) ELSE UNCHANGED gapStart
    /\ stopPc' = "gap"
    /\ UNCHANGED <<recorded, queue, gen, current, count, lastSent, lastFinal, unavailable,
                   failures, conn, sup, wire, sender, reader, final, stopOf, tailFailure,
                   database, env>>

\* persistOpenGap: an error leaves the coordinator stopping.
StopGap ==
    LET pending == gapStart # NoSample /\ gapStart < recorded
    IN  /\ StopAt("gap")
        /\ gapStart' = NoSample
        /\ \/ /\ gaps' = IF pending THEN gaps \cup {<<gapStart, recorded>>} ELSE gaps
              /\ stopPc' = "finish"
              /\ UNCHANGED env
           \/ /\ pending /\ Breaks("db")
              /\ stopPc' = "error"
              /\ UNCHANGED gaps
        /\ UNCHANGED <<recorded, queue, gen, current, count, lastSent, lastFinal,
                       unavailable, failures, conn, sup, wire, sender, reader, final,
                       stopOf, tailFailure, row, rowSent, rowFinal, utterances, asr>>

\* finishCurrent, cancel, done.
StopFinish ==
    /\ StopAt("finish")
    /\ row' = IF current = 0 THEN row ELSE [row EXCEPT ![current] = "stopped"]
    /\ asr' = "stopped"
    /\ current' = 0
    /\ stopPc' = "done"
    /\ UNCHANGED <<recorded, queue, gen, count, lastSent, lastFinal, gapStart, unavailable,
                   failures, conn, sup, wire, sender, reader, final, stopOf, tailFailure,
                   rowSent, rowFinal, utterances, gaps, env>>

\* EndMeeting is repeated after an error: Stop waits for done.
StopAgain ==
    /\ StopAt("error")
    /\ stopPc' = "again"
    /\ UNCHANGED <<recorded, queue, coord, conn, sup, wire, sender, reader, final, stopOf,
                   tailFailure, database, env>>

-----------------------------------------------------------------------------
(* Crash and RecoveryService.Recover *)

Crash ==
    /\ running /\ ~cancelled /\ crashes < MaxCrashes
    /\ crashes' = crashes + 1
    /\ boot' = "down"
    /\ UNCHANGED <<recorded, queue, coord, conn, sup, wire, sender, reader, final, stop,
                   database, faults, retries>>

\* FailActiveSessions.
RecoverSessions ==
    /\ boot = "down"
    /\ row' = [g \in Gens |-> IF row[g] \in {"connecting", "streaming"} THEN "failed"
                              ELSE row[g]]
    /\ asr' = "unavailable"
    /\ boot' = "recover"
    /\ UNCHANGED <<recorded, queue, coord, conn, sup, wire, sender, reader, final, stop,
                   rowSent, rowFinal, utterances, gaps, faults, crashes, retries>>

\* The largest last_final_sample of the rows; of a row it is at first where
\* the session began.
BugRecoveredFromFirst == rowFinal[1]
RecoveredFrom ==
    CHOOSE s \in {0} \cup {rowFinal[g] : g \in Gens} :
        \A g \in Gens : rowFinal[g] =< s

RecoverGap ==
    /\ boot = "recover"
    /\ gaps' = IF RecoveredFrom < recorded THEN gaps \cup {<<RecoveredFrom, recorded>>}
               ELSE gaps
    /\ boot' = "over"
    /\ UNCHANGED <<recorded, queue, coord, conn, sup, wire, sender, reader, final, stop,
                   row, rowSent, rowFinal, utterances, asr, faults, crashes, retries>>

-----------------------------------------------------------------------------
Connect(c) ==
    \/ ConnectCreate(c) \/ ConnectDial(c) \/ ConnectAdopt(c) \/ ConnectMark(c)
    \/ ConnectCloseGap(c) \/ ConnectFails(c)

Supervisor == Supervise \/ CloseFailed \/ Backoff \/ NextAttempt

Sender(g) == Take(g) \/ Woken(g) \/ Write(g) \/ Advance(g)

Provider(g) == ProviderFinal(g) \/ ProviderConflict(g) \/ ProviderBreaks(g) \/ ProviderEnds(g)

Reader(g) == ReadStarted(g) \/ Read(g) \/ ReadClosed(g) \/ Submit(g)

Stopper ==
    \/ StopSender \/ StopRemote \/ StopAnswered \/ StopDrain \/ StopFinals \/ StopGap
    \/ StopFinish

Recovery == RecoverSessions \/ RecoverGap

Next ==
    \/ Frame \/ StopCall \/ StopAgain \/ Retry \/ Crash
    \/ \E c \in Connectors : Connect(c)
    \/ Supervisor
    \/ \E g \in Gens : Sender(g) \/ Provider(g) \/ Reader(g)
    \/ Persist \/ PersistFails
    \/ Stopper \/ Recovery

Spec == Init /\ [][Next]_vars

\* Every goroutine is scheduled, and a provider that was asked to end the
\* session answers.  No frame, fault, crash or call of the user is fair.
Scheduled ==
    /\ \A c \in Connectors : WF_vars(Connect(c))
    /\ WF_vars(Supervisor)
    /\ \A g \in Gens : WF_vars(Sender(g)) /\ WF_vars(Reader(g))
    /\ WF_vars(Persist \/ PersistFails)
    /\ WF_vars(Stopper) /\ WF_vars(Recovery)
SilentSpec == Spec /\ Scheduled
FairSpec == SilentSpec /\ \A g \in Gens : WF_vars(ProviderEnds(g))
-----------------------------------------------------------------------------
(* Properties *)

Covered(i) == \E p \in gaps : p[1] =< i /\ i < p[2]

Sent(g) == {i \in start[g] .. sent[g] : i < sent[g]}

\* However connections, failures and retries interleave, a packet is sent to
\* the provider in one session at most: Take hands each packet to one sender
\* and WriteFrame sends only what follows.
SentOnce ==
    \A g, h \in Gens : g # h => Sent(g) \cap Sent(h) = {}

\* The database never claims more than happened: what a row calls sent was
\* written to the connection, and its last final lies within that.
RowsBehindWire ==
    \A g \in Gens :
        row[g] # "none" =>
            /\ start[g] =< rowFinal[g] /\ rowFinal[g] =< rowSent[g]
            /\ rowSent[g] =< sent[g]

\* No audio is transcribed twice, within a session or in two of them.
TranscribedOnce ==
    \A u, v \in utterances : u # v => u[3] =< v[2] \/ v[3] =< u[2]

\* Until the user asks for more, a provider that keeps accepting and dropping
\* connections uses up the budget: handleFailure continues from the attempts
\* that the last connection took.
BudgetKept == retries = 0 => gen =< Budget + 1

\* When the queue took every frame and the first connection was never
\* replaced, a Stop that returns without an error leaves no packet that was
\* neither sent nor written down as a gap.
FirstConnectionCovered ==
    (cancelled /\ gen = 1 /\ tail = recorded)
        => \A i \in 0 .. recorded - 1 : i \in Sent(1) \/ Covered(i)

\* The rows, the connections and the gaps fit together in every state.
TranscriptInv == TypeOK /\ RowsBehindWire /\ FirstConnectionCovered

\* What Recover calls missing was not transcribed.
RecoveryGapUntranscribed ==
    [][boot = "recover" =>
         \A p \in gaps' \ gaps : \A u \in utterances : u[3] =< p[1]]_vars

\* A session that lost its connection is replaced or given up: nobody goes on
\* believing that it streams.  Retry of the host is left out: beside the
\* supervisor it connects a second time, and the session it replaces keeps its
\* row (realtime_coordinator.go, Retry).
FailureSettles ==
    \A g \in Gens :
        (row[g] = "streaming" /\ link[g] = "gone" /\ Active /\ running)
            ~> (row[g] # "streaming" \/ ~Active \/ ~running \/ retries > 0)

\* A Stop during the first connection returns if the provider answers.
FirstStopReturns ==
    (stopping /\ gen =< 1) ~> (stopPc \in {"done", "error"} \/ gen > 1 \/ ~running)

-----------------------------------------------------------------------------
(* Statements of the repository that the code does not keep *)

\* realtime_coordinator_connection.go: sendFrames is the only consumer of
\* the queue.
SoleConsumer ==
    \A g, h \in Gens : {snd[g], snd[h]} \subseteq {"take", "wait", "write", "advance"} => g = h

\* realtime_coordinator.go: connect establishes the only connection.
SoleConnection ==
    \A g, h \in Gens :
        ({link[g], link[h]} = {"open"} /\ {snd[g], snd[h]} \cap {"none"} = {}) => g = h

\* A manual retry starts the transcription again: once a session streams and
\* nothing is pending, the next frame is accepted.
RetryRevives ==
    (retries > 0 /\ Active /\ IsCurrent(gen) /\ row[gen] = "streaming"
        /\ failures = <<>> /\ sup.pc = "idle" /\ snd[gen] = "wait")
        => Follows

\* When the transcription is given up, what follows the last final has been
\* noted as a gap.
GapFromLastFinal ==
    (running /\ unavailable /\ ~stopping /\ sup.pc = "idle" /\ current = 0 /\ finals = <<>>)
        => \A i \in lastFinal .. recorded - 1 :
                Covered(i) \/ (gapStart # NoSample /\ gapStart =< i)

\* Stop drains the finals: a session that ended in order loses none of them.
StopDrainsFinals ==
    (cancelled /\ ~tailFailure)
        => \A g \in Gens : row[g] = "stopped" => rowFinal[g] = told[g]

\* What cannot be sent again is a gap, at the latest after Stop.
UnsentIsGap ==
    cancelled => \A i \in 0 .. recorded - 1 : Covered(i) \/ \E g \in Gens : i \in Sent(g)

\* A final that was accepted is persisted when nothing fails.
AcceptedIsPersisted ==
    [][(finals # <<>> /\ finals' = Tail(finals) /\ faults' = 0)
          => <<Head(finals).gen, Head(finals).from, Head(finals).to>> \in utterances']_vars

\* A conflicting final becomes a gap of its own and the session goes on.
ConflictContinues ==
    [][(finals # <<>> /\ finals' = Tail(finals) /\ Head(finals).kind = "conflict")
          => failures' = failures /\ unavailable' = unavailable]_vars

\* The first result of a new connection clears the count of failures.
ResultClearsCount ==
    (running /\ current # 0 /\ \E u \in utterances : u[1] = current) => count = 0

\* The recovery gap begins at the last final.
RecoveryFromLastFinal ==
    boot = "over" =>
        \A i \in 0 .. recorded - 1 :
            Covered(i) \/ \E u \in utterances : i < u[3]

\* Stop is done with the sender of its session in the end.
StopLeavesSender == (stopPc = "sender") ~> (stopPc # "sender" \/ ~running)

\* Waiting for the last answer is bounded.
StopIsBounded == (stopPc = "answer") ~> (stopPc # "answer" \/ ~running)

\* A Stop that failed can be repeated.
StopRepeats == (stopPc = "again") ~> (stopPc # "again" \/ ~running)
=============================================================================
