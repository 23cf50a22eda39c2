------------------------- MODULE TranscriptInvariant -------------------------
(***************************************************************************)
(* The inductive invariant of RealtimeTranscript: why the properties that  *)
(* its runs check hold in every reachable state.                           *)
(***************************************************************************)
EXTENDS RealtimeTranscript

\* The results on their way: read from the wire, with the reader, or queued
\* for the final processor.
Pending ==
    {finals[i] : i \in DOMAIN finals}
        \cup {got[g] : g \in {h \in Gens : rd[h] = "submit"}}
        \cup UNION {{events[g][i] : i \in DOMAIN events[g]} : g \in Gens}

Span(e) == <<e.gen, e.from, e.to>>

\* The ranges that have a result, in the database or on its way there.
Results == utterances \cup {Span(e) : e \in {p \in Pending : p.kind = "final"}}

\* Nobody knows of a packet that the queue has not handed out.
QueueFits ==
    /\ tail =< recorded
    /\ lastSent =< head /\ sup.resume =< head
    /\ \A g \in Gens : sent[g] =< head
    /\ \A c \in Connectors : conn[c].start =< head
    /\ \A i \in DOMAIN failures : failures[i].resume =< head

\* A session does not exist before its generation.
UnbornIdle ==
    /\ \A g \in Gens : g > gen =>
          /\ link[g] = "none" /\ snd[g] = "none" /\ rd[g] = "none" /\ row[g] = "none"
          /\ start[g] = 0 /\ sent[g] = 0 /\ told[g] = 0 /\ rowSent[g] = 0 /\ rowFinal[g] = 0
    /\ \A c \in Connectors :
          /\ conn[c].gen =< gen
          /\ conn[c].pc \in {"dial", "adopt", "mark", "close"} => conn[c].gen \in Gens
    /\ sup.gen =< gen /\ (sup.pc \in {"backoff", "connect"} => sup.attempt < Budget)
    /\ stopPc \in {"sender", "remote", "answer"} => stopOf \in Gens /\ stopOf =< gen

\* A session that dials, streams or is being given up has its row.
HasRow ==
    /\ \A c \in Connectors :
          conn[c].pc \in {"dial", "adopt", "mark", "close"} => row[conn[c].gen] # "none"
    /\ current # 0 => row[current] # "none"
    /\ (sup.pc = "close" /\ sup.gen # 0) => row[sup.gen] # "none"

\* The results of a session lie within what it was sent, its row behind them.
WireFits ==
    \A g \in Gens :
        /\ start[g] =< told[g] /\ told[g] =< sent[g]
        /\ rowFinal[g] =< rowSent[g] /\ rowSent[g] =< sent[g]
        /\ row[g] # "none" => start[g] =< rowFinal[g]

ResultsFit ==
    /\ \A e \in Pending :
          /\ e.gen =< gen
          /\ e.kind # "failed" =>
                /\ start[e.gen] =< e.from /\ e.from < e.to /\ e.to =< told[e.gen]
                /\ e.to =< e.last /\ e.last =< sent[e.gen]
    /\ \A u \in utterances :
          /\ u[1] =< gen /\ start[u[1]] =< u[2] /\ u[2] < u[3]
          /\ u[3] =< told[u[1]] /\ u[3] =< rowFinal[u[1]]

\* Two results never meet, wherever they are.
ResultsApart == \A u, v \in Results : u # v => u[3] =< v[2] \/ v[3] =< u[2]

\* A packet that a sender holds was taken by nobody else, and nobody sent it.
HeldOnce ==
    \A g \in Gens : snd[g] = "write" =>
        /\ frame[g] \in Nat /\ frame[g] < head
        /\ \A h \in Gens \ {g} :
              /\ ~(start[h] =< frame[g] /\ frame[g] < sent[h])
              /\ snd[h] = "write" => frame[h] # frame[g]

\* What holds however connections, failures and retries interleave.
WireInv ==
    /\ TypeOK /\ QueueFits /\ UnbornIdle /\ HasRow /\ WireFits /\ ResultsFit
    /\ ResultsApart /\ HeldOnce /\ SentOnce

-----------------------------------------------------------------------------
\* As long as there is one generation only and the queue took every frame
\* since it took the first.
First == 1 \in Gens /\ gen =< 1 /\ Follows

Setup == conn["initial"].pc # "idle"
Adopted == conn["initial"].pc \in {"mark", "close"}

\* While the first connection is being set up nothing else happens: nobody
\* takes packets, and nobody reports a failure.
NothingElse ==
    /\ tail = recorded /\ head = 0 /\ snd[1] = "none" /\ rd[1] = "none"
    /\ failures = <<>> /\ finals = <<>> /\ ~unavailable /\ sup.pc = "idle"
    /\ conn["retry"].pc = "idle" /\ conn["supervisor"].pc = "idle"
    /\ current = (IF Adopted THEN 1 ELSE 0)
    /\ Adopted => stopPc \in {"none", "sender"}
FirstSetup == (First /\ Setup) => NothingElse

\* No other connection is opened, and the session is sent all of the audio.
Alone ==
    /\ conn["initial"].pc = "create" <=> gen = 0
    /\ \A c \in Connectors \ {"initial"} : conn[c].pc \in {"idle", "create"}
    /\ start[1] = 0 /\ lastSent =< sent[1] /\ lastFinal =< sent[1] /\ gapStart =< sent[1]
    /\ sup.from =< sent[1]
FirstAlone == conn["initial"].start = 0 /\ (First => Alone)

\* No frame was skipped, and what was taken and not sent is with the sender.
Pipeline ==
    /\ snd[1] \in {"none", "take", "wait", "advance"} => sent[1] = head
    /\ snd[1] = "write" => frame[1] = sent[1] /\ head = sent[1] + 1
    /\ snd[1] = "done" => link[1] # "open" \/ (stopping /\ sent[1] = tail)

\* While the first session is the current one the queue is as it should be.
Streaming ==
    /\ tail = recorded /\ Pipeline /\ sup.pc = "idle"
    /\ (tail = 0 /\ rd[1] # "done") => failures = <<>>
    /\ tail = 0 => ~unavailable
    /\ stopPc = "none" \/ stopOf = 1

\* What Stop knows at each of its steps.
Stopping ==
    /\ stopPc = "sender" => current = 1
    /\ (stopPc \in {"remote", "answer"} /\ ~tailFailure) =>
          snd[1] = "done" /\ stopOf = 1 /\ (stopPc = "answer" \/ current = 1)
    /\ (stopPc \in {"answer", "drain", "finals", "gap"} /\ ~tailFailure) =>
          tail =< sent[1]
    /\ stopPc = "gap" => (tailFailure /\ lastFinal < recorded => gapStart # NoSample)
    /\ (stopPc # "none" /\ stopOf = 0) => tailFailure

\* Nothing is missing once Stop has written the last gap.
AllCovered ==
    (stopPc \in {"finish", "done"} /\ tail = recorded) =>
        \A i \in 0 .. recorded - 1 : i < sent[1] \/ Covered(i)

FirstStreams ==
    /\ cancelled => current = 0
    /\ First => (current = 1 => Streaming) /\ Stopping /\ AllCovered

\* Nothing but results goes to the final processor.
OnlyResults ==
    /\ \A i \in DOMAIN finals : finals[i].kind # "failed"
    /\ \A g \in Gens : rd[g] = "submit" => got[g].kind # "failed"

FirstInv == OnlyResults /\ FirstSetup /\ FirstAlone /\ FirstStreams

-----------------------------------------------------------------------------
\* The supervisor waits for its connector, and Retry was not called.
Connecting ==
    /\ conn["retry"].pc = "idle" /\ conn["initial"].count = 0
    /\ sup.pc = "connect" <=> conn["supervisor"].pc # "idle"

\* Until the first connection is open nobody asks for another one.
FirstConnecting == conn["initial"].pc \in {"create", "dial", "adopt"}
FirstConnects ==
    FirstConnecting =>
        /\ gen =< 1 /\ (conn["initial"].pc = "create" => gen = 0)
        /\ sup.pc \in {"idle", "close"} /\ (sup.pc = "close" => ~sup.retry)
        /\ \A i \in DOMAIN failures : ~failures[i].retry
        /\ \A g \in Gens : snd[g] = "none" /\ rd[g] = "none"
        /\ finals = <<>>

\* Every connection but the first one took one attempt.
AttemptsSpent ==
    /\ gen =< Budget + 1
    /\ sup.pc = "idle" => unavailable \/ cancelled \/ gen =< count + 1
    /\ sup.pc \in {"close", "backoff"} => gen =< sup.attempt + 1
    /\ sup.pc = "connect" =>
          /\ conn["supervisor"].count = sup.attempt + 1
          /\ gen =< sup.attempt + 2
          /\ conn["supervisor"].pc = "create" => gen =< sup.attempt + 1
          /\ conn["supervisor"].pc \in {"mark", "close"} => count = sup.attempt + 1

BudgetFits == retries = 0 => Connecting /\ FirstConnects /\ AttemptsSpent
=============================================================================
