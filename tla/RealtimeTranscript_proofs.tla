--------------------- MODULE RealtimeTranscript_proofs ---------------------
(***************************************************************************)
(* Proofs about RealtimeTranscript, for every capacity of its queues, any  *)
(* number of sessions, faults, crashes and retries.  Lemmas say which      *)
(* actions touch what, then each part of the invariant is kept by them.    *)
(***************************************************************************)
EXTENDS TranscriptInvariant, WellFoundedInduction, TLAPS

-----------------------------------------------------------------------------
(* Which actions touch what.                                               *)

(* The queue. *)
LEMMA QueueAside ==
  ASSUME Next
  PROVE  \/ UNCHANGED <<recorded, head, tail>>
         \/ Frame
         \/ \E g \in Gens : Take(g)
<1> USE DEF queue
<1>1. CASE Frame \/ StopCall \/ StopAgain \/ Retry \/ Crash
  BY <1>1 DEF StopCall, StopAgain, Retry, Crash
<1>2. ASSUME NEW c \in Connectors,
             Connect(c)
      PROVE  UNCHANGED <<recorded, head, tail>>
  BY <1>2 DEF Connect, ConnectCreate, ConnectDial, ConnectAdopt, ConnectMark,
     ConnectCloseGap, ConnectFails
<1>3. CASE Supervisor
  BY <1>3 DEF Supervisor, Supervise, CloseFailed, Backoff, NextAttempt
<1>4. ASSUME NEW g \in Gens,
             Sender(g) \/ Provider(g) \/ Reader(g)
      PROVE  UNCHANGED <<recorded, head, tail>> \/ Take(g)
  BY <1>4 DEF Sender, Provider, Reader, Woken, Write, Advance, ProviderFinal,
     ProviderConflict, ProviderBreaks, ProviderEnds, ReadStarted, Read, ReadClosed,
     Submit
<1>5. CASE Persist \/ PersistFails \/ Stopper \/ Recovery
  BY <1>5 DEF Stopper, Recovery, Persist, PersistFails, StopSender, StopRemote,
     StopAnswered, StopDrain, StopFinals, StopGap, StopFinish, RecoverSessions,
     RecoverGap
<1> QED
  BY <1>1, <1>2, <1>3, <1>4, <1>5 DEF Next

(* The token of the queue. *)
LEMMA WakeAside ==
  ASSUME Next
  PROVE  \/ UNCHANGED wake
         \/ Frame \/ StopCall
         \/ \E g \in Gens : Take(g) \/ Woken(g)
<1> USE DEF queue
<1>1. CASE Frame \/ StopCall \/ StopAgain \/ Retry \/ Crash
  BY <1>1 DEF StopAgain, Retry, Crash
<1>2. ASSUME NEW c \in Connectors,
             Connect(c)
      PROVE  UNCHANGED wake
  BY <1>2 DEF Connect, ConnectCreate, ConnectDial, ConnectAdopt, ConnectMark,
     ConnectCloseGap, ConnectFails
<1>3. CASE Supervisor
  BY <1>3 DEF Supervisor, Supervise, CloseFailed, Backoff, NextAttempt
<1>4. ASSUME NEW g \in Gens,
             Sender(g) \/ Provider(g) \/ Reader(g)
      PROVE  UNCHANGED wake \/ Take(g) \/ Woken(g)
  BY <1>4 DEF Sender, Provider, Reader, Write, Advance, ProviderFinal, ProviderConflict,
     ProviderBreaks, ProviderEnds, ReadStarted, Read, ReadClosed, Submit
<1>5. CASE Persist \/ PersistFails \/ Stopper \/ Recovery
  BY <1>5 DEF Stopper, Recovery, Persist, PersistFails, StopSender, StopRemote,
     StopAnswered, StopDrain, StopFinals, StopGap, StopFinish, RecoverSessions,
     RecoverGap
<1> QED
  BY <1>1, <1>2, <1>3, <1>4, <1>5 DEF Next

(* The generation. *)
LEMMA GenAside ==
  ASSUME Next
  PROVE  \/ UNCHANGED gen
         \/ \E c \in Connectors : ConnectCreate(c)
<1> USE DEF coord
<1>1. CASE Frame \/ StopCall \/ StopAgain \/ Retry \/ Crash
  BY <1>1 DEF Frame, StopCall, StopAgain, Retry, Crash
<1>2. ASSUME NEW c \in Connectors,
             Connect(c)
      PROVE  UNCHANGED gen \/ ConnectCreate(c)
  BY <1>2 DEF Connect, ConnectDial, ConnectAdopt, ConnectMark, ConnectCloseGap,
     ConnectFails
<1>3. CASE Supervisor
  BY <1>3 DEF Supervisor, Supervise, CloseFailed, Backoff, NextAttempt
<1>4. ASSUME NEW g \in Gens,
             Sender(g) \/ Provider(g) \/ Reader(g)
      PROVE  UNCHANGED gen
  BY <1>4 DEF Sender, Provider, Reader, Take, Woken, Write, Advance, ProviderFinal,
     ProviderConflict, ProviderBreaks, ProviderEnds, ReadStarted, Read, ReadClosed,
     Submit
<1>5. CASE Persist \/ PersistFails \/ Stopper \/ Recovery
  BY <1>5 DEF Stopper, Recovery, Persist, PersistFails, StopSender, StopRemote,
     StopAnswered, StopDrain, StopFinals, StopGap, StopFinish, RecoverSessions,
     RecoverGap
<1> QED
  BY <1>1, <1>2, <1>3, <1>4, <1>5 DEF Next

(* The session in force. *)
LEMMA CurrentAside ==
  ASSUME Next
  PROVE  \/ UNCHANGED current
         \/ \E c \in Connectors : ConnectAdopt(c)
         \/ Supervise
         \/ StopFinish
<1> USE DEF coord
<1>1. CASE Frame \/ StopCall \/ StopAgain \/ Retry \/ Crash
  BY <1>1 DEF Frame, StopCall, StopAgain, Retry, Crash
<1>2. ASSUME NEW c \in Connectors,
             Connect(c)
      PROVE  UNCHANGED current \/ ConnectAdopt(c)
  BY <1>2 DEF Connect, ConnectCreate, ConnectDial, ConnectMark, ConnectCloseGap,
     ConnectFails
<1>3. CASE Supervisor
  BY <1>3 DEF Supervisor, CloseFailed, Backoff, NextAttempt
<1>4. ASSUME NEW g \in Gens,
             Sender(g) \/ Provider(g) \/ Reader(g)
      PROVE  UNCHANGED current
  BY <1>4 DEF Sender, Provider, Reader, Take, Woken, Write, Advance, ProviderFinal,
     ProviderConflict, ProviderBreaks, ProviderEnds, ReadStarted, Read, ReadClosed,
     Submit
<1>5. CASE Persist \/ PersistFails \/ Stopper \/ Recovery
  BY <1>5 DEF Stopper, Recovery, Persist, PersistFails, StopSender, StopRemote,
     StopAnswered, StopDrain, StopFinals, StopGap, RecoverSessions, RecoverGap
<1> QED
  BY <1>1, <1>2, <1>3, <1>4, <1>5 DEF Next

(* The attempts that the last connection took. *)
LEMMA CountAside ==
  ASSUME Next
  PROVE  \/ UNCHANGED count
         \/ Retry
         \/ \E c \in Connectors : ConnectAdopt(c)
<1> USE DEF coord
<1>1. CASE Frame \/ StopCall \/ StopAgain \/ Retry \/ Crash
  BY <1>1 DEF Frame, StopCall, StopAgain, Crash
<1>2. ASSUME NEW c \in Connectors,
             Connect(c)
      PROVE  UNCHANGED count \/ ConnectAdopt(c)
  BY <1>2 DEF Connect, ConnectCreate, ConnectDial, ConnectMark, ConnectCloseGap,
     ConnectFails
<1>3. CASE Supervisor
  BY <1>3 DEF Supervisor, Supervise, CloseFailed, Backoff, NextAttempt
<1>4. ASSUME NEW g \in Gens,
             Sender(g) \/ Provider(g) \/ Reader(g)
      PROVE  UNCHANGED count
  BY <1>4 DEF Sender, Provider, Reader, Take, Woken, Write, Advance, ProviderFinal,
     ProviderConflict, ProviderBreaks, ProviderEnds, ReadStarted, Read, ReadClosed,
     Submit
<1>5. CASE Persist \/ PersistFails \/ Stopper \/ Recovery
  BY <1>5 DEF Stopper, Recovery, Persist, PersistFails, StopSender, StopRemote,
     StopAnswered, StopDrain, StopFinals, StopGap, StopFinish, RecoverSessions,
     RecoverGap
<1> QED
  BY <1>1, <1>2, <1>3, <1>4, <1>5 DEF Next

(* How far sending and results have come. *)
LEMMA ProgressAside ==
  ASSUME Next
  PROVE  \/ UNCHANGED <<lastSent, lastFinal>>
         \/ \E g \in Gens : Advance(g)
         \/ Persist \/ StopAnswered
<1> USE DEF coord
<1>1. CASE Frame \/ StopCall \/ StopAgain \/ Retry \/ Crash
  BY <1>1 DEF Frame, StopCall, StopAgain, Retry, Crash
<1>2. ASSUME NEW c \in Connectors,
             Connect(c)
      PROVE  UNCHANGED <<lastSent, lastFinal>>
  BY <1>2 DEF Connect, ConnectCreate, ConnectDial, ConnectAdopt, ConnectMark,
     ConnectCloseGap, ConnectFails
<1>3. CASE Supervisor
  BY <1>3 DEF Supervisor, Supervise, CloseFailed, Backoff, NextAttempt
<1>4. ASSUME NEW g \in Gens,
             Sender(g) \/ Provider(g) \/ Reader(g)
      PROVE  UNCHANGED <<lastSent, lastFinal>> \/ Advance(g)
  BY <1>4 DEF Sender, Provider, Reader, Take, Woken, Write, ProviderFinal,
     ProviderConflict, ProviderBreaks, ProviderEnds, ReadStarted, Read, ReadClosed,
     Submit
<1>5. CASE Persist \/ PersistFails \/ Stopper \/ Recovery
  BY <1>5 DEF Stopper, Recovery, PersistFails, StopSender, StopRemote, StopDrain,
     StopFinals, StopGap, StopFinish, RecoverSessions, RecoverGap
<1> QED
  BY <1>1, <1>2, <1>3, <1>4, <1>5 DEF Next

(* Gaps, open and written. *)
LEMMA GapAside ==
  ASSUME Next
  PROVE  \/ UNCHANGED <<gapStart, gaps>>
         \/ \E c \in Connectors : ConnectCloseGap(c) \/ ConnectFails(c)
         \/ CloseFailed
         \/ StopFinals \/ StopGap \/ RecoverGap
<1> USE DEF coord, database
<1>1. CASE Frame \/ StopCall \/ StopAgain \/ Retry \/ Crash
  BY <1>1 DEF Frame, StopCall, StopAgain, Retry, Crash
<1>2. ASSUME NEW c \in Connectors,
             Connect(c)
      PROVE  UNCHANGED <<gapStart, gaps>> \/ ConnectCloseGap(c) \/ ConnectFails(c)
  BY <1>2 DEF Connect, ConnectCreate, ConnectDial, ConnectAdopt, ConnectMark
<1>3. CASE Supervisor
  BY <1>3 DEF Supervisor, Supervise, Backoff, NextAttempt
<1>4. ASSUME NEW g \in Gens,
             Sender(g) \/ Provider(g) \/ Reader(g)
      PROVE  UNCHANGED <<gapStart, gaps>>
  BY <1>4 DEF Sender, Provider, Reader, Take, Woken, Write, Advance, ProviderFinal,
     ProviderConflict, ProviderBreaks, ProviderEnds, ReadStarted, Read, ReadClosed,
     Submit
<1>5. CASE Persist \/ PersistFails \/ Stopper \/ Recovery
  BY <1>5 DEF Stopper, Recovery, Persist, PersistFails, StopSender, StopRemote,
     StopAnswered, StopDrain, StopFinish, RecoverSessions
<1> QED
  BY <1>1, <1>2, <1>3, <1>4, <1>5 DEF Next

(* Failures and what they led to. *)
LEMMA FailuresAside ==
  ASSUME Next
  PROVE  \/ UNCHANGED <<failures, unavailable>>
         \/ Frame \/ Retry
         \/ \E c \in Connectors : ConnectFails(c)
         \/ Supervise \/ CloseFailed \/ NextAttempt
         \/ \E g \in Gens : Write(g) \/ Read(g) \/ ReadClosed(g) \/ Submit(g)
         \/ PersistFails
<1> USE DEF coord
<1>1. CASE Frame \/ StopCall \/ StopAgain \/ Retry \/ Crash
  BY <1>1 DEF StopCall, StopAgain, Crash
<1>2. ASSUME NEW c \in Connectors,
             Connect(c)
      PROVE  UNCHANGED <<failures, unavailable>> \/ ConnectFails(c)
  BY <1>2 DEF Connect, ConnectCreate, ConnectDial, ConnectAdopt, ConnectMark,
     ConnectCloseGap
<1>3. CASE Supervisor
  BY <1>3 DEF Supervisor, Backoff
<1>4. ASSUME NEW g \in Gens,
             Sender(g) \/ Provider(g) \/ Reader(g)
      PROVE  \/ UNCHANGED <<failures, unavailable>>
             \/ Write(g) \/ Read(g) \/ ReadClosed(g) \/ Submit(g)
  BY <1>4 DEF Sender, Provider, Reader, Take, Woken, Advance, ProviderFinal,
     ProviderConflict, ProviderBreaks, ProviderEnds, ReadStarted
<1>5. CASE Persist \/ PersistFails \/ Stopper \/ Recovery
  BY <1>5 DEF Stopper, Recovery, Persist, StopSender, StopRemote, StopAnswered,
     StopDrain, StopFinals, StopGap, StopFinish, RecoverSessions, RecoverGap
<1> QED
  BY <1>1, <1>2, <1>3, <1>4, <1>5 DEF Next

(* The connectors and the supervisor. *)
LEMMA ConnAside ==
  ASSUME Next
  PROVE  \/ UNCHANGED <<conn, sup>>
         \/ Retry
         \/ \E c \in Connectors :
              \/ ConnectCreate(c) \/ ConnectDial(c) \/ ConnectAdopt(c)
              \/ ConnectMark(c) \/ ConnectCloseGap(c) \/ ConnectFails(c)
         \/ Supervise \/ CloseFailed \/ Backoff \/ NextAttempt
<1>1. CASE Frame \/ StopCall \/ StopAgain \/ Retry \/ Crash
  BY <1>1 DEF Frame, StopCall, StopAgain, Crash
<1>2. ASSUME NEW c \in Connectors,
             Connect(c)
      PROVE  \/ UNCHANGED <<conn, sup>>
             \/ ConnectCreate(c) \/ ConnectDial(c) \/ ConnectAdopt(c)
             \/ ConnectMark(c) \/ ConnectCloseGap(c) \/ ConnectFails(c)
  BY <1>2 DEF Connect
<1>3. CASE Supervisor
  BY <1>3 DEF Supervisor
<1>4. ASSUME NEW g \in Gens,
             Sender(g) \/ Provider(g) \/ Reader(g)
      PROVE  UNCHANGED <<conn, sup>>
  BY <1>4 DEF Sender, Provider, Reader, Take, Woken, Write, Advance, ProviderFinal,
     ProviderConflict, ProviderBreaks, ProviderEnds, ReadStarted, Read, ReadClosed,
     Submit
<1>5. CASE Persist \/ PersistFails \/ Stopper \/ Recovery
  BY <1>5 DEF Stopper, Recovery, Persist, PersistFails, StopSender, StopRemote,
     StopAnswered, StopDrain, StopFinals, StopGap, StopFinish, RecoverSessions,
     RecoverGap
<1> QED
  BY <1>1, <1>2, <1>3, <1>4, <1>5 DEF Next

(* The connections. *)
LEMMA LinkAside ==
  ASSUME Next
  PROVE  \/ UNCHANGED link
         \/ \E c \in Connectors : ConnectDial(c) \/ ConnectAdopt(c) \/ ConnectCloseGap(c)
         \/ CloseFailed
         \/ \E g \in Gens :
              \/ Write(g) \/ ProviderFinal(g) \/ ProviderConflict(g)
              \/ ProviderBreaks(g) \/ ProviderEnds(g)
         \/ StopRemote
<1> USE DEF wire
<1>1. CASE Frame \/ StopCall \/ StopAgain \/ Retry \/ Crash
  BY <1>1 DEF Frame, StopCall, StopAgain, Retry, Crash
<1>2. ASSUME NEW c \in Connectors,
             Connect(c)
      PROVE  \/ UNCHANGED link
             \/ ConnectDial(c) \/ ConnectAdopt(c) \/ ConnectCloseGap(c)
  BY <1>2 DEF Connect, ConnectCreate, ConnectMark, ConnectFails
<1>3. CASE Supervisor
  BY <1>3 DEF Supervisor, Supervise, Backoff, NextAttempt
<1>4. ASSUME NEW g \in Gens,
             Sender(g) \/ Provider(g) \/ Reader(g)
      PROVE  \/ UNCHANGED link
             \/ Write(g) \/ ProviderFinal(g) \/ ProviderConflict(g)
             \/ ProviderBreaks(g) \/ ProviderEnds(g)
  BY <1>4 DEF Sender, Provider, Reader, Take, Woken, Advance, ReadStarted, Read,
     ReadClosed, Submit
<1>5. CASE Persist \/ PersistFails \/ Stopper \/ Recovery
  BY <1>5 DEF Stopper, Recovery, Persist, PersistFails, StopSender, StopAnswered,
     StopDrain, StopFinals, StopGap, StopFinish, RecoverSessions, RecoverGap
<1> QED
  BY <1>1, <1>2, <1>3, <1>4, <1>5 DEF Next

(* What was sent and answered. *)
LEMMA WireAside ==
  ASSUME Next
  PROVE  \/ UNCHANGED <<start, sent, told>>
         \/ \E c \in Connectors : ConnectCreate(c)
         \/ \E g \in Gens : Write(g) \/ ProviderFinal(g)
<1> USE DEF wire
<1>1. CASE Frame \/ StopCall \/ StopAgain \/ Retry \/ Crash
  BY <1>1 DEF Frame, StopCall, StopAgain, Retry, Crash
<1>2. ASSUME NEW c \in Connectors,
             Connect(c)
      PROVE  UNCHANGED <<start, sent, told>> \/ ConnectCreate(c)
  BY <1>2 DEF Connect, ConnectDial, ConnectAdopt, ConnectMark, ConnectCloseGap,
     ConnectFails
<1>3. CASE Supervisor
  BY <1>3 DEF Supervisor, Supervise, CloseFailed, Backoff, NextAttempt
<1>4. ASSUME NEW g \in Gens,
             Sender(g) \/ Provider(g) \/ Reader(g)
      PROVE  UNCHANGED <<start, sent, told>> \/ Write(g) \/ ProviderFinal(g)
  BY <1>4 DEF Sender, Provider, Reader, Take, Woken, Advance, ProviderConflict,
     ProviderBreaks, ProviderEnds, ReadStarted, Read, ReadClosed, Submit
<1>5. CASE Persist \/ PersistFails \/ Stopper \/ Recovery
  BY <1>5 DEF Stopper, Recovery, Persist, PersistFails, StopSender, StopRemote,
     StopAnswered, StopDrain, StopFinals, StopGap, StopFinish, RecoverSessions,
     RecoverGap
<1> QED
  BY <1>1, <1>2, <1>3, <1>4, <1>5 DEF Next

(* The senders. *)
LEMMA SenderAside ==
  ASSUME Next
  PROVE  \/ UNCHANGED <<snd, frame>>
         \/ \E c \in Connectors : ConnectCloseGap(c)
         \/ \E g \in Gens : Take(g) \/ Woken(g) \/ Write(g) \/ Advance(g)
<1> USE DEF sender
<1>1. CASE Frame \/ StopCall \/ StopAgain \/ Retry \/ Crash
  BY <1>1 DEF Frame, StopCall, StopAgain, Retry, Crash
<1>2. ASSUME NEW c \in Connectors,
             Connect(c)
      PROVE  UNCHANGED <<snd, frame>> \/ ConnectCloseGap(c)
  BY <1>2 DEF Connect, ConnectCreate, ConnectDial, ConnectAdopt, ConnectMark,
     ConnectFails
<1>3. CASE Supervisor
  BY <1>3 DEF Supervisor, Supervise, CloseFailed, Backoff, NextAttempt
<1>4. ASSUME NEW g \in Gens,
             Sender(g) \/ Provider(g) \/ Reader(g)
      PROVE  \/ UNCHANGED <<snd, frame>>
             \/ Take(g) \/ Woken(g) \/ Write(g) \/ Advance(g)
  BY <1>4 DEF Sender, Provider, Reader, ProviderFinal, ProviderConflict, ProviderBreaks,
     ProviderEnds, ReadStarted, Read, ReadClosed, Submit
<1>5. CASE Persist \/ PersistFails \/ Stopper \/ Recovery
  BY <1>5 DEF Stopper, Recovery, Persist, PersistFails, StopSender, StopRemote,
     StopAnswered, StopDrain, StopFinals, StopGap, StopFinish, RecoverSessions,
     RecoverGap
<1> QED
  BY <1>1, <1>2, <1>3, <1>4, <1>5 DEF Next

(* The readers. *)
LEMMA ReaderAside ==
  ASSUME Next
  PROVE  \/ UNCHANGED <<events, rd, got>>
         \/ \E c \in Connectors : ConnectCloseGap(c)
         \/ \E g \in Gens :
              \/ ProviderFinal(g) \/ ProviderConflict(g)
              \/ ProviderBreaks(g) \/ ReadStarted(g) \/ Read(g)
              \/ ReadClosed(g) \/ Submit(g)
<1> USE DEF wire, reader
<1>1. CASE Frame \/ StopCall \/ StopAgain \/ Retry \/ Crash
  BY <1>1 DEF Frame, StopCall, StopAgain, Retry, Crash
<1>2. ASSUME NEW c \in Connectors,
             Connect(c)
      PROVE  UNCHANGED <<events, rd, got>> \/ ConnectCloseGap(c)
  BY <1>2 DEF Connect, ConnectCreate, ConnectDial, ConnectAdopt, ConnectMark,
     ConnectFails
<1>3. CASE Supervisor
  BY <1>3 DEF Supervisor, Supervise, CloseFailed, Backoff, NextAttempt
<1>4. ASSUME NEW g \in Gens,
             Sender(g) \/ Provider(g) \/ Reader(g)
      PROVE  \/ UNCHANGED <<events, rd, got>>
             \/ ProviderFinal(g) \/ ProviderConflict(g) \/ ProviderBreaks(g)
             \/ ReadStarted(g) \/ Read(g) \/ ReadClosed(g) \/ Submit(g)
  BY <1>4 DEF Sender, Provider, Reader, Take, Woken, Write, Advance, ProviderEnds
<1>5. CASE Persist \/ PersistFails \/ Stopper \/ Recovery
  BY <1>5 DEF Stopper, Recovery, Persist, PersistFails, StopSender, StopRemote,
     StopAnswered, StopDrain, StopFinals, StopGap, StopFinish, RecoverSessions,
     RecoverGap
<1> QED
  BY <1>1, <1>2, <1>3, <1>4, <1>5 DEF Next

(* The queue of finals. *)
LEMMA FinalsAside ==
  ASSUME Next
  PROVE  \/ UNCHANGED <<finals, finClosed>>
         \/ \E g \in Gens : Submit(g)
         \/ Persist \/ PersistFails \/ StopDrain
<1> USE DEF final
<1>1. CASE Frame \/ StopCall \/ StopAgain \/ Retry \/ Crash
  BY <1>1 DEF Frame, StopCall, StopAgain, Retry, Crash
<1>2. ASSUME NEW c \in Connectors,
             Connect(c)
      PROVE  UNCHANGED <<finals, finClosed>>
  BY <1>2 DEF Connect, ConnectCreate, ConnectDial, ConnectAdopt, ConnectMark,
     ConnectCloseGap, ConnectFails
<1>3. CASE Supervisor
  BY <1>3 DEF Supervisor, Supervise, CloseFailed, Backoff, NextAttempt
<1>4. ASSUME NEW g \in Gens,
             Sender(g) \/ Provider(g) \/ Reader(g)
      PROVE  UNCHANGED <<finals, finClosed>> \/ Submit(g)
  BY <1>4 DEF Sender, Provider, Reader, Take, Woken, Write, Advance, ProviderFinal,
     ProviderConflict, ProviderBreaks, ProviderEnds, ReadStarted, Read, ReadClosed
<1>5. CASE Persist \/ PersistFails \/ Stopper \/ Recovery
  BY <1>5 DEF Stopper, Recovery, StopSender, StopRemote, StopAnswered, StopFinals,
     StopGap, StopFinish, RecoverSessions, RecoverGap
<1> QED
  BY <1>1, <1>2, <1>3, <1>4, <1>5 DEF Next

(* Stop. *)
LEMMA StopAside ==
  ASSUME Next
  PROVE  \/ UNCHANGED <<stopPc, stopOf, tailFailure>>
         \/ StopCall \/ StopAgain
         \/ StopSender \/ StopRemote \/ StopAnswered \/ StopDrain
         \/ StopFinals \/ StopGap \/ StopFinish
<1> USE DEF stop
<1>1. CASE Frame \/ StopCall \/ StopAgain \/ Retry \/ Crash
  BY <1>1 DEF Frame, Retry, Crash
<1>2. ASSUME NEW c \in Connectors,
             Connect(c)
      PROVE  UNCHANGED <<stopPc, stopOf, tailFailure>>
  BY <1>2 DEF Connect, ConnectCreate, ConnectDial, ConnectAdopt, ConnectMark,
     ConnectCloseGap, ConnectFails
<1>3. CASE Supervisor
  BY <1>3 DEF Supervisor, Supervise, CloseFailed, Backoff, NextAttempt
<1>4. ASSUME NEW g \in Gens,
             Sender(g) \/ Provider(g) \/ Reader(g)
      PROVE  UNCHANGED <<stopPc, stopOf, tailFailure>>
  BY <1>4 DEF Sender, Provider, Reader, Take, Woken, Write, Advance, ProviderFinal,
     ProviderConflict, ProviderBreaks, ProviderEnds, ReadStarted, Read, ReadClosed,
     Submit
<1>5. CASE Persist \/ PersistFails \/ Stopper \/ Recovery
  BY <1>5 DEF Stopper, Recovery, Persist, PersistFails, RecoverSessions, RecoverGap
<1> QED
  BY <1>1, <1>2, <1>3, <1>4, <1>5 DEF Next

(* The state of a row. *)
LEMMA RowAside ==
  ASSUME Next
  PROVE  \/ UNCHANGED row
         \/ \E c \in Connectors : ConnectCreate(c) \/ ConnectDial(c) \/ ConnectMark(c)
         \/ CloseFailed
         \/ \E g \in Gens : ReadStarted(g)
         \/ StopFinish \/ RecoverSessions
<1> USE DEF database
<1>1. CASE Frame \/ StopCall \/ StopAgain \/ Retry \/ Crash
  BY <1>1 DEF Frame, StopCall, StopAgain, Retry, Crash
<1>2. ASSUME NEW c \in Connectors,
             Connect(c)
      PROVE  UNCHANGED row \/ ConnectCreate(c) \/ ConnectDial(c) \/ ConnectMark(c)
  BY <1>2 DEF Connect, ConnectAdopt, ConnectCloseGap, ConnectFails
<1>3. CASE Supervisor
  BY <1>3 DEF Supervisor, Supervise, Backoff, NextAttempt
<1>4. ASSUME NEW g \in Gens,
             Sender(g) \/ Provider(g) \/ Reader(g)
      PROVE  UNCHANGED row \/ ReadStarted(g)
  BY <1>4 DEF Sender, Provider, Reader, Take, Woken, Write, Advance, ProviderFinal,
     ProviderConflict, ProviderBreaks, ProviderEnds, Read, ReadClosed, Submit
<1>5. CASE Persist \/ PersistFails \/ Stopper \/ Recovery
  BY <1>5 DEF Stopper, Recovery, Persist, PersistFails, StopSender, StopRemote,
     StopAnswered, StopDrain, StopFinals, StopGap, RecoverGap
<1> QED
  BY <1>1, <1>2, <1>3, <1>4, <1>5 DEF Next

(* The progress in a row. *)
LEMMA RowsAside ==
  ASSUME Next
  PROVE  \/ UNCHANGED <<rowSent, rowFinal>>
         \/ \E c \in Connectors : ConnectCreate(c)
         \/ \E g \in Gens : Advance(g)
         \/ Persist \/ StopAnswered
<1> USE DEF database
<1>1. CASE Frame \/ StopCall \/ StopAgain \/ Retry \/ Crash
  BY <1>1 DEF Frame, StopCall, StopAgain, Retry, Crash
<1>2. ASSUME NEW c \in Connectors,
             Connect(c)
      PROVE  UNCHANGED <<rowSent, rowFinal>> \/ ConnectCreate(c)
  BY <1>2 DEF Connect, ConnectDial, ConnectAdopt, ConnectMark, ConnectCloseGap,
     ConnectFails
<1>3. CASE Supervisor
  BY <1>3 DEF Supervisor, Supervise, CloseFailed, Backoff, NextAttempt
<1>4. ASSUME NEW g \in Gens,
             Sender(g) \/ Provider(g) \/ Reader(g)
      PROVE  UNCHANGED <<rowSent, rowFinal>> \/ Advance(g)
  BY <1>4 DEF Sender, Provider, Reader, Take, Woken, Write, ProviderFinal,
     ProviderConflict, ProviderBreaks, ProviderEnds, ReadStarted, Read, ReadClosed,
     Submit
<1>5. CASE Persist \/ PersistFails \/ Stopper \/ Recovery
  BY <1>5 DEF Stopper, Recovery, PersistFails, StopSender, StopRemote, StopDrain,
     StopFinals, StopGap, StopFinish, RecoverSessions, RecoverGap
<1> QED
  BY <1>1, <1>2, <1>3, <1>4, <1>5 DEF Next

(* The results. *)
LEMMA ResultsAside ==
  ASSUME Next
  PROVE  \/ UNCHANGED utterances
         \/ Persist
<1> USE DEF database
<1>1. CASE Frame \/ StopCall \/ StopAgain \/ Retry \/ Crash
  BY <1>1 DEF Frame, StopCall, StopAgain, Retry, Crash
<1>2. ASSUME NEW c \in Connectors,
             Connect(c)
      PROVE  UNCHANGED utterances
  BY <1>2 DEF Connect, ConnectCreate, ConnectDial, ConnectAdopt, ConnectMark,
     ConnectCloseGap, ConnectFails
<1>3. CASE Supervisor
  BY <1>3 DEF Supervisor, Supervise, CloseFailed, Backoff, NextAttempt
<1>4. ASSUME NEW g \in Gens,
             Sender(g) \/ Provider(g) \/ Reader(g)
      PROVE  UNCHANGED utterances
  BY <1>4 DEF Sender, Provider, Reader, Take, Woken, Write, Advance, ProviderFinal,
     ProviderConflict, ProviderBreaks, ProviderEnds, ReadStarted, Read, ReadClosed,
     Submit
<1>5. CASE Persist \/ PersistFails \/ Stopper \/ Recovery
  BY <1>5 DEF Stopper, Recovery, PersistFails, StopSender, StopRemote, StopAnswered,
     StopDrain, StopFinals, StopGap, StopFinish, RecoverSessions, RecoverGap
<1> QED
  BY <1>1, <1>2, <1>3, <1>4, <1>5 DEF Next

(* The state of the meeting. *)
LEMMA AsrAside ==
  ASSUME Next
  PROVE  \/ UNCHANGED asr
         \/ Frame
         \/ \E c \in Connectors :
              \/ ConnectCreate(c) \/ ConnectDial(c) \/ ConnectMark(c)
              \/ ConnectFails(c)
         \/ CloseFailed \/ NextAttempt
         \/ \E g \in Gens :
              \/ Write(g) \/ ReadStarted(g) \/ Read(g) \/ ReadClosed(g)
              \/ Submit(g)
         \/ PersistFails \/ StopFinish \/ RecoverSessions
<1> USE DEF database
<1>1. CASE Frame \/ StopCall \/ StopAgain \/ Retry \/ Crash
  BY <1>1 DEF StopCall, StopAgain, Retry, Crash
<1>2. ASSUME NEW c \in Connectors,
             Connect(c)
      PROVE  \/ UNCHANGED asr
             \/ ConnectCreate(c) \/ ConnectDial(c) \/ ConnectMark(c)
             \/ ConnectFails(c)
  BY <1>2 DEF Connect, ConnectAdopt, ConnectCloseGap
<1>3. CASE Supervisor
  BY <1>3 DEF Supervisor, Supervise, Backoff
<1>4. ASSUME NEW g \in Gens,
             Sender(g) \/ Provider(g) \/ Reader(g)
      PROVE  \/ UNCHANGED asr
             \/ Write(g) \/ ReadStarted(g) \/ Read(g) \/ ReadClosed(g)
             \/ Submit(g)
  BY <1>4 DEF Sender, Provider, Reader, Take, Woken, Advance, ProviderFinal,
     ProviderConflict, ProviderBreaks, ProviderEnds
<1>5. CASE Persist \/ PersistFails \/ Stopper \/ Recovery
  BY <1>5 DEF Stopper, Recovery, Persist, StopSender, StopRemote, StopAnswered,
     StopDrain, StopFinals, StopGap, RecoverGap
<1> QED
  BY <1>1, <1>2, <1>3, <1>4, <1>5 DEF Next

(* Boot and the retries. *)
LEMMA BootAside ==
  ASSUME Next
  PROVE  \/ UNCHANGED <<boot, retries>>
         \/ Retry \/ Crash
         \/ RecoverSessions \/ RecoverGap
<1> USE DEF env
<1>1. CASE Frame \/ StopCall \/ StopAgain \/ Retry \/ Crash
  BY <1>1 DEF Frame, StopCall, StopAgain, Breaks, Fails
<1>2. ASSUME NEW c \in Connectors,
             Connect(c)
      PROVE  UNCHANGED <<boot, retries>>
  BY <1>2 DEF Connect, ConnectCreate, ConnectDial, ConnectAdopt, ConnectMark,
     ConnectCloseGap, ConnectFails, Breaks, Fails
<1>3. CASE Supervisor
  BY <1>3 DEF Supervisor, Supervise, CloseFailed, Backoff, NextAttempt, Breaks, Fails
<1>4. ASSUME NEW g \in Gens,
             Sender(g) \/ Provider(g) \/ Reader(g)
      PROVE  UNCHANGED <<boot, retries>>
  BY <1>4 DEF Sender, Provider, Reader, Take, Woken, Write, Advance, ProviderFinal,
     ProviderConflict, ProviderBreaks, ProviderEnds, ReadStarted, Read, ReadClosed,
     Submit, Breaks, Fails
<1>5. CASE Persist \/ PersistFails \/ Stopper \/ Recovery
  BY <1>5 DEF Stopper, Recovery, Persist, PersistFails, StopSender, StopRemote,
     StopAnswered, StopDrain, StopFinals, StopGap, StopFinish, Breaks, Fails
<1> QED
  BY <1>1, <1>2, <1>3, <1>4, <1>5 DEF Next

-----------------------------------------------------------------------------
(* What the recovery takes for the last result is the largest of them.     *)

LEMMA LeastOf ==
  ASSUME NEW S \in SUBSET Nat, S # {}
  PROVE  \E x \in S : \A y \in S : x =< y
<1>1. \E x \in S : \A y \in S : ~ (<<y, x>> \in OpToRel(<, Nat))
  BY NatLessThanWellFounded, WFMin, Zenon
<1>2. \A x, y \in Nat : x < y => <<x, y>> \in OpToRel(<, Nat)
  BY Zenon DEF OpToRel
<1>3. \E x \in S : \A y \in S : ~ (y < x)
  BY <1>1, <1>2, Zenon
<1> QED
  BY <1>3

LEMMA RecoveredMax ==
  ASSUME NEW u \in Nat, \A g \in Gens : rowFinal[g] \in 0 .. u
  PROVE  RecoveredFrom \in Nat /\ \A g \in Gens : rowFinal[g] =< RecoveredFrom
<1> DEFINE S == {0} \cup {rowFinal[g] : g \in Gens}
           T == {u - y : y \in S}
<1>1. S \in SUBSET (0 .. u)
  OBVIOUS
<1>2. T \in SUBSET Nat /\ T # {}
  BY <1>1
<1>3. PICK t \in T : \A x \in T : t =< x
  BY <1>2, LeastOf
<1>4. PICK s \in S : t = u - s
  OBVIOUS
<1>5. \A y \in S : y =< s
  <2>1. ASSUME NEW y \in S PROVE y =< s
    <3>1. u - y \in T
      OBVIOUS
    <3>2. y \in 0 .. u /\ s \in 0 .. u /\ u - s =< u - y
      BY <1>1, <1>3, <1>4, <3>1
    <3> HIDE DEF S, T
    <3> QED
      BY <3>2
  <2> QED
    BY <2>1
<1>6. \A g \in Gens : rowFinal[g] =< s
  BY <1>5
<1> QED
  <2>1. s \in S /\ S \subseteq Nat
    BY <1>1
  <2>2. RecoveredFrom = CHOOSE m \in S : \A g \in Gens : rowFinal[g] =< m
    BY DEF RecoveredFrom
  <2> HIDE DEF S
  <2>3. RecoveredFrom \in S /\ \A g \in Gens : rowFinal[g] =< RecoveredFrom
    BY <1>6, <2>1, <2>2
  <2> QED
    BY <2>1, <2>3

-----------------------------------------------------------------------------
(* Types.                                                                  *)

LEMMA ReportTyped ==
  ASSUME TypeOK, NEW f \in Failure, Report(f)
  PROVE  /\ failures' \in Seq(Failure) /\ Len(failures') =< FailureSlots
         /\ unavailable' \in BOOLEAN
<1> DEFINE report == IF f.gen = 0 THEN [f EXCEPT !.gen = gen] ELSE f
<1>1. failures \in Seq(Failure) /\ Len(failures) =< FailureSlots /\ FailureSlots \in Nat
  BY CapacityAssumption DEF TypeOK, CoordType, CapacityAssumption
<1>2. report \in Failure
  BY DEF TypeOK, CoordType, Failure
<1>3. failures' \in {failures, Append(failures, report)}
  BY DEF Report
<1>4. failures' # failures => Len(failures) < FailureSlots
  BY DEF Report
<1> HIDE DEF report
<1>5. /\ Append(failures, report) \in Seq(Failure)
      /\ Len(Append(failures, report)) = Len(failures) + 1
  BY <1>1, <1>2
<1>6. Len(failures) \in Nat
  BY <1>1
<1>7. unavailable' \in {unavailable, TRUE} /\ unavailable \in BOOLEAN
  BY DEF Report, TypeOK, CoordType
<1>8. CASE failures' = failures
  BY <1>1, <1>7, <1>8
<1>9. CASE failures' # failures
  <2>1. failures' = Append(failures, report) /\ Len(failures) + 1 =< FailureSlots
    BY <1>1, <1>3, <1>4, <1>6, <1>9
  <2> QED
    BY <1>5, <1>7, <2>1
<1> QED
  BY <1>8, <1>9

LEMMA Reports ==
  ASSUME TypeOK
  PROVE  /\ [gen |-> gen, retry |-> FALSE, resume |-> 0] \in Failure
         /\ \A r \in Nat : [gen |-> 0, retry |-> TRUE, resume |-> r] \in Failure
         /\ \A g \in Gens, r \in Nat, b \in BOOLEAN :
               [gen |-> g, retry |-> b, resume |-> r] \in Failure
BY CapacityAssumption DEF TypeOK, CoordType, Failure, Gens, CapacityAssumption

LEMMA QueueTyped ==
  ASSUME TypeOK, Next
  PROVE  QueueType'
<1> USE DEF QueueType
<1>0. QueueType
  BY DEF TypeOK
<1>1. recorded' \in Nat /\ head' \in Nat /\ tail' \in Nat /\ tail' - head' \in 0 .. QueueSlots
  <2>1. CASE Frame
    BY <1>0, <2>1, CapacityAssumption DEF Frame, HasRoom, Follows, CapacityAssumption
  <2>2. ASSUME NEW g \in Gens, Take(g)
        PROVE  recorded' \in Nat /\ head' \in Nat /\ tail' \in Nat /\ tail' - head' \in 0 .. QueueSlots
    BY <1>0, <2>2, CapacityAssumption DEF Take, CapacityAssumption
  <2> QED
    BY <1>0, <2>1, <2>2, QueueAside
<1>2. wake' \in BOOLEAN
  BY <1>0, WakeAside DEF Frame, StopCall, CloseQueue, Take, Woken
<1> QED
  BY <1>1, <1>2

LEMMA CoordTyped ==
  ASSUME TypeOK, UnbornIdle, Next
  PROVE  CoordType'
<1>0. CoordType /\ ConnectType
  BY DEF TypeOK
<1>1. gen' \in 0 .. MaxSessions /\ gen =< gen' /\ gen' \in Int
  <2>1. \A c \in Connectors : ConnectCreate(c) => gen' = gen + 1 /\ gen < MaxSessions
    BY DEF ConnectCreate
  <2> QED
    BY <1>0, <2>1, GenAside, CapacityAssumption DEF CoordType, CapacityAssumption
<1>2. current' \in 0 .. gen'
  <2>1. UNCHANGED current => current' \in 0 .. gen'
    BY <1>0, <1>1 DEF CoordType
  <2>2. ASSUME NEW c \in Connectors, ConnectAdopt(c) PROVE current' \in 0 .. gen'
    BY <1>0, <1>1, <2>2 DEF CoordType, ConnectAdopt, ConnectType, Connection, UnbornIdle, At, Gens
  <2> QED
    BY <1>0, <1>1, <2>1, <2>2, CurrentAside DEF CoordType, Supervise, StopFinish
<1>3. count' \in 0 .. Budget
  <2>1. \A c \in Connectors : ConnectAdopt(c) => count' \in {count, conn[c].count}
    BY DEF ConnectAdopt
  <2>2. \A c \in Connectors : conn[c].count \in 0 .. Budget
    BY <1>0 DEF ConnectType, Connection
  <2>3. Retry => count' = 0
    BY DEF Retry
  <2> QED
    BY <1>0, <2>1, <2>2, <2>3, CountAside, CapacityAssumption DEF CoordType, CapacityAssumption
<1>4. lastSent' \in Nat /\ lastFinal' \in Nat
  <2>1. ASSUME NEW g \in Gens, Advance(g) PROVE lastSent' \in Nat /\ lastFinal' \in Nat
    BY <1>0, <2>1 DEF CoordType, Advance, Larger, TypeOK, WireType
  <2>2. CASE StopAnswered
    BY <1>0, <2>2 DEF CoordType, StopAnswered, StopAt, Larger, TypeOK, WireType, UnbornIdle
  <2>3. CASE Persist
    <3>1. Head(finals) \in Event
      BY <2>3 DEF Persist, TypeOK, SessionType
    <3> QED
      BY <1>0, <2>3, <3>1 DEF CoordType, Persist, Larger, Event
  <2> QED
    BY <1>0, <2>1, <2>2, <2>3, ProgressAside DEF CoordType
<1>5. gapStart' \in Samples
  <2>1. \A c \in Connectors :
           /\ ConnectCloseGap(c) => gapStart' = NoSample
           /\ ConnectFails(c) => gapStart' \in {gapStart, conn[c].start}
    BY DEF ConnectCloseGap, ConnectFails, OpenGap
  <2>2. /\ CloseFailed => gapStart' \in {gapStart, sup.from}
        /\ StopFinals => gapStart' \in {gapStart, lastFinal}
        /\ StopGap => gapStart' = NoSample
        /\ RecoverGap => gapStart' = gapStart
    BY DEF CloseFailed, StopFinals, StopGap, RecoverGap, OpenGap, coord
  <2>3. sup.from \in Nat /\ \A c \in Connectors : conn[c].start \in Nat
    BY <1>0 DEF ConnectType, Connection, Handling
  <2> QED
    BY <1>0, <2>1, <2>2, <2>3, GapAside DEF CoordType, Samples
<1>6. /\ unavailable' \in BOOLEAN /\ failures' \in Seq(Failure)
      /\ Len(failures') =< FailureSlots
  <2>1. ASSUME NEW f \in Failure, Report(f)
        PROVE  /\ unavailable' \in BOOLEAN /\ failures' \in Seq(Failure)
               /\ Len(failures') =< FailureSlots
    BY <2>1, ReportTyped
  <2> HIDE DEF Report
  <2>2. CASE Frame
    BY <1>0, <2>1, <2>2, Reports DEF CoordType, Frame
  <2>3. ASSUME NEW c \in Connectors, ConnectFails(c)
        PROVE  /\ unavailable' \in BOOLEAN /\ failures' \in Seq(Failure)
               /\ Len(failures') =< FailureSlots
    <3>1. conn[c].start \in Nat
      BY <1>0 DEF ConnectType, Connection
    <3> QED
      BY <2>1, <2>3, <3>1, Reports DEF ConnectFails
  <2>4. ASSUME NEW g \in Gens, Write(g) \/ Read(g) \/ ReadClosed(g) \/ Submit(g)
        PROVE  /\ unavailable' \in BOOLEAN /\ failures' \in Seq(Failure)
               /\ Len(failures') =< FailureSlots
    <3>1. Write(g) => frame[g] + 1 \in Nat \/ UNCHANGED <<failures, unavailable>>
      BY DEF Write, TypeOK, SessionType, Samples, NoSample
    <3> QED
      BY <1>0, <2>1, <2>4, <3>1, Reports DEF CoordType, Write, Read, ReadClosed, Submit
  <2>5. CASE Supervise
    <3>1. failures # <<>> /\ failures' = Tail(failures) /\ UNCHANGED unavailable
      BY <2>5 DEF Supervise
    <3>2. failures \in Seq(Failure) /\ Len(failures) =< FailureSlots /\ FailureSlots \in Nat
      BY <1>0, CapacityAssumption DEF CoordType, CapacityAssumption
    <3>3. Tail(failures) \in Seq(Failure) /\ Len(Tail(failures)) = Len(failures) - 1 /\ Len(failures) \in Nat
      BY <3>1, <3>2
    <3> QED
      BY <1>0, <3>1, <3>2, <3>3 DEF CoordType
  <2>6. CASE CloseFailed \/ NextAttempt \/ Retry
    BY <1>0, <2>6 DEF CoordType, CloseFailed, NextAttempt, Retry, GiveUp
  <2>7. CASE PersistFails
    BY <2>1, <2>7, Reports DEF PersistFails
  <2> QED
    BY <1>0, <2>2, <2>3, <2>4, <2>5, <2>6, <2>7, FailuresAside DEF CoordType
<1> QED
  BY <1>1, <1>2, <1>3, <1>4, <1>5, <1>6 DEF CoordType

LEMMA ConnectTyped ==
  ASSUME TypeOK, UnbornIdle, Next
  PROVE  ConnectType'
<1>0. /\ conn \in [Connectors -> Connection] /\ sup \in Handling
      /\ gen \in 0 .. MaxSessions /\ current \in 0 .. gen /\ count \in 0 .. Budget
      /\ lastSent \in Nat /\ MaxSessions \in Nat /\ Budget \in Nat
  BY CapacityAssumption DEF TypeOK, ConnectType, CoordType, CapacityAssumption
<1>i. IdleConnect \in Connection /\ IdleSupervisor \in Handling
  BY <1>0 DEF IdleConnect, IdleSupervisor, Connection, Handling
<1>1. ASSUME NEW c \in Connectors,
             \/ ConnectCreate(c) \/ ConnectDial(c) \/ ConnectAdopt(c) \/ ConnectMark(c)
             \/ ConnectCloseGap(c) \/ ConnectFails(c)
      PROVE  ConnectType'
  <2>1. conn[c] \in Connection
    BY <1>0
  <2>2. \A p \in {"dial", "adopt", "mark", "close", "failed"} : [conn[c] EXCEPT !.pc = p] \in Connection
    BY <2>1 DEF Connection
  <2>3. ConnectCreate(c) => gen + 1 \in 0 .. MaxSessions
    BY <1>0 DEF ConnectCreate
  <2>4. ConnectCreate(c) => \A p \in {"dial", "failed"} : [conn[c] EXCEPT !.pc = p, !.gen = gen + 1] \in Connection
    BY <2>1, <2>3 DEF Connection
  <2>5. \E r \in Connection : conn' = [conn EXCEPT ![c] = r]
    <3>1. CASE ConnectCreate(c)
      <4>1. PICK p \in {"dial", "failed"} :
               conn' = [conn EXCEPT ![c].pc = p, ![c].gen = gen + 1]
        BY <3>1 DEF ConnectCreate
      <4>2. conn' = [conn EXCEPT ![c] = [conn[c] EXCEPT !.pc = p, !.gen = gen + 1]]
        BY <1>0, <4>1
      <4> QED
        BY <2>4, <3>1, <4>2
    <3>2. CASE ConnectDial(c) \/ ConnectAdopt(c) \/ ConnectMark(c)
      BY <2>2, <3>2 DEF ConnectDial, ConnectAdopt, ConnectMark, Goto
    <3>3. CASE ConnectCloseGap(c) \/ ConnectFails(c)
      BY <1>i, <2>2, <3>3 DEF ConnectCloseGap, ConnectFails, Goto
    <3> QED
      BY <1>1, <3>1, <3>2, <3>3
  <2>6. conn' \in [Connectors -> Connection]
    BY <1>0, <2>5
  <2>7. sup' \in {sup, IdleSupervisor}
    BY <1>1 DEF ConnectCreate, ConnectDial, ConnectAdopt, ConnectMark, ConnectCloseGap, ConnectFails
  <2> QED
    BY <1>0, <1>i, <2>6, <2>7 DEF ConnectType
<1>2. CASE Supervise
  <2>1. failures # <<>> /\ failures \in Seq(Failure)
    BY <1>2 DEF Supervise, TypeOK, CoordType
  <2>2. Head(failures) \in Failure
    BY <2>1
  <2>3. \A f \in Failure : Larger(f.resume, lastSent) \in Nat /\ f.retry \in BOOLEAN
    BY <1>0 DEF Failure, Larger
  <2>4. current \in 0 .. MaxSessions
    BY <1>0
  <2>5. \A f \in Failure : [pc |-> "close", gen |-> current, from |-> lastSent,
                            resume |-> Larger(f.resume, lastSent), retry |-> f.retry,
                            attempt |-> count] \in Handling
    BY <1>0, <2>3, <2>4 DEF Handling
  <2>6. UNCHANGED conn /\ sup' \in Handling
    BY <1>0, <1>2, <2>2, <2>5 DEF Supervise
  <2> QED
    BY <1>0, <2>6 DEF ConnectType
<1>3. CASE CloseFailed
  <2>1. [sup EXCEPT !.pc = "backoff"] \in Handling
    BY <1>0 DEF Handling
  <2> QED
    BY <1>0, <1>i, <1>3, <2>1 DEF CloseFailed, GiveUp, ConnectType
<1>4. CASE Backoff
  <2>1. sup.pc = "backoff" => Attempts \in 0 .. Budget
    BY <1>0 DEF UnbornIdle, Attempts, Handling
  <2>2. [sup EXCEPT !.pc = "connect"] \in Handling /\ sup.resume \in Nat
    BY <1>0 DEF Handling
  <2>3. sup.pc = "backoff" => [pc |-> "create", gen |-> 0, start |-> sup.resume, count |-> Attempts] \in Connection
    BY <1>0, <2>1, <2>2 DEF Connection
  <2> QED
    BY <1>0, <1>i, <1>4, <2>2, <2>3 DEF Backoff, ConnectType, Connectors
<1>5. CASE NextAttempt
  <2>1. Attempts < Budget => [sup EXCEPT !.pc = "backoff", !.attempt = Attempts] \in Handling
    <3>1. sup.attempt \in Nat
      BY <1>0 DEF Handling
    <3>2. Attempts < Budget => Attempts \in 0 .. Budget
      BY <1>0, <3>1 DEF Attempts
    <3> HIDE DEF Attempts
    <3> QED
      BY <1>0, <3>2 DEF Handling
  <2> QED
    BY <1>0, <1>i, <1>5, <2>1 DEF NextAttempt, GiveUp, ConnectType, Connectors
<1>6. CASE Retry
  <2>1. [IdleConnect EXCEPT !.pc = "create", !.start = lastSent] \in Connection
    BY <1>0, <1>i DEF Connection
  <2> QED
    BY <1>0, <1>6, <2>1 DEF Retry, ConnectType, Connectors
<1> QED
  BY <1>0, <1>1, <1>2, <1>3, <1>4, <1>5, <1>6, ConnAside DEF ConnectType

LEMMA GensOf ==
  ASSUME NEW g \in Gens
  PROVE  g \in Nat /\ g # 0 /\ 1 \in Gens /\ NoEvent \in Event /\ [NoEvent EXCEPT !.gen = g] \in Event
<1>1. g \in Nat /\ g # 0 /\ 1 \in Gens
  BY CapacityAssumption DEF Gens, CapacityAssumption
<1> QED
  BY <1>1 DEF NoEvent, Event

LEMMA WireTyped ==
  ASSUME TypeOK, UnbornIdle, Next
  PROVE  WireType'
<1>0. /\ link \in [Gens -> {"none", "open", "ending", "gone"}]
      /\ start \in [Gens -> Nat] /\ sent \in [Gens -> Nat] /\ told \in [Gens -> Nat]
      /\ events \in [Gens -> Seq(Event)] /\ \A g \in Gens : Len(events[g]) =< EventSlots
      /\ EventSlots \in Nat
  BY CapacityAssumption DEF TypeOK, WireType, CapacityAssumption
<1>1. link' \in [Gens -> {"none", "open", "ending", "gone"}]
  <2>1. \A c \in Connectors : ConnectDial(c) \/ ConnectAdopt(c) \/ ConnectCloseGap(c)
            => link' \in {link, [link EXCEPT ![conn[c].gen] = "open"], [link EXCEPT ![conn[c].gen] = "gone"]}
    BY DEF ConnectDial, ConnectAdopt, ConnectCloseGap
  <2>2. CloseFailed => link' \in {link, [link EXCEPT ![sup.gen] = "gone"]}
    BY DEF CloseFailed
  <2>3. \A g \in Gens : \/ Write(g) \/ ProviderFinal(g) \/ ProviderConflict(g) \/ ProviderBreaks(g)
                        \/ ProviderEnds(g)
            => link' \in {link, [link EXCEPT ![g] = "gone"]}
    BY DEF Write, ProviderFinal, ProviderConflict, ProviderBreaks, ProviderEnds, Publish
  <2>4. StopRemote => link' \in {link, [link EXCEPT ![stopOf] = "ending"]}
    BY DEF StopRemote
  <2> QED
    BY <1>0, <2>1, <2>2, <2>3, <2>4, LinkAside
<1>2. start' \in [Gens -> Nat] /\ sent' \in [Gens -> Nat] /\ told' \in [Gens -> Nat]
  <2>1. ASSUME NEW c \in Connectors, ConnectCreate(c)
        PROVE  start' \in [Gens -> Nat] /\ sent' \in [Gens -> Nat] /\ told' \in [Gens -> Nat]
    <3>1. conn[c].start \in Nat
      BY DEF TypeOK, ConnectType, Connection
    <3> QED
      BY <1>0, <2>1, <3>1 DEF ConnectCreate
  <2>2. ASSUME NEW g \in Gens, Write(g)
        PROVE  start' \in [Gens -> Nat] /\ sent' \in [Gens -> Nat] /\ told' \in [Gens -> Nat]
    <3>1. sent' \in {sent, [sent EXCEPT ![g] = frame[g] + 1]} /\ frame[g] + 1 \in Nat
          /\ UNCHANGED <<start, told>>
      BY <2>2 DEF Write, TypeOK, SessionType, Samples, NoSample
    <3> QED
      BY <1>0, <3>1
  <2>3. ASSUME NEW g \in Gens, ProviderFinal(g)
        PROVE  start' \in [Gens -> Nat] /\ sent' \in [Gens -> Nat] /\ told' \in [Gens -> Nat]
    <3>1. PICK to \in told[g] + 1 .. sent[g] : told' = [told EXCEPT ![g] = to]
      BY <2>3 DEF ProviderFinal
    <3>2. to \in Nat
      BY <1>0
    <3> QED
      BY <1>0, <2>3, <3>1, <3>2 DEF ProviderFinal
  <2> QED
    BY <1>0, <2>1, <2>2, <2>3, WireAside
<1>3. events' \in [Gens -> Seq(Event)] /\ \A g \in Gens : Len(events'[g]) =< EventSlots
  <2>1. ASSUME NEW g \in Gens, NEW e \in Event, Len(events[g]) < EventSlots,
               events' = [events EXCEPT ![g] = Append(@, e)]
        PROVE  events' \in [Gens -> Seq(Event)] /\ \A h \in Gens : Len(events'[h]) =< EventSlots
    <3>1. Append(events[g], e) \in Seq(Event) /\ Len(Append(events[g], e)) = Len(events[g]) + 1
      BY <1>0
    <3>2. Len(events[g]) \in Nat
      BY <1>0
    <3> QED
      BY <1>0, <2>1, <3>1, <3>2
  <2>2. ASSUME NEW g \in Gens, ProviderFinal(g)
        PROVE  events' \in [Gens -> Seq(Event)] /\ \A h \in Gens : Len(events'[h]) =< EventSlots
    <3>1. PICK to \in told[g] + 1 .. sent[g] :
             Publish(g, [kind |-> "final", gen |-> g, from |-> told[g], to |-> to, last |-> sent[g]])
      BY <2>2 DEF ProviderFinal
    <3>2. to \in Nat /\ told[g] \in Nat /\ sent[g] \in Nat
      BY <1>0
    <3>3. [kind |-> "final", gen |-> g, from |-> told[g], to |-> to, last |-> sent[g]] \in Event
      BY <3>2 DEF Event
    <3> QED
      BY <1>0, <2>1, <3>1, <3>3 DEF Publish
  <2>3. ASSUME NEW g \in Gens, ProviderConflict(g)
        PROVE  events' \in [Gens -> Seq(Event)] /\ \A h \in Gens : Len(events'[h]) =< EventSlots
    <3>1. PICK u \in utterances :
             Publish(g, [kind |-> "conflict", gen |-> g, from |-> u[2], to |-> u[3], last |-> sent[g]])
      BY <2>3 DEF ProviderConflict
    <3>2. u[2] \in Nat /\ u[3] \in Nat /\ sent[g] \in Nat
      BY <1>0 DEF TypeOK, DatabaseType
    <3>3. [kind |-> "conflict", gen |-> g, from |-> u[2], to |-> u[3], last |-> sent[g]] \in Event
      BY <3>2 DEF Event
    <3> QED
      BY <1>0, <2>1, <3>1, <3>3 DEF Publish
  <2>4. ASSUME NEW g \in Gens, ProviderBreaks(g)
        PROVE  events' \in [Gens -> Seq(Event)] /\ \A h \in Gens : Len(events'[h]) =< EventSlots
    BY <1>0, <2>1, <2>4, GensOf DEF ProviderBreaks
  <2>5. ASSUME NEW g \in Gens, Read(g)
        PROVE  events' \in [Gens -> Seq(Event)] /\ \A h \in Gens : Len(events'[h]) =< EventSlots
    <3>1. events[g] # <<>> /\ events' = [events EXCEPT ![g] = Tail(events[g])]
      BY <2>5 DEF Read
    <3>2. events[g] \in Seq(Event) /\ Len(events[g]) =< EventSlots
      BY <1>0
    <3>3. Tail(events[g]) \in Seq(Event) /\ Len(Tail(events[g])) = Len(events[g]) - 1 /\ Len(events[g]) \in Nat
      BY <3>1, <3>2
    <3> QED
      BY <1>0, <3>1, <3>2, <3>3
  <2>6. ASSUME NEW g \in Gens,
               ReadStarted(g) \/ ReadClosed(g) \/ Submit(g) \/ (\E c \in Connectors : ConnectCloseGap(c))
        PROVE  events' = events
    BY <2>6 DEF ReadStarted, ReadClosed, Submit, ConnectCloseGap, wire
  <2>7. (\E c \in Connectors : ConnectCloseGap(c)) => events' = events
    BY DEF ConnectCloseGap
  <2> QED
    BY <1>0, <2>2, <2>3, <2>4, <2>5, <2>6, <2>7, ReaderAside
<1> QED
  BY <1>1, <1>2, <1>3 DEF WireType

LEMMA SessionTyped ==
  ASSUME TypeOK, UnbornIdle, Next
  PROVE  SessionType'
<1>0. /\ snd \in [Gens -> {"none", "take", "wait", "write", "advance", "done"}]
      /\ frame \in [Gens -> Samples]
      /\ rd \in [Gens -> {"none", "started", "read", "submit", "done"}]
      /\ got \in [Gens -> Event] /\ events \in [Gens -> Seq(Event)]
      /\ finals \in Seq(Event) /\ Len(finals) =< FinalSlots /\ finClosed \in BOOLEAN
      /\ FinalSlots \in Nat /\ Len(finals) \in Nat /\ head \in Nat
  BY CapacityAssumption DEF TypeOK, SessionType, WireType, QueueType, CapacityAssumption
<1>1. /\ snd' \in [Gens -> {"none", "take", "wait", "write", "advance", "done"}]
      /\ frame' \in [Gens -> Samples]
  <2>1. \A c \in Connectors : ConnectCloseGap(c)
            => /\ snd' \in {snd, [snd EXCEPT ![conn[c].gen] = "take"]}
               /\ UNCHANGED frame
    BY DEF ConnectCloseGap
  <2>2. \A g \in Gens : Take(g) \/ Woken(g) \/ Write(g) \/ Advance(g) =>
            \E p \in {"none", "take", "wait", "write", "advance", "done"} :
               /\ snd' = [snd EXCEPT ![g] = p]
               /\ frame' \in {frame, [frame EXCEPT ![g] = head], [frame EXCEPT ![g] = NoSample]}
    BY DEF Take, Woken, Write, Advance
  <2>3. head \in Samples /\ NoSample \in Samples
    BY <1>0 DEF Samples
  <2>4. ASSUME NEW g \in Gens, Take(g) \/ Woken(g) \/ Write(g) \/ Advance(g)
        PROVE  /\ snd' \in [Gens -> {"none", "take", "wait", "write", "advance", "done"}]
               /\ frame' \in [Gens -> Samples]
    BY <1>0, <2>2, <2>3, <2>4
  <2> QED
    BY <1>0, <2>1, <2>4, SenderAside
<1>2. /\ rd' \in [Gens -> {"none", "started", "read", "submit", "done"}]
      /\ got' \in [Gens -> Event]
  <2>1. \A c \in Connectors : ConnectCloseGap(c)
            => /\ rd' \in {rd, [rd EXCEPT ![conn[c].gen] = "started"]}
               /\ UNCHANGED got
    BY DEF ConnectCloseGap
  <2>2. ASSUME NEW g \in Gens,
               \/ ProviderFinal(g) \/ ProviderConflict(g) \/ ProviderBreaks(g)
               \/ ReadStarted(g) \/ Read(g) \/ ReadClosed(g) \/ Submit(g)
        PROVE  /\ rd' \in [Gens -> {"none", "started", "read", "submit", "done"}]
               /\ got' \in [Gens -> Event]
    <3>1. \E p \in {rd[g], "read", "submit", "done"}, e \in {got[g], NoEvent, Head(events[g])} :
             /\ rd' = [rd EXCEPT ![g] = p] /\ got' = [got EXCEPT ![g] = e]
             /\ e \in Event
      <4>0. got[g] \in Event /\ NoEvent \in Event /\ (events[g] # <<>> => Head(events[g]) \in Event)
        <5>1. got[g] \in Event /\ events[g] \in Seq(Event)
          BY <1>0
        <5>2. events[g] # <<>> => Head(events[g]) \in Event
          BY <5>1
        <5> QED
          BY <5>1, <5>2, GensOf
      <4>1. rd = [rd EXCEPT ![g] = rd[g]] /\ got = [got EXCEPT ![g] = got[g]]
        BY <1>0
      <4>2. CASE ProviderFinal(g) \/ ProviderConflict(g) \/ ProviderBreaks(g)
        BY <4>0, <4>1, <4>2 DEF ProviderFinal, ProviderConflict, ProviderBreaks, reader
      <4>3. CASE ReadStarted(g) \/ ReadClosed(g)
        BY <4>0, <4>1, <4>3 DEF ReadStarted, ReadClosed
      <4>4. CASE Read(g)
        BY <4>0, <4>1, <4>4 DEF Read
      <4>5. CASE Submit(g)
        BY <4>0, <4>1, <4>5 DEF Submit
      <4> QED
        BY <2>2, <4>2, <4>3, <4>4, <4>5
    <3> QED
      BY <1>0, <3>1
  <2>3. CASE UNCHANGED <<rd, got>>
    BY <1>0, <2>3
  <2> QED
    BY <1>0, <2>1, <2>2, <2>3, ReaderAside
<1>3. finals' \in Seq(Event) /\ Len(finals') =< FinalSlots /\ finClosed' \in BOOLEAN
  <2>1. ASSUME NEW g \in Gens, Submit(g)
        PROVE  finals' \in Seq(Event) /\ Len(finals') =< FinalSlots /\ UNCHANGED finClosed
    <3>1. \/ UNCHANGED finals
          \/ finals' = Append(finals, got[g]) /\ Len(finals) < FinalSlots
      BY <2>1 DEF Submit
    <3>2. got[g] \in Event /\ UNCHANGED finClosed
      BY <1>0, <2>1 DEF Submit
    <3>3. Append(finals, got[g]) \in Seq(Event) /\ Len(Append(finals, got[g])) = Len(finals) + 1
      BY <1>0, <3>2
    <3>4. CASE UNCHANGED finals
      BY <1>0, <3>2, <3>4
    <3>5. CASE finals' = Append(finals, got[g]) /\ Len(finals) < FinalSlots
      BY <1>0, <3>2, <3>3, <3>5
    <3> QED
      BY <3>1, <3>4, <3>5
  <2>2. CASE Persist \/ PersistFails
    <3>1. finals # <<>> /\ finals' = Tail(finals) /\ UNCHANGED finClosed
      BY <2>2 DEF Persist, PersistFails
    <3>2. Tail(finals) \in Seq(Event) /\ Len(Tail(finals)) = Len(finals) - 1
      BY <1>0, <3>1
    <3> QED
      BY <1>0, <3>1, <3>2
  <2>3. StopDrain => finClosed' = TRUE /\ UNCHANGED finals
    BY DEF StopDrain
  <2> QED
    BY <1>0, <2>1, <2>2, <2>3, FinalsAside
<1> QED
  BY <1>1, <1>2, <1>3 DEF SessionType

LEMMA StopTyped ==
  ASSUME TypeOK, Next
  PROVE  StopType'
<1>1. current \in 0 .. MaxSessions
  BY CapacityAssumption DEF TypeOK, CoordType, CapacityAssumption
<1>2. StopType
  BY DEF TypeOK
<1>3. CASE StopCall
  BY <1>1, <1>2, <1>3 DEF StopCall, StopType
<1>4. CASE UNCHANGED stop
  BY <1>2, <1>4 DEF StopType, stop
<1>5. ASSUME \/ StopAgain \/ StopSender \/ StopRemote \/ StopAnswered \/ StopDrain \/ StopFinals
             \/ StopGap \/ StopFinish
      PROVE  StopType'
  BY <1>2, <1>5 DEF StopType, StopAgain, StopSender, StopRemote, StopAnswered, StopDrain,
     StopFinals, StopGap, StopFinish
<1> QED
  BY <1>3, <1>4, <1>5, StopAside DEF stop

LEMMA DatabaseTyped ==
  ASSUME TypeOK, UnbornIdle, QueueFits, WireFits, Next
  PROVE  DatabaseType'
<1> DEFINE Rows == {"none", "connecting", "streaming", "failed", "stopped"}
           States == {"idle", "connecting", "streaming", "reconnecting", "unavailable", "stopped"}
<1>0. /\ row \in [Gens -> Rows] /\ rowSent \in [Gens -> Nat] /\ rowFinal \in [Gens -> Nat]
      /\ utterances \subseteq Gens \X Nat \X Nat /\ gaps \subseteq Nat \X Nat
      /\ asr \in States /\ retries \in Nat
      /\ boot \in {"up", "down", "recover", "over"}
      /\ sent \in [Gens -> Nat] /\ recorded \in Nat /\ head \in Nat
      /\ gapStart \in Samples /\ conn \in [Connectors -> Connection]
      /\ finals \in Seq(Event)
  BY DEF TypeOK, DatabaseType, WireType, QueueType, CoordType, ConnectType, SessionType
<1>1. row' \in [Gens -> Rows]
  <2>1. \A c \in Connectors : ConnectCreate(c) => row' \in {row, [row EXCEPT ![gen + 1] = "connecting"]}
    BY DEF ConnectCreate
  <2>2. \A c \in Connectors : ConnectDial(c) => row' \in {row, [row EXCEPT ![conn[c].gen] = "failed"]}
    BY DEF ConnectDial
  <2>3. \A c \in Connectors : ConnectMark(c) => row' \in {row, [row EXCEPT ![conn[c].gen] = "streaming"]}
    BY DEF ConnectMark, MarkStreaming
  <2>4. \A g \in Gens : ReadStarted(g) => row' \in {row, [row EXCEPT ![g] = "streaming"]}
    BY DEF ReadStarted, MarkStreaming
  <2>5. CloseFailed => row' \in {row, [row EXCEPT ![sup.gen] = "failed"]}
    BY DEF CloseFailed
  <2>6. StopFinish => row' \in {row, [row EXCEPT ![current] = "stopped"]}
    BY DEF StopFinish
  <2>7. RecoverSessions => row' \in [Gens -> Rows]
    BY <1>0 DEF RecoverSessions
  <2> QED
    BY <1>0, <2>1, <2>2, <2>3, <2>4, <2>5, <2>6, <2>7, RowAside
<1>2. rowSent' \in [Gens -> Nat] /\ rowFinal' \in [Gens -> Nat]
  <2>1. \A c \in Connectors : ConnectCreate(c) =>
            /\ rowSent' \in {rowSent, [rowSent EXCEPT ![gen + 1] = conn[c].start]}
            /\ rowFinal' \in {rowFinal, [rowFinal EXCEPT ![gen + 1] = conn[c].start]}
    BY DEF ConnectCreate
  <2>2. \A c \in Connectors : conn[c].start \in Nat
    BY <1>0 DEF Connection
  <2>3. \A g \in Gens : Advance(g) => rowSent' \in {rowSent, [rowSent EXCEPT ![g] = sent[g]]} /\ UNCHANGED rowFinal
    BY DEF Advance, SaveSent
  <2>4. CASE Persist
    <3>1. Head(finals) \in Event
      BY <1>0, <2>4 DEF Persist
    <3>2. /\ rowSent' = [rowSent EXCEPT ![Head(finals).gen] = Head(finals).last]
          /\ rowFinal' = [rowFinal EXCEPT ![Head(finals).gen] = Head(finals).to]
      BY <2>4 DEF Persist
    <3>3. Head(finals).last \in Nat /\ Head(finals).to \in Nat
      BY <3>1 DEF Event
    <3> QED
      BY <1>0, <3>2, <3>3
  <2>5. CASE StopAnswered
    <3>1. stopOf \in Gens
      BY <2>5 DEF StopAnswered, StopAt, UnbornIdle
    <3>2. sent[stopOf] \in Nat
      BY <1>0, <3>1
    <3>3. rowSent' \in {rowSent, [rowSent EXCEPT ![stopOf] = sent[stopOf]]} /\ UNCHANGED rowFinal
      BY <2>5 DEF StopAnswered, SaveSent
    <3> QED
      BY <1>0, <3>2, <3>3
  <2> QED
    BY <1>0, <2>1, <2>2, <2>3, <2>4, <2>5, RowsAside
<1>3. utterances' \subseteq Gens \X Nat \X Nat
  <2>1. CASE Persist
    <3>1. Head(finals) \in Event
      BY <1>0, <2>1 DEF Persist
    <3>2. Span(Head(finals)) \in Gens \X Nat \X Nat
      BY <3>1 DEF Event, Span
    <3>3. utterances' = utterances \cup {Span(Head(finals))}
      BY <2>1 DEF Persist, Span
    <3> QED
      BY <1>0, <3>2, <3>3
  <2> QED
    BY <1>0, <2>1, ResultsAside
<1>4. gaps' \subseteq Nat \X Nat
  <2>1. \A c \in Connectors : ConnectCloseGap(c) =>
            \/ UNCHANGED gaps
            \/ gapStart # NoSample /\ gaps' = gaps \cup {<<gapStart, conn[c].start>>}
    BY DEF ConnectCloseGap
  <2>2. StopGap => \/ UNCHANGED gaps
                   \/ gapStart # NoSample /\ gaps' = gaps \cup {<<gapStart, recorded>>}
    BY DEF StopGap
  <2>3. RecoverGap => UNCHANGED gaps \/ (RecoveredFrom \in Nat /\ gaps' = gaps \cup {<<RecoveredFrom, recorded>>})
    <3>1. head \in Nat /\ \A g \in Gens : rowFinal[g] \in 0 .. head
      <4>1. ASSUME NEW g \in Gens PROVE rowFinal[g] \in 0 .. head
        <5>1. rowFinal[g] =< rowSent[g] /\ rowSent[g] =< sent[g] /\ sent[g] =< head
          BY DEF WireFits, QueueFits
        <5> QED
          BY <1>0, <5>1
      <4> QED
        BY <1>0, <4>1
    <3> QED
      BY <3>1, RecoveredMax DEF RecoverGap
  <2>4. \A c \in Connectors : conn[c].start \in Nat
    BY <1>0 DEF Connection
  <2>5. gapStart # NoSample => gapStart \in Nat
    BY <1>0 DEF Samples
  <2>6. \A c \in Connectors : ConnectFails(c) => UNCHANGED gaps
    BY DEF ConnectFails
  <2>7. CloseFailed \/ StopFinals => UNCHANGED gaps
    BY DEF CloseFailed, StopFinals, database
  <2> QED
    <3>1. \A a, b \in Nat : gaps \cup {<<a, b>>} \subseteq Nat \X Nat
      BY <1>0
    <3>2. ASSUME NEW c \in Connectors, ConnectCloseGap(c) PROVE gaps' \subseteq Nat \X Nat
      <4>1. CASE gaps' = gaps
        BY <1>0, <4>1
      <4>2. CASE gapStart # NoSample /\ gaps' = gaps \cup {<<gapStart, conn[c].start>>}
        <5>1. gapStart \in Nat /\ conn[c].start \in Nat
          BY <2>4, <2>5, <4>2
        <5> QED
          BY <3>1, <4>2, <5>1
      <4> QED
        BY <2>1, <3>2, <4>1, <4>2
    <3>3. StopGap \/ RecoverGap => gaps' \subseteq Nat \X Nat
      BY <1>0, <2>2, <2>3, <2>5, <3>1
    <3> QED
      BY <1>0, <2>6, <2>7, <3>2, <3>3, GapAside
<1>5. asr' \in States
  <2>1. \A c \in Connectors :
           \/ ConnectCreate(c) \/ ConnectDial(c) \/ ConnectMark(c) \/ ConnectFails(c)
             => asr' \in {asr, "connecting", "reconnecting", "streaming", "unavailable"}
    BY DEF ConnectCreate, ConnectDial, ConnectMark, MarkStreaming, ConnectFails, Report
  <2>2. \A g \in Gens : Write(g) \/ ReadStarted(g) \/ Read(g) \/ ReadClosed(g) \/ Submit(g)
             => asr' \in {asr, "streaming", "unavailable"}
    BY DEF Write, ReadStarted, MarkStreaming, Read, ReadClosed, Submit, Report
  <2>3. Frame \/ CloseFailed \/ NextAttempt \/ PersistFails \/ StopFinish \/ RecoverSessions
             => asr' \in {asr, "unavailable", "reconnecting", "stopped"}
    BY DEF Frame, CloseFailed, NextAttempt, PersistFails, StopFinish, RecoverSessions, Report
  <2> QED
    BY <1>0, <2>1, <2>2, <2>3, AsrAside
<1>6. boot' \in {"up", "down", "recover", "over"} /\ retries' \in Nat
  <2>1. Retry => retries' = retries + 1 /\ UNCHANGED boot
    BY DEF Retry
  <2>2. Crash => boot' = "down" /\ UNCHANGED retries
    BY DEF Crash
  <2>3. RecoverSessions \/ RecoverGap => boot' \in {"recover", "over"} /\ UNCHANGED retries
    BY DEF RecoverSessions, RecoverGap
  <2> QED
    BY <1>0, <2>1, <2>2, <2>3, BootAside
<1> QED
  BY <1>1, <1>2, <1>3, <1>4, <1>5, <1>6 DEF DatabaseType

LEMMA TypeKept ==
  ASSUME TypeOK, UnbornIdle, QueueFits, WireFits, Next
  PROVE  TypeOK'
BY QueueTyped, CoordTyped, ConnectTyped, WireTyped, SessionTyped, StopTyped, DatabaseTyped DEF TypeOK

-----------------------------------------------------------------------------
(* The queue, and what anybody may know of it.                             *)

LEMMA HeadGrows ==
  ASSUME TypeOK, QueueFits, Next
  PROVE  /\ head \in Nat /\ head' \in Nat /\ head =< head' /\ tail' =< recorded'
         /\ recorded \in Nat /\ recorded' \in Nat /\ recorded =< recorded'
<1>0. QueueType /\ tail =< recorded /\ QueueSlots \in Nat
  BY CapacityAssumption DEF TypeOK, QueueFits, CapacityAssumption
<1>1. CASE Frame
  BY <1>0, <1>1 DEF QueueType, Frame, Follows, HasRoom
<1>2. ASSUME NEW g \in Gens, Take(g)
      PROVE  /\ head \in Nat /\ head' \in Nat /\ head =< head' /\ tail' =< recorded'
             /\ recorded \in Nat /\ recorded' \in Nat /\ recorded =< recorded'
  BY <1>0, <1>2 DEF QueueType, Take
<1> QED
  BY <1>0, <1>1, <1>2, QueueAside DEF QueueType

LEMMA SentGrows ==
  ASSUME TypeOK, UnbornIdle, NEW g \in Gens, g =< gen, Next
  PROVE  start'[g] = start[g] /\ sent[g] =< sent'[g] /\ sent[g] \in Nat /\ start[g] \in Nat
<1>0. start \in [Gens -> Nat] /\ sent \in [Gens -> Nat] /\ gen \in Nat /\ g \in Nat
  BY CapacityAssumption DEF TypeOK, WireType, CoordType, Gens, CapacityAssumption
<1>1. ASSUME NEW c \in Connectors, ConnectCreate(c)
      PROVE  start'[g] = start[g] /\ sent'[g] = sent[g]
  <2>1. g # gen + 1
    BY <1>0
  <2>2. /\ start' = [start EXCEPT ![gen + 1] = conn[c].start]
        /\ sent' = [sent EXCEPT ![gen + 1] = conn[c].start]
    BY <1>1 DEF ConnectCreate
  <2> QED
    BY <1>0, <2>1, <2>2
<1>2. ASSUME NEW h \in Gens, Write(h)
      PROVE  start'[g] = start[g] /\ sent[g] =< sent'[g]
  <2>1. UNCHANGED start
    BY <1>2 DEF Write
  <2>2. \/ UNCHANGED sent
        \/ frame[h] = sent[h] /\ sent' = [sent EXCEPT ![h] = frame[h] + 1]
    BY <1>2 DEF Write, Writable
  <2> QED
    BY <1>0, <2>1, <2>2
<1>3. \A h \in Gens : ProviderFinal(h) => UNCHANGED <<start, sent>>
  BY DEF ProviderFinal
<1> QED
  BY <1>0, <1>1, <1>2, <1>3, WireAside

(* What the connectors do to their records, field by field. *)
LEMMA ConnSteps ==
  ASSUME TypeOK, NEW d \in Connectors,
         \/ ConnectCreate(d) \/ ConnectDial(d) \/ ConnectAdopt(d) \/ ConnectMark(d)
         \/ ConnectCloseGap(d) \/ ConnectFails(d)
  PROVE  /\ \A c \in Connectors \ {d} : conn'[c] = conn[c]
         /\ \/ conn'[d] = IdleConnect /\ (ConnectCloseGap(d) \/ ConnectFails(d))
            \/ /\ ConnectCreate(d)
               /\ conn'[d].pc \in {"dial", "failed"} /\ conn'[d].gen = gen + 1
               /\ conn'[d].start = conn[d].start /\ conn'[d].count = conn[d].count
            \/ /\ ConnectDial(d) \/ ConnectAdopt(d) \/ ConnectMark(d) \/ ConnectCloseGap(d)
               /\ conn'[d].pc \in {"adopt", "mark", "close", "failed"}
               /\ conn'[d].gen = conn[d].gen
               /\ conn'[d].start = conn[d].start /\ conn'[d].count = conn[d].count
<1>0. conn \in [Connectors -> Connection] /\ conn[d] \in Connection
  BY DEF TypeOK, ConnectType
<1>1. CASE ConnectCreate(d)
  <2>1. PICK p \in {"dial", "failed"} : conn' = [conn EXCEPT ![d].pc = p, ![d].gen = gen + 1]
    BY <1>1 DEF ConnectCreate
  <2>2. conn' = [conn EXCEPT ![d] = [conn[d] EXCEPT !.pc = p, !.gen = gen + 1]]
    BY <1>0, <2>1
  <2> QED
    BY <1>0, <1>1, <2>2 DEF Connection
<1>2. CASE ConnectDial(d) \/ ConnectAdopt(d) \/ ConnectMark(d)
  <2>1. PICK p \in {"adopt", "mark", "close", "failed"} : conn' = [conn EXCEPT ![d].pc = p]
    BY <1>2 DEF ConnectDial, ConnectAdopt, ConnectMark, Goto
  <2>2. conn' = [conn EXCEPT ![d] = [conn[d] EXCEPT !.pc = p]]
    BY <1>0, <2>1
  <2> QED
    BY <1>0, <1>2, <2>2 DEF Connection
<1>3. CASE ConnectCloseGap(d)
  <2>1. \/ conn' = [conn EXCEPT ![d] = IdleConnect]
        \/ conn' = [conn EXCEPT ![d].pc = "failed"]
    BY <1>3 DEF ConnectCloseGap, Goto
  <2>2. CASE conn' = [conn EXCEPT ![d].pc = "failed"]
    <3>1. conn' = [conn EXCEPT ![d] = [conn[d] EXCEPT !.pc = "failed"]]
      BY <1>0, <2>2
    <3> QED
      BY <1>0, <1>3, <3>1 DEF Connection
  <2> QED
    BY <1>0, <1>3, <2>1, <2>2
<1>4. CASE ConnectFails(d)
  BY <1>0, <1>4 DEF ConnectFails
<1> QED
  BY <1>1, <1>2, <1>3, <1>4

(* What the supervisor and Retry do, field by field. *)
LEMMA SupSteps ==
  ASSUME TypeOK
  PROVE  /\ Supervise =>
              /\ UNCHANGED conn
              /\ \/ sup' = sup
                 \/ /\ sup'.pc = "close" /\ sup'.gen = current /\ sup'.from = lastSent
                    /\ sup'.resume = Larger(Head(failures).resume, lastSent)
                    /\ sup'.retry = Head(failures).retry /\ sup'.attempt = count
                    /\ Handled(Head(failures))
         /\ CloseFailed =>
              /\ UNCHANGED conn
              /\ \/ sup' = IdleSupervisor /\ unavailable'
                 \/ /\ sup'.pc = "backoff" /\ sup.retry /\ sup.attempt < Budget
                    /\ UNCHANGED <<sup.gen, sup.from, sup.resume, sup.retry, sup.attempt>>
         /\ Backoff =>
              \/ sup' = IdleSupervisor /\ UNCHANGED conn /\ cancelled
              \/ /\ sup'.pc = "connect"
                 /\ UNCHANGED <<sup.gen, sup.from, sup.resume, sup.retry, sup.attempt>>
                 /\ \A c \in Connectors \ {"supervisor"} : conn'[c] = conn[c]
                 /\ conn'["supervisor"] = [pc |-> "create", gen |-> 0, start |-> sup.resume,
                                          count |-> Attempts]
         /\ NextAttempt =>
              /\ \A c \in Connectors \ {"supervisor"} : conn'[c] = conn[c]
              /\ conn'["supervisor"] = IdleConnect
              /\ \/ sup' = IdleSupervisor /\ unavailable'
                 \/ /\ sup'.pc = "backoff" /\ sup'.attempt = Attempts /\ Attempts < Budget
                    /\ UNCHANGED <<sup.gen, sup.from, sup.resume, sup.retry>>
         /\ Retry =>
              /\ UNCHANGED sup /\ \A c \in Connectors \ {"retry"} : conn'[c] = conn[c]
              /\ conn'["retry"] = [IdleConnect EXCEPT !.pc = "create", !.start = lastSent]
<1>0. sup \in Handling /\ conn \in [Connectors -> Connection]
      /\ "supervisor" \in Connectors /\ "retry" \in Connectors
  BY DEF TypeOK, ConnectType, Connectors
<1>1. ASSUME NEW p \in {"backoff", "connect"}, sup' = [sup EXCEPT !.pc = p]
      PROVE  /\ sup'.pc = p
             /\ UNCHANGED <<sup.gen, sup.from, sup.resume, sup.retry, sup.attempt>>
  BY <1>0, <1>1 DEF Handling
<1>2. ASSUME NEW a, sup' = [sup EXCEPT !.pc = "backoff", !.attempt = a]
      PROVE  /\ sup'.pc = "backoff" /\ sup'.attempt = a
             /\ UNCHANGED <<sup.gen, sup.from, sup.resume, sup.retry>>
  BY <1>0, <1>2 DEF Handling
<1>3. ASSUME Supervise
      PROVE  /\ UNCHANGED conn
             /\ \/ sup' = sup
                \/ /\ sup'.pc = "close" /\ sup'.gen = current /\ sup'.from = lastSent
                   /\ sup'.resume = Larger(Head(failures).resume, lastSent)
                   /\ sup'.retry = Head(failures).retry /\ sup'.attempt = count
                   /\ Handled(Head(failures))
  BY <1>3 DEF Supervise
<1>4. ASSUME CloseFailed
      PROVE  /\ UNCHANGED conn
             /\ \/ sup' = IdleSupervisor /\ unavailable'
                \/ sup' = [sup EXCEPT !.pc = "backoff"] /\ sup.retry /\ sup.attempt < Budget
  BY <1>4 DEF CloseFailed, GiveUp
<1>5. ASSUME Backoff
      PROVE  \/ sup' = IdleSupervisor /\ UNCHANGED conn /\ cancelled
             \/ /\ sup' = [sup EXCEPT !.pc = "connect"]
                /\ \A c \in Connectors \ {"supervisor"} : conn'[c] = conn[c]
                /\ conn'["supervisor"] = [pc |-> "create", gen |-> 0, start |-> sup.resume,
                                         count |-> Attempts]
  BY <1>0, <1>5 DEF Backoff
<1>6. ASSUME NextAttempt
      PROVE  /\ \A c \in Connectors \ {"supervisor"} : conn'[c] = conn[c]
             /\ conn'["supervisor"] = IdleConnect
             /\ \/ sup' = IdleSupervisor /\ unavailable'
                \/ sup' = [sup EXCEPT !.pc = "backoff", !.attempt = Attempts] /\ Attempts < Budget
  BY <1>0, <1>6 DEF NextAttempt, GiveUp
<1>7. ASSUME Retry
      PROVE  /\ UNCHANGED sup /\ \A c \in Connectors \ {"retry"} : conn'[c] = conn[c]
             /\ conn'["retry"] = [IdleConnect EXCEPT !.pc = "create", !.start = lastSent]
  BY <1>0, <1>7 DEF Retry
<1>8. NextAttempt =>
         \/ sup' = IdleSupervisor /\ unavailable'
         \/ /\ sup'.pc = "backoff" /\ sup'.attempt = Attempts /\ Attempts < Budget
            /\ UNCHANGED <<sup.gen, sup.from, sup.resume, sup.retry>>
  BY <1>2, <1>6
<1>9. CloseFailed =>
         \/ sup' = IdleSupervisor /\ unavailable'
         \/ /\ sup'.pc = "backoff" /\ sup.retry /\ sup.attempt < Budget
            /\ UNCHANGED <<sup.gen, sup.from, sup.resume, sup.retry, sup.attempt>>
  BY <1>1, <1>4
<1>10. Backoff =>
         \/ sup' = IdleSupervisor /\ UNCHANGED conn /\ cancelled
         \/ /\ sup'.pc = "connect"
            /\ UNCHANGED <<sup.gen, sup.from, sup.resume, sup.retry, sup.attempt>>
            /\ \A c \in Connectors \ {"supervisor"} : conn'[c] = conn[c]
            /\ conn'["supervisor"] = [pc |-> "create", gen |-> 0, start |-> sup.resume,
                                     count |-> Attempts]
  BY <1>1, <1>5
<1> QED
  BY <1>3, <1>4, <1>6, <1>7, <1>8, <1>9, <1>10, Zenon

LEMMA QueueFitsKept ==
  ASSUME TypeOK, UnbornIdle, QueueFits, HeldOnce, Next
  PROVE  QueueFits'
<1>0. /\ head \in Nat /\ head' \in Nat /\ head =< head' /\ tail' =< recorded'
      /\ lastSent \in Nat /\ lastSent =< head
      /\ sent \in [Gens -> Nat] /\ \A g \in Gens : sent[g] =< head
      /\ conn \in [Connectors -> Connection] /\ \A c \in Connectors : conn[c].start =< head
      /\ sup \in Handling /\ sup.resume =< head
      /\ failures \in Seq(Failure) /\ \A i \in DOMAIN failures : failures[i].resume =< head
      /\ \A g \in Gens : snd[g] = "write" => frame[g] \in Nat /\ frame[g] < head
  BY HeadGrows DEF TypeOK, CoordType, ConnectType, WireType, QueueFits, HeldOnce
<1>1. \A c \in Connectors : conn[c].start \in Nat
  BY <1>0 DEF Connection
<1>2. sup.resume \in Nat
  BY <1>0 DEF Handling
<1>3. \A i \in DOMAIN failures : failures[i] \in Failure /\ failures[i].resume \in Nat
  <2>1. \A i \in DOMAIN failures : failures[i] \in Failure
    BY <1>0
  <2> QED
    BY <2>1 DEF Failure
<1>4. lastSent' =< head'
  <2>1. \A g \in Gens : Advance(g) => lastSent' \in {lastSent, sent[g]}
    BY DEF Advance, Larger
  <2>2. StopAnswered => lastSent' \in {lastSent, sent[stopOf]} /\ stopOf \in Gens
    BY DEF StopAnswered, StopAt, Larger, UnbornIdle
  <2>3. Persist => UNCHANGED lastSent
    BY DEF Persist
  <2> QED
    BY <1>0, <2>1, <2>2, <2>3, ProgressAside
<1>5. \A g \in Gens : sent'[g] =< head'
  <2>1. ASSUME NEW c \in Connectors, ConnectCreate(c) PROVE \A g \in Gens : sent'[g] =< head'
    <3>1. sent' = [sent EXCEPT ![gen + 1] = conn[c].start]
      BY <2>1 DEF ConnectCreate
    <3> QED
      BY <1>0, <1>1, <3>1
  <2>2. ASSUME NEW h \in Gens, Write(h) PROVE \A g \in Gens : sent'[g] =< head'
    <3>1. \/ UNCHANGED sent
          \/ sent' = [sent EXCEPT ![h] = frame[h] + 1]
      BY <2>2 DEF Write
    <3>2. snd[h] = "write"
      BY <2>2 DEF Write, SenderAt
    <3> QED
      BY <1>0, <3>1, <3>2
  <2>3. \A h \in Gens : ProviderFinal(h) => UNCHANGED sent
    BY DEF ProviderFinal
  <2> QED
    BY <1>0, <2>1, <2>2, <2>3, WireAside
<1>6. sup'.resume =< head' /\ \A c \in Connectors : conn'[c].start =< head'
  <2>1. ASSUME NEW d \in Connectors,
               \/ ConnectCreate(d) \/ ConnectDial(d) \/ ConnectAdopt(d) \/ ConnectMark(d)
               \/ ConnectCloseGap(d) \/ ConnectFails(d)
        PROVE  /\ sup' \in {sup, IdleSupervisor}
               /\ \A c \in Connectors : conn'[c].start \in {conn[c].start, 0}
    <3>1. sup' \in {sup, IdleSupervisor}
      BY <2>1 DEF ConnectCreate, ConnectDial, ConnectAdopt, ConnectMark, ConnectCloseGap,
         ConnectFails
    <3>2. IdleConnect.start = 0
      BY DEF IdleConnect
    <3> QED
      BY <2>1, <3>1, <3>2, ConnSteps
  <2>2. CASE Supervise
    <3>1. failures # <<>> /\ UNCHANGED conn
      BY <2>2 DEF Supervise
    <3>2. Head(failures) = failures[1] /\ 1 \in DOMAIN failures
      BY <1>0, <3>1
    <3>3. sup'.resume \in {sup.resume, failures[1].resume, lastSent}
      BY <2>2, <3>2 DEF Supervise, Larger
    <3> QED
      BY <1>0, <1>1, <1>2, <1>3, <3>1, <3>2, <3>3
  <2>3. CASE CloseFailed
    <3>1. UNCHANGED conn /\ sup'.resume \in {sup.resume, 0}
      BY <1>0, <2>3 DEF CloseFailed, GiveUp, IdleSupervisor, Handling
    <3> QED
      BY <1>0, <1>1, <1>2, <3>1
  <2>4. CASE Backoff \/ NextAttempt
    <3>1. /\ \A c \in Connectors : conn'[c].start \in {conn[c].start, sup.resume, 0}
          /\ sup'.resume \in {sup.resume, 0}
      <4>1. IdleConnect.start = 0 /\ IdleSupervisor.resume = 0
        BY DEF IdleConnect, IdleSupervisor
      <4> QED
        BY <2>4, <4>1, SupSteps
    <3> QED
      BY <1>0, <1>1, <1>2, <3>1
  <2>5. CASE Retry
    <3>1. UNCHANGED sup /\ \A c \in Connectors : conn'[c].start \in {conn[c].start, lastSent}
      BY <1>0, <2>5 DEF Retry, IdleConnect, Connectors
    <3> QED
      BY <1>0, <1>1, <1>2, <3>1
  <2>6. IdleSupervisor.resume = 0
    BY DEF IdleSupervisor
  <2> QED
    BY <1>0, <1>1, <1>2, <2>1, <2>2, <2>3, <2>4, <2>5, <2>6, ConnAside
<1>7. \A i \in DOMAIN failures' : failures'[i].resume =< head'
  <2>1. ASSUME NEW f \in Failure, f.resume =< head, Report(f)
        PROVE  \A i \in DOMAIN failures' : failures'[i].resume =< head'
    <3> DEFINE report == IF f.gen = 0 THEN [f EXCEPT !.gen = gen] ELSE f
    <3>1. report.resume = f.resume /\ f.resume \in Nat
      BY DEF Failure
    <3>2. failures' \in {failures, Append(failures, report)}
      BY <2>1 DEF Report
    <3> HIDE DEF report
    <3>3. \A i \in DOMAIN failures' : (i \in DOMAIN failures /\ failures'[i] = failures[i]) \/ failures'[i] = report
      BY <1>0, <3>2
    <3> QED
      BY <1>0, <1>3, <2>1, <3>1, <3>3
  <2>2. CASE Frame
    BY <1>0, <1>3, <2>1, <2>2, Reports DEF Frame
  <2>3. ASSUME NEW c \in Connectors, ConnectFails(c)
        PROVE  \A i \in DOMAIN failures' : failures'[i].resume =< head'
    BY <1>0, <1>1, <2>1, <2>3, Reports DEF ConnectFails
  <2>4. ASSUME NEW g \in Gens, Write(g) \/ Read(g) \/ ReadClosed(g) \/ Submit(g)
        PROVE  \A i \in DOMAIN failures' : failures'[i].resume =< head'
    <3>0. UNCHANGED failures => \A i \in DOMAIN failures' : failures'[i].resume =< head'
      BY <1>0, <1>3
    <3>1. ASSUME Write(g) PROVE frame[g] + 1 \in Nat /\ frame[g] + 1 =< head
      BY <1>0, <3>1 DEF Write, SenderAt
    <3>2. CASE Write(g)
      BY <2>1, <3>0, <3>1, <3>2, Reports DEF Write
    <3>3. CASE Read(g) \/ ReadClosed(g) \/ Submit(g)
      <4>1. \A b \in BOOLEAN :
              /\ [gen |-> g, retry |-> b, resume |-> 0] \in Failure
              /\ [gen |-> g, retry |-> b, resume |-> 0].resume =< head
        <5>1. \A b \in BOOLEAN : [gen |-> g, retry |-> b, resume |-> 0] \in Failure
          BY Reports
        <5> QED
          BY <1>0, <5>1
      <4>2. \/ UNCHANGED failures
            \/ \E b \in BOOLEAN : Report([gen |-> g, retry |-> b, resume |-> 0])
        BY <3>3 DEF Read, ReadClosed, Submit
      <4> QED
        BY <2>1, <3>0, <4>1, <4>2
    <3> QED
      BY <2>4, <3>2, <3>3
  <2>5. CASE Supervise
    <3>1. failures # <<>> /\ failures' = Tail(failures)
      BY <2>5 DEF Supervise
    <3>2. \A i \in DOMAIN failures' : i + 1 \in DOMAIN failures /\ failures'[i] = failures[i + 1]
      BY <1>0, <3>1
    <3> QED
      BY <1>0, <1>3, <3>2
  <2>6. CASE CloseFailed \/ NextAttempt \/ Retry
    <3>1. UNCHANGED failures
      BY <2>6 DEF CloseFailed, NextAttempt, Retry
    <3> QED
      BY <1>0, <1>3, <3>1
  <2>7. CASE PersistFails
    BY <1>0, <2>1, <2>7, Reports DEF PersistFails
  <2>8. CASE UNCHANGED failures
    BY <1>0, <1>3, <2>8
  <2> QED
    BY <2>2, <2>3, <2>4, <2>5, <2>6, <2>7, <2>8, FailuresAside
<1> QED
  BY <1>0, <1>4, <1>5, <1>6, <1>7 DEF QueueFits

LEMMA GenGrows ==
  ASSUME TypeOK, Next
  PROVE  /\ gen \in Nat /\ gen' \in Nat
         /\ \/ gen' = gen /\ \A c \in Connectors : ~ConnectCreate(c)
            \/ gen' = gen + 1 /\ gen' \in Gens /\ \E c \in Connectors : ConnectCreate(c)
<1>1. gen \in Nat /\ MaxSessions \in Nat
  BY CapacityAssumption DEF TypeOK, CoordType, CapacityAssumption
<1>2. \A c \in Connectors : ConnectCreate(c) => gen' = gen + 1 /\ gen < MaxSessions
  BY DEF ConnectCreate
<1> QED
  BY <1>1, <1>2, GenAside DEF Gens

LEMMA RefsOf ==
  ASSUME TypeOK
  PROVE  /\ sup.gen # 0 => sup.gen \in Gens
         /\ current # 0 => current \in Gens
<1>1. MaxSessions \in Nat /\ gen \in 0 .. MaxSessions /\ current \in 0 .. gen /\ sup.gen \in 0 .. MaxSessions
  BY CapacityAssumption DEF TypeOK, CoordType, ConnectType, Handling, CapacityAssumption
<1> QED
  BY <1>1 DEF Gens

LEMMA UnbornKept ==
  ASSUME TypeOK, UnbornIdle, ResultsFit, Next
  PROVE  UnbornIdle'
<1>0. /\ link \in [Gens -> {"none", "open", "ending", "gone"}]
      /\ start \in [Gens -> Nat] /\ sent \in [Gens -> Nat] /\ told \in [Gens -> Nat]
      /\ snd \in [Gens -> {"none", "take", "wait", "write", "advance", "done"}]
      /\ rd \in [Gens -> {"none", "started", "read", "submit", "done"}]
      /\ row \in [Gens -> {"none", "connecting", "streaming", "failed", "stopped"}]
      /\ rowSent \in [Gens -> Nat] /\ rowFinal \in [Gens -> Nat]
      /\ conn \in [Connectors -> Connection] /\ sup \in Handling
      /\ current \in 0 .. gen /\ finals \in Seq(Event)
  BY DEF TypeOK, WireType, SessionType, DatabaseType, ConnectType, CoordType
<1>1. /\ gen \in Nat /\ gen' \in Nat /\ gen =< gen'
      /\ \A c \in Connectors : ConnectCreate(c) => gen' = gen + 1 /\ gen' \in Gens
  BY GenGrows
<1>2. \A g \in Gens : g \in Nat
  BY GensOf
<1>3. ASSUME NEW g \in Gens, g > gen'
      PROVE  /\ link'[g] = "none" /\ snd'[g] = "none" /\ rd'[g] = "none" /\ row'[g] = "none"
             /\ start'[g] = 0 /\ sent'[g] = 0 /\ told'[g] = 0
             /\ rowSent'[g] = 0 /\ rowFinal'[g] = 0
  <2>0. /\ link[g] = "none" /\ snd[g] = "none" /\ rd[g] = "none" /\ row[g] = "none"
        /\ start[g] = 0 /\ sent[g] = 0 /\ told[g] = 0 /\ rowSent[g] = 0 /\ rowFinal[g] = 0
        /\ g > gen
    BY <1>1, <1>2, <1>3 DEF UnbornIdle
  <2>c. \A c \in Connectors : conn[c].gen \in Int /\ conn[c].gen # g
    <3>1. ASSUME NEW c \in Connectors PROVE conn[c].gen \in Int /\ conn[c].gen # g
      <4>1. conn[c].gen \in Int /\ conn[c].gen =< gen
        BY <1>0, CapacityAssumption DEF UnbornIdle, Connection, CapacityAssumption
      <4> QED
        BY <1>1, <1>2, <2>0, <4>1
    <3> QED
      BY <3>1
  <2>s. sup.gen # g /\ current # g /\ (stopPc \in {"sender", "remote", "answer"} => stopOf # g)
    <3>1. sup.gen \in Int /\ sup.gen =< gen
      BY <1>0, CapacityAssumption DEF UnbornIdle, Handling, CapacityAssumption
    <3> QED
      BY <1>0, <1>1, <1>2, <2>0, <3>1 DEF UnbornIdle
  <2>1. link'[g] = "none"
    <3>1. \A c \in Connectors : ConnectDial(c) \/ ConnectAdopt(c) \/ ConnectCloseGap(c)
              => link' \in {link, [link EXCEPT ![conn[c].gen] = "open"], [link EXCEPT ![conn[c].gen] = "gone"]}
      BY DEF ConnectDial, ConnectAdopt, ConnectCloseGap
    <3>2. CloseFailed => link' \in {link, [link EXCEPT ![sup.gen] = "gone"]}
      BY DEF CloseFailed
    <3>3. \A h \in Gens : \/ Write(h) \/ ProviderFinal(h) \/ ProviderConflict(h) \/ ProviderBreaks(h)
                          \/ ProviderEnds(h)
              => link' = link \/ (link' = [link EXCEPT ![h] = "gone"] /\ link[h] # "none")
      BY DEF Write, Writable, ProviderFinal, ProviderConflict, ProviderBreaks, ProviderEnds,
         Publish, Connected
    <3>4. StopRemote => link' \in {link, [link EXCEPT ![stopOf] = "ending"]} /\ stopPc = "remote"
      BY DEF StopRemote, StopAt
    <3> QED
      BY <1>0, <2>0, <2>c, <2>s, <3>1, <3>2, <3>3, <3>4, LinkAside
  <2>2. snd'[g] = "none"
    <3>1. \A c \in Connectors : ConnectCloseGap(c) => snd' \in {snd, [snd EXCEPT ![conn[c].gen] = "take"]}
      BY DEF ConnectCloseGap
    <3>2. \A h \in Gens : Take(h) \/ Woken(h) \/ Write(h) \/ Advance(h)
              => snd[h] # "none" /\ \E p \in {"take", "wait", "write", "advance", "done"} : snd' = [snd EXCEPT ![h] = p]
      BY DEF Take, Woken, Write, Advance, SenderAt
    <3> QED
      BY <1>0, <2>0, <2>c, <3>1, <3>2, SenderAside
  <2>3. rd'[g] = "none"
    <3>1. \A c \in Connectors : ConnectCloseGap(c) => rd' \in {rd, [rd EXCEPT ![conn[c].gen] = "started"]}
      BY DEF ConnectCloseGap
    <3>2. \A h \in Gens : ReadStarted(h) \/ Read(h) \/ ReadClosed(h) \/ Submit(h)
              => rd[h] # "none" /\ \E p \in {"read", "submit", "done"} : rd' = [rd EXCEPT ![h] = p]
      BY DEF ReadStarted, Read, ReadClosed, Submit, ReaderAt
    <3>3. \A h \in Gens : ProviderFinal(h) \/ ProviderConflict(h) \/ ProviderBreaks(h) => UNCHANGED rd
      BY DEF ProviderFinal, ProviderConflict, ProviderBreaks, reader
    <3> QED
      BY <1>0, <2>0, <2>c, <3>1, <3>2, <3>3, ReaderAside
  <2>4. row'[g] = "none"
    <3>1. \A c \in Connectors : ConnectCreate(c) => row' \in {row, [row EXCEPT ![gen + 1] = "connecting"]} /\ gen' = gen + 1
      BY DEF ConnectCreate
    <3>2. \A c \in Connectors :
             /\ ConnectDial(c) => row' \in {row, [row EXCEPT ![conn[c].gen] = "failed"]}
             /\ ConnectMark(c) => row' \in {row, [row EXCEPT ![conn[c].gen] = "streaming"]}
      BY DEF ConnectDial, ConnectMark, MarkStreaming
    <3>3. \A h \in Gens : ReadStarted(h) => rd[h] # "none" /\ row' \in {row, [row EXCEPT ![h] = "streaming"]}
      BY DEF ReadStarted, MarkStreaming, ReaderAt
    <3>4. CloseFailed => row' \in {row, [row EXCEPT ![sup.gen] = "failed"]}
      BY DEF CloseFailed
    <3>5. StopFinish => row' \in {row, [row EXCEPT ![current] = "stopped"]}
      BY DEF StopFinish
    <3>6. RecoverSessions => row'[g] = "none"
      BY <1>0, <2>0 DEF RecoverSessions
    <3>7. ASSUME NEW c \in Connectors, ConnectCreate(c) PROVE row'[g] = row[g]
      <4>1. g # gen + 1
        BY <1>1, <1>2, <1>3, <3>1, <3>7
      <4> QED
        BY <1>0, <3>1, <3>7, <4>1
    <3> QED
      BY <1>0, <2>0, <2>c, <2>s, <3>2, <3>3, <3>4, <3>5, <3>6, <3>7, RowAside
  <2>5. start'[g] = 0 /\ sent'[g] = 0 /\ told'[g] = 0
    <3>1. \A c \in Connectors : ConnectCreate(c) =>
             /\ start' = [start EXCEPT ![gen + 1] = conn[c].start]
             /\ sent' = [sent EXCEPT ![gen + 1] = conn[c].start]
             /\ told' = [told EXCEPT ![gen + 1] = conn[c].start]
             /\ gen' = gen + 1
      BY DEF ConnectCreate
    <3>2. \A h \in Gens : Write(h) =>
             /\ UNCHANGED <<start, told>> /\ sent' \in {sent, [sent EXCEPT ![h] = frame[h] + 1]}
             /\ snd[h] # "none"
      BY DEF Write, SenderAt
    <3>3. \A h \in Gens : ProviderFinal(h) =>
             /\ UNCHANGED <<start, sent>> /\ link[h] # "none"
             /\ \E to \in Int : told' = [told EXCEPT ![h] = to]
      <4>1. ASSUME NEW h \in Gens, ProviderFinal(h)
            PROVE  \E to \in Int : told' = [told EXCEPT ![h] = to]
        <5>1. PICK to \in told[h] + 1 .. sent[h] : told' = [told EXCEPT ![h] = to]
          BY <4>1 DEF ProviderFinal
        <5>2. told[h] + 1 \in Int /\ sent[h] \in Int
          BY <1>0
        <5>3. to \in Int
          BY <5>2
        <5> QED
          BY <5>1, <5>3, Zenon
      <4> QED
        BY <1>0, <4>1 DEF ProviderFinal, Connected
    <3> QED
      BY <1>0, <1>1, <1>2, <1>3, <2>0, <3>1, <3>2, <3>3, WireAside
  <2>6. rowSent'[g] = 0 /\ rowFinal'[g] = 0
    <3>1. \A c \in Connectors : ConnectCreate(c) =>
             /\ rowSent' \in {rowSent, [rowSent EXCEPT ![gen + 1] = conn[c].start]}
             /\ rowFinal' \in {rowFinal, [rowFinal EXCEPT ![gen + 1] = conn[c].start]}
             /\ gen' = gen + 1
      BY DEF ConnectCreate
    <3>2. \A h \in Gens : Advance(h) =>
             /\ rowSent' \in {rowSent, [rowSent EXCEPT ![h] = sent[h]]} /\ UNCHANGED rowFinal
             /\ snd[h] # "none"
      BY DEF Advance, SaveSent, SenderAt
    <3>3. Persist => /\ Head(finals) \in Pending
                     /\ rowSent' = [rowSent EXCEPT ![Head(finals).gen] = Head(finals).last]
                     /\ rowFinal' = [rowFinal EXCEPT ![Head(finals).gen] = Head(finals).to]
      <4>1. finals # <<>> => Head(finals) = finals[1] /\ 1 \in DOMAIN finals
        BY <1>0
      <4> QED
        BY <4>1 DEF Persist, Pending
    <3>4. StopAnswered => /\ rowSent' \in {rowSent, [rowSent EXCEPT ![stopOf] = sent[stopOf]]}
                          /\ UNCHANGED rowFinal /\ stopPc = "answer"
      BY DEF StopAnswered, SaveSent, StopAt
    <3>5. Persist => Head(finals).gen # g
      BY <1>1, <1>2, <2>0, <3>3 DEF ResultsFit
    <3>6. ASSUME NEW c \in Connectors, ConnectCreate(c)
          PROVE  rowSent'[g] = rowSent[g] /\ rowFinal'[g] = rowFinal[g]
      <4>1. g # gen + 1
        BY <1>1, <1>2, <1>3, <3>1, <3>6
      <4> QED
        BY <1>0, <3>1, <3>6, <4>1
    <3>7. \A h \in Gens : Advance(h) => rowSent'[g] = rowSent[g] /\ rowFinal'[g] = rowFinal[g]
      BY <1>0, <2>0, <3>2
    <3>8. Persist \/ StopAnswered => rowSent'[g] = rowSent[g] /\ rowFinal'[g] = rowFinal[g]
      BY <1>0, <2>s, <3>3, <3>4, <3>5
    <3> QED
      BY <2>0, <3>6, <3>7, <3>8, RowsAside
  <2> QED
    BY <2>1, <2>2, <2>3, <2>4, <2>5, <2>6
<1>4. ASSUME NEW c \in Connectors
      PROVE  /\ conn'[c].gen =< gen'
             /\ conn'[c].pc \in {"dial", "adopt", "mark", "close"} => conn'[c].gen \in Gens
  <2>0. /\ conn[c].gen \in Int /\ conn[c].gen =< gen
        /\ conn[c].pc \in {"dial", "adopt", "mark", "close"} => conn[c].gen \in Gens
    BY <1>0, CapacityAssumption DEF UnbornIdle, Connection, CapacityAssumption
  <2>i. IdleConnect.gen = 0 /\ IdleConnect.pc = "idle"
    BY DEF IdleConnect
  <2>1. CASE conn'[c] = conn[c]
    BY <1>1, <2>0, <2>1
  <2>2. ASSUME NEW d \in Connectors,
               \/ ConnectCreate(d) \/ ConnectDial(d) \/ ConnectAdopt(d) \/ ConnectMark(d)
               \/ ConnectCloseGap(d) \/ ConnectFails(d)
        PROVE  /\ conn'[c].gen =< gen'
               /\ conn'[c].pc \in {"dial", "adopt", "mark", "close"} => conn'[c].gen \in Gens
    <3>1. ConnectDial(d) => conn[d].pc = "dial"
      BY DEF ConnectDial, At
    <3>2. ConnectAdopt(d) => conn[d].pc = "adopt"
      BY DEF ConnectAdopt, At
    <3>3. ConnectMark(d) => conn[d].pc = "mark"
      BY DEF ConnectMark, At
    <3>4. ConnectCloseGap(d) => conn[d].pc = "close"
      BY DEF ConnectCloseGap, At
    <3> QED
      BY <1>1, <2>0, <2>i, <2>1, <2>2, <3>1, <3>2, <3>3, <3>4, ConnSteps
  <2>3. CASE Backoff \/ NextAttempt \/ Retry
    <3>1. \/ conn'[c] = conn[c]
          \/ conn'[c] = IdleConnect
          \/ conn'[c].gen = 0 /\ conn'[c].pc = "create"
      <4>1. LET r == [IdleConnect EXCEPT !.pc = "create", !.start = lastSent]
            IN  r.gen = 0 /\ r.pc = "create"
        BY DEF IdleConnect
      <4>2. CASE Backoff
        BY <4>2, SupSteps
      <4>3. CASE NextAttempt
        BY <4>3, SupSteps
      <4>4. CASE Retry
        BY <4>1, <4>4, SupSteps
      <4> QED
        BY <2>3, <4>2, <4>3, <4>4
    <3> QED
      BY <1>1, <2>i, <2>1, <3>1
  <2>4. Supervise \/ CloseFailed => UNCHANGED conn
    BY DEF Supervise, CloseFailed
  <2> QED
    BY <2>1, <2>2, <2>3, <2>4, ConnAside
<1>5. sup'.gen =< gen' /\ (sup'.pc \in {"backoff", "connect"} => sup'.attempt < Budget)
  <2>0. /\ sup.gen \in Int /\ sup.gen =< gen /\ IdleSupervisor.gen = 0 /\ IdleSupervisor.pc = "idle"
        /\ sup.pc \in {"backoff", "connect"} => sup.attempt < Budget
    BY <1>0, CapacityAssumption DEF UnbornIdle, Handling, IdleSupervisor, CapacityAssumption
  <2>1. CASE sup' \in {sup, IdleSupervisor}
    BY <1>1, <2>0, <2>1
  <2>2. CASE Supervise \/ CloseFailed \/ Backoff \/ NextAttempt \/ Retry
    <3>1. \/ sup' \in {sup, IdleSupervisor}
          \/ sup'.gen = current /\ sup'.pc = "close"
          \/ /\ sup'.gen = sup.gen /\ sup'.attempt = sup.attempt
             /\ sup.attempt < Budget \/ sup.pc = "backoff"
          \/ sup'.gen = sup.gen /\ sup'.attempt = Attempts /\ Attempts < Budget
      <4>1. Backoff => sup.pc = "backoff"
        BY DEF Backoff
      <4> QED
        BY <2>2, <4>1, SupSteps
    <3> QED
      BY <1>0, <1>1, <2>0, <2>1, <3>1
  <2>6. ASSUME NEW c \in Connectors,
               \/ ConnectCreate(c) \/ ConnectDial(c) \/ ConnectAdopt(c) \/ ConnectMark(c)
               \/ ConnectCloseGap(c) \/ ConnectFails(c)
        PROVE  sup' \in {sup, IdleSupervisor}
    BY <2>6 DEF ConnectCreate, ConnectDial, ConnectAdopt, ConnectMark, ConnectCloseGap, ConnectFails
  <2> QED
    BY <2>1, <2>2, <2>6, ConnAside
<1>6. stopPc' \in {"sender", "remote", "answer"} => stopOf' \in Gens /\ stopOf' =< gen'
  <2>1. current # 0 => current \in Gens
    BY <1>0, <1>1, CapacityAssumption DEF TypeOK, CoordType, Gens, CapacityAssumption
  <2>2. StopCall => stopOf' = current /\ (stopPc' # "drain" => current # 0)
    BY DEF StopCall
  <2>3. StopSender \/ StopRemote => UNCHANGED stopOf /\ stopPc \in {"sender", "remote"}
    BY DEF StopSender, StopRemote, StopAt
  <2>4. StopAgain \/ StopAnswered \/ StopDrain \/ StopFinals \/ StopGap \/ StopFinish
          => stopPc' \notin {"sender", "remote", "answer"}
    BY DEF StopAgain, StopAnswered, StopDrain, StopFinals, StopGap, StopFinish
  <2>5. stopPc \in {"sender", "remote", "answer"} => stopOf \in Gens /\ stopOf =< gen'
    BY <1>1, <1>2 DEF UnbornIdle
  <2>6. StopCall => stopPc' \in {"drain", "sender"}
    BY DEF StopCall
  <2> QED
    BY <1>0, <1>1, <2>1, <2>2, <2>3, <2>4, <2>5, <2>6, StopAside
<1> QED
  BY <1>3, <1>4, <1>5, <1>6 DEF UnbornIdle

-----------------------------------------------------------------------------
(* What was sent, and what the rows and the results say of it.             *)

LEMMA EventOf ==
  ASSUME NEW e \in Event
  PROVE  e.gen \in Gens /\ e.from \in Nat /\ e.to \in Nat /\ e.last \in Nat
BY DEF Event

LEMMA PendingTyped ==
  ASSUME TypeOK
  PROVE  /\ Pending \subseteq Event
         /\ finals # <<>> => Head(finals) \in Pending
         /\ \A g \in Gens : events[g] # <<>> => Head(events[g]) \in Pending
         /\ \A g \in Gens : rd[g] = "submit" => got[g] \in Pending
<1>0. /\ finals \in Seq(Event) /\ got \in [Gens -> Event] /\ events \in [Gens -> Seq(Event)]
  BY DEF TypeOK, SessionType, WireType
<1>1. \A i \in DOMAIN finals : finals[i] \in Event
  BY <1>0
<1>2. \A g \in Gens : \A i \in DOMAIN events[g] : events[g][i] \in Event
  BY <1>0
<1>3. finals # <<>> => Head(finals) = finals[1] /\ 1 \in DOMAIN finals
  BY <1>0
<1>4. \A g \in Gens : events[g] # <<>> => Head(events[g]) = events[g][1] /\ 1 \in DOMAIN events[g]
  BY <1>0
<1> QED
  BY <1>0, <1>1, <1>2, <1>3, <1>4 DEF Pending

(* The results that a step adds to those on their way. *)
LEMMA PendingSteps ==
  ASSUME TypeOK, Next
  PROVE  \/ Pending' \subseteq Pending
         \/ \E g \in Gens :
              /\ Connected(g)
              /\ \/ /\ ProviderFinal(g)
                    /\ \E to \in told[g] + 1 .. sent[g] :
                          /\ told' = [told EXCEPT ![g] = to]
                          /\ Pending' \subseteq Pending \cup
                                {[kind |-> "final", gen |-> g, from |-> told[g], to |-> to,
                                  last |-> sent[g]]}
                 \/ /\ ProviderConflict(g)
                    /\ \E u \in utterances :
                          /\ u[1] = g
                          /\ Pending' \subseteq Pending \cup
                                {[kind |-> "conflict", gen |-> g, from |-> u[2], to |-> u[3],
                                  last |-> sent[g]]}
                 \/ /\ ProviderBreaks(g)
                    /\ Pending' \subseteq Pending \cup {[NoEvent EXCEPT !.gen = g]}
<1>0. /\ finals \in Seq(Event) /\ got \in [Gens -> Event] /\ events \in [Gens -> Seq(Event)]
      /\ rd \in [Gens -> {"none", "started", "read", "submit", "done"}]
  BY DEF TypeOK, SessionType, WireType
<1>1. ASSUME NEW g \in Gens, NEW e, Publish(g, e) \/ events' = [events EXCEPT ![g] = Append(@, e)] \/ UNCHANGED events,
             UNCHANGED <<rd, got, finals>>, e \in Event
      PROVE  Pending' \subseteq Pending \cup {e}
  <2>1. CASE events' = events
    BY <1>1, <2>1 DEF Pending
  <2>2. CASE events' = [events EXCEPT ![g] = Append(events[g], e)]
    <3>1. \A i \in DOMAIN Append(events[g], e) :
             Append(events[g], e)[i] = e \/ (i \in DOMAIN events[g] /\ Append(events[g], e)[i] = events[g][i])
      BY <1>0, <1>1
    <3>2. \A h \in Gens : \A i \in DOMAIN events'[h] :
             events'[h][i] = e \/ (i \in DOMAIN events[h] /\ events'[h][i] = events[h][i])
      BY <1>0, <2>2, <3>1
    <3> QED
      BY <1>1, <3>2 DEF Pending
  <2> QED
    BY <1>1, <2>1, <2>2 DEF Publish
<1>2. ASSUME NEW g \in Gens, ProviderFinal(g)
      PROVE  /\ Connected(g)
             /\ \E to \in told[g] + 1 .. sent[g] :
                   /\ told' = [told EXCEPT ![g] = to]
                   /\ Pending' \subseteq Pending \cup
                         {[kind |-> "final", gen |-> g, from |-> told[g], to |-> to,
                           last |-> sent[g]]}
  <2>1. PICK to \in told[g] + 1 .. sent[g] :
           /\ told' = [told EXCEPT ![g] = to]
           /\ Publish(g, [kind |-> "final", gen |-> g, from |-> told[g], to |-> to, last |-> sent[g]])
    BY <1>2 DEF ProviderFinal
  <2>2. told[g] \in Nat /\ sent[g] \in Nat /\ to \in Nat
    BY DEF TypeOK, WireType
  <2>3. [kind |-> "final", gen |-> g, from |-> told[g], to |-> to, last |-> sent[g]] \in Event
    BY <2>2 DEF Event
  <2>4. UNCHANGED <<rd, got, finals>>
    BY <1>2 DEF ProviderFinal, reader, final
  <2>5. Pending' \subseteq Pending \cup
          {[kind |-> "final", gen |-> g, from |-> told[g], to |-> to, last |-> sent[g]]}
    BY <1>1, <2>1, <2>3, <2>4
  <2> QED
    BY <1>2, <2>1, <2>5 DEF ProviderFinal
<1>3. ASSUME NEW g \in Gens, ProviderConflict(g)
      PROVE  /\ Connected(g)
             /\ \E u \in utterances :
                   /\ u[1] = g
                   /\ Pending' \subseteq Pending \cup
                         {[kind |-> "conflict", gen |-> g, from |-> u[2], to |-> u[3],
                           last |-> sent[g]]}
  <2>1. PICK u \in utterances :
           /\ u[1] = g
           /\ Publish(g, [kind |-> "conflict", gen |-> g, from |-> u[2], to |-> u[3], last |-> sent[g]])
    BY <1>3 DEF ProviderConflict
  <2>2. u[2] \in Nat /\ u[3] \in Nat /\ sent[g] \in Nat
    BY DEF TypeOK, WireType, DatabaseType
  <2>3. [kind |-> "conflict", gen |-> g, from |-> u[2], to |-> u[3], last |-> sent[g]] \in Event
    BY <2>2 DEF Event
  <2>4. UNCHANGED <<rd, got, finals>>
    BY <1>3 DEF ProviderConflict, reader, final
  <2>5. Pending' \subseteq Pending \cup
          {[kind |-> "conflict", gen |-> g, from |-> u[2], to |-> u[3], last |-> sent[g]]}
    BY <1>1, <2>1, <2>3, <2>4
  <2> QED
    BY <1>3, <2>1, <2>5 DEF ProviderConflict
<1>4. ASSUME NEW g \in Gens, ProviderBreaks(g)
      PROVE  Connected(g) /\ Pending' \subseteq Pending \cup {[NoEvent EXCEPT !.gen = g]}
  <2>1. /\ UNCHANGED <<rd, got, finals>> /\ Connected(g)
        /\ UNCHANGED events \/ events' = [events EXCEPT ![g] = Append(@, [NoEvent EXCEPT !.gen = g])]
    BY <1>4 DEF ProviderBreaks, reader, final
  <2> QED
    BY <1>1, <2>1, GensOf
<1>5. ASSUME NEW g \in Gens, ReadStarted(g) \/ ReadClosed(g)
      PROVE  Pending' \subseteq Pending
  <2>1. UNCHANGED <<events, finals, got>> /\ rd' = [rd EXCEPT ![g] = rd'[g]] /\ rd'[g] # "submit"
    BY <1>0, <1>5 DEF ReadStarted, ReadClosed, wire, final
  <2> QED
    BY <1>0, <2>1 DEF Pending
<1>6. ASSUME NEW g \in Gens, Read(g)
      PROVE  Pending' \subseteq Pending
  <2>1. /\ events[g] # <<>> /\ events' = [events EXCEPT ![g] = Tail(events[g])] /\ UNCHANGED finals
        /\ \/ rd' = [rd EXCEPT ![g] = "done"] /\ UNCHANGED got
           \/ rd' = [rd EXCEPT ![g] = "submit"] /\ got' = [got EXCEPT ![g] = Head(events[g])]
    BY <1>6 DEF Read, final
  <2>2. \A i \in DOMAIN Tail(events[g]) : i + 1 \in DOMAIN events[g] /\ Tail(events[g])[i] = events[g][i + 1]
    BY <1>0, <2>1
  <2>3. \A h \in Gens : \A i \in DOMAIN events'[h] : \E j \in DOMAIN events[h] : events'[h][i] = events[h][j]
    BY <1>0, <2>1, <2>2
  <2>4. \A h \in Gens : rd'[h] = "submit" => got'[h] \in Pending
    BY <1>0, <2>1, PendingTyped
  <2>5. \A h \in Gens : \A j \in DOMAIN events[h] : events[h][j] \in Pending
    BY DEF Pending
  <2>6. \A h \in Gens : \A i \in DOMAIN events'[h] : events'[h][i] \in Pending
    BY <2>3, <2>5
  <2>7. \A i \in DOMAIN finals' : finals'[i] \in Pending
    BY <2>1 DEF Pending
  <2> QED
    BY <2>4, <2>6, <2>7 DEF Pending
<1>7. ASSUME NEW g \in Gens, Submit(g)
      PROVE  Pending' \subseteq Pending
  <2>1. /\ rd[g] = "submit" /\ UNCHANGED events
        /\ finals' = finals \/ finals' = Append(finals, got[g])
        /\ rd' = [rd EXCEPT ![g] = "read"] \/ rd' = [rd EXCEPT ![g] = "done"]
        /\ got' = [got EXCEPT ![g] = NoEvent]
    BY <1>7 DEF Submit, ReaderAt, wire
  <2>2. \A i \in DOMAIN finals' : (i \in DOMAIN finals /\ finals'[i] = finals[i]) \/ finals'[i] = got[g]
    <3>1. CASE finals' = finals
      BY <3>1
    <3>2. CASE finals' = Append(finals, got[g])
      <4>1. got[g] \in Event
        BY <1>0
      <4> QED
        BY <1>0, <3>2, <4>1
    <3> QED
      BY <2>1, <3>1, <3>2
  <2>3. \A i \in DOMAIN finals' : finals'[i] \in Pending
    BY <2>1, <2>2 DEF Pending
  <2>4. \A h \in Gens : rd'[h] = "submit" => rd[h] = "submit" /\ got'[h] = got[h]
    BY <1>0, <2>1
  <2> QED
    BY <2>1, <2>3, <2>4 DEF Pending
<1>8. ASSUME Persist \/ PersistFails
      PROVE  Pending' \subseteq Pending
  <2>1. finals # <<>> /\ finals' = Tail(finals) /\ UNCHANGED <<events, rd, got>>
    BY <1>8 DEF Persist, PersistFails, wire, reader
  <2>2. \A i \in DOMAIN finals' : i + 1 \in DOMAIN finals /\ finals'[i] = finals[i + 1]
    BY <1>0, <2>1
  <2> QED
    BY <2>1, <2>2 DEF Pending
<1>9. ASSUME NEW c \in Connectors, ConnectCloseGap(c)
      PROVE  Pending' \subseteq Pending
  <2>1. UNCHANGED <<events, finals, got>> /\ (rd' = rd \/ rd' = [rd EXCEPT ![conn[c].gen] = "started"])
    BY <1>9 DEF ConnectCloseGap, final
  <2>2. \A h \in Gens : rd'[h] = "submit" => rd[h] = "submit"
    BY <1>0, <2>1
  <2> QED
    BY <2>1, <2>2 DEF Pending
<1>10. CASE UNCHANGED <<events, rd, got, finals>>
  BY <1>10 DEF Pending
<1>11. StopDrain => UNCHANGED finals
  BY DEF StopDrain
<1>12. \/ UNCHANGED <<events, rd, got>>
       \/ \E c \in Connectors : ConnectCloseGap(c)
       \/ \E g \in Gens :
              \/ ProviderFinal(g) \/ ProviderConflict(g) \/ ProviderBreaks(g)
              \/ ReadStarted(g) \/ Read(g) \/ ReadClosed(g) \/ Submit(g)
  BY ReaderAside
<1>13. \/ UNCHANGED finals
       \/ \E g \in Gens : Submit(g)
       \/ Persist \/ PersistFails
  BY <1>11, FinalsAside
<1> QED
  BY <1>2, <1>3, <1>4, <1>5, <1>6, <1>7, <1>8, <1>9, <1>10, <1>12, <1>13

LEMMA ToldGrows ==
  ASSUME TypeOK, UnbornIdle, NEW g \in Gens, g =< gen, Next
  PROVE  told[g] =< told'[g] /\ told[g] \in Nat
<1>0. /\ told \in [Gens -> Nat] /\ sent \in [Gens -> Nat] /\ gen \in Nat /\ g \in Nat
  BY GensOf, GenGrows DEF TypeOK, WireType
<1>1. ASSUME NEW c \in Connectors, ConnectCreate(c) PROVE told'[g] = told[g]
  <2>1. told' = [told EXCEPT ![gen + 1] = conn[c].start] /\ g # gen + 1
    BY <1>0, <1>1 DEF ConnectCreate
  <2> QED
    BY <1>0, <2>1
<1>2. ASSUME NEW h \in Gens, ProviderFinal(h) PROVE told[g] =< told'[g]
  <2>1. PICK to \in told[h] + 1 .. sent[h] : told' = [told EXCEPT ![h] = to]
    BY <1>2 DEF ProviderFinal
  <2> QED
    BY <1>0, <2>1
<1>3. \A h \in Gens : Write(h) => UNCHANGED told
  BY DEF Write
<1> QED
  BY <1>0, <1>1, <1>2, <1>3, WireAside

(* What the row of a session that exists may become. *)
LEMMA RowSteps ==
  ASSUME TypeOK, TypeOK', UnbornIdle, ResultsFit, WireFits, NEW g \in Gens, g =< gen, Next
  PROVE  /\ rowSent'[g] \in Nat /\ rowFinal'[g] \in Nat
         /\ \/ rowSent'[g] = rowSent[g] /\ rowFinal'[g] = rowFinal[g]
            \/ rowSent'[g] = sent[g] /\ rowFinal'[g] = rowFinal[g]
            \/ /\ Persist /\ Head(finals).gen = g /\ Head(finals) \in Pending
               /\ rowSent'[g] = Head(finals).last /\ rowFinal'[g] = Head(finals).to
               /\ rowFinal[g] =< rowFinal'[g] /\ Head(finals).kind = "final"
<1>0. /\ rowSent \in [Gens -> Nat] /\ rowFinal \in [Gens -> Nat] /\ sent \in [Gens -> Nat]
      /\ gen \in Nat /\ g \in Nat /\ finals \in Seq(Event)
  BY GensOf, GenGrows DEF TypeOK, WireType, DatabaseType, SessionType
<1>1. ASSUME NEW c \in Connectors, ConnectCreate(c)
      PROVE  rowSent'[g] = rowSent[g] /\ rowFinal'[g] = rowFinal[g]
  <2>1. g # gen + 1
    BY <1>0
  <2>2. /\ rowSent' \in {rowSent, [rowSent EXCEPT ![gen + 1] = conn[c].start]}
        /\ rowFinal' \in {rowFinal, [rowFinal EXCEPT ![gen + 1] = conn[c].start]}
    BY <1>1 DEF ConnectCreate
  <2> QED
    BY <1>0, <2>1, <2>2
<1>2. ASSUME NEW h \in Gens, rowSent' \in {rowSent, [rowSent EXCEPT ![h] = sent[h]]}, UNCHANGED rowFinal
      PROVE  /\ rowSent'[g] \in {rowSent[g], sent[g]} /\ rowFinal'[g] = rowFinal[g]
  BY <1>0, <1>2
<1>3. \A h \in Gens : Advance(h) => rowSent' \in {rowSent, [rowSent EXCEPT ![h] = sent[h]]} /\ UNCHANGED rowFinal
  BY DEF Advance, SaveSent
<1>4. StopAnswered => /\ rowSent' \in {rowSent, [rowSent EXCEPT ![stopOf] = sent[stopOf]]}
                      /\ UNCHANGED rowFinal /\ stopOf \in Gens
  BY DEF StopAnswered, SaveSent, StopAt, UnbornIdle
<1>5. ASSUME Persist
      PROVE  \/ rowSent'[g] = rowSent[g] /\ rowFinal'[g] = rowFinal[g]
             \/ /\ Persist /\ Head(finals).gen = g /\ Head(finals) \in Pending
                /\ rowSent'[g] = Head(finals).last /\ rowFinal'[g] = Head(finals).to
                /\ rowFinal[g] =< rowFinal'[g] /\ Head(finals).kind = "final"
  <2>1. /\ Head(finals) \in Pending /\ Persistable(Head(finals))
        /\ rowSent' = [rowSent EXCEPT ![Head(finals).gen] = Head(finals).last]
        /\ rowFinal' = [rowFinal EXCEPT ![Head(finals).gen] = Head(finals).to]
    BY <1>5, PendingTyped DEF Persist
  <2> QED
    BY <1>0, <1>5, <2>1 DEF Persistable
<1>6. rowSent'[g] \in Nat /\ rowFinal'[g] \in Nat
  BY DEF TypeOK, DatabaseType
<1> QED
  BY <1>1, <1>2, <1>3, <1>4, <1>5, <1>6, RowsAside

LEMMA HasRowKept ==
  ASSUME TypeOK, UnbornIdle, UnbornIdle', HasRow, Next
  PROVE  HasRow'
<1>0. /\ row \in [Gens -> {"none", "connecting", "streaming", "failed", "stopped"}]
      /\ conn \in [Connectors -> Connection] /\ current \in 0 .. gen /\ gen \in 0 .. MaxSessions
      /\ gen \in Nat
  BY GenGrows DEF TypeOK, DatabaseType, ConnectType, CoordType
<1>1. /\ current # 0 => current \in Gens
      /\ sup.gen # 0 => sup.gen \in Gens
  BY RefsOf
<1>2. ASSUME NEW g \in Gens, row[g] # "none" PROVE row'[g] # "none"
  <2>1. \A c \in Connectors :
           /\ ConnectCreate(c) => row' \in {row, [row EXCEPT ![gen + 1] = "connecting"]}
           /\ ConnectDial(c) => row' \in {row, [row EXCEPT ![conn[c].gen] = "failed"]}
           /\ ConnectMark(c) => row' \in {row, [row EXCEPT ![conn[c].gen] = "streaming"]}
    BY DEF ConnectCreate, ConnectDial, ConnectMark, MarkStreaming
  <2>2. \A h \in Gens : ReadStarted(h) => row' \in {row, [row EXCEPT ![h] = "streaming"]}
    BY DEF ReadStarted, MarkStreaming
  <2>3. /\ CloseFailed => row' \in {row, [row EXCEPT ![sup.gen] = "failed"]}
        /\ StopFinish => row' \in {row, [row EXCEPT ![current] = "stopped"]}
    BY DEF CloseFailed, StopFinish
  <2>4. RecoverSessions => row'[g] # "none"
    BY <1>0, <1>2 DEF RecoverSessions
  <2> QED
    BY <1>0, <1>2, <2>1, <2>2, <2>3, <2>4, RowAside
<1>3. ASSUME NEW c \in Connectors, conn'[c].pc \in {"dial", "adopt", "mark", "close"}
      PROVE  row'[conn'[c].gen] # "none"
  <2>1. CASE conn'[c] = conn[c]
    BY <1>2, <1>3, <2>1 DEF HasRow, UnbornIdle
  <2>2. CASE ConnectCreate(c)
    <3>1. conn'[c].pc = "dial" => row' = [row EXCEPT ![gen + 1] = "connecting"]
      <4>1. conn' \in {[conn EXCEPT ![c].pc = "dial", ![c].gen = gen + 1],
                       [conn EXCEPT ![c].pc = "failed", ![c].gen = gen + 1]}
        BY <2>2 DEF ConnectCreate
      <4>2. CASE conn' = [conn EXCEPT ![c].pc = "failed", ![c].gen = gen + 1]
        <5>1. conn' = [conn EXCEPT ![c] = [conn[c] EXCEPT !.pc = "failed", !.gen = gen + 1]]
          BY <1>0, <4>2
        <5> QED
          BY <1>0, <5>1 DEF Connection
      <4>3. CASE row' # [row EXCEPT ![gen + 1] = "connecting"]
        BY <2>2, <4>2, <4>3 DEF ConnectCreate
      <4> QED
        BY <4>3
    <3>2. conn'[c].gen = gen + 1 /\ conn'[c].pc \in {"dial", "failed"}
      BY <2>2, ConnSteps DEF ConnectCreate, ConnectDial, ConnectAdopt, ConnectMark,
         ConnectCloseGap, ConnectFails, At
    <3>3. gen + 1 \in Gens
      BY <2>2, GenGrows
    <3> QED
      BY <1>0, <1>3, <3>1, <3>2, <3>3
  <2>3. CASE ConnectDial(c) \/ ConnectAdopt(c) \/ ConnectMark(c) \/ ConnectCloseGap(c)
    <3>1. conn[c].pc \in {"dial", "adopt", "mark", "close"}
      BY <2>3 DEF ConnectDial, ConnectAdopt, ConnectMark, ConnectCloseGap, At
    <3>2. conn'[c].gen = conn[c].gen \/ conn'[c] = IdleConnect
      BY <2>3, <3>1, ConnSteps DEF ConnectCreate, At
    <3> QED
      BY <1>2, <1>3, <3>1, <3>2 DEF HasRow, UnbornIdle, IdleConnect
  <2>4. CASE \/ ConnectFails(c) \/ Backoff \/ NextAttempt \/ Retry
    <3>1. conn'[c] = conn[c] \/ conn'[c].pc \in {"idle", "create"}
      <4>1. IdleConnect.pc = "idle" /\ [IdleConnect EXCEPT !.pc = "create", !.start = lastSent].pc = "create"
        BY DEF IdleConnect
      <4>2. ConnectFails(c) => conn'[c] = IdleConnect
        BY <1>0 DEF ConnectFails
      <4>3. Backoff => conn'[c] = conn[c] \/ conn'[c].pc \in {"idle", "create"}
        BY SupSteps
      <4>4. NextAttempt => conn'[c] = conn[c] \/ conn'[c] = IdleConnect
        BY SupSteps
      <4>5. Retry => conn'[c] = conn[c] \/ conn'[c].pc \in {"idle", "create"}
        BY <4>1, SupSteps
      <4> QED
        BY <2>4, <4>1, <4>2, <4>3, <4>4, <4>5
    <3> QED
      BY <1>3, <2>1, <3>1
  <2>5. ASSUME NEW d \in Connectors,
               \/ ConnectCreate(d) \/ ConnectDial(d) \/ ConnectAdopt(d) \/ ConnectMark(d)
               \/ ConnectCloseGap(d) \/ ConnectFails(d), d # c
        PROVE  conn'[c] = conn[c]
    BY <2>5, ConnSteps
  <2>6. Supervise \/ CloseFailed => UNCHANGED conn
    BY DEF Supervise, CloseFailed
  <2> QED
    BY <2>1, <2>2, <2>3, <2>4, <2>5, <2>6, ConnAside
<1>4. current' # 0 => row'[current'] # "none"
  <2>1. CASE current' = current
    BY <1>1, <1>2, <2>1 DEF HasRow
  <2>2. ASSUME NEW c \in Connectors, ConnectAdopt(c) PROVE current' # 0 => row'[current'] # "none"
    <3>1. conn[c].pc = "adopt" /\ current' \in {current, conn[c].gen}
      BY <2>2 DEF ConnectAdopt, At
    <3> QED
      BY <1>2, <2>1, <3>1 DEF HasRow, UnbornIdle
  <2>3. Supervise \/ StopFinish => current' \in {0, current}
    BY DEF Supervise, StopFinish
  <2> QED
    BY <2>1, <2>2, <2>3, CurrentAside
<1>5. (sup'.pc = "close" /\ sup'.gen # 0) => row'[sup'.gen] # "none"
  <2>1. CASE sup' = sup
    BY <1>1, <1>2, <2>1 DEF HasRow
  <2>2. CASE sup' = IdleSupervisor
    BY <2>2 DEF IdleSupervisor
  <2>3. CASE Supervise
    <3>1. sup' = sup \/ sup'.gen = current
      BY <2>3, SupSteps
    <3> QED
      BY <1>1, <1>2, <2>1, <3>1 DEF HasRow
  <2>4. CASE CloseFailed \/ Backoff \/ NextAttempt
    <3>1. sup' = IdleSupervisor \/ sup'.pc \in {"backoff", "connect"}
      BY <2>4, SupSteps
    <3> QED
      BY <2>2, <3>1
  <2>5. Retry => sup' = sup
    BY DEF Retry
  <2>6. ASSUME NEW c \in Connectors,
               \/ ConnectCreate(c) \/ ConnectDial(c) \/ ConnectAdopt(c) \/ ConnectMark(c)
               \/ ConnectCloseGap(c) \/ ConnectFails(c)
        PROVE  sup' \in {sup, IdleSupervisor}
    BY <2>6 DEF ConnectCreate, ConnectDial, ConnectAdopt, ConnectMark, ConnectCloseGap, ConnectFails
  <2> QED
    BY <2>1, <2>2, <2>3, <2>4, <2>5, <2>6, ConnAside
<1> QED
  BY <1>3, <1>4, <1>5 DEF HasRow

LEMMA WireFitsKept ==
  ASSUME TypeOK, TypeOK', UnbornIdle, UnbornIdle', HasRow, ResultsFit, WireFits, Next
  PROVE  WireFits'
<1>0. /\ start \in [Gens -> Nat] /\ sent \in [Gens -> Nat] /\ told \in [Gens -> Nat]
      /\ rowSent \in [Gens -> Nat] /\ rowFinal \in [Gens -> Nat]
      /\ start' \in [Gens -> Nat] /\ sent' \in [Gens -> Nat] /\ told' \in [Gens -> Nat]
      /\ rowSent' \in [Gens -> Nat] /\ rowFinal' \in [Gens -> Nat]
      /\ \A c \in Connectors : conn[c].start \in Nat
  BY DEF TypeOK, WireType, DatabaseType, ConnectType, Connection
<1>1. gen \in Nat /\ gen' \in Nat /\ \A g \in Gens : g \in Nat
  BY GenGrows, GensOf
<1> SUFFICES ASSUME NEW g \in Gens
             PROVE  /\ start'[g] =< told'[g] /\ told'[g] =< sent'[g]
                    /\ rowFinal'[g] =< rowSent'[g] /\ rowSent'[g] =< sent'[g]
                    /\ row'[g] # "none" => start'[g] =< rowFinal'[g]
  BY DEF WireFits
<1>2. /\ start[g] =< told[g] /\ told[g] =< sent[g]
      /\ rowFinal[g] =< rowSent[g] /\ rowSent[g] =< sent[g]
      /\ row[g] # "none" => start[g] =< rowFinal[g]
  BY DEF WireFits
<1>3. CASE g =< gen
  <2>1. start'[g] = start[g] /\ sent[g] =< sent'[g] /\ told[g] =< told'[g]
    BY <1>3, SentGrows, ToldGrows
  <2>2. told'[g] =< sent'[g]
    <3>1. ASSUME NEW h \in Gens, ProviderFinal(h) PROVE told'[g] =< sent[g]
      <4>1. PICK to \in told[h] + 1 .. sent[h] : told' = [told EXCEPT ![h] = to]
        BY <3>1 DEF ProviderFinal
      <4> QED
        BY <1>0, <1>2, <4>1
    <3>2. ASSUME NEW c \in Connectors, ConnectCreate(c) PROVE told'[g] = told[g]
      <4>1. told' = [told EXCEPT ![gen + 1] = conn[c].start] /\ g # gen + 1
        BY <1>1, <1>3, <3>2 DEF ConnectCreate
      <4> QED
        BY <1>0, <4>1
    <3>3. \A h \in Gens : Write(h) => UNCHANGED told
      BY DEF Write
    <3> QED
      BY <1>0, <1>2, <2>1, <3>1, <3>2, <3>3, WireAside
  <2>3. /\ rowFinal'[g] =< rowSent'[g] /\ rowSent'[g] =< sent[g] /\ rowFinal[g] =< rowFinal'[g]
    <3>1. \A e \in Pending : e.kind = "final" => e.to =< e.last /\ e.last =< sent[e.gen]
      BY DEF ResultsFit
    <3> QED
      BY <1>0, <1>2, <1>3, <3>1, RowSteps
  <2>4. row'[g] # "none" => row[g] # "none" \/ start[g] =< rowFinal[g]
    <3>1. ASSUME NEW h \in Gens, row[h] # "none", NEW p, row' = [row EXCEPT ![h] = p]
          PROVE  row'[g] # "none" => row[g] # "none"
      BY <3>1 DEF TypeOK, DatabaseType
    <3>2. ASSUME NEW c \in Connectors, ConnectDial(c) \/ ConnectMark(c)
          PROVE  row'[g] # "none" => row[g] # "none"
      <4>1. conn[c].pc \in {"dial", "mark"} /\ (row' = row \/ \E p : row' = [row EXCEPT ![conn[c].gen] = p])
        BY <3>2 DEF ConnectDial, ConnectMark, MarkStreaming, At
      <4>2. conn[c].gen \in Gens /\ row[conn[c].gen] # "none"
        BY <4>1 DEF UnbornIdle, HasRow
      <4> QED
        BY <3>1, <4>1, <4>2
    <3>3. ASSUME NEW h \in Gens, ReadStarted(h)
          PROVE  row'[g] # "none" => row[g] # "none"
      <4>1. row' = row \/ (row[h] # "none" /\ \E p : row' = [row EXCEPT ![h] = p])
        BY <3>3 DEF ReadStarted, MarkStreaming
      <4> QED
        BY <3>1, <4>1
    <3>4. CASE CloseFailed
      <4>1. row' = row \/ (sup.pc = "close" /\ sup.gen # 0 /\ \E p : row' = [row EXCEPT ![sup.gen] = p])
        BY <3>4 DEF CloseFailed
      <4>2. sup.gen # 0 => sup.gen \in Gens
        BY RefsOf
      <4> QED
        BY <3>1, <4>1, <4>2 DEF HasRow
    <3>5. CASE StopFinish
      <4>1. row' = row \/ (current # 0 /\ \E p : row' = [row EXCEPT ![current] = p])
        BY <3>5 DEF StopFinish
      <4>2. current # 0 => current \in Gens
        BY RefsOf
      <4> QED
        BY <3>1, <4>1, <4>2 DEF HasRow
    <3>6. RecoverSessions => (row'[g] # "none" => row[g] # "none")
      BY DEF RecoverSessions
    <3>7. ASSUME NEW c \in Connectors, ConnectCreate(c)
          PROVE  row'[g] = row[g]
      <4>1. row' \in {row, [row EXCEPT ![gen + 1] = "connecting"]} /\ g # gen + 1
        BY <1>1, <1>3, <3>7 DEF ConnectCreate
      <4> QED
        BY <4>1 DEF TypeOK, DatabaseType
    <3> QED
      BY <1>2, <3>2, <3>3, <3>4, <3>5, <3>6, <3>7, RowAside
  <2> QED
    BY <1>0, <1>2, <2>1, <2>2, <2>3, <2>4
<1>4. CASE g > gen'
  BY <1>0, <1>1, <1>4 DEF UnbornIdle
<1>5. CASE g > gen /\ g =< gen'
  <2>1. PICK c \in Connectors : ConnectCreate(c)
    BY <1>1, <1>5, GenGrows
  <2>2. g = gen + 1
    BY <1>1, <1>5, GenGrows
  <2>3. /\ start' = [start EXCEPT ![g] = conn[c].start]
        /\ sent' = [sent EXCEPT ![g] = conn[c].start]
        /\ told' = [told EXCEPT ![g] = conn[c].start]
        /\ \/ /\ rowSent' = [rowSent EXCEPT ![g] = conn[c].start]
              /\ rowFinal' = [rowFinal EXCEPT ![g] = conn[c].start]
           \/ UNCHANGED <<row, rowSent, rowFinal>>
    BY <2>1, <2>2 DEF ConnectCreate
  <2>4. row[g] = "none" /\ rowSent[g] = 0 /\ rowFinal[g] = 0
    BY <1>5 DEF UnbornIdle
  <2> QED
    BY <1>0, <2>3, <2>4
<1> QED
  BY <1>1, <1>3, <1>4, <1>5

LEMMA FromGen ==
  ASSUME TypeOK, UnbornIdle, NEW g \in Gens, Connected(g)
  PROVE  g =< gen
<1>1. gen \in Nat /\ MaxSessions \in Nat
  BY CapacityAssumption DEF TypeOK, CoordType, CapacityAssumption
<1>2. link[g] # "none"
  BY DEF Connected
<1>3. ~(g > gen)
  BY <1>2 DEF UnbornIdle
<1>4. g \in Nat
  BY GensOf
<1> QED
  BY <1>1, <1>3, <1>4

LEMMA ResultsFitKept ==
  ASSUME TypeOK, TypeOK', UnbornIdle, WireFits, ResultsFit, Next
  PROVE  ResultsFit'
<1>0. /\ start \in [Gens -> Nat] /\ sent \in [Gens -> Nat] /\ told \in [Gens -> Nat]
      /\ start' \in [Gens -> Nat] /\ sent' \in [Gens -> Nat] /\ told' \in [Gens -> Nat]
      /\ rowFinal \in [Gens -> Nat] /\ rowFinal' \in [Gens -> Nat]
  BY DEF TypeOK, WireType, DatabaseType
<1>1. gen \in Nat /\ gen' \in Nat /\ gen =< gen' /\ \A g \in Gens : g \in Nat
  <2>1. gen \in Nat /\ gen' \in Nat /\ (gen' = gen \/ gen' = gen + 1)
    BY GenGrows
  <2>2. gen =< gen'
    BY <2>1
  <2> QED
    BY <2>1, <2>2, GensOf
<1>2. ASSUME NEW e \in Pending
      PROVE  /\ e.gen =< gen'
             /\ e.kind # "failed" =>
                   /\ start'[e.gen] =< e.from /\ e.from < e.to /\ e.to =< told'[e.gen]
                   /\ e.to =< e.last /\ e.last =< sent'[e.gen]
  <2>1. e \in Event /\ e.gen =< gen
    BY PendingTyped DEF ResultsFit
  <2>2. /\ e.gen \in Gens /\ e.from \in Nat /\ e.to \in Nat /\ e.last \in Nat
    BY <2>1, EventOf
  <2>3. /\ start'[e.gen] = start[e.gen] /\ sent[e.gen] =< sent'[e.gen]
        /\ told[e.gen] =< told'[e.gen]
    BY <2>1, <2>2, SentGrows, ToldGrows
  <2>4. e.kind # "failed" =>
                   /\ start[e.gen] =< e.from /\ e.from < e.to /\ e.to =< told[e.gen]
                   /\ e.to =< e.last /\ e.last =< sent[e.gen]
    BY DEF ResultsFit
  <2> QED
    BY <1>0, <1>1, <2>1, <2>2, <2>3, <2>4
<1>3. ASSUME NEW u \in utterances
      PROVE  /\ u[1] =< gen' /\ start'[u[1]] =< u[2] /\ u[2] < u[3]
             /\ u[3] =< told'[u[1]] /\ u[3] =< rowFinal'[u[1]]
  <2>1. u[1] \in Gens /\ u[2] \in Nat /\ u[3] \in Nat
    BY DEF TypeOK, DatabaseType
  <2>2. /\ u[1] =< gen /\ start[u[1]] =< u[2] /\ u[2] < u[3]
        /\ u[3] =< told[u[1]] /\ u[3] =< rowFinal[u[1]]
    BY DEF ResultsFit
  <2>3. start'[u[1]] = start[u[1]] /\ told[u[1]] =< told'[u[1]]
    BY <2>1, <2>2, SentGrows, ToldGrows
  <2>4. rowFinal[u[1]] =< rowFinal'[u[1]]
    BY <1>0, <2>1, <2>2, RowSteps
  <2> QED
    BY <1>0, <1>1, <2>1, <2>2, <2>3, <2>4
<1>4. ASSUME NEW e \in Pending'
      PROVE  /\ e.gen =< gen'
             /\ e.kind # "failed" =>
                   /\ start'[e.gen] =< e.from /\ e.from < e.to /\ e.to =< told'[e.gen]
                   /\ e.to =< e.last /\ e.last =< sent'[e.gen]
  <2>1. CASE e \in Pending
    BY <1>2, <2>1
  <2>2. ASSUME NEW g \in Gens, Connected(g), ProviderFinal(g), NEW to \in told[g] + 1 .. sent[g],
               told' = [told EXCEPT ![g] = to],
               e = [kind |-> "final", gen |-> g, from |-> told[g], to |-> to, last |-> sent[g]]
        PROVE  e.gen =< gen' /\ start'[g] =< e.from /\ e.from < e.to /\ e.to =< told'[g]
               /\ e.to =< e.last /\ e.last =< sent'[g] /\ e.gen = g
    <3>1. g =< gen /\ start[g] =< told[g] /\ UNCHANGED <<start, sent>>
      BY <2>2, FromGen DEF WireFits, ProviderFinal
    <3>2. told[g] \in Nat /\ sent[g] \in Nat /\ start[g] \in Nat
      BY <1>0
    <3>3. to \in Nat /\ told'[g] = to
      BY <1>0, <2>2, <3>2
    <3> QED
      BY <1>1, <2>2, <3>1, <3>2, <3>3
  <2>3. ASSUME NEW g \in Gens, Connected(g), ProviderConflict(g), NEW u \in utterances, u[1] = g,
               e = [kind |-> "conflict", gen |-> g, from |-> u[2], to |-> u[3], last |-> sent[g]]
        PROVE  e.gen =< gen' /\ start'[g] =< e.from /\ e.from < e.to /\ e.to =< told'[g]
               /\ e.to =< e.last /\ e.last =< sent'[g] /\ e.gen = g
    <3>1. g =< gen /\ UNCHANGED <<sent, start, told>>
      BY <2>3, FromGen DEF ProviderConflict
    <3>2. start'[g] =< u[2] /\ u[2] < u[3] /\ u[3] =< told'[g] /\ told[g] =< sent[g]
      BY <1>3, <2>3 DEF WireFits
    <3>3. u[2] \in Nat /\ u[3] \in Nat /\ told[g] \in Nat /\ sent[g] \in Nat
      BY <1>0 DEF TypeOK, DatabaseType
    <3> QED
      BY <1>1, <2>3, <3>1, <3>2, <3>3
  <2>4. ASSUME NEW g \in Gens, Connected(g), e = [NoEvent EXCEPT !.gen = g]
        PROVE  e.gen =< gen' /\ e.kind = "failed"
    <3>1. e.gen = g /\ e.kind = "failed" /\ g =< gen
      BY <2>4, FromGen DEF NoEvent
    <3> QED
      BY <1>1, <3>1
  <2>5. \/ e \in Pending
        \/ \E g \in Gens : /\ Connected(g) /\ ProviderFinal(g)
                           /\ \E to \in told[g] + 1 .. sent[g] :
                                 /\ told' = [told EXCEPT ![g] = to]
                                 /\ e = [kind |-> "final", gen |-> g, from |-> told[g], to |-> to, last |-> sent[g]]
        \/ \E g \in Gens : /\ Connected(g) /\ ProviderConflict(g)
                           /\ \E u \in utterances :
                                 /\ u[1] = g
                                 /\ e = [kind |-> "conflict", gen |-> g, from |-> u[2], to |-> u[3], last |-> sent[g]]
        \/ \E g \in Gens : Connected(g) /\ e = [NoEvent EXCEPT !.gen = g]
    BY PendingSteps
  <2>6. (\E g \in Gens : Connected(g) /\ e = [NoEvent EXCEPT !.gen = g]) => e.gen =< gen' /\ e.kind = "failed"
    BY <2>4
  <2>7. (\E g \in Gens : /\ Connected(g) /\ ProviderConflict(g)
                         /\ \E u \in utterances :
                               /\ u[1] = g
                               /\ e = [kind |-> "conflict", gen |-> g, from |-> u[2], to |-> u[3], last |-> sent[g]])
          => e.gen =< gen' /\ start'[e.gen] =< e.from /\ e.from < e.to /\ e.to =< told'[e.gen]
             /\ e.to =< e.last /\ e.last =< sent'[e.gen]
    BY <2>3
  <2>8. (\E g \in Gens : /\ Connected(g) /\ ProviderFinal(g)
                         /\ \E to \in told[g] + 1 .. sent[g] :
                               /\ told' = [told EXCEPT ![g] = to]
                               /\ e = [kind |-> "final", gen |-> g, from |-> told[g], to |-> to, last |-> sent[g]])
          => e.gen =< gen' /\ start'[e.gen] =< e.from /\ e.from < e.to /\ e.to =< told'[e.gen]
             /\ e.to =< e.last /\ e.last =< sent'[e.gen]
    BY <2>2
  <2> QED
    BY <2>1, <2>5, <2>6, <2>7, <2>8
<1>5. ASSUME NEW u \in utterances'
      PROVE  /\ u[1] =< gen' /\ start'[u[1]] =< u[2] /\ u[2] < u[3]
             /\ u[3] =< told'[u[1]] /\ u[3] =< rowFinal'[u[1]]
  <2>1. CASE Persist
    <3> DEFINE e == Head(finals)
    <3>1. /\ e \in Pending /\ e.kind = "final" /\ utterances' = utterances \cup {Span(e)}
          /\ rowFinal' = [rowFinal EXCEPT ![e.gen] = e.to]
      BY <2>1, PendingTyped DEF Persist, Persistable, Span
    <3> HIDE DEF e
    <3>2. e.gen \in Gens /\ e.from \in Nat /\ e.to \in Nat
      BY <3>1, PendingTyped, EventOf
    <3>3. rowFinal'[e.gen] = e.to
      BY <1>0, <3>1, <3>2
    <3>4. CASE u = Span(e)
      <4>1. u[1] = e.gen /\ u[2] = e.from /\ u[3] = e.to
        BY <3>4 DEF Span
      <4> QED
        BY <1>2, <3>1, <3>2, <3>3, <4>1
    <3> QED
      BY <1>3, <3>1, <3>4
  <2> QED
    BY <1>3, <2>1, ResultsAside
<1> QED
  BY <1>4, <1>5 DEF ResultsFit

LEMMA ResultsApartKept ==
  ASSUME TypeOK, UnbornIdle, WireFits, ResultsFit, SentOnce, ResultsApart, Next
  PROVE  ResultsApart'
<1>0. \A g \in Gens : start[g] \in Nat /\ sent[g] \in Nat /\ told[g] \in Nat
  BY DEF TypeOK, WireType
<1>1. ASSUME NEW u \in Results
      PROVE  /\ u[1] \in Gens /\ u[2] \in Nat /\ u[3] \in Nat
             /\ start[u[1]] =< u[2] /\ u[2] < u[3] /\ u[3] =< told[u[1]]
  <2>1. CASE u \in utterances
    BY <2>1 DEF ResultsFit, TypeOK, DatabaseType
  <2>2. CASE u \notin utterances
    <3>1. PICK e \in Pending : e.kind = "final" /\ u = Span(e)
      BY <2>2 DEF Results
    <3>2. u[1] = e.gen /\ u[2] = e.from /\ u[3] = e.to
      BY <3>1 DEF Span
    <3> QED
      BY <3>1, <3>2, PendingTyped, EventOf DEF ResultsFit
  <2> QED
    BY <2>1, <2>2
<1>2. \/ Results' \subseteq Results
      \/ \E g \in Gens : \E to \in told[g] + 1 .. sent[g] :
            Results' \subseteq Results \cup {<<g, told[g], to>>}
  <2>1. ASSUME Pending' \subseteq Pending PROVE Results' \subseteq Results
    <3>1. utterances' \subseteq Results
      <4>1. Persist => Head(finals) \in Pending /\ Head(finals).kind = "final"
                       /\ utterances' = utterances \cup {Span(Head(finals))}
        BY PendingTyped DEF Persist, Persistable, Span
      <4> QED
        BY <4>1, ResultsAside DEF Results
    <3> QED
      BY <2>1, <3>1 DEF Results
  <2>2. ASSUME NEW g \in Gens, NEW e, e.kind # "final", Pending' \subseteq Pending \cup {e}, UNCHANGED utterances
        PROVE  Results' \subseteq Results
    BY <2>2 DEF Results
  <2>3. ASSUME NEW g \in Gens, NEW to \in told[g] + 1 .. sent[g], UNCHANGED utterances,
               Pending' \subseteq Pending \cup
                  {[kind |-> "final", gen |-> g, from |-> told[g], to |-> to, last |-> sent[g]]}
        PROVE  Results' \subseteq Results \cup {<<g, told[g], to>>}
    <3>1. Span([kind |-> "final", gen |-> g, from |-> told[g], to |-> to, last |-> sent[g]])
             = <<g, told[g], to>>
      BY DEF Span
    <3> QED
      BY <2>3, <3>1 DEF Results
  <2>4. \A g \in Gens : ProviderFinal(g) \/ ProviderConflict(g) \/ ProviderBreaks(g) => UNCHANGED utterances
    BY DEF ProviderFinal, ProviderConflict, ProviderBreaks, database
  <2>5. ASSUME NEW g \in Gens, ProviderFinal(g),
               \E to \in told[g] + 1 .. sent[g] :
                  /\ told' = [told EXCEPT ![g] = to]
                  /\ Pending' \subseteq Pending \cup
                        {[kind |-> "final", gen |-> g, from |-> told[g], to |-> to, last |-> sent[g]]}
        PROVE  \E to \in told[g] + 1 .. sent[g] : Results' \subseteq Results \cup {<<g, told[g], to>>}
    BY <2>3, <2>4, <2>5
  <2>6. ASSUME NEW g \in Gens, ProviderConflict(g), NEW u \in utterances,
               Pending' \subseteq Pending \cup
                  {[kind |-> "conflict", gen |-> g, from |-> u[2], to |-> u[3], last |-> sent[g]]}
        PROVE  Results' \subseteq Results
    <3>1. [kind |-> "conflict", gen |-> g, from |-> u[2], to |-> u[3], last |-> sent[g]].kind # "final"
      OBVIOUS
    <3> QED
      BY <2>2, <2>4, <2>6, <3>1
  <2>7. ASSUME NEW g \in Gens, ProviderBreaks(g),
               Pending' \subseteq Pending \cup {[NoEvent EXCEPT !.gen = g]}
        PROVE  Results' \subseteq Results
    <3>1. [NoEvent EXCEPT !.gen = g].kind # "final"
      BY DEF NoEvent
    <3> QED
      BY <2>2, <2>4, <2>7, <3>1
  <2> QED
    BY <2>1, <2>5, <2>6, <2>7, PendingSteps
<1>3. CASE Results' \subseteq Results
  BY <1>3 DEF ResultsApart
<1>4. ASSUME NEW g \in Gens, NEW to \in told[g] + 1 .. sent[g],
             Results' \subseteq Results \cup {<<g, told[g], to>>}
      PROVE  ResultsApart'
  <2> DEFINE w == <<g, told[g], to>>
  <2>1. to \in Nat /\ told[g] < to /\ to =< sent[g] /\ start[g] =< told[g]
    BY <1>0 DEF WireFits
  <2>2. ASSUME NEW u \in Results, u # w
        PROVE  u[3] =< told[g] \/ to =< u[2]
    <3>1. /\ u[1] \in Gens /\ u[2] \in Nat /\ u[3] \in Nat
          /\ start[u[1]] =< u[2] /\ u[2] < u[3] /\ u[3] =< told[u[1]]
      BY <1>1
    <3>2. CASE u[1] = g
      BY <3>1, <3>2
    <3>3. CASE u[1] # g
      <4>1. \A i \in Nat : ~(start[g] =< i /\ i < sent[g] /\ start[u[1]] =< i /\ i < sent[u[1]])
        BY <1>0, <3>1, <3>3 DEF SentOnce, Sent
      <4>2. told[u[1]] =< sent[u[1]]
        BY <3>1 DEF WireFits
      <4>3. ~(start[g] =< u[2] /\ u[2] < sent[g] /\ start[u[1]] =< u[2] /\ u[2] < sent[u[1]])
        BY <3>1, <4>1
      <4>4. ~(start[g] =< told[g] /\ told[g] < sent[g] /\ start[u[1]] =< told[g] /\ told[g] < sent[u[1]])
        BY <1>0, <4>1
      <4> QED
        BY <1>0, <2>1, <3>1, <4>2, <4>3, <4>4
    <3> QED
      BY <3>2, <3>3
  <2>3. w[2] = told[g] /\ w[3] = to
    OBVIOUS
  <2> HIDE DEF w
  <2> QED
    BY <1>4, <2>2, <2>3 DEF ResultsApart, w
<1> QED
  BY <1>2, <1>3, <1>4

LEMMA HeldKept ==
  ASSUME TypeOK, TypeOK', UnbornIdle, QueueFits, HeldOnce, SentOnce, Next
  PROVE  HeldOnce' /\ SentOnce'
<1>0. /\ snd \in [Gens -> {"none", "take", "wait", "write", "advance", "done"}]
      /\ frame \in [Gens -> Samples] /\ start \in [Gens -> Nat] /\ sent \in [Gens -> Nat]
      /\ head \in Nat /\ head' \in Nat /\ head =< head'
      /\ start' \in [Gens -> Nat] /\ sent' \in [Gens -> Nat]
      /\ \A g \in Gens : sent[g] =< head /\ g \in Nat
      /\ \A c \in Connectors : conn[c].start \in Nat
  BY HeadGrows, GensOf DEF TypeOK, SessionType, WireType, QueueFits, ConnectType, Connection
<1>1. ASSUME NEW g \in Gens, NEW i \in Nat, start'[g] =< i, i < sent'[g]
      PROVE  \/ start[g] =< i /\ i < sent[g]
             \/ Write(g) /\ snd[g] = "write" /\ frame[g] = i
  <2>1. ASSUME NEW c \in Connectors, ConnectCreate(c)
        PROVE  start[g] =< i /\ i < sent[g]
    <3>1. start' = [start EXCEPT ![gen + 1] = conn[c].start] /\ sent' = [sent EXCEPT ![gen + 1] = conn[c].start]
      BY <2>1 DEF ConnectCreate
    <3> QED
      BY <1>0, <1>1, <3>1
  <2>2. ASSUME NEW h \in Gens, Write(h)
        PROVE  \/ start[g] =< i /\ i < sent[g]
               \/ h = g /\ snd[g] = "write" /\ frame[g] = i
    <3>1. /\ UNCHANGED start /\ snd[h] = "write"
          /\ \/ UNCHANGED sent
             \/ frame[h] = sent[h] /\ sent' = [sent EXCEPT ![h] = frame[h] + 1]
      BY <2>2 DEF Write, Writable, SenderAt
    <3> QED
      BY <1>0, <1>1, <3>1
  <2>3. \A h \in Gens : ProviderFinal(h) => UNCHANGED <<start, sent>>
    BY DEF ProviderFinal
  <2> QED
    BY <1>1, <2>1, <2>2, <2>3, WireAside
<1>2. ASSUME NEW g \in Gens, NEW h \in Gens, g # h
      PROVE  \A i \in Nat : ~(start'[g] =< i /\ i < sent'[g] /\ start'[h] =< i /\ i < sent'[h])
  <2> SUFFICES ASSUME NEW i \in Nat, start'[g] =< i, i < sent'[g], start'[h] =< i, i < sent'[h]
               PROVE  FALSE
    OBVIOUS
  <2>1. ~(start[g] =< i /\ i < sent[g] /\ start[h] =< i /\ i < sent[h])
    BY <1>0, <1>2 DEF SentOnce, Sent
  <2>2. Write(g) => ~Write(h) \/ ~(snd[g] = "write" /\ snd[h] = "write" /\ frame[g] = i /\ frame[h] = i)
    BY <1>2 DEF HeldOnce
  <2>3. snd[g] = "write" /\ frame[g] = i => ~(start[h] =< i /\ i < sent[h])
    BY <1>2 DEF HeldOnce
  <2>4. snd[h] = "write" /\ frame[h] = i => ~(start[g] =< i /\ i < sent[g])
    BY <1>2 DEF HeldOnce
  <2> QED
    BY <1>1, <2>1, <2>2, <2>3, <2>4
<1>3. SentOnce'
  BY <1>0, <1>2 DEF SentOnce, Sent
<1>4. ASSUME NEW g \in Gens, snd'[g] = "write"
      PROVE  \/ Take(g) /\ frame'[g] = head /\ head' = head + 1
             \/ snd[g] = "write" /\ frame'[g] = frame[g] /\ ~Write(g)
  <2>1. \A c \in Connectors : ConnectCloseGap(c)
            => snd' \in {snd, [snd EXCEPT ![conn[c].gen] = "take"]} /\ UNCHANGED frame
    BY DEF ConnectCloseGap
  <2>2. ASSUME NEW h \in Gens, Woken(h) \/ Write(h) \/ Advance(h)
        PROVE  snd[g] = "write" /\ frame'[g] = frame[g] /\ h # g
    <3>1. /\ \E p \in {"take", "wait", "advance", "done"} : snd' = [snd EXCEPT ![h] = p]
          /\ frame' \in {frame, [frame EXCEPT ![h] = NoSample]}
      BY <2>2 DEF Woken, Write, Advance
    <3> QED
      BY <1>0, <1>4, <3>1
  <2>3. ASSUME NEW h \in Gens, Take(h)
        PROVE  \/ h = g /\ frame'[g] = head /\ head' = head + 1
               \/ snd[g] = "write" /\ frame'[g] = frame[g] /\ h # g
    <3>1. \/ snd' = [snd EXCEPT ![h] = "write"] /\ frame' = [frame EXCEPT ![h] = head] /\ head' = head + 1
          \/ \E p \in {"wait", "done"} : snd' = [snd EXCEPT ![h] = p] /\ UNCHANGED frame
      BY <2>3 DEF Take
    <3> QED
      BY <1>0, <1>4, <3>1
  <2>4. Write(g) => snd'[g] # "write"
    BY <1>0 DEF Write
  <2> QED
    BY <1>0, <1>4, <2>1, <2>2, <2>3, <2>4, SenderAside
<1>5. ASSUME NEW g \in Gens, snd'[g] = "write"
      PROVE  /\ frame'[g] \in Nat /\ frame'[g] < head'
             /\ \A h \in Gens \ {g} :
                   /\ ~(start'[h] =< frame'[g] /\ frame'[g] < sent'[h])
                   /\ snd'[h] = "write" => frame'[h] # frame'[g]
  <2>1. CASE Take(g) /\ frame'[g] = head /\ head' = head + 1
    <3>1. UNCHANGED <<start, sent>>
      BY <2>1 DEF Take, wire
    <3>2. \A h \in Gens \ {g} : snd'[h] = "write" => snd[h] = "write" /\ frame'[h] = frame[h]
      BY <1>0, <2>1 DEF Take
    <3>3. \A h \in Gens \ {g} : snd[h] = "write" => frame[h] \in Nat /\ frame[h] < head
      BY DEF HeldOnce
    <3> QED
      BY <1>0, <2>1, <3>1, <3>2, <3>3
  <2>2. CASE snd[g] = "write" /\ frame'[g] = frame[g] /\ ~Write(g)
    <3>0. frame[g] \in Nat /\ frame[g] < head
      BY <2>2 DEF HeldOnce
    <3>1. ASSUME NEW h \in Gens \ {g}, start'[h] =< frame[g], frame[g] < sent'[h]
          PROVE  FALSE
      <4>1. ~(start[h] =< frame[g] /\ frame[g] < sent[h]) /\ (snd[h] = "write" => frame[h] # frame[g])
        BY <2>2 DEF HeldOnce
      <4> QED
        BY <1>1, <3>0, <3>1, <4>1
    <3>2. ASSUME NEW h \in Gens \ {g}, snd'[h] = "write"
          PROVE  frame'[h] # frame'[g]
      <4>1. CASE Take(h) /\ frame'[h] = head
        BY <1>0, <2>2, <3>0, <4>1
      <4>2. CASE snd[h] = "write" /\ frame'[h] = frame[h]
        BY <2>2, <4>2 DEF HeldOnce
      <4> QED
        BY <1>4, <3>2, <4>1, <4>2
    <3> QED
      BY <1>0, <2>2, <3>0, <3>1, <3>2
  <2> QED
    BY <1>4, <1>5, <2>1, <2>2
<1> QED
  BY <1>3, <1>5 DEF HeldOnce

-----------------------------------------------------------------------------
(* The invariant.                                                          *)

LEMMA InitFits == Init => WireInv
<1> SUFFICES ASSUME Init PROVE WireInv
  OBVIOUS
<1> USE DEF Init, Fresh
<1>0. NoEvent \in Event \/ Gens = {}
  BY CapacityAssumption DEF NoEvent, Event, Gens, CapacityAssumption
<1>1. /\ IdleConnect \in Connection
      /\ [IdleConnect EXCEPT !.pc = "create"] \in Connection
      /\ IdleSupervisor \in Handling
  BY CapacityAssumption DEF IdleConnect, Connection, IdleSupervisor, Handling, CapacityAssumption
<1>2. \A c \in Connectors :
         conn[c] \in {IdleConnect, [IdleConnect EXCEPT !.pc = "create"]}
  BY DEF Connectors, IdleConnect
<1>3. TypeOK
  <2>0. /\ QueueSlots \in Nat /\ FailureSlots \in Nat /\ FinalSlots \in Nat
        /\ MaxSessions \in Nat /\ Budget \in Nat
    BY CapacityAssumption DEF CapacityAssumption
  <2>1. QueueType /\ CoordType /\ StopType
    <3>1. failures \in Seq(Failure) /\ Len(failures) = 0
      OBVIOUS
    <3>2. /\ recorded = 0 /\ head = 0 /\ tail = 0 /\ wake \in BOOLEAN
          /\ gen = 0 /\ current = 0 /\ count = 0 /\ lastSent = 0 /\ lastFinal = 0
          /\ gapStart = NoSample /\ unavailable \in BOOLEAN
          /\ stopPc = "none" /\ stopOf = 0 /\ tailFailure \in BOOLEAN
      BY Zenon
    <3> HIDE DEF Init, Fresh
    <3>3. QueueType
      BY <2>0, <3>2 DEF QueueType
    <3>4. StopType
      BY <2>0, <3>2 DEF StopType
    <3>5. CoordType
      BY <2>0, <3>1, <3>2 DEF CoordType, Samples, NoSample
    <3> QED
      BY <3>3, <3>4, <3>5
  <2>2. ConnectType
    <3>1. conn \in [Connectors -> Connection]
      BY <1>1, <1>2
    <3> QED
      BY <1>1, <3>1 DEF ConnectType
  <2>3. WireType /\ DatabaseType
    BY CapacityAssumption DEF WireType, DatabaseType, CapacityAssumption
  <2>4. SessionType
    <3>1. got \in [Gens -> Event]
      BY <1>0
    <3>2. finals \in Seq(Event) /\ Len(finals) =< FinalSlots
      BY <2>0
    <3>3. \A g \in Gens : NoSample \in Samples
      BY DEF Samples, NoSample
    <3> QED
      BY <3>1, <3>2, <3>3 DEF SessionType
  <2> QED
    BY <2>1, <2>2, <2>3, <2>4 DEF TypeOK
<1>4. \A c \in Connectors : conn[c].gen = 0 /\ conn[c].start = 0 /\ conn[c].pc \in {"idle", "create"}
  BY <1>2 DEF IdleConnect
<1>5. Pending = {}
  BY DEF Pending
<1>6. QueueFits /\ UnbornIdle /\ HasRow /\ WireFits
  BY <1>4 DEF QueueFits, UnbornIdle, HasRow, WireFits, IdleSupervisor
<1>7. ResultsFit /\ ResultsApart /\ HeldOnce
  BY <1>5 DEF ResultsFit, ResultsApart, HeldOnce, Results
<1>8. SentOnce
  <2>1. \A g \in Gens : Sent(g) = {}
    BY DEF Sent
  <2> QED
    BY <2>1 DEF SentOnce
<1> QED
  BY <1>3, <1>6, <1>7, <1>8 DEF WireInv

LEMMA StepFits == WireInv /\ [Next]_vars => WireInv'
<1> SUFFICES ASSUME WireInv, [Next]_vars PROVE WireInv'
  OBVIOUS
<1> USE DEF WireInv
<1>1. CASE Next
  <2>1. TypeOK'
    BY <1>1, TypeKept
  <2>2. QueueFits' /\ UnbornIdle'
    BY <1>1, QueueFitsKept, UnbornKept
  <2>3. HasRow' /\ WireFits'
    BY <1>1, <2>1, <2>2, HasRowKept, WireFitsKept
  <2>5. ResultsFit' /\ ResultsApart'
    BY <1>1, <2>1, ResultsFitKept, ResultsApartKept
  <2>4. HeldOnce' /\ SentOnce'
    BY <1>1, <2>1, HeldKept
  <2> QED
    BY <2>1, <2>2, <2>3, <2>4, <2>5
<1>2. CASE UNCHANGED vars
  <2> USE <1>2 DEF vars, queue, coord, wire, sender, reader, final, stop, database, env
  <2>1. TypeOK'
    <3>1. QueueType' /\ CoordType' /\ ConnectType' /\ StopType'
      BY DEF TypeOK, QueueType, CoordType, ConnectType, StopType
    <3>2. WireType' /\ SessionType' /\ DatabaseType'
      BY DEF TypeOK, WireType, SessionType, DatabaseType
    <3> QED
      BY <3>1, <3>2 DEF TypeOK
  <2>2. Pending' = Pending
    BY DEF Pending
  <2>3. Results' = Results
    BY <2>2 DEF Results
  <2>4. QueueFits' /\ UnbornIdle' /\ HasRow' /\ WireFits'
    BY DEF QueueFits, UnbornIdle, HasRow, WireFits
  <2>5. ResultsFit' /\ ResultsApart'
    BY <2>2, <2>3 DEF ResultsFit, ResultsApart
  <2>6. HeldOnce' /\ SentOnce'
    BY DEF HeldOnce, SentOnce, Sent
  <2> QED
    BY <2>1, <2>4, <2>5, <2>6
<1> QED
  BY <1>1, <1>2

-----------------------------------------------------------------------------
(* The theorems.                                                           *)

(* In every reachable state, for any number of sessions, faults and        *)
(* retries, the types hold, senders hold packets of their own, and the     *)
(* results lie within what their session was sent, apart from each other   *)
(* (realtime_coordinator.go, realtime_coordinator_connection.go,           *)
(* final_processor.go).                                                    *)
THEOREM WireHolds == Spec => []WireInv
BY InitFits, StepFits, PTL DEF Spec

(* A packet is sent to the provider in one session at most, though two     *)
(* connections may be open at once: Take hands it to one sender, and       *)
(* WriteFrame sends only what follows.                                     *)
THEOREM PacketsSentOnce == Spec => []SentOnce
<1>1. WireInv => SentOnce
  BY DEF WireInv
<1> QED
  BY <1>1, WireHolds, PTL

(* What a row calls sent was written to its connection, and its last final *)
(* lies within that.                                                       *)
THEOREM RowsHold == Spec => []RowsBehindWire
<1>1. WireInv => RowsBehindWire
  BY DEF WireInv, WireFits, RowsBehindWire
<1> QED
  BY <1>1, WireHolds, PTL

(* No audio is transcribed twice, whatever the provider, the failures and  *)
(* the retries do.                                                         *)
THEOREM ResultsOnce == Spec => []TranscribedOnce
<1>1. WireInv => TranscribedOnce
  <2>1. utterances \subseteq Results
    BY DEF Results
  <2> QED
    BY <2>1 DEF WireInv, ResultsApart, TranscribedOnce
<1> QED
  BY <1>1, WireHolds, PTL

(* What Recover calls missing after a crash was not transcribed.           *)
THEOREM RecoveryGapTrue == Spec => RecoveryGapUntranscribed
<1>1. WireInv /\ [Next]_vars =>
         [boot = "recover" => \A p \in gaps' \ gaps : \A u \in utterances : u[3] =< p[1]]_vars
  <2> SUFFICES ASSUME WireInv, Next, boot = "recover", NEW p \in gaps' \ gaps, NEW u \in utterances
               PROVE  u[3] =< p[1]
    BY DEF vars, database
  <2>1. ~running
    BY DEF running
  <2>2. RecoverGap
    <3>1. \A c \in Connectors : ~ConnectCloseGap(c) /\ ~ConnectFails(c)
      BY <2>1 DEF ConnectCloseGap, ConnectFails, At
    <3>2. ~CloseFailed /\ ~StopFinals /\ ~StopGap
      BY <2>1 DEF CloseFailed, StopFinals, StopGap, StopAt
    <3> QED
      BY <3>1, <3>2, GapAside
  <2>3. p = <<RecoveredFrom, recorded>>
    BY <2>2 DEF RecoverGap
  <2>4. u[1] \in Gens /\ u[3] =< rowFinal[u[1]] /\ u[3] \in Nat
    BY DEF WireInv, ResultsFit, TypeOK, DatabaseType
  <2>5. RecoveredFrom \in Nat /\ \A g \in Gens : rowFinal[g] =< RecoveredFrom /\ rowFinal[g] \in Nat
    <3>1. head \in Nat /\ \A g \in Gens : rowFinal[g] \in Nat /\ rowSent[g] \in Nat /\ sent[g] \in Nat
      BY DEF WireInv, TypeOK, DatabaseType, WireType, QueueType
    <3>2. \A g \in Gens : rowFinal[g] \in 0 .. head
      BY <3>1 DEF WireInv, WireFits, QueueFits
    <3> QED
      BY <3>1, <3>2, RecoveredMax
  <2> QED
    BY <2>3, <2>4, <2>5
<1> QED
  BY <1>1, WireHolds, PTL DEF Spec, RecoveryGapUntranscribed

-----------------------------------------------------------------------------
(* The budget of attempts.                                                 *)

(* Who runs connect, and what that does to the supervisor. *)
LEMMA ConnMoves ==
  ASSUME TypeOK, NEW d \in Connectors,
         \/ ConnectCreate(d) \/ ConnectDial(d) \/ ConnectAdopt(d) \/ ConnectMark(d)
         \/ ConnectCloseGap(d) \/ ConnectFails(d)
  PROVE  /\ conn[d].pc # "idle"
         /\ \/ sup' = sup /\ (conn'[d].pc = "idle" => d # "supervisor")
            \/ d = "supervisor" /\ ConnectCloseGap(d) /\ sup' = IdleSupervisor /\ conn'[d] = IdleConnect
<1>1. CASE ConnectCreate(d) \/ ConnectDial(d) \/ ConnectAdopt(d) \/ ConnectMark(d)
  <2>1. conn[d].pc # "idle" /\ sup' = sup
    BY <1>1 DEF ConnectCreate, ConnectDial, ConnectAdopt, ConnectMark, At
  <2>2. conn'[d].pc # "idle"
    <3>1. ~ConnectCloseGap(d) /\ ~ConnectFails(d)
      BY <1>1 DEF ConnectCreate, ConnectDial, ConnectAdopt, ConnectMark, ConnectCloseGap, ConnectFails, At
    <3> QED
      BY <1>1, <3>1, ConnSteps
  <2> QED
    BY <2>1, <2>2
<1>2. CASE ConnectCloseGap(d)
  <2>1. conn[d].pc = "close" /\ (\/ conn' = [conn EXCEPT ![d] = IdleConnect]
                                    /\ sup' = IF d = "supervisor" THEN IdleSupervisor ELSE sup
                                 \/ conn'  = [conn EXCEPT ![d].pc = "failed"] /\ sup' = sup)
    BY <1>2 DEF ConnectCloseGap, At, Goto
  <2>2. conn \in [Connectors -> Connection]
    BY DEF TypeOK, ConnectType
  <2>3. CASE conn' = [conn EXCEPT ![d].pc = "failed"] /\ sup' = sup
    <3>1. conn'[d].pc = "failed"
      BY <2>2, <2>3 DEF Connection
    <3> QED
      BY <2>1, <2>3, <3>1
  <2>4. CASE conn' = [conn EXCEPT ![d] = IdleConnect]
    BY <1>2, <2>1, <2>2, <2>3, <2>4
  <2> QED
    BY <2>1, <2>3, <2>4
<1>3. CASE ConnectFails(d)
  BY <1>3 DEF ConnectFails, At
<1> QED
  BY <1>1, <1>2, <1>3

LEMMA ConnectingKept ==
  ASSUME TypeOK, Connecting, Next, ~Retry
  PROVE  Connecting'
<1>0. /\ conn["retry"].pc = "idle" /\ conn["initial"].count = 0
      /\ sup.pc = "connect" <=> conn["supervisor"].pc # "idle"
      /\ IdleConnect.pc = "idle" /\ IdleConnect.count = 0 /\ IdleSupervisor.pc = "idle"
  BY DEF Connecting, IdleConnect, IdleSupervisor
<1>c. {"initial", "supervisor", "retry"} \subseteq Connectors
  BY DEF Connectors
<1>1. ASSUME NEW d \in Connectors,
             \/ ConnectCreate(d) \/ ConnectDial(d) \/ ConnectAdopt(d) \/ ConnectMark(d)
             \/ ConnectCloseGap(d) \/ ConnectFails(d)
      PROVE  Connecting'
  <2>1. /\ conn[d].pc # "idle" /\ d \in {"initial", "supervisor"}
        /\ \/ sup' = sup /\ (conn'[d].pc = "idle" => d # "supervisor")
           \/ d = "supervisor" /\ sup' = IdleSupervisor /\ conn'[d] = IdleConnect
    BY <1>0, <1>1, ConnMoves DEF Connectors
  <2>2. \A c \in Connectors \ {d} : conn'[c] = conn[c]
    BY <1>1, ConnSteps
  <2>3. conn'[d] = IdleConnect \/ conn'[d].count = conn[d].count
    BY <1>1, ConnSteps
  <2>4. conn'["retry"].pc = "idle"
    BY <1>0, <1>c, <2>1, <2>2
  <2>5. conn'["initial"].count = 0
    BY <1>0, <1>c, <2>1, <2>2, <2>3
  <2>6. sup'.pc = "connect" <=> conn'["supervisor"].pc # "idle"
    <3>1. CASE d = "supervisor"
      BY <1>0, <2>1, <3>1
    <3>2. CASE d # "supervisor"
      <4>1. conn'["supervisor"] = conn["supervisor"] /\ sup' = sup
        BY <1>c, <2>1, <2>2, <3>2
      <4> QED
        BY <1>0, <4>1
    <3> QED
      BY <3>1, <3>2
  <2> QED
    BY <2>4, <2>5, <2>6 DEF Connecting
<1>2. CASE Supervise \/ CloseFailed
  <2>1. UNCHANGED conn /\ sup.pc # "connect"
    BY <1>2 DEF Supervise, CloseFailed
  <2>2. sup'.pc # "connect"
    BY <1>0, <1>2, <2>1, SupSteps
  <2> QED
    BY <1>0, <2>1, <2>2 DEF Connecting
<1>3. CASE Backoff
  <2>1. \A c \in Connectors \ {"supervisor"} : conn'[c] = conn[c]
    BY <1>3, SupSteps
  <2>2. sup.pc = "backoff"
    BY <1>3 DEF Backoff
  <2>3. sup'.pc = "connect" <=> conn'["supervisor"].pc # "idle"
    <3>1. CASE sup' = IdleSupervisor /\ UNCHANGED conn
      BY <1>0, <2>2, <3>1
    <3>2. CASE sup'.pc = "connect" /\ conn'["supervisor"] = [pc |-> "create", gen |-> 0, start |-> sup.resume, count |-> Attempts]
      BY <3>2
    <3> QED
      BY <1>3, <3>1, <3>2, SupSteps
  <2> QED
    BY <1>0, <1>c, <2>1, <2>3 DEF Connecting
<1>4. CASE NextAttempt
  <2>1. /\ \A c \in Connectors \ {"supervisor"} : conn'[c] = conn[c]
        /\ conn'["supervisor"] = IdleConnect /\ sup'.pc # "connect"
    BY <1>0, <1>4, SupSteps
  <2> QED
    BY <1>0, <1>c, <2>1 DEF Connecting
<1>5. CASE UNCHANGED <<conn, sup>>
  BY <1>0, <1>5 DEF Connecting
<1> QED
  BY <1>1, <1>2, <1>3, <1>4, <1>5, ConnAside

LEMMA FirstConnectsKept ==
  ASSUME TypeOK, UnbornIdle, Connecting, FirstConnects, AttemptsSpent, Next, ~Retry
  PROVE  FirstConnects'
<1> SUFFICES ASSUME FirstConnecting'
             PROVE  /\ gen' =< 1 /\ (conn'["initial"].pc = "create" => gen' = 0)
                    /\ sup'.pc \in {"idle", "close"} /\ (sup'.pc = "close" => ~sup'.retry)
                    /\ \A i \in DOMAIN failures' : ~failures'[i].retry
                    /\ \A g \in Gens : snd'[g] = "none" /\ rd'[g] = "none"
                    /\ finals' = <<>>
  BY DEF FirstConnects
<1>c. {"initial", "supervisor", "retry"} \subseteq Connectors
  BY DEF Connectors
<1>i. IdleConnect.pc = "idle" /\ IdleSupervisor.pc = "idle"
  BY DEF IdleConnect, IdleSupervisor
<1>1. /\ FirstConnecting
      /\ \A c \in Connectors : ConnectCreate(c) => c = "initial" /\ conn'["initial"].pc # "create"
      /\ \A c \in Connectors : ~ConnectCloseGap(c) /\ ~ConnectFails(c)
      /\ conn'["initial"].pc = "create" => conn["initial"].pc = "create"
  <2>1. \/ conn'["initial"] = conn["initial"]
        \/ /\ conn["initial"].pc \in {"create", "dial", "adopt"}
           /\ conn'["initial"].pc # "create"
        \/ conn'["initial"].pc \notin {"create", "dial", "adopt"}
    <3>1. ASSUME NEW d \in Connectors,
                 \/ ConnectCreate(d) \/ ConnectDial(d) \/ ConnectAdopt(d) \/ ConnectMark(d)
                 \/ ConnectCloseGap(d) \/ ConnectFails(d)
          PROVE  \/ conn'["initial"] = conn["initial"]
                 \/ /\ conn["initial"].pc \in {"create", "dial", "adopt"}
                    /\ conn'["initial"].pc # "create"
                 \/ conn'["initial"].pc \notin {"create", "dial", "adopt"}
      <4>1. CASE d # "initial"
        BY <1>c, <3>1, <4>1, ConnSteps
      <4>2. ConnectCreate(d) \/ ConnectDial(d) \/ ConnectAdopt(d) =>
               conn[d].pc \in {"create", "dial", "adopt"}
        BY DEF ConnectCreate, ConnectDial, ConnectAdopt, At
      <4>3. ConnectMark(d) => conn'["initial"] = conn["initial"] \/ conn'[d].pc = "close"
        <5>1. ConnectMark(d) => conn' = [conn EXCEPT ![d].pc = "close"]
          BY DEF ConnectMark, Goto
        <5> QED
          BY <5>1 DEF TypeOK, ConnectType, Connection
      <4>4. ConnectCloseGap(d) => conn'[d].pc \in {"idle", "failed"}
        <5>1. ConnectCloseGap(d) => conn' = [conn EXCEPT ![d].pc = "failed"] \/ conn' = [conn EXCEPT ![d] = IdleConnect]
          BY DEF ConnectCloseGap, Goto
        <5> QED
          BY <1>i, <5>1 DEF TypeOK, ConnectType, Connection
      <4>5. conn'[d].pc # "create"
        BY <1>i, <3>1, ConnSteps
      <4>6. ConnectFails(d) => conn'[d].pc = "idle"
        BY <1>i DEF ConnectFails, TypeOK, ConnectType
      <4> QED
        BY <3>1, <4>1, <4>2, <4>3, <4>4, <4>5, <4>6
    <3>2. Supervise \/ CloseFailed => conn' = conn
      BY DEF Supervise, CloseFailed
    <3>3. Backoff \/ NextAttempt => conn'["initial"] = conn["initial"]
      BY <1>c, SupSteps
    <3> QED
      BY <3>1, <3>2, <3>3, ConnAside
  <2>2. FirstConnecting /\ (conn'["initial"].pc = "create" => conn["initial"].pc = "create")
    BY <2>1 DEF FirstConnecting
  <2>3. \A c \in Connectors : conn[c].pc # "idle" => c = "initial"
    BY <2>2 DEF FirstConnects, Connecting, Connectors
  <2>4. ASSUME NEW c \in Connectors, ConnectCreate(c)
        PROVE  c = "initial" /\ conn'["initial"].pc # "create"
    <3>1. c = "initial"
      BY <2>3, <2>4 DEF ConnectCreate, At
    <3> QED
      BY <1>i, <2>4, <3>1, ConnSteps
  <2>5. \A c \in Connectors : ~ConnectCloseGap(c) /\ ~ConnectFails(c)
    BY <2>2, <2>3 DEF ConnectCloseGap, ConnectFails, At, FirstConnecting
  <2> QED
    BY <2>2, <2>4, <2>5
<1>2. /\ gen =< 1 /\ (conn["initial"].pc = "create" => gen = 0)
      /\ sup.pc \in {"idle", "close"} /\ (sup.pc = "close" => ~sup.retry)
      /\ \A i \in DOMAIN failures : ~failures[i].retry
      /\ \A g \in Gens : snd[g] = "none" /\ rd[g] = "none"
      /\ finals = <<>>
  BY <1>1 DEF FirstConnects
<1>3. gen' =< 1 /\ (conn'["initial"].pc = "create" => gen' = 0)
  <2>1. gen \in Nat /\ gen' \in Nat
    BY GenGrows
  <2>2. CASE gen' = gen
    BY <1>1, <1>2, <2>2
  <2>3. ASSUME NEW c \in Connectors, ConnectCreate(c), gen' = gen + 1
        PROVE  gen' =< 1 /\ (conn'["initial"].pc = "create" => gen' = 0)
    <3>1. c = "initial" /\ conn'["initial"].pc # "create" /\ conn["initial"].pc = "create"
      BY <1>1, <2>3 DEF ConnectCreate, At
    <3> QED
      BY <1>2, <2>1, <2>3, <3>1
  <2> QED
    BY <2>2, <2>3, GenGrows
<1>4. sup'.pc \in {"idle", "close"} /\ (sup'.pc = "close" => ~sup'.retry)
  <2>1. ASSUME NEW d \in Connectors,
               \/ ConnectCreate(d) \/ ConnectDial(d) \/ ConnectAdopt(d) \/ ConnectMark(d)
               \/ ConnectCloseGap(d) \/ ConnectFails(d)
        PROVE  sup' = sup \/ sup' = IdleSupervisor
    BY <2>1, ConnMoves
  <2>2. Supervise => sup' = sup \/ (sup'.pc = "close" /\ ~sup'.retry)
    <3>1. Supervise => failures # <<>>
      BY DEF Supervise
    <3>2. failures # <<>> => Head(failures) = failures[1] /\ 1 \in DOMAIN failures
      BY DEF TypeOK, CoordType
    <3> QED
      BY <1>2, <3>1, <3>2, SupSteps
  <2>3. CloseFailed => sup' = IdleSupervisor
    <3>1. CloseFailed => sup.pc = "close"
      BY DEF CloseFailed
    <3> QED
      BY <1>2, <3>1, SupSteps
  <2>4. ~Backoff /\ ~NextAttempt
    <3>1. conn["supervisor"].pc = "idle"
      BY <1>2 DEF Connecting
    <3> QED
      BY <1>2, <3>1 DEF Backoff, NextAttempt, At
  <2> QED
    BY <1>2, <1>i, <2>1, <2>2, <2>3, <2>4, ConnAside
<1>5. \A g \in Gens : /\ ~Take(g) /\ ~Woken(g) /\ ~Write(g) /\ ~Advance(g)
                      /\ ~ReadStarted(g) /\ ~Read(g) /\ ~ReadClosed(g) /\ ~Submit(g)
  BY <1>2 DEF Take, Woken, Write, Advance, SenderAt, ReadStarted, Read, ReadClosed, Submit, ReaderAt
<1>6. ~Persist /\ ~PersistFails
  BY <1>2 DEF Persist, PersistFails
<1>7. \A i \in DOMAIN failures' : ~failures'[i].retry
  <2>1. failures \in Seq(Failure)
    BY DEF TypeOK, CoordType
  <2>2. CASE Frame
    <3>1. \/ UNCHANGED failures
          \/ Report([gen |-> gen, retry |-> FALSE, resume |-> 0])
      BY <2>2 DEF Frame
    <3>2. ASSUME Report([gen |-> gen, retry |-> FALSE, resume |-> 0])
          PROVE  UNCHANGED failures \/ \E f \in Failure : ~f.retry /\ failures' = Append(failures, f)
      <4>1. [gen |-> gen, retry |-> FALSE, resume |-> 0] \in Failure
        BY Reports
      <4>2. gen \in 0 .. MaxSessions
        BY DEF TypeOK, CoordType
      <4>3. \A f \in Failure : [f EXCEPT !.gen = gen] \in Failure /\ [f EXCEPT !.gen = gen].retry = f.retry
        BY <4>2 DEF Failure
      <4>4. ~[gen |-> gen, retry |-> FALSE, resume |-> 0].retry
        OBVIOUS
      <4> DEFINE r == [gen |-> gen, retry |-> FALSE, resume |-> 0]
      <4>5. failures' \in {failures, Append(failures, r), Append(failures, [r EXCEPT !.gen = gen])}
        BY <3>2 DEF Report
      <4>6. r \in Failure /\ ~r.retry
        BY <4>1, <4>4
      <4> HIDE DEF r
      <4> QED
        BY <4>3, <4>5, <4>6
    <3> QED
      BY <1>2, <2>1, <3>1, <3>2
  <2>3. CASE Supervise
    <3>1. failures # <<>> /\ failures' = Tail(failures)
      BY <2>3 DEF Supervise
    <3>2. \A i \in DOMAIN failures' : i + 1 \in DOMAIN failures /\ failures'[i] = failures[i + 1]
      BY <2>1, <3>1
    <3> QED
      BY <1>2, <3>2
  <2>4. CloseFailed \/ NextAttempt => UNCHANGED failures
    BY DEF CloseFailed, NextAttempt
  <2> QED
    BY <1>1, <1>2, <1>5, <1>6, <2>2, <2>3, <2>4, FailuresAside
<1>8. \A g \in Gens : snd'[g] = "none"
  BY <1>1, <1>2, <1>5, SenderAside
<1>9. \A g \in Gens : rd'[g] = "none"
  <2>1. \A g \in Gens : ProviderFinal(g) \/ ProviderConflict(g) \/ ProviderBreaks(g) => UNCHANGED rd
    BY DEF ProviderFinal, ProviderConflict, ProviderBreaks, reader
  <2> QED
    BY <1>1, <1>2, <1>5, <2>1, ReaderAside
<1>10. finals' = <<>>
  <2>1. StopDrain => UNCHANGED finals
    BY DEF StopDrain
  <2> QED
    BY <1>2, <1>5, <1>6, <2>1, FinalsAside
<1> QED
  BY <1>3, <1>4, <1>7, <1>8, <1>9, <1>10

LEMMA AttemptsSpentKept ==
  ASSUME TypeOK, UnbornIdle, UnbornIdle', Connecting, FirstConnects, AttemptsSpent, Next, ~Retry
  PROVE  AttemptsSpent'
<1>c. {"initial", "supervisor", "retry"} \subseteq Connectors
  BY DEF Connectors
<1>i. IdleConnect.pc = "idle" /\ IdleSupervisor.pc = "idle"
  BY DEF IdleConnect, IdleSupervisor
<1>n. Budget \in Nat /\ gen \in Nat /\ count \in Nat /\ sup.attempt \in Nat /\ sup.attempt =< Budget
  BY CapacityAssumption DEF TypeOK, CoordType, ConnectType, Handling, CapacityAssumption
<1>0. /\ gen =< Budget + 1
      /\ sup.pc = "idle" => unavailable \/ cancelled \/ gen =< count + 1
      /\ sup.pc \in {"close", "backoff"} => gen =< sup.attempt + 1
      /\ sup.pc = "connect" =>
            /\ conn["supervisor"].count = sup.attempt + 1
            /\ gen =< sup.attempt + 2
            /\ conn["supervisor"].pc = "create" => gen =< sup.attempt + 1
            /\ conn["supervisor"].pc \in {"mark", "close"} => count = sup.attempt + 1
  BY DEF AttemptsSpent
<1>1. cancelled => cancelled'
  BY StopAside DEF cancelled, StopCall, StopAgain, StopSender, StopRemote, StopAnswered,
     StopDrain, StopFinals, StopGap, StopFinish, StopAt
<1>2. unavailable => unavailable'
  <2>1. \A f : Report(f) => (unavailable => unavailable')
    BY DEF Report
  <2>2. \/ UNCHANGED unavailable
        \/ \E f : Report(f)
        \/ CloseFailed \/ NextAttempt
    <3>1. ASSUME NEW g \in Gens, Write(g) \/ Read(g) \/ ReadClosed(g) \/ Submit(g)
          PROVE  UNCHANGED unavailable \/ \E f : Report(f)
      BY <3>1 DEF Write, Read, ReadClosed, Submit
    <3>2. Frame => UNCHANGED unavailable \/ \E f : Report(f)
      BY DEF Frame
    <3>3. \A c \in Connectors : ConnectFails(c) => \E f : Report(f)
      BY DEF ConnectFails
    <3>4. Supervise => UNCHANGED unavailable
      BY DEF Supervise
    <3>5. PersistFails => \E f : Report(f)
      BY DEF PersistFails
    <3> QED
      BY <3>1, <3>2, <3>3, <3>4, <3>5, FailuresAside
  <2>3. CloseFailed \/ NextAttempt => (unavailable => unavailable')
    BY DEF CloseFailed, NextAttempt, GiveUp
  <2> QED
    BY <2>1, <2>2, <2>3
<1>3. ASSUME NEW d \in Connectors,
             \/ ConnectCreate(d) \/ ConnectDial(d) \/ ConnectAdopt(d) \/ ConnectMark(d)
             \/ ConnectCloseGap(d) \/ ConnectFails(d)
      PROVE  AttemptsSpent'
  <2>1. /\ conn[d].pc # "idle" /\ d \in {"initial", "supervisor"}
        /\ \/ sup' = sup /\ (conn'[d].pc = "idle" => d # "supervisor")
           \/ d = "supervisor" /\ ConnectCloseGap(d) /\ sup' = IdleSupervisor /\ conn'[d] = IdleConnect
    BY <1>3, ConnMoves DEF Connectors, Connecting
  <2>2. \A c \in Connectors \ {d} : conn'[c] = conn[c]
    BY <1>3, ConnSteps
  <2>3. d = "supervisor" => sup.pc = "connect"
    BY <2>1 DEF Connecting
  <2>4. ConnectCreate(d) => /\ gen' = gen + 1 /\ UNCHANGED count /\ conn[d].pc = "create"
                            /\ conn'[d].pc \in {"dial", "failed"} /\ conn'[d].count = conn[d].count
    <3>1. ConnectCreate(d) => gen' = gen + 1 /\ UNCHANGED count /\ conn[d].pc = "create"
      BY DEF ConnectCreate, At
    <3>2. ConnectCreate(d) => ~ConnectDial(d) /\ ~ConnectAdopt(d) /\ ~ConnectMark(d) /\ ~ConnectCloseGap(d) /\ ~ConnectFails(d)
      BY DEF ConnectCreate, ConnectDial, ConnectAdopt, ConnectMark, ConnectCloseGap, ConnectFails, At
    <3> QED
      BY <1>3, <3>1, <3>2, ConnSteps
  <2>5. ~ConnectCreate(d) => gen' = gen
    BY <1>3 DEF ConnectDial, ConnectAdopt, ConnectMark, ConnectCloseGap, ConnectFails, coord
  <2>6. ConnectAdopt(d) => /\ UNCHANGED count \/ count' = conn[d].count
                           /\ conn[d].pc = "adopt"
    BY DEF ConnectAdopt, At
  <2>7. ~ConnectAdopt(d) => UNCHANGED count
    BY <1>3 DEF ConnectCreate, ConnectDial, ConnectMark, ConnectCloseGap, ConnectFails, coord
  <2>8. ~ConnectCreate(d) => /\ conn'[d].pc # "create"
                             /\ conn'[d].count = conn[d].count \/ conn'[d] = IdleConnect
    BY <1>3, <1>i, ConnSteps
  <2>9. /\ ConnectAdopt(d) => (UNCHANGED count => conn'[d].pc = "failed" \/ count = conn[d].count)
        /\ ConnectDial(d) => conn'[d].pc \in {"adopt", "failed"}
        /\ ConnectMark(d) => conn[d].pc = "mark"
        /\ ConnectCloseGap(d) => conn[d].pc = "close"
        /\ ConnectFails(d) => d # "supervisor"
    <3>1. conn \in [Connectors -> Connection]
      BY DEF TypeOK, ConnectType
    <3>2. ASSUME ConnectAdopt(d), UNCHANGED count PROVE conn'[d].pc = "failed" \/ count = conn[d].count
      BY <3>1, <3>2 DEF ConnectAdopt, Goto, Connection
    <3>3. ASSUME ConnectDial(d) PROVE conn'[d].pc \in {"adopt", "failed"}
      BY <3>1, <3>3 DEF ConnectDial, Goto, Connection
    <3> QED
      BY <3>2, <3>3 DEF ConnectMark, ConnectCloseGap, ConnectFails, At
  <2>a. d = "initial" => conn[d].count = 0
    BY DEF Connecting
  <2>b. d = "initial" /\ conn[d].pc \in {"create", "dial", "adopt"} => gen =< 1 /\ sup.pc \in {"idle", "close"}
    BY DEF FirstConnects, FirstConnecting
  <2>e. ConnectCreate(d) /\ d = "initial" => gen = 0
    BY <2>4 DEF FirstConnects, FirstConnecting
  <2>10. CASE d = "initial"
    <3>1. sup' = sup /\ conn'["supervisor"] = conn["supervisor"]
      BY <1>c, <2>1, <2>2, <2>10
    <3>2. CASE ConnectCreate(d)
      <4>1. gen = 0 /\ gen' = 1 /\ count' = count /\ sup.pc \in {"idle", "close"}
        BY <2>4, <2>10, <2>b, <2>e, <3>2
      <4> QED
        BY <1>n, <3>1, <4>1 DEF AttemptsSpent
    <3>3. CASE ConnectAdopt(d)
      <4>1. gen =< 1 /\ gen' = gen /\ count' \in Nat /\ sup.pc \in {"idle", "close"}
        <5>1. ~ConnectCreate(d)
          BY <3>3 DEF ConnectAdopt, ConnectCreate, At
        <5> QED
          BY <1>n, <2>5, <2>6, <2>10, <2>a, <2>b, <3>3, <5>1
      <4>2. gen' =< Budget + 1 /\ gen' =< count' + 1
        <5>1. gen' \in Nat /\ gen' =< 1 /\ count' \in Nat /\ Budget \in Nat
          BY <1>n, <4>1
        <5>2. \A m, n \in Nat : m =< 1 => m =< n + 1
          OBVIOUS
        <5> QED
          BY <5>1, <5>2, Zenon
      <4>3. sup'.pc \in {"close", "backoff"} => gen' =< sup'.attempt + 1
        BY <1>0, <3>1, <4>1
      <4>4. sup'.pc # "connect"
        BY <3>1, <4>1
      <4> QED
        BY <4>2, <4>3, <4>4 DEF AttemptsSpent
    <3>4. CASE ~ConnectCreate(d) /\ ~ConnectAdopt(d)
      BY <1>0, <1>1, <1>2, <2>5, <2>7, <3>1, <3>4 DEF AttemptsSpent
    <3> QED
      BY <3>2, <3>3, <3>4
  <2>11. CASE d = "supervisor"
    <3>0. /\ sup.pc = "connect" /\ conn["supervisor"].count = sup.attempt + 1 /\ gen =< sup.attempt + 2
          /\ conn["supervisor"].pc = "create" => gen =< sup.attempt + 1
          /\ conn["supervisor"].pc \in {"mark", "close"} => count = sup.attempt + 1
          /\ sup.attempt < Budget
      BY <1>0, <2>3, <2>11 DEF UnbornIdle
    <3>1. CASE ConnectCreate(d)
      <4>1. /\ gen' = gen + 1 /\ gen =< sup.attempt + 1 /\ conn'["supervisor"].pc \in {"dial", "failed"}
            /\ conn'["supervisor"].count = sup.attempt + 1 /\ sup' = sup
        BY <1>i, <2>1, <2>4, <2>11, <3>0, <3>1
      <4> QED
        BY <1>n, <3>0, <4>1 DEF AttemptsSpent
    <3>2. CASE ~ConnectCreate(d) /\ sup' = sup
      <4>1. /\ gen' = gen /\ conn'["supervisor"].pc # "create" /\ conn'["supervisor"].count = sup.attempt + 1
        BY <1>i, <2>1, <2>5, <2>8, <2>11, <3>0, <3>2
      <4>2. conn'["supervisor"].pc \in {"mark", "close"} => count' = sup.attempt + 1
        <5>1. CASE ConnectAdopt(d)
          BY <2>6, <2>9, <2>11, <3>0, <5>1
        <5>2. CASE ~ConnectAdopt(d)
          BY <1>3, <2>7, <2>9, <2>11, <3>0, <3>2, <5>2, ConnMoves
        <5> QED
          BY <5>1, <5>2
      <4> QED
        BY <1>0, <1>n, <3>0, <3>2, <4>1, <4>2 DEF AttemptsSpent
    <3>3. CASE ConnectCloseGap(d) /\ sup' = IdleSupervisor
      <4>1. conn["supervisor"].pc = "close" /\ gen' = gen /\ count' = count
        <5>1. ~ConnectCreate(d) /\ ~ConnectAdopt(d)
          BY <3>3 DEF ConnectCreate, ConnectAdopt, ConnectCloseGap, At
        <5> QED
          BY <2>5, <2>7, <2>9, <2>11, <3>3, <5>1
      <4> QED
        BY <1>0, <1>i, <1>n, <3>0, <3>3, <4>1 DEF AttemptsSpent
    <3>4. ConnectCreate(d) => sup' = sup
      BY DEF ConnectCreate
    <3> QED
      BY <2>1, <3>1, <3>2, <3>3, <3>4
  <2> QED
    BY <2>1, <2>10, <2>11
<1>4. CASE Supervise
  <2>1. UNCHANGED <<conn, gen, count, unavailable, stopPc>>
    BY <1>4 DEF Supervise, stop
  <2>2. CASE sup' = sup
    BY <1>0, <2>1, <2>2 DEF AttemptsSpent, cancelled
  <2>3. CASE sup'.pc = "close" /\ sup'.attempt = count /\ Handled(Head(failures))
    <3>1. sup.pc = "idle" /\ ~cancelled
      BY <1>4 DEF Supervise
    <3>2. gen =< count + 1
      BY <1>0, <2>3, <3>1 DEF Handled
    <3> QED
      BY <1>0, <2>1, <2>3, <3>2 DEF AttemptsSpent
  <2> QED
    BY <1>4, <2>2, <2>3, SupSteps
<1>5. CASE CloseFailed
  <2>1. UNCHANGED <<gen, count>> /\ sup.pc = "close"
    BY <1>5 DEF CloseFailed
  <2>2. CASE sup' = IdleSupervisor /\ unavailable'
    BY <1>0, <1>i, <2>1, <2>2 DEF AttemptsSpent
  <2>3. CASE sup'.pc = "backoff" /\ sup'.attempt = sup.attempt
    BY <1>0, <2>1, <2>3 DEF AttemptsSpent
  <2> QED
    BY <1>5, <2>2, <2>3, SupSteps
<1>6. CASE Backoff
  <2>1. UNCHANGED <<gen, count>> /\ sup.pc = "backoff" /\ UNCHANGED stopPc
    BY <1>6 DEF Backoff, coord, stop
  <2>2. CASE sup' = IdleSupervisor /\ cancelled
    BY <1>0, <1>i, <2>1, <2>2 DEF AttemptsSpent, cancelled
  <2>3. CASE /\ sup'.pc = "connect" /\ sup'.attempt = sup.attempt
             /\ conn'["supervisor"] = [pc |-> "create", gen |-> 0, start |-> sup.resume, count |-> Attempts]
    <3>1. conn'["supervisor"].pc = "create" /\ conn'["supervisor"].count = sup.attempt + 1
      BY <2>3 DEF Attempts
    <3>2. gen =< sup.attempt + 1
      BY <1>0, <2>1
    <3> QED
      BY <1>0, <1>n, <2>1, <2>3, <3>1, <3>2 DEF AttemptsSpent
  <2> QED
    BY <1>6, <2>2, <2>3, SupSteps
<1>7. CASE NextAttempt
  <2>1. UNCHANGED <<gen, count>> /\ sup.pc = "connect"
    BY <1>7 DEF NextAttempt, At, Connecting
  <2>2. CASE sup' = IdleSupervisor /\ unavailable'
    BY <1>0, <1>i, <2>1, <2>2 DEF AttemptsSpent
  <2>3. CASE sup'.pc = "backoff" /\ sup'.attempt = Attempts
    BY <1>0, <1>n, <2>1, <2>3 DEF AttemptsSpent, Attempts
  <2> QED
    BY <1>7, <2>2, <2>3, SupSteps
<1>8. CASE UNCHANGED <<conn, sup>>
  <2>1. UNCHANGED gen
    <3>1. ASSUME NEW c \in Connectors, ConnectCreate(c) PROVE FALSE
      <4>1. conn[c].pc = "create" /\ conn'[c].pc \in {"dial", "failed"}
        BY <3>1 DEF ConnectCreate, At, TypeOK, ConnectType, Connection
      <4> QED
        BY <1>8, <4>1
    <3> QED
      BY <3>1, GenGrows
  <2>2. UNCHANGED count
    <3>1. ASSUME NEW c \in Connectors, ConnectAdopt(c) PROVE FALSE
      <4>1. conn[c].pc = "adopt" /\ conn'[c].pc \in {"mark", "failed"}
        BY <3>1 DEF ConnectAdopt, At, Goto, TypeOK, ConnectType, Connection
      <4> QED
        BY <1>8, <4>1
    <3> QED
      BY <3>1, CountAside
  <2> QED
    BY <1>0, <1>1, <1>2, <1>8, <2>1, <2>2 DEF AttemptsSpent
<1> QED
  BY <1>3, <1>4, <1>5, <1>6, <1>7, <1>8, ConnAside

LEMMA BudgetFitsKept ==
  ASSUME TypeOK, UnbornIdle, UnbornIdle', BudgetFits, Next
  PROVE  BudgetFits'
<1> SUFFICES ASSUME retries' = 0 PROVE Connecting' /\ FirstConnects' /\ AttemptsSpent'
  BY DEF BudgetFits
<1>1. retries = 0 /\ ~Retry
  <2>1. retries \in Nat
    BY DEF TypeOK, DatabaseType
  <2>2. Retry => retries' = retries + 1
    BY DEF Retry
  <2>3. Crash \/ RecoverSessions \/ RecoverGap => UNCHANGED retries
    BY DEF Crash, RecoverSessions, RecoverGap
  <2> QED
    BY <2>1, <2>2, <2>3, BootAside
<1>2. Connecting /\ FirstConnects /\ AttemptsSpent
  BY <1>1 DEF BudgetFits
<1> QED
  BY <1>1, <1>2, ConnectingKept, FirstConnectsKept, AttemptsSpentKept

-----------------------------------------------------------------------------
(* The first connection.                                                   *)

LEMMA OnlyResultsKept ==
  ASSUME TypeOK, OnlyResults, Next
  PROVE  OnlyResults'
<1>0. /\ finals \in Seq(Event) /\ got \in [Gens -> Event]
      /\ rd \in [Gens -> {"none", "started", "read", "submit", "done"}]
  BY DEF TypeOK, SessionType
<1>1. \A i \in DOMAIN finals' : finals'[i].kind # "failed"
  <2>1. ASSUME NEW g \in Gens, Submit(g)
        PROVE  \A i \in DOMAIN finals' : finals'[i].kind # "failed"
    <3>1. finals' \in {finals, Append(finals, got[g])} /\ rd[g] = "submit"
      BY <2>1 DEF Submit, ReaderAt
    <3>2. \A i \in DOMAIN finals' : (i \in DOMAIN finals /\ finals'[i] = finals[i]) \/ finals'[i] = got[g]
      <4>1. got[g] \in Event
        BY <1>0
      <4> QED
        BY <1>0, <3>1, <4>1
    <3> QED
      BY <3>1, <3>2 DEF OnlyResults
  <2>2. CASE Persist \/ PersistFails
    <3>1. finals # <<>> /\ finals' = Tail(finals)
      BY <2>2 DEF Persist, PersistFails
    <3>2. \A i \in DOMAIN finals' : i + 1 \in DOMAIN finals /\ finals'[i] = finals[i + 1]
      BY <1>0, <3>1
    <3> QED
      BY <3>2 DEF OnlyResults
  <2>3. StopDrain => UNCHANGED finals
    BY DEF StopDrain
  <2> QED
    BY <2>1, <2>2, <2>3, FinalsAside DEF OnlyResults
<1>2. ASSUME NEW h \in Gens, rd'[h] = "submit" PROVE got'[h].kind # "failed"
  <2>1. ASSUME NEW g \in Gens, Read(g)
        PROVE  \/ rd'[h] = rd[h] /\ got'[h] = got[h]
               \/ got'[h].kind # "failed"
    <3>1. \/ rd' = [rd EXCEPT ![g] = "done"] /\ UNCHANGED got
          \/ /\ rd' = [rd EXCEPT ![g] = "submit"] /\ got' = [got EXCEPT ![g] = Head(events[g])]
             /\ Head(events[g]).kind # "failed"
      BY <2>1 DEF Read
    <3> QED
      BY <1>0, <1>2, <3>1
  <2>2. ASSUME NEW g \in Gens, Submit(g)
        PROVE  rd'[h] = rd[h] /\ got'[h] = got[h]
    <3>1. /\ rd' = [rd EXCEPT ![g] = "read"] \/ rd' = [rd EXCEPT ![g] = "done"]
          /\ got' = [got EXCEPT ![g] = NoEvent]
      BY <2>2 DEF Submit
    <3> QED
      BY <1>0, <1>2, <3>1
  <2>3. ASSUME NEW g \in Gens, ReadStarted(g) \/ ReadClosed(g)
        PROVE  rd'[h] = rd[h] /\ got'[h] = got[h]
    <3>1. (\E p \in {"read", "done"} : rd' = [rd EXCEPT ![g] = p]) /\ UNCHANGED got
      BY <2>3 DEF ReadStarted, ReadClosed
    <3> QED
      BY <1>0, <1>2, <3>1
  <2>4. ASSUME NEW c \in Connectors, ConnectCloseGap(c)
        PROVE  rd'[h] = rd[h] /\ got'[h] = got[h]
    <3>1. rd' \in {rd, [rd EXCEPT ![conn[c].gen] = "started"]} /\ UNCHANGED got
      BY <2>4 DEF ConnectCloseGap
    <3> QED
      BY <1>0, <1>2, <3>1
  <2>5. \A g \in Gens : ProviderFinal(g) \/ ProviderConflict(g) \/ ProviderBreaks(g) => UNCHANGED <<rd, got>>
    BY DEF ProviderFinal, ProviderConflict, ProviderBreaks, reader
  <2> QED
    BY <1>2, <2>1, <2>2, <2>3, <2>4, <2>5, ReaderAside DEF OnlyResults
<1> QED
  BY <1>1, <1>2 DEF OnlyResults

(* A skipped frame, or another connection, is never undone. *)
LEMMA FirstBack ==
  ASSUME TypeOK, QueueFits, Next, First'
  PROVE  /\ First /\ gen \in {0, 1} /\ gen' \in {0, 1} /\ 1 \in Gens
         /\ Frame => \/ tail' = recorded' /\ head' = (IF tail = 0 THEN recorded ELSE head)
                        /\ UNCHANGED <<failures, unavailable>>
                     \/ tail = 0 /\ ~Active /\ UNCHANGED <<tail, head, failures, unavailable>>
<1>0. /\ recorded \in Nat /\ head \in Nat /\ tail \in Nat /\ tail - head \in 0 .. QueueSlots
      /\ tail =< recorded /\ QueueSlots \in Nat \ {0}
  BY CapacityAssumption DEF TypeOK, QueueType, QueueFits, CapacityAssumption
<1>1. gen \in {0, 1} /\ gen' \in {0, 1} /\ 1 \in Gens
  <2>1. gen \in Nat /\ gen' \in Nat /\ (gen' = gen \/ gen' = gen + 1)
    BY GenGrows
  <2>2. gen' =< 1 /\ 1 \in Gens
    BY DEF First, Gens
  <2> QED
    BY <2>1, <2>2
<1>2. CASE Frame
  <2>1. tail' \in {0, recorded'} /\ recorded' = recorded + 1
    BY <1>2 DEF First, Follows, Frame
  <2>2. CASE Active /\ HasRoom /\ Follows
    BY <1>1, <1>2, <2>2 DEF Frame, First
  <2>3. CASE ~(Active /\ HasRoom /\ Follows)
    <3>1. tail' = tail /\ head' = head
      BY <1>2, <2>3 DEF Frame
    <3>2. tail = 0
      BY <1>0, <2>1, <3>1
    <3>3. HasRoom /\ Follows
      BY <1>0, <3>2 DEF HasRoom, Follows
    <3>4. ~Active /\ UNCHANGED <<failures, unavailable>>
      BY <1>2, <2>3, <3>3 DEF Frame
    <3> QED
      BY <1>1, <3>1, <3>2, <3>3, <3>4 DEF First
  <2> QED
    BY <2>2, <2>3
<1>3. ASSUME NEW g \in Gens, Take(g) PROVE UNCHANGED <<tail, recorded>> /\ ~Frame
  BY <1>0, <1>3 DEF Take, Frame
<1>4. UNCHANGED <<recorded, tail>> => ~Frame
  BY <1>0 DEF Frame
<1> QED
  BY <1>1, <1>2, <1>3, <1>4, QueueAside DEF First, Follows

(* Who may act as long as there is only one connection. *)
LEMMA FirstActors ==
  ASSUME TypeOK, UnbornIdle, FirstSetup, FirstAlone, First, First', Next
  PROVE  /\ \A c \in Connectors :
               (\/ ConnectCreate(c) \/ ConnectDial(c) \/ ConnectAdopt(c) \/ ConnectMark(c)
                \/ ConnectCloseGap(c) \/ ConnectFails(c))
                 => c = "initial" /\ Setup
         /\ \A c \in Connectors : ConnectCreate(c) => gen = 0 /\ gen' = 1 /\ conn[c].pc = "create"
         /\ \A c \in Connectors : ConnectDial(c) \/ ConnectAdopt(c) \/ ConnectMark(c) \/ ConnectCloseGap(c)
                 => conn[c].gen = 1
         /\ ~NextAttempt
         /\ \A g \in Gens : (link[g] # "none" \/ snd[g] # "none" \/ rd[g] # "none") => g = 1
         /\ stopPc \in {"sender", "remote", "answer"} => stopOf = 1
         /\ ~Setup => gen = 1
<1>0. /\ gen \in Nat /\ gen' \in Nat /\ gen =< 1 /\ gen' =< 1 /\ 1 \in Gens
  BY GenGrows DEF First
<1>g. \A g \in Gens : g \in Nat /\ g >= 1
  BY GensOf DEF Gens
<1>1. ASSUME NEW c \in Connectors, c # "initial" PROVE conn[c].pc \in {"idle", "create"}
  BY <1>1 DEF FirstAlone, Alone
<1>2. ~Setup => gen = 1
  <2>1. ~Setup => conn["initial"].pc # "create"
    BY DEF Setup
  <2> QED
    BY <1>0, <2>1 DEF FirstAlone, Alone
<1>3. ASSUME NEW c \in Connectors, ConnectCreate(c)
      PROVE  gen = 0 /\ gen' = 1 /\ conn[c].pc = "create" /\ c = "initial" /\ Setup
  <2>1. gen' = gen + 1 /\ conn[c].pc = "create"
    BY <1>3 DEF ConnectCreate, At
  <2>2. gen = 0 /\ gen' = 1
    BY <1>0, <2>1
  <2>3. Setup
    BY <1>2, <2>2
  <2>4. conn["retry"].pc = "idle" /\ conn["supervisor"].pc = "idle"
    BY <2>3 DEF FirstSetup, NothingElse
  <2> QED
    BY <2>1, <2>2, <2>3, <2>4 DEF Connectors
<1>4. ASSUME NEW c \in Connectors,
             ConnectDial(c) \/ ConnectAdopt(c) \/ ConnectMark(c) \/ ConnectCloseGap(c) \/ ConnectFails(c)
      PROVE  c = "initial" /\ Setup
  <2>1. conn[c].pc \in {"dial", "adopt", "mark", "close", "failed"}
    BY <1>4 DEF ConnectDial, ConnectAdopt, ConnectMark, ConnectCloseGap, ConnectFails, At
  <2> QED
    BY <1>1, <2>1 DEF Setup
<1>5. ASSUME NEW c \in Connectors, ConnectDial(c) \/ ConnectAdopt(c) \/ ConnectMark(c) \/ ConnectCloseGap(c)
      PROVE  conn[c].gen = 1
  <2>1. conn[c].pc \in {"dial", "adopt", "mark", "close"}
    BY <1>5 DEF ConnectDial, ConnectAdopt, ConnectMark, ConnectCloseGap, At
  <2>2. conn[c].gen \in Gens /\ conn[c].gen =< gen
    BY <2>1 DEF UnbornIdle
  <2> QED
    BY <1>0, <1>g, <2>2
<1>6. ~NextAttempt
  BY <1>1 DEF NextAttempt, At, Connectors
<1>7. ASSUME NEW g \in Gens, link[g] # "none" \/ snd[g] # "none" \/ rd[g] # "none" PROVE g = 1
  <2>1. ~(g > gen)
    BY <1>7 DEF UnbornIdle
  <2> QED
    BY <1>0, <1>g, <2>1
<1>8. stopPc \in {"sender", "remote", "answer"} => stopOf = 1
  BY <1>0, <1>g DEF UnbornIdle
<1> QED
  BY <1>2, <1>3, <1>4, <1>5, <1>6, <1>7, <1>8

(* Setting up, once begun by Start, is over for good. *)
LEMMA SetupSteps ==
  ASSUME TypeOK, UnbornIdle, FirstSetup, FirstAlone, First, First', Next
  PROVE  /\ Setup' => Setup
         /\ \/ conn'["initial"] = conn["initial"]
            \/ ConnectCreate("initial") /\ conn'["initial"].pc \in {"dial", "failed"}
            \/ ConnectDial("initial") /\ conn'["initial"].pc \in {"adopt", "failed"}
            \/ ConnectAdopt("initial") /\ conn'["initial"].pc = (IF stopping THEN "failed" ELSE "mark")
            \/ ConnectMark("initial") /\ conn'["initial"].pc = "close"
            \/ ConnectCloseGap("initial") /\ conn'["initial"].pc = "idle"
            \/ ConnectFails("initial") /\ conn'["initial"].pc = "idle"
         /\ \A c \in Connectors \ {"initial"} : conn'[c].pc \in {"idle", "create"}
         /\ conn'["initial"].start = 0
<1>c. {"initial", "supervisor", "retry"} \subseteq Connectors /\ conn \in [Connectors -> Connection]
  BY DEF Connectors, TypeOK, ConnectType
<1>i. IdleConnect.pc = "idle" /\ IdleConnect.start = 0
  BY DEF IdleConnect
<1>1. ASSUME NEW d \in Connectors,
             \/ ConnectCreate(d) \/ ConnectDial(d) \/ ConnectAdopt(d) \/ ConnectMark(d)
             \/ ConnectCloseGap(d) \/ ConnectFails(d)
      PROVE  /\ d = "initial" /\ Setup
             /\ \A c \in Connectors \ {"initial"} : conn'[c] = conn[c]
             /\ conn'["initial"].start = 0
  <2>1. d = "initial" /\ Setup
    <3>1. \A c \in Connectors :
             (\/ ConnectCreate(c) \/ ConnectDial(c) \/ ConnectAdopt(c) \/ ConnectMark(c)
              \/ ConnectCloseGap(c) \/ ConnectFails(c))
               => c = "initial" /\ Setup
      BY FirstActors
    <3> QED
      BY <1>1, <3>1
  <2>2. conn["initial"].start = 0
    BY DEF FirstAlone
  <2> QED
    BY <1>1, <1>i, <2>1, <2>2, ConnSteps
<1>2. CASE ConnectCreate("initial")
  <2>1. \E p \in {"dial", "failed"} : conn' = [conn EXCEPT !["initial"].pc = p, !["initial"].gen = gen + 1]
    BY <1>2 DEF ConnectCreate
  <2>2. conn'["initial"].pc \in {"dial", "failed"}
    BY <1>c, <2>1 DEF Connection
  <2> QED
    BY <1>1, <1>2, <1>c, <2>2 DEF FirstAlone, Alone
<1>3. CASE ConnectDial("initial")
  <2>1. \E p \in {"adopt", "failed"} : conn' = [conn EXCEPT !["initial"].pc = p]
    BY <1>3 DEF ConnectDial, Goto
  <2>2. conn'["initial"].pc \in {"adopt", "failed"}
    BY <1>c, <2>1 DEF Connection
  <2> QED
    BY <1>1, <1>3, <1>c, <2>2 DEF FirstAlone, Alone
<1>4. CASE ConnectAdopt("initial")
  <2>1. conn' = [conn EXCEPT !["initial"].pc = IF stopping THEN "failed" ELSE "mark"]
    BY <1>4 DEF ConnectAdopt, Goto
  <2>2. conn'["initial"].pc = (IF stopping THEN "failed" ELSE "mark")
    BY <1>c, <2>1 DEF Connection
  <2> QED
    BY <1>1, <1>4, <1>c, <2>2 DEF FirstAlone, Alone
<1>5. CASE ConnectMark("initial")
  <2>1. conn' = [conn EXCEPT !["initial"].pc = "close"]
    BY <1>5 DEF ConnectMark, Goto
  <2>2. conn'["initial"].pc = "close"
    BY <1>c, <2>1 DEF Connection
  <2> QED
    BY <1>1, <1>5, <1>c, <2>2 DEF FirstAlone, Alone
<1>6. CASE ConnectCloseGap("initial")
  <2>1. ~(gapStart # NoSample /\ gapStart < conn["initial"].start)
    <3>1. conn["initial"].start = 0 /\ gapStart \in Samples
      BY DEF FirstAlone, TypeOK, CoordType
    <3> QED
      BY <3>1 DEF Samples, NoSample
  <2>2. conn' = [conn EXCEPT !["initial"] = IdleConnect]
    BY <1>6, <2>1 DEF ConnectCloseGap
  <2> QED
    BY <1>1, <1>6, <1>c, <1>i, <2>2 DEF FirstAlone, Alone
<1>7. CASE ConnectFails("initial")
  <2>1. conn' = [conn EXCEPT !["initial"] = IdleConnect]
    BY <1>7 DEF ConnectFails
  <2> QED
    BY <1>1, <1>7, <1>c, <1>i, <2>1 DEF FirstAlone, Alone
<1>8. CASE UNCHANGED conn
  BY <1>8 DEF FirstAlone, Alone, Setup
<1>9. CASE Backoff
  <2>1. /\ \A c \in Connectors \ {"supervisor"} : conn'[c] = conn[c]
        /\ conn'["supervisor"] = conn["supervisor"] \/ conn'["supervisor"].pc = "create"
    BY <1>9, SupSteps
  <2> QED
    BY <1>c, <2>1 DEF FirstAlone, Alone, Setup
<1>10. CASE Retry
  <2>1. /\ \A c \in Connectors \ {"retry"} : conn'[c] = conn[c]
        /\ conn'["retry"].pc = "create"
    <3>1. [IdleConnect EXCEPT !.pc = "create", !.start = lastSent].pc = "create"
      BY DEF IdleConnect
    <3> QED
      BY <1>10, <3>1, SupSteps
  <2> QED
    BY <1>c, <2>1 DEF FirstAlone, Alone, Setup
<1>11. Supervise \/ CloseFailed => UNCHANGED conn
  BY DEF Supervise, CloseFailed
<1> QED
  BY <1>1, <1>2, <1>3, <1>4, <1>5, <1>6, <1>7, <1>8, <1>9, <1>10, <1>11, ConnAside, FirstActors

(* While the first connection is being set up nobody else takes a step that *)
(* the queue or the supervisor would notice.                               *)
LEMMA QuietSetup ==
  ASSUME TypeOK, UnbornIdle, FirstSetup, FirstAlone, First, First', Setup, Next
  PROVE  /\ NothingElse
         /\ \A g \in Gens : /\ ~Take(g) /\ ~Woken(g) /\ ~Write(g) /\ ~Advance(g)
                            /\ ~ReadStarted(g) /\ ~Read(g) /\ ~ReadClosed(g) /\ ~Submit(g)
         /\ ~Persist /\ ~PersistFails /\ ~Supervise /\ ~CloseFailed /\ ~Backoff /\ ~NextAttempt /\ ~Retry
         /\ ~StopSender
<1>1. NothingElse
  BY DEF FirstSetup
<1>2. \A g \in Gens : snd[g] = "none" /\ rd[g] = "none"
  BY <1>1, FirstActors DEF NothingElse
<1>3. \A g \in Gens : /\ ~Take(g) /\ ~Woken(g) /\ ~Write(g) /\ ~Advance(g)
                      /\ ~ReadStarted(g) /\ ~Read(g) /\ ~ReadClosed(g) /\ ~Submit(g)
  BY <1>2 DEF Take, Woken, Write, Advance, SenderAt, ReadStarted, Read, ReadClosed, Submit, ReaderAt
<1>4. ~Persist /\ ~PersistFails /\ ~Supervise /\ ~CloseFailed /\ ~Backoff /\ ~Retry
  BY <1>1 DEF NothingElse, Persist, PersistFails, Supervise, CloseFailed, Backoff, Retry
<1>5. ~StopSender
  <2>1. StopSender => stopPc = "sender" /\ snd[stopOf] = "done"
    BY DEF StopSender, StopAt
  <2>2. stopPc = "sender" => stopOf = 1
    BY FirstActors
  <2> QED
    BY <1>1, <2>1, <2>2 DEF NothingElse
<1>6. ~NextAttempt
  BY FirstActors
<1> QED
  BY <1>1, <1>3, <1>4, <1>5, <1>6

LEMMA FirstSetupKept ==
  ASSUME TypeOK, UnbornIdle, QueueFits, FirstSetup, FirstAlone, Next, First', Setup'
  PROVE  NothingElse'
<1>0. First /\ Setup /\ 1 \in Gens
  BY FirstBack, SetupSteps
<1>1. /\ NothingElse
      /\ \A g \in Gens : /\ ~Take(g) /\ ~Woken(g) /\ ~Write(g) /\ ~Advance(g)
                         /\ ~ReadStarted(g) /\ ~Read(g) /\ ~ReadClosed(g) /\ ~Submit(g)
      /\ ~Persist /\ ~PersistFails /\ ~Supervise /\ ~CloseFailed /\ ~Backoff /\ ~NextAttempt /\ ~Retry
      /\ ~StopSender
  BY <1>0, QuietSetup
<1>2. /\ tail = recorded /\ head = 0 /\ snd[1] = "none" /\ rd[1] = "none"
      /\ failures = <<>> /\ finals = <<>> /\ ~unavailable /\ sup.pc = "idle"
      /\ conn["retry"].pc = "idle" /\ conn["supervisor"].pc = "idle"
      /\ current = (IF Adopted THEN 1 ELSE 0)
      /\ Adopted => stopPc \in {"none", "sender"}
  BY <1>1 DEF NothingElse
<1>3. \A c \in Connectors : ~ConnectCloseGap(c) /\ ~ConnectFails(c)
  <2>1. \A c \in Connectors : ConnectCloseGap(c) \/ ConnectFails(c) => c = "initial"
    BY <1>0, FirstActors
  <2>2. ConnectCloseGap("initial") \/ ConnectFails("initial") => conn'["initial"].pc = "idle"
    <3>1. ASSUME ConnectCloseGap("initial") \/ ConnectFails("initial"), conn["initial"].pc # "idle",
                 conn["initial"].pc \in {"close", "failed"}
          PROVE  conn'["initial"].pc = "idle"
      <4>1. \/ conn'["initial"] = conn["initial"]
            \/ ConnectCloseGap("initial") /\ conn'["initial"].pc = "idle"
            \/ ConnectFails("initial") /\ conn'["initial"].pc = "idle"
        BY <1>0, <3>1, SetupSteps DEF ConnectCreate, ConnectDial, ConnectAdopt, ConnectMark, At
      <4>2. conn'["initial"] # conn["initial"]
        <5>1. conn \in [Connectors -> Connection] /\ IdleConnect.pc = "idle" /\ "initial" \in Connectors
          BY DEF TypeOK, ConnectType, IdleConnect, Connectors
        <5>2. CASE ConnectFails("initial")
          BY <3>1, <5>1, <5>2 DEF ConnectFails
        <5>3. CASE ConnectCloseGap("initial")
          <6>1. conn["initial"].pc = "close" /\ conn' \in {[conn EXCEPT !["initial"].pc = "failed"], [conn EXCEPT !["initial"] = IdleConnect]}
            BY <5>3 DEF ConnectCloseGap, Goto, At
          <6>2. conn'["initial"].pc # "close"
            BY <5>1, <6>1 DEF Connection
          <6> QED
            BY <6>1, <6>2
        <5> QED
          BY <3>1, <5>2, <5>3
      <4> QED
        BY <4>1, <4>2
    <3>2. ConnectCloseGap("initial") \/ ConnectFails("initial") => conn["initial"].pc \in {"close", "failed"}
      BY DEF ConnectCloseGap, ConnectFails, At
    <3> QED
      BY <3>1, <3>2
  <2> QED
    BY <2>1, <2>2 DEF Setup
<1>4. tail' = recorded' /\ head' = 0
  <2>1. CASE Frame
    <3>1. ~stopping
      BY <2>1 DEF Frame
    <3> QED
      BY <1>2, <2>1, <3>1, FirstBack DEF Active
  <2> QED
    BY <1>1, <1>2, <2>1, QueueAside
<1>5. snd'[1] = "none"
  BY <1>1, <1>2, <1>3, SenderAside
<1>6. rd'[1] = "none"
  <2>1. \A g \in Gens : ProviderFinal(g) \/ ProviderConflict(g) \/ ProviderBreaks(g) => UNCHANGED rd
    BY DEF ProviderFinal, ProviderConflict, ProviderBreaks, reader
  <2> QED
    BY <1>1, <1>2, <1>3, <2>1, ReaderAside
<1>7. failures' = <<>> /\ ~unavailable'
  <2>1. Frame => UNCHANGED <<failures, unavailable>>
    BY FirstBack
  <2> QED
    BY <1>1, <1>2, <1>3, <2>1, FailuresAside
<1>8. finals' = <<>>
  <2>1. StopDrain => UNCHANGED finals
    BY DEF StopDrain
  <2> QED
    BY <1>1, <1>2, <2>1, FinalsAside
<1>9. UNCHANGED sup /\ conn'["retry"].pc = "idle" /\ conn'["supervisor"].pc = "idle"
  <2>1. ASSUME NEW d \in Connectors,
               \/ ConnectCreate(d) \/ ConnectDial(d) \/ ConnectAdopt(d) \/ ConnectMark(d)
               \/ ConnectCloseGap(d) \/ ConnectFails(d)
        PROVE  /\ UNCHANGED sup /\ \A c \in Connectors \ {"initial"} : conn'[c] = conn[c]
    <3>1. d = "initial"
      <4>1. conn[d].pc # "idle"
        BY <2>1, ConnMoves
      <4> QED
        BY <1>2, <4>1 DEF Connectors
    <3> QED
      BY <2>1, <3>1, ConnMoves, ConnSteps
  <2>2. {"retry", "supervisor"} \subseteq Connectors \ {"initial"}
    BY DEF Connectors
  <2> QED
    BY <1>1, <1>2, <2>1, <2>2, ConnAside
<1>10. current' = (IF Adopted' THEN 1 ELSE 0)
  <2>1. CASE conn'["initial"] = conn["initial"]
    <3>1. \A c \in Connectors : ~ConnectAdopt(c)
      <4>1. ASSUME NEW c \in Connectors, ConnectAdopt(c) PROVE FALSE
        <5>1. c = "initial" /\ conn[c].pc = "adopt"
          BY <1>0, <4>1, FirstActors DEF ConnectAdopt, At
        <5>2. conn' = [conn EXCEPT !["initial"].pc = IF stopping THEN "failed" ELSE "mark"]
          BY <4>1, <5>1 DEF ConnectAdopt, Goto
        <5>3. conn'["initial"].pc # "adopt"
          BY <5>2 DEF TypeOK, ConnectType, Connection, Connectors
        <5> QED
          BY <2>1, <5>1, <5>3
      <4> QED
        BY <4>1
    <3>2. StopFinish => current' = 0 /\ ~Adopted
      BY <1>2 DEF StopFinish, StopAt
    <3>3. Adopted' <=> Adopted
      BY <2>1 DEF Adopted
    <3> QED
      BY <1>1, <1>2, <3>1, <3>2, <3>3, CurrentAside
  <2>2. CASE ConnectAdopt("initial") /\ conn'["initial"].pc = (IF stopping THEN "failed" ELSE "mark")
    <3>1. conn["initial"].gen = 1 /\ conn["initial"].pc = "adopt"
      BY <1>0, <2>2, FirstActors DEF ConnectAdopt, At, Connectors
    <3>2. current' = (IF stopping THEN current ELSE 1)
      BY <2>2, <3>1 DEF ConnectAdopt
    <3> QED
      BY <1>2, <2>2, <3>1, <3>2 DEF Adopted
  <2>3. CASE ConnectCreate("initial") /\ conn'["initial"].pc \in {"dial", "failed"}
    <3>1. UNCHANGED current /\ conn["initial"].pc = "create"
      BY <2>3 DEF ConnectCreate, At
    <3> QED
      BY <1>2, <2>3, <3>1 DEF Adopted
  <2>4. CASE ConnectDial("initial") /\ conn'["initial"].pc \in {"adopt", "failed"}
    <3>1. UNCHANGED current /\ conn["initial"].pc = "dial"
      BY <2>4 DEF ConnectDial, At, coord
    <3> QED
      BY <1>2, <2>4, <3>1 DEF Adopted
  <2>5. CASE ConnectMark("initial") /\ conn'["initial"].pc = "close"
    <3>1. UNCHANGED current /\ conn["initial"].pc = "mark"
      BY <2>5 DEF ConnectMark, At, coord
    <3> QED
      BY <1>2, <2>5, <3>1 DEF Adopted
  <2> QED
    BY <1>0, <1>3, <2>1, <2>2, <2>3, <2>4, <2>5, SetupSteps DEF Connectors
<1>11. Adopted' => stopPc' \in {"none", "sender"}
  <2>1. ASSUME Adopted', UNCHANGED <<stopPc, stopOf, tailFailure>> PROVE stopPc \in {"none", "sender"}
    <3>1. CASE conn'["initial"] = conn["initial"]
      BY <1>2, <2>1, <3>1 DEF Adopted
    <3>2. CASE ConnectAdopt("initial") /\ conn'["initial"].pc = (IF stopping THEN "failed" ELSE "mark")
      BY <2>1, <3>2 DEF Adopted, stopping
    <3>3. CASE ConnectMark("initial")
      BY <1>2, <3>3 DEF Adopted, ConnectMark, At
    <3> QED
      BY <1>0, <1>3, <2>1, <3>1, <3>2, <3>3, SetupSteps DEF Adopted, Connectors
  <2>2. StopCall \/ StopAgain \/ StopRemote \/ StopAnswered \/ StopDrain \/ StopFinals \/ StopGap \/ StopFinish
          => UNCHANGED conn
    BY DEF StopCall, StopAgain, StopRemote, StopAnswered, StopDrain, StopFinals, StopGap, StopFinish
  <2>3. StopCall => (Adopted => stopPc' = "sender")
    BY <1>2 DEF StopCall
  <2>4. StopAgain \/ StopRemote \/ StopAnswered \/ StopDrain \/ StopFinals \/ StopGap \/ StopFinish
          => stopPc \notin {"none", "sender"}
    BY DEF StopAgain, StopRemote, StopAnswered, StopDrain, StopFinals, StopGap, StopFinish, StopAt
  <2>5. UNCHANGED conn => (Adopted' <=> Adopted)
    BY DEF Adopted
  <2> QED
    BY <1>1, <1>2, <2>1, <2>2, <2>3, <2>4, <2>5, StopAside
<1> QED
  BY <1>2, <1>4, <1>5, <1>6, <1>7, <1>8, <1>9, <1>10, <1>11 DEF NothingElse

(* The first session is sent ever more, from the first sample. *)
LEMMA FirstSent ==
  ASSUME TypeOK, TypeOK', UnbornIdle, FirstSetup, FirstAlone, First, First', Next
  PROVE  /\ sent[1] \in Nat /\ sent'[1] \in Nat /\ sent[1] =< sent'[1] /\ start'[1] = 0
         /\ gen = 1 => (sent'[1] = sent[1] \/ (Write(1) /\ sent[1] = frame[1] /\ snd[1] = "write"))
<1>0. /\ 1 \in Gens /\ sent \in [Gens -> Nat] /\ sent' \in [Gens -> Nat] /\ start \in [Gens -> Nat]
      /\ gen \in Nat /\ gen =< 1 /\ start[1] = 0
  BY GenGrows DEF First, TypeOK, WireType, FirstAlone, Alone
<1>1. ASSUME NEW c \in Connectors, ConnectCreate(c)
      PROVE  sent[1] = 0 /\ start'[1] = 0 /\ gen # 1
  <2>1. gen = 0 /\ c = "initial"
    BY <1>1, FirstActors
  <2>2. start' = [start EXCEPT ![1] = conn["initial"].start]
    BY <1>1, <2>1 DEF ConnectCreate
  <2>3. sent[1] = 0
    BY <1>0, <2>1 DEF UnbornIdle
  <2> QED
    BY <1>0, <2>1, <2>2, <2>3 DEF FirstAlone
<1>2. ASSUME NEW h \in Gens, Write(h)
      PROVE  /\ sent[1] =< sent'[1] /\ UNCHANGED start
             /\ sent'[1] = sent[1] \/ (Write(1) /\ sent[1] = frame[1] /\ snd[1] = "write")
  <2>1. h = 1
    BY <1>2, FirstActors DEF Write, SenderAt
  <2>2. \/ UNCHANGED sent
        \/ frame[1] = sent[1] /\ sent' = [sent EXCEPT ![1] = frame[1] + 1]
    BY <1>2, <2>1 DEF Write, Writable
  <2> QED
    BY <1>0, <1>2, <2>1, <2>2 DEF Write, SenderAt
<1>3. \A h \in Gens : ProviderFinal(h) => UNCHANGED <<start, sent>>
  BY DEF ProviderFinal
<1> QED
  BY <1>0, <1>1, <1>2, <1>3, WireAside

LEMMA FirstAloneKept ==
  ASSUME TypeOK, TypeOK', UnbornIdle, QueueFits, WireFits, ResultsFit, FirstSetup, FirstAlone, OnlyResults,
         Next, First'
  PROVE  Alone' /\ conn'["initial"].start = 0
<1>0. First /\ 1 \in Gens /\ gen \in {0, 1} /\ gen' \in {0, 1}
  BY FirstBack
<1>1. /\ conn["initial"].pc = "create" <=> gen = 0
      /\ lastSent =< sent[1] /\ lastFinal =< sent[1] /\ gapStart =< sent[1] /\ sup.from =< sent[1]
  BY <1>0 DEF FirstAlone, Alone
<1>2. /\ sent[1] \in Nat /\ sent'[1] \in Nat /\ sent[1] =< sent'[1] /\ start'[1] = 0
  BY <1>0, FirstSent
<1>3. /\ lastSent \in Nat /\ lastFinal \in Nat /\ gapStart \in Int /\ sup.from \in Nat
      /\ sup \in Handling
  BY DEF TypeOK, CoordType, ConnectType, Handling, Samples, NoSample
<1>4. /\ conn'["initial"].start = 0
      /\ \A c \in Connectors \ {"initial"} : conn'[c].pc \in {"idle", "create"}
  BY <1>0, SetupSteps
<1>5. conn'["initial"].pc = "create" <=> gen' = 0
  <2>1. CASE ConnectCreate("initial") /\ conn'["initial"].pc \in {"dial", "failed"}
    BY <1>0, <2>1, FirstActors DEF Connectors
  <2>2. ASSUME \A c \in Connectors : ~ConnectCreate(c) PROVE gen' = gen
    BY <2>2, GenGrows
  <2>3. CASE conn'["initial"] = conn["initial"]
    <3>1. ASSUME NEW c \in Connectors, ConnectCreate(c) PROVE FALSE
      <4>1. c = "initial"
        BY <1>0, <3>1, FirstActors
      <4>2. \E p \in {"dial", "failed"} : conn' = [conn EXCEPT !["initial"].pc = p, !["initial"].gen = gen + 1]
        BY <3>1, <4>1 DEF ConnectCreate
      <4>3. conn'["initial"].pc # "create" /\ conn["initial"].pc = "create"
        BY <3>1, <4>1, <4>2 DEF ConnectCreate, At, TypeOK, ConnectType, Connection, Connectors
      <4> QED
        BY <2>3, <4>3
    <3> QED
      BY <1>1, <2>2, <2>3, <3>1
  <2>4. CASE /\ conn["initial"].pc # "create" /\ conn'["initial"].pc # "create"
    <3>1. \A c \in Connectors : ~ConnectCreate(c)
      BY <1>0, <2>4, FirstActors DEF ConnectCreate, At
    <3> QED
      BY <1>1, <2>2, <2>4, <3>1
  <2> QED
    BY <1>0, <2>1, <2>3, <2>4, SetupSteps DEF ConnectDial, ConnectAdopt, ConnectMark, ConnectCloseGap, ConnectFails, At
<1>6. lastSent' =< sent'[1] /\ lastFinal' =< sent'[1]
  <2>1. ASSUME NEW g \in Gens, Advance(g) PROVE lastSent' =< sent'[1] /\ lastFinal' =< sent'[1]
    <3>1. g = 1
      BY <1>0, <2>1, FirstActors DEF Advance, SenderAt
    <3>2. lastSent' \in {lastSent, sent[1]} /\ UNCHANGED lastFinal
      BY <2>1, <3>1 DEF Advance, Larger
    <3> QED
      BY <1>1, <1>2, <1>3, <3>2
  <2>2. ASSUME Persist PROVE lastSent' =< sent'[1] /\ lastFinal' =< sent'[1]
    <3>1. UNCHANGED lastSent /\ lastFinal' \in {lastFinal, Head(finals).to} /\ Head(finals).kind = "final"
          /\ Head(finals) \in Pending
      BY <2>2, PendingTyped DEF Persist, Persistable, Larger
    <3>2. Head(finals).gen \in Gens /\ Head(finals).gen =< gen /\ Head(finals).to \in Nat
          /\ Head(finals).to =< told[Head(finals).gen]
      BY <3>1, PendingTyped, EventOf DEF ResultsFit
    <3>3. Head(finals).gen = 1
      BY <1>0, <3>2, GensOf DEF Gens
    <3>4. told[1] \in Nat /\ told[1] =< sent[1]
      BY <1>0 DEF WireFits, TypeOK, WireType
    <3> QED
      BY <1>1, <1>2, <1>3, <3>1, <3>2, <3>3, <3>4
  <2>3. ASSUME StopAnswered PROVE lastSent' =< sent'[1] /\ lastFinal' =< sent'[1]
    <3>1. stopOf = 1
      BY <1>0, <2>3, FirstActors DEF StopAnswered, StopAt
    <3>2. lastSent' \in {lastSent, sent[1]} /\ UNCHANGED lastFinal
      BY <2>3, <3>1 DEF StopAnswered, Larger
    <3> QED
      BY <1>1, <1>2, <1>3, <3>2
  <2> QED
    BY <1>1, <1>2, <1>3, <2>1, <2>2, <2>3, ProgressAside
<1>7. gapStart' =< sent'[1]
  <2>1. \A s : OpenGap(s) => gapStart' \in {gapStart, s}
    BY DEF OpenGap
  <2>2. ASSUME NEW c \in Connectors, ConnectCloseGap(c) \/ ConnectFails(c) PROVE gapStart' =< sent'[1]
    <3>1. c = "initial"
      BY <1>0, <2>2, FirstActors
    <3>2. conn[c].start = 0
      BY <3>1 DEF FirstAlone
    <3>3. gapStart' \in {NoSample, gapStart, 0}
      BY <2>1, <2>2, <3>1, <3>2 DEF ConnectCloseGap, ConnectFails
    <3> QED
      BY <1>1, <1>2, <1>3, <3>3 DEF NoSample
  <2>3. CASE CloseFailed
    <3>1. gapStart' \in {gapStart, sup.from}
      BY <2>1, <2>3 DEF CloseFailed
    <3> QED
      BY <1>1, <1>2, <1>3, <3>1
  <2>4. CASE StopFinals
    <3>1. gapStart' \in {gapStart, lastFinal}
      BY <2>1, <2>4 DEF StopFinals
    <3> QED
      BY <1>1, <1>2, <1>3, <3>1
  <2>5. StopGap => gapStart' = NoSample
    BY DEF StopGap
  <2>6. RecoverGap => UNCHANGED gapStart
    BY DEF RecoverGap, coord
  <2> QED
    BY <1>1, <1>2, <1>3, <2>2, <2>3, <2>4, <2>5, <2>6, GapAside DEF NoSample
<1>8. sup'.from =< sent'[1]
  <2>1. IdleSupervisor.from = 0
    BY DEF IdleSupervisor
  <2>2. ASSUME NEW d \in Connectors,
               \/ ConnectCreate(d) \/ ConnectDial(d) \/ ConnectAdopt(d) \/ ConnectMark(d)
               \/ ConnectCloseGap(d) \/ ConnectFails(d)
        PROVE  sup' = sup \/ sup' = IdleSupervisor
    BY <2>2, ConnMoves
  <2>3. Supervise \/ CloseFailed \/ Backoff \/ NextAttempt \/ Retry
          => sup'.from \in {sup.from, lastSent, 0}
    BY <2>1, SupSteps
  <2> QED
    BY <1>1, <1>2, <1>3, <2>1, <2>2, <2>3, ConnAside
<1> QED
  BY <1>2, <1>4, <1>5, <1>6, <1>7, <1>8 DEF Alone

LEMMA InitialFromStart ==
  ASSUME TypeOK, FirstAlone, Next
  PROVE  conn'["initial"].start = 0
<1>0. conn["initial"].start = 0 /\ IdleConnect.start = 0 /\ {"initial", "retry", "supervisor"} \subseteq Connectors
  BY DEF FirstAlone, IdleConnect, Connectors
<1>1. ASSUME NEW d \in Connectors,
             \/ ConnectCreate(d) \/ ConnectDial(d) \/ ConnectAdopt(d) \/ ConnectMark(d)
             \/ ConnectCloseGap(d) \/ ConnectFails(d)
      PROVE  conn'["initial"].start = 0
  BY <1>0, <1>1, ConnSteps
<1>2. Supervise \/ CloseFailed \/ Backoff \/ NextAttempt \/ Retry => conn'["initial"].start = 0
  BY <1>0, SupSteps
<1> QED
  BY <1>0, <1>1, <1>2, ConnAside

LEMMA CancelledIdle ==
  ASSUME TypeOK, cancelled => current = 0, Next, cancelled'
  PROVE  current' = 0
<1>1. CASE StopFinish
  BY <1>1 DEF StopFinish
<1>2. ASSUME ~StopFinish PROVE cancelled
  <2>1. ~StopFinish => stopPc' = stopPc \/ stopPc' # "done"
    BY StopAside DEF StopCall, StopAgain, StopSender, StopRemote, StopAnswered, StopDrain,
       StopFinals, StopGap
  <2> QED
    BY <1>2, <2>1 DEF cancelled
<1>3. ASSUME cancelled PROVE /\ ~Supervise
                             /\ \A c \in Connectors : ConnectAdopt(c) => UNCHANGED current
  BY <1>3 DEF Supervise, ConnectAdopt, cancelled, stopping
<1> QED
  BY <1>1, <1>2, <1>3, CurrentAside

(* Where the current session comes from. *)
LEMMA FirstCurrent ==
  ASSUME TypeOK, UnbornIdle, FirstSetup, FirstAlone, First, First', Next, current' = 1
  PROVE  /\ current = 1 \/ (ConnectAdopt("initial") /\ Setup /\ ~stopping /\ current = 0)
         /\ ~StopFinish /\ \A c \in Connectors : ~ConnectCreate(c)
<1>2. Supervise => current' = 0 \/ UNCHANGED current
  BY DEF Supervise
<1>3. ASSUME NEW c \in Connectors, ConnectAdopt(c)
      PROVE  current = 1 \/ (ConnectAdopt("initial") /\ Setup /\ ~stopping /\ current = 0)
  <2>1. c = "initial" /\ Setup /\ conn[c].pc = "adopt"
    BY <1>3, FirstActors DEF ConnectAdopt, At
  <2>2. current = 0
    BY <2>1 DEF FirstSetup, NothingElse, Adopted
  <2>3. stopping => UNCHANGED current
    BY <1>3 DEF ConnectAdopt
  <2> QED
    BY <1>3, <2>1, <2>2, <2>3
<1>4. current = 1 \/ (ConnectAdopt("initial") /\ Setup /\ ~stopping /\ current = 0)
  BY <1>2, <1>3, CurrentAside DEF StopFinish
<1>5. ~StopFinish
  BY DEF StopFinish
<1>6. \A c \in Connectors : ~ConnectCreate(c)
  <2>1. ASSUME NEW c \in Connectors, ConnectCreate(c) PROVE FALSE
    <3>1. gen = 0 /\ UNCHANGED current /\ conn[c].pc = "create" /\ c = "initial"
      BY <2>1, FirstActors DEF ConnectCreate
    <3>2. ~ConnectAdopt("initial")
      BY <3>1 DEF ConnectAdopt, At
    <3>3. current \in 0 .. gen
      BY DEF TypeOK, CoordType
    <3> QED
      BY <3>1, <3>3
  <2> QED
    BY <2>1
<1> QED
  BY <1>4, <1>5, <1>6

(* While the first session is the current one, its connection is not opened *)
(* again and Setup does not fail.                                          *)
LEMMA StreamingActors ==
  ASSUME TypeOK, UnbornIdle, QueueFits, FirstSetup, FirstAlone, FirstStreams, First, First', Next, current = 1
  PROVE  /\ Streaming /\ gen = 1 /\ ~cancelled
         /\ Setup => NothingElse /\ conn["initial"].pc \in {"mark", "close"}
         /\ \A c \in Connectors : ~ConnectCreate(c) /\ ~ConnectDial(c) /\ ~ConnectAdopt(c) /\ ~ConnectFails(c)
         /\ ~CloseFailed /\ ~Backoff /\ ~NextAttempt
         /\ link'[1] = "open" => link[1] = "open"
         /\ Frame => tail' = recorded' /\ UNCHANGED <<head, failures, unavailable>> /\ ~stopping
<1>0. /\ 1 \in Gens /\ gen \in {0, 1} /\ current \in 0 .. gen
      /\ link \in [Gens -> {"none", "open", "ending", "gone"}]
  BY FirstBack DEF TypeOK, CoordType, WireType
<1>1. Streaming /\ gen = 1 /\ ~cancelled
  BY <1>0 DEF FirstStreams
<1>2. Setup => NothingElse /\ conn["initial"].pc \in {"mark", "close"}
  BY DEF FirstSetup, NothingElse, Adopted
<1>3. \A c \in Connectors : ~ConnectCreate(c) /\ ~ConnectDial(c) /\ ~ConnectAdopt(c) /\ ~ConnectFails(c)
  <2>1. ASSUME NEW c \in Connectors, ConnectCreate(c) \/ ConnectDial(c) \/ ConnectAdopt(c) \/ ConnectFails(c)
        PROVE  FALSE
    <3>1. c = "initial" /\ Setup
      BY <2>1, FirstActors
    <3>2. conn[c].pc \notin {"mark", "close"}
      BY <2>1 DEF ConnectCreate, ConnectDial, ConnectAdopt, ConnectFails, At
    <3> QED
      BY <1>2, <3>1, <3>2
  <2> QED
    BY <2>1
<1>4. ~CloseFailed /\ ~Backoff /\ ~NextAttempt
  BY <1>1, FirstActors DEF Streaming, CloseFailed, Backoff
<1>5. link'[1] = "open" => link[1] = "open"
  <2>1. \A c \in Connectors : ConnectCloseGap(c) => link' \in {link, [link EXCEPT ![conn[c].gen] = "gone"]}
    BY DEF ConnectCloseGap
  <2>2. \A g \in Gens : \/ Write(g) \/ ProviderFinal(g) \/ ProviderConflict(g) \/ ProviderBreaks(g)
                       \/ ProviderEnds(g)
            => link' \in {link, [link EXCEPT ![g] = "gone"]}
    BY DEF Write, ProviderFinal, ProviderConflict, ProviderBreaks, ProviderEnds, Publish
  <2>3. StopRemote => link' \in {link, [link EXCEPT ![stopOf] = "ending"]}
    BY DEF StopRemote
  <2> QED
    BY <1>0, <1>3, <1>4, <2>1, <2>2, <2>3, LinkAside
<1>6. ASSUME Frame
      PROVE  tail' = recorded' /\ UNCHANGED <<head, failures, unavailable>> /\ ~stopping
  <2>1. ~stopping /\ tail = recorded /\ (tail = 0 => ~unavailable)
    BY <1>1, <1>6 DEF Frame, Streaming
  <2>2. tail' = recorded' /\ head' = (IF tail = 0 THEN recorded ELSE head) /\ UNCHANGED <<failures, unavailable>>
    BY <1>6, <2>1, FirstBack DEF Active
  <2>3. head \in Nat /\ tail \in Nat /\ tail - head \in 0 .. QueueSlots /\ QueueSlots \in Nat
    BY CapacityAssumption DEF TypeOK, QueueType, CapacityAssumption
  <2> QED
    BY <2>1, <2>2, <2>3
<1> QED
  BY <1>1, <1>2, <1>3, <1>4, <1>5, <1>6

LEMMA PipelineKept ==
  ASSUME TypeOK, TypeOK', UnbornIdle, QueueFits, FirstSetup, FirstAlone, FirstStreams, First, First', Next,
         current = 1
  PROVE  Pipeline'
<1>0. /\ Streaming /\ gen = 1 /\ ~cancelled
      /\ Setup => NothingElse
      /\ \A c \in Connectors : ~ConnectDial(c) /\ ~ConnectAdopt(c)
      /\ link'[1] = "open" => link[1] = "open"
      /\ Frame => UNCHANGED head /\ ~stopping
  BY StreamingActors
<1>1. /\ snd[1] \in {"none", "take", "wait", "advance"} => sent[1] = head
      /\ snd[1] = "write" => frame[1] = sent[1] /\ head = sent[1] + 1
      /\ snd[1] = "done" => link[1] # "open" \/ (stopping /\ sent[1] = tail)
  BY <1>0 DEF Streaming, Pipeline
<1>2. /\ 1 \in Gens /\ frame \in [Gens -> Samples] /\ sent \in [Gens -> Nat] /\ head \in Nat /\ tail \in Nat
      /\ snd \in [Gens -> {"none", "take", "wait", "write", "advance", "done"}]
      /\ snd' \in [Gens -> {"none", "take", "wait", "write", "advance", "done"}]
      /\ tail >= head
  <2>1. tail - head \in 0 .. QueueSlots /\ QueueSlots \in Nat /\ head \in Nat /\ tail \in Nat
    BY CapacityAssumption DEF TypeOK, QueueType, CapacityAssumption
  <2> QED
    BY <2>1 DEF First, TypeOK, WireType, SessionType
<1>3. \A g \in Gens : Take(g) \/ Woken(g) \/ Write(g) \/ Advance(g) => g = 1
  BY FirstActors DEF Take, Woken, Write, Advance, SenderAt
<1>4. CASE Take(1)
  <2>1. UNCHANGED <<sent, tail, stopPc>> /\ snd[1] = "take"
    BY <1>4 DEF Take, SenderAt, wire, stop
  <2>2. CASE head < tail
    <3>1. frame'[1] = head /\ head' = head + 1 /\ snd'[1] = "write"
      BY <1>2, <1>4, <2>2 DEF Take
    <3> QED
      BY <1>1, <2>1, <3>1 DEF Pipeline
  <2>3. CASE ~(head < tail)
    <3>1. head' = head /\ snd'[1] = IF stopping THEN "done" ELSE "wait"
      BY <1>2, <1>4, <2>3 DEF Take
    <3>2. head = tail /\ sent[1] = head
      BY <1>1, <1>2, <2>1, <2>3
    <3> QED
      BY <2>1, <3>1, <3>2 DEF Pipeline, stopping
  <2> QED
    BY <2>2, <2>3
<1>5. CASE Woken(1)
  <2>1. UNCHANGED <<sent, head>> /\ snd[1] = "wait" /\ snd' = [snd EXCEPT ![1] = "take"]
    BY <1>0, <1>5 DEF Woken, SenderAt, wire
  <2>2. snd'[1] = "take"
    BY <1>2, <2>1
  <2> QED
    BY <1>1, <2>1, <2>2 DEF Pipeline
<1>6. CASE Write(1)
  <2>1. UNCHANGED <<head, tail, stopPc>> /\ snd[1] = "write"
    BY <1>6 DEF Write, SenderAt, queue, stop
  <2>2. CASE Writable(1) /\ sent' = [sent EXCEPT ![1] = frame[1] + 1] /\ snd' = [snd EXCEPT ![1] = "advance"]
    <3>1. sent'[1] = sent[1] + 1 /\ snd'[1] = "advance"
      BY <1>1, <1>2, <2>1, <2>2
    <3> QED
      BY <1>1, <2>1, <3>1 DEF Pipeline
  <2>3. CASE snd' = [snd EXCEPT ![1] = "done"] /\ ((~Writable(1) /\ UNCHANGED link) \/ link' = [link EXCEPT ![1] = "gone"])
    <3>1. snd'[1] = "done"
      BY <1>2, <2>3
    <3>2. link'[1] # "open"
      <4>1. ~Writable(1) => link[1] # "open"
        BY <1>0, <1>1, <2>1 DEF Writable
      <4> QED
        BY <1>2, <2>3, <4>1 DEF TypeOK, WireType
    <3> QED
      BY <3>1, <3>2 DEF Pipeline
  <2> QED
    BY <1>6, <2>2, <2>3 DEF Write
<1>7. CASE Advance(1)
  <2>1. UNCHANGED <<sent, head>> /\ snd[1] = "advance" /\ snd' = [snd EXCEPT ![1] = "take"]
    BY <1>7 DEF Advance, SenderAt, wire, queue
  <2>2. snd'[1] = "take"
    BY <1>2, <2>1
  <2> QED
    BY <1>1, <2>1, <2>2 DEF Pipeline
<1>8. ASSUME NEW c \in Connectors, ConnectCloseGap(c) PROVE Pipeline'
  <2>1. c = "initial" /\ Setup /\ conn[c].gen = 1
    BY <1>8, FirstActors
  <2>2. snd[1] = "none" /\ UNCHANGED <<sent, head>> /\ snd' \in {snd, [snd EXCEPT ![1] = "take"]}
    BY <1>0, <1>8, <2>1 DEF ConnectCloseGap, NothingElse, queue
  <2>3. snd'[1] \in {"none", "take"}
    BY <1>2, <2>2
  <2> QED
    BY <1>1, <2>2, <2>3 DEF Pipeline
<1>9. ASSUME UNCHANGED <<snd, frame>>, \A g \in Gens : ~Take(g) /\ ~Write(g)
      PROVE  Pipeline'
  <2>1. UNCHANGED head /\ (Frame \/ UNCHANGED <<tail, recorded>>)
    BY <1>0, <1>9, QueueAside
  <2>2. sent'[1] = sent[1]
    BY <1>0, <1>2, <1>9, FirstSent
  <2>3. stopping => UNCHANGED tail /\ stopping'
    <3>1. stopping => UNCHANGED tail
      BY <1>0, <2>1
    <3>2. stopping => stopping'
      BY StopAside DEF stopping, StopCall, StopAgain, StopSender, StopRemote, StopAnswered,
         StopDrain, StopFinals, StopGap, StopFinish
    <3> QED
      BY <3>1, <3>2
  <2> QED
    BY <1>0, <1>1, <1>9, <2>1, <2>2, <2>3 DEF Pipeline
<1> QED
  BY <1>2, <1>3, <1>4, <1>5, <1>6, <1>7, <1>8, <1>9, SenderAside

(* Nobody reports anything before the first frame was taken. *)
LEMMA NothingReported ==
  ASSUME TypeOK, TypeOK', UnbornIdle, QueueFits, WireFits, ResultsFit, OnlyResults, FirstSetup,
         FirstAlone, FirstStreams, First, First', Next, current = 1, tail' = 0
  PROVE  /\ tail = 0 /\ ~unavailable'
         /\ rd'[1] # "done" => failures' = <<>>
<1>0. /\ Streaming /\ gen = 1
      /\ Setup => NothingElse
      /\ \A c \in Connectors : ~ConnectFails(c)
      /\ ~CloseFailed /\ ~NextAttempt
      /\ Frame => tail' = recorded'
  BY StreamingActors
<1>1. /\ recorded \in Nat /\ head \in Nat /\ tail \in Nat /\ tail - head \in 0 .. QueueSlots /\ QueueSlots \in Nat
      /\ FailureSlots \in Nat \ {0} /\ 1 \in Gens
      /\ rd \in [Gens -> {"none", "started", "read", "submit", "done"}]
  BY CapacityAssumption DEF TypeOK, QueueType, CapacityAssumption, SessionType, First
<1>2. ~Frame
  BY <1>0, <1>1 DEF Frame
<1>3. tail = 0 /\ head = 0
  <2>1. \A g \in Gens : Take(g) => UNCHANGED tail
    BY DEF Take
  <2>2. tail = 0
    BY <1>2, <2>1, QueueAside
  <2> QED
    BY <1>1, <2>2
<1>4. ~unavailable /\ (rd[1] # "done" => failures = <<>>)
  BY <1>0, <1>3 DEF Streaming
<1>5. sent[1] = 0 /\ told[1] = 0
  <2>1. sent[1] \in Nat /\ told[1] \in Nat /\ sent[1] =< 0 /\ told[1] =< sent[1]
    BY <1>1, <1>3 DEF QueueFits, WireFits, TypeOK, WireType
  <2> QED
    BY <2>1
<1>6. \A g \in Gens : ~Write(g)
  <2>1. snd[1] # "write"
    <3>1. snd[1] = "write" => head = sent[1] + 1
      BY <1>0 DEF Streaming, Pipeline
    <3> QED
      BY <1>3, <1>5, <3>1
  <2> QED
    BY <2>1, FirstActors DEF Write, SenderAt
<1>7. ~PersistFails
  <2>1. ASSUME finals # <<>> PROVE FALSE
    <3>1. Head(finals) \in Pending /\ Head(finals).kind # "failed"
      <4>1. Head(finals) = finals[1] /\ 1 \in DOMAIN finals
        BY <2>1 DEF TypeOK, SessionType
      <4> QED
        BY <2>1, <4>1, PendingTyped DEF OnlyResults
    <3>2. /\ Head(finals).gen \in Gens /\ Head(finals).gen =< 1
          /\ Head(finals).from \in Nat /\ Head(finals).to \in Nat
          /\ Head(finals).from < Head(finals).to /\ Head(finals).to =< told[Head(finals).gen]
      BY <1>0, <3>1, PendingTyped, EventOf DEF ResultsFit
    <3>3. Head(finals).gen = 1
      BY <3>2, GensOf DEF Gens
    <3> QED
      BY <1>5, <3>2, <3>3
  <2> QED
    BY <2>1 DEF PersistFails
<1>8. ASSUME NEW f, Report(f), failures = <<>> PROVE ~unavailable'
  <2>1. Len(failures) < FailureSlots
    BY <1>1, <1>8
  <2> QED
    BY <1>4, <1>8, <2>1 DEF Report
<1>9. ASSUME NEW g \in Gens, Read(g) \/ ReadClosed(g) \/ Submit(g)
      PROVE  ~unavailable' /\ (rd'[1] # "done" => failures' = <<>>)
  <2>1. g = 1 /\ rd[1] \in {"read", "submit"}
    BY <1>9, FirstActors DEF Read, ReadClosed, Submit, ReaderAt
  <2>2. failures = <<>>
    BY <1>4, <2>1
  <2>3. \/ UNCHANGED <<failures, unavailable>>
        \/ (\E f : Report(f)) /\ rd' = [rd EXCEPT ![1] = "done"]
        \/ rd' = [rd EXCEPT ![1] = "done"] /\ UNCHANGED <<failures, unavailable>>
    BY <1>9, <2>1 DEF Read, ReadClosed, Submit
  <2> QED
    BY <1>1, <1>4, <1>8, <2>2, <2>3
<1>10. CASE Supervise
  <2>1. failures # <<>> /\ UNCHANGED <<unavailable, rd>>
    BY <1>10 DEF Supervise, reader
  <2> QED
    BY <1>3, <1>4, <2>1
<1>11. ~Retry
  BY <1>4 DEF Retry
<1>12. CASE UNCHANGED <<failures, unavailable>>
  <2>1. ASSUME rd'[1] # "done", rd[1] = "done" PROVE failures = <<>>
    <3>1. \A c \in Connectors : ConnectCloseGap(c) => failures = <<>>
      BY <1>0, FirstActors DEF NothingElse
    <3>2. \A g \in Gens : ReadStarted(g) \/ Read(g) \/ ReadClosed(g) \/ Submit(g)
             => g = 1 /\ rd[1] # "done"
      BY FirstActors DEF ReadStarted, Read, ReadClosed, Submit, ReaderAt
    <3>3. \A g \in Gens : ProviderFinal(g) \/ ProviderConflict(g) \/ ProviderBreaks(g) => UNCHANGED rd
      BY DEF ProviderFinal, ProviderConflict, ProviderBreaks, reader
    <3> QED
      BY <2>1, <3>1, <3>2, <3>3, ReaderAside
  <2> QED
    BY <1>3, <1>4, <1>12, <2>1
<1> QED
  BY <1>0, <1>2, <1>3, <1>6, <1>7, <1>9, <1>10, <1>11, <1>12, FailuresAside

LEMMA StreamingKept ==
  ASSUME TypeOK, TypeOK', UnbornIdle, QueueFits, WireFits, ResultsFit, OnlyResults, FirstSetup,
         FirstAlone, FirstStreams, Next, First', current' = 1
  PROVE  Streaming'
<1>0. First
  BY FirstBack
<1>1. CASE ConnectAdopt("initial") /\ Setup /\ ~stopping /\ current = 0
  <2>1. /\ tail = recorded /\ head = 0 /\ snd[1] = "none" /\ failures = <<>> /\ ~unavailable /\ sup.pc = "idle"
    BY <1>0, <1>1 DEF FirstSetup, NothingElse
  <2>2. UNCHANGED <<tail, recorded, head, snd, failures, unavailable, sup, sent, stopPc>>
    BY <1>1 DEF ConnectAdopt, queue, sender, stop
  <2>3. sent[1] = 0
    <3>1. sent[1] \in Nat /\ sent[1] =< 0
      BY <1>0, <2>1 DEF First, QueueFits, TypeOK, WireType
    <3> QED
      BY <3>1
  <2> QED
    BY <1>1, <2>1, <2>2, <2>3 DEF Streaming, Pipeline, stopping
<1>2. CASE current = 1
  <2>0. /\ Streaming /\ gen = 1 /\ ~CloseFailed /\ ~Backoff /\ ~NextAttempt
        /\ Frame => tail' = recorded'
    BY <1>0, <1>2, StreamingActors
  <2>1. tail' = recorded'
    <3>1. \A g \in Gens : Take(g) => UNCHANGED <<tail, recorded>>
      BY DEF Take
    <3> QED
      BY <2>0, <3>1, QueueAside DEF Streaming
  <2>2. Pipeline'
    BY <1>0, <1>2, PipelineKept
  <2>3. sup'.pc = "idle"
    <3>1. sup.pc = "idle" /\ IdleSupervisor.pc = "idle"
      BY <2>0 DEF Streaming, IdleSupervisor
    <3>2. ASSUME NEW d \in Connectors,
                 \/ ConnectCreate(d) \/ ConnectDial(d) \/ ConnectAdopt(d) \/ ConnectMark(d)
                 \/ ConnectCloseGap(d) \/ ConnectFails(d)
          PROVE  sup' = sup \/ sup' = IdleSupervisor
      BY <3>2, ConnMoves
    <3>3. Supervise => sup' = sup
      <4>1. Supervise => (UNCHANGED sup \/ current' = 0)
        BY DEF Supervise
      <4> QED
        BY <4>1
    <3> QED
      BY <2>0, <3>1, <3>2, <3>3, SupSteps, ConnAside
  <2>4. tail' = 0 => ~unavailable' /\ (rd'[1] # "done" => failures' = <<>>)
    BY <1>0, <1>2, NothingReported
  <2>5. stopPc' = "none" \/ stopOf' = 1
    <3>1. stopPc = "none" \/ stopOf = 1
      BY <2>0 DEF Streaming
    <3>2. StopCall => stopOf' = 1
      BY <1>2 DEF StopCall
    <3>3. StopAgain \/ StopSender \/ StopRemote \/ StopAnswered \/ StopDrain \/ StopFinals \/ StopGap \/ StopFinish
            => UNCHANGED stopOf /\ stopPc # "none"
      BY DEF StopAgain, StopSender, StopRemote, StopAnswered, StopDrain, StopFinals, StopGap, StopFinish, StopAt
    <3> QED
      BY <3>1, <3>2, <3>3, StopAside
  <2> QED
    BY <2>1, <2>2, <2>3, <2>4, <2>5 DEF Streaming
<1> QED
  BY <1>0, <1>1, <1>2, FirstCurrent

LEMMA StoppingKept ==
  ASSUME TypeOK, TypeOK', UnbornIdle, QueueFits, FirstSetup, FirstAlone, FirstStreams, Next, First'
  PROVE  Stopping'
<1>0. First /\ 1 \in Gens /\ gen \in {0, 1} /\ current \in 0 .. gen
  BY FirstBack DEF TypeOK, CoordType
<1>1. /\ stopPc = "sender" => current = 1
      /\ (stopPc \in {"remote", "answer"} /\ ~tailFailure) =>
            snd[1] = "done" /\ stopOf = 1 /\ (stopPc = "answer" \/ current = 1)
      /\ (stopPc \in {"answer", "drain", "finals", "gap"} /\ ~tailFailure) => tail =< sent[1]
      /\ stopPc = "gap" => (tailFailure /\ lastFinal < recorded => gapStart # NoSample)
      /\ (stopPc # "none" /\ stopOf = 0) => tailFailure
  BY <1>0 DEF FirstStreams, Stopping
<1>2. /\ sent[1] \in Nat /\ sent'[1] \in Nat /\ sent[1] =< sent'[1]
  BY <1>0, FirstSent
<1>3. /\ tail \in Nat /\ recorded \in Nat /\ lastFinal \in Nat /\ gapStart \in Samples
      /\ snd \in [Gens -> {"none", "take", "wait", "write", "advance", "done"}]
  BY DEF TypeOK, QueueType, CoordType, SessionType
<1>4. stopPc # "none" => UNCHANGED <<tail, recorded>>
  <2>1. \A g \in Gens : Take(g) => UNCHANGED <<tail, recorded>>
    BY DEF Take
  <2> QED
    BY <2>1, QueueAside DEF Frame, stopping
<1>5. stopPc \in {"sender", "remote"} /\ current = 1 /\ ~StopFinish => current' = 1
  <2>1. \A c \in Connectors : ConnectAdopt(c) /\ stopPc # "none" => UNCHANGED current
    BY DEF ConnectAdopt, stopping
  <2>2. Supervise /\ stopPc # "none" => UNCHANGED current
    BY DEF Supervise, Handled, stopping
  <2> QED
    BY <2>1, <2>2, CurrentAside
<1>6. stopPc \in {"remote", "answer"} /\ snd[1] = "done" => snd'[1] = "done"
  <2>1. ASSUME stopPc \in {"remote", "answer"}, NEW c \in Connectors, ConnectCloseGap(c) PROVE FALSE
    <3>1. c = "initial" /\ Setup /\ conn[c].pc = "close"
      BY <1>0, <2>1, FirstActors DEF ConnectCloseGap, At
    <3> QED
      BY <1>0, <2>1, <3>1 DEF FirstSetup, NothingElse, Adopted
  <2>2. \A g \in Gens : Take(g) \/ Woken(g) \/ Write(g) \/ Advance(g) => g = 1 /\ snd[1] # "done"
    BY <1>0, FirstActors DEF Take, Woken, Write, Advance, SenderAt
  <2> QED
    BY <2>1, <2>2, SenderAside
<1>7. stopPc = "gap" /\ gapStart # NoSample /\ ~StopGap => gapStart' # NoSample
  <2>1. ASSUME stopPc = "gap", NEW c \in Connectors, ConnectCloseGap(c) PROVE FALSE
    <3>1. c = "initial" /\ Setup /\ conn[c].pc = "close"
      BY <1>0, <2>1, FirstActors DEF ConnectCloseGap, At
    <3> QED
      BY <1>0, <2>1, <3>1 DEF FirstSetup, NothingElse, Adopted
  <2>2. \A s : OpenGap(s) /\ gapStart # NoSample => gapStart' # NoSample
    BY DEF OpenGap
  <2>3. \A c \in Connectors : ConnectFails(c) => UNCHANGED gapStart \/ \E s : OpenGap(s)
    BY DEF ConnectFails
  <2>4. CloseFailed => UNCHANGED gapStart \/ \E s : OpenGap(s)
    BY DEF CloseFailed
  <2>5. StopFinals => UNCHANGED gapStart \/ \E s : OpenGap(s)
    BY DEF StopFinals
  <2>6. RecoverGap => UNCHANGED gapStart
    BY DEF RecoverGap, coord
  <2> QED
    BY <2>1, <2>2, <2>3, <2>4, <2>5, <2>6, GapAside
<1>8. lastFinal =< lastFinal' /\ lastFinal' \in Nat
  <2>1. Persist => lastFinal' = Larger(lastFinal, Head(finals).to)
    BY DEF Persist
  <2>2. \A g \in Gens : Advance(g) => UNCHANGED lastFinal
    BY DEF Advance
  <2>3. StopAnswered => UNCHANGED lastFinal
    BY DEF StopAnswered
  <2>4. lastFinal' \in Nat
    BY DEF TypeOK, CoordType
  <2> QED
    BY <1>3, <2>1, <2>2, <2>3, <2>4, ProgressAside DEF Larger
<1>9. CASE UNCHANGED <<stopPc, stopOf, tailFailure>>
  <2>1. ~StopFinish /\ ~StopGap
    BY <1>9 DEF StopFinish, StopGap, StopAt
  <2>2. stopPc = "sender" => current' = 1
    BY <1>1, <1>5, <2>1
  <2>3. (stopPc \in {"remote", "answer"} /\ ~tailFailure) =>
            snd'[1] = "done" /\ stopOf = 1 /\ (stopPc = "answer" \/ current' = 1)
    BY <1>1, <1>5, <1>6, <2>1
  <2>4. (stopPc \in {"answer", "drain", "finals", "gap"} /\ ~tailFailure) => tail' =< sent'[1]
    BY <1>1, <1>2, <1>3, <1>4
  <2>5. stopPc = "gap" => (tailFailure /\ lastFinal' < recorded' => gapStart' # NoSample)
    BY <1>1, <1>3, <1>4, <1>7, <1>8, <2>1
  <2> QED
    BY <1>1, <1>9, <2>2, <2>3, <2>4, <2>5 DEF Stopping
<1>10. CASE StopCall
  <2>1. UNCHANGED current
    BY <1>10 DEF StopCall, coord
  <2>2. current \in {0, 1}
    BY <1>0
  <2>3. stopPc' \in {"drain", "sender"}
    BY <1>10 DEF StopCall
  <2>4. /\ stopPc' = "sender" => current' = 1
        /\ stopPc' = "drain" => tailFailure'
        /\ stopOf' = 0 => tailFailure'
    BY <1>10, <2>1, <2>2 DEF StopCall
  <2> QED
    BY <2>3, <2>4 DEF Stopping
<1>11. CASE StopAgain
  <2>1. stopPc' = "again" /\ stopPc # "none" /\ UNCHANGED <<stopOf, tailFailure>>
    BY <1>11 DEF StopAgain, StopAt
  <2> QED
    BY <1>1, <2>1 DEF Stopping
<1>12. CASE StopSender
  <2>1. /\ stopPc = "sender" /\ stopPc' = "remote" /\ snd[stopOf] = "done"
        /\ UNCHANGED <<stopOf, tailFailure, snd, current>>
    BY <1>12 DEF StopSender, StopAt, sender, coord
  <2>2. stopOf = 1
    BY <1>0, <2>1, FirstActors
  <2> QED
    BY <1>1, <2>1, <2>2 DEF Stopping
<1>13. CASE StopRemote
  <2>1. stopPc = "remote" /\ UNCHANGED <<stopOf, snd, tail, sent>>
    BY <1>13 DEF StopRemote, StopAt, sender, queue
  <2>2. stopOf = 1
    BY <1>0, <2>1, FirstActors
  <2>3. CASE link[stopOf] = "open"
    <3>1. stopPc' = "answer" /\ UNCHANGED tailFailure
      BY <1>13, <2>3 DEF StopRemote
    <3>2. ~tailFailure => snd[1] = "done" /\ tail =< sent[1]
      <4>1. ~tailFailure => snd[1] = "done" /\ current = 1
        BY <1>1, <2>1
      <4>2. current = 1 => Pipeline
        BY <1>0 DEF FirstStreams, Streaming
      <4> QED
        BY <1>2, <1>3, <2>2, <2>3, <4>1, <4>2 DEF Pipeline
    <3> QED
      BY <1>1, <2>1, <2>2, <3>1, <3>2 DEF Stopping
  <2>4. CASE link[stopOf] # "open"
    <3>1. stopPc' = "drain" /\ tailFailure'
      BY <1>13, <2>4 DEF StopRemote
    <3> QED
      BY <3>1 DEF Stopping
  <2> QED
    BY <2>3, <2>4
<1>14. CASE StopAnswered
  <2>1. stopPc = "answer" /\ stopPc' = "drain" /\ UNCHANGED <<stopOf, tailFailure, tail, sent>>
    BY <1>14 DEF StopAnswered, StopAt, queue, wire
  <2> QED
    BY <1>1, <2>1 DEF Stopping
<1>15. CASE StopDrain
  <2>1. stopPc = "drain" /\ stopPc' = "finals" /\ UNCHANGED <<stopOf, tailFailure, tail, sent>>
    BY <1>15 DEF StopDrain, StopAt, queue, wire
  <2> QED
    BY <1>1, <2>1 DEF Stopping
<1>16. CASE StopFinals
  <2>1. stopPc = "finals" /\ stopPc' = "gap" /\ UNCHANGED <<stopOf, tailFailure, tail, sent, lastFinal, recorded>>
    BY <1>16 DEF StopFinals, StopAt, queue, wire
  <2>2. TailMissing => gapStart' # NoSample
    BY <1>3, <1>16 DEF StopFinals, OpenGap, NoSample
  <2> QED
    BY <1>1, <2>1, <2>2 DEF Stopping, TailMissing
<1>17. CASE StopGap \/ StopFinish
  <2>1. stopPc # "none" /\ stopPc' \in {"finish", "error", "done"} /\ UNCHANGED <<stopOf, tailFailure>>
    BY <1>17 DEF StopGap, StopFinish, StopAt
  <2> QED
    BY <1>1, <2>1 DEF Stopping
<1> QED
  BY <1>9, <1>10, <1>11, <1>12, <1>13, <1>14, <1>15, <1>16, <1>17, StopAside

LEMMA BelowRange ==
  ASSUME NEW n \in Nat, NEW i \in 0 .. n - 1
  PROVE  i \in Nat /\ i < n
OBVIOUS

LEMMA AllCoveredKept ==
  ASSUME TypeOK, TypeOK', UnbornIdle, QueueFits, FirstSetup, FirstAlone, FirstStreams, Next, First'
  PROVE  AllCovered'
<1>0. First /\ 1 \in Gens
  BY FirstBack
<1>1. /\ sent[1] \in Nat /\ sent'[1] \in Nat /\ sent[1] =< sent'[1]
  BY <1>0, FirstSent
<1>2. gaps \subseteq gaps'
  <2>1. \A c \in Connectors : ConnectCloseGap(c) \/ ConnectFails(c) => gaps \subseteq gaps'
    BY DEF ConnectCloseGap, ConnectFails
  <2>2. CloseFailed \/ StopFinals \/ StopGap \/ RecoverGap => gaps \subseteq gaps'
    BY DEF CloseFailed, StopFinals, StopGap, RecoverGap, database
  <2> QED
    BY <2>1, <2>2, GapAside
<1> SUFFICES ASSUME stopPc' \in {"finish", "done"}, tail' = recorded', NEW i \in 0 .. recorded' - 1
             PROVE  i < sent'[1] \/ Covered(i)'
  BY DEF AllCovered
<1>3. recorded \in Nat /\ tail \in Nat /\ lastFinal \in Nat /\ gapStart \in Int /\ recorded' \in Nat
  BY DEF TypeOK, QueueType, CoordType, Samples, NoSample
<1>8. i \in Nat /\ i < recorded'
  BY <1>3, Zenon, BelowRange
<1>4. Covered(i) => Covered(i)'
  BY <1>2 DEF Covered
<1>5. CASE stopPc \in {"finish", "done"}
  <2>1. UNCHANGED <<tail, recorded>>
    <3>1. \A g \in Gens : Take(g) => UNCHANGED <<tail, recorded>>
      BY DEF Take
    <3> QED
      BY <1>5, <3>1, QueueAside DEF Frame, stopping
  <2>2. i < sent[1] \/ Covered(i)
    BY <1>0, <1>5, <2>1 DEF FirstStreams, AllCovered
  <2> QED
    BY <1>1, <1>3, <1>4, <2>1, <2>2
<1>6. CASE StopGap
  <2>1. /\ stopPc = "gap" /\ UNCHANGED <<tail, recorded, sent>>
        /\ gaps' = IF gapStart # NoSample /\ gapStart < recorded THEN gaps \cup {<<gapStart, recorded>>} ELSE gaps
    BY <1>6 DEF StopGap, StopAt, queue, wire
  <2>2. /\ lastFinal =< sent[1] /\ gapStart =< sent[1]
    BY <1>0 DEF FirstAlone, Alone
  <2>3. CASE ~tailFailure
    <3>1. tail =< sent[1]
      BY <1>0, <2>1, <2>3 DEF FirstStreams, Stopping
    <3> QED
      BY <1>1, <1>3, <2>1, <3>1
  <2>4. CASE tailFailure
    <3>1. lastFinal < recorded => gapStart # NoSample
      BY <1>0, <2>1, <2>4 DEF FirstStreams, Stopping
    <3>2. CASE gapStart # NoSample /\ gapStart =< i
      <4>1. gapStart < recorded /\ i < recorded
        <5>1. recorded = recorded' /\ i < recorded
          BY <1>8, <2>1
        <5> QED
          BY <1>3, <1>8, <3>2, <5>1
      <4>2. gaps' = gaps \cup {<<gapStart, recorded>>}
        BY <2>1, <3>2, <4>1
      <4>3. \E p \in gaps' : p[1] =< i /\ i < p[2]
        <5>1. <<gapStart, recorded>> \in gaps'
          BY <4>2
        <5>2. <<gapStart, recorded>>[1] = gapStart /\ <<gapStart, recorded>>[2] = recorded
          OBVIOUS
        <5> QED
          BY <3>2, <4>1, <5>1, <5>2
      <4> QED
        BY <4>3 DEF Covered
    <3>3. CASE gapStart # NoSample /\ i < gapStart
      BY <1>1, <1>3, <1>8, <2>1, <2>2, <3>3
    <3>4. CASE gapStart = NoSample
      <4>1. recorded =< lastFinal
        BY <1>3, <3>1, <3>4
      <4> QED
        <5>0. i < recorded
          BY <1>8, <2>1
        <5>1. i < lastFinal
          BY <1>3, <1>8, <4>1, <5>0
        <5> QED
          BY <1>1, <1>3, <1>8, <2>2, <5>1
    <3> QED
      BY <1>3, <1>8, <3>2, <3>3, <3>4
  <2> QED
    BY <2>3, <2>4
<1>7. stopPc' \in {"finish", "done"} => stopPc \in {"finish", "done"} \/ StopGap
  BY StopAside DEF StopCall, StopAgain, StopSender, StopRemote, StopAnswered, StopDrain,
     StopFinals, StopFinish, StopAt
<1> QED
  BY <1>5, <1>6, <1>7

-----------------------------------------------------------------------------
(* The invariants of the first connection and of the budget.               *)

LEMMA InitFirst == Init => FirstInv /\ BudgetFits
<1> SUFFICES ASSUME Init PROVE FirstInv /\ BudgetFits
  OBVIOUS
<1>1. \A c \in Connectors :
         conn[c] = [IdleConnect EXCEPT !.pc = IF c = "initial" THEN "create" ELSE "idle"]
  BY Zenon DEF Init, Fresh
<1>2. /\ conn["initial"].pc = "create" /\ conn["initial"].count = 0 /\ conn["initial"].start = 0
      /\ conn["retry"].pc = "idle" /\ conn["supervisor"].pc = "idle"
  BY <1>1 DEF IdleConnect, Connectors
<1>3. /\ recorded = 0 /\ head = 0 /\ tail = 0 /\ gen = 0 /\ current = 0 /\ count = 0
      /\ lastSent = 0 /\ lastFinal = 0 /\ gapStart = NoSample /\ failures = <<>> /\ finals = <<>>
      /\ stopPc = "none" /\ sup = IdleSupervisor
      /\ \A g \in Gens : snd[g] = "none" /\ rd[g] = "none" /\ start[g] = 0 /\ sent[g] = 0
  BY DEF Init, Fresh
<1>4. ~unavailable
  BY Zenon DEF Init, Fresh
<1>5. sup.pc = "idle" /\ sup.from = 0
  BY <1>3 DEF IdleSupervisor
<1>6. OnlyResults
  BY <1>3 DEF OnlyResults
<1>7. FirstSetup
  BY <1>2, <1>3, <1>4, <1>5 DEF FirstSetup, First, NothingElse, Adopted
<1>8. FirstAlone
  BY <1>2, <1>3, <1>5 DEF FirstAlone, First, Alone, Connectors, NoSample
<1>9. FirstStreams
  BY <1>3 DEF FirstStreams, cancelled, Stopping, AllCovered
<1>10. Connecting /\ FirstConnects
  BY <1>2, <1>3, <1>5 DEF Connecting, FirstConnects
<1>11. AttemptsSpent
  <2>1. Budget \in Nat
    BY CapacityAssumption DEF CapacityAssumption
  <2> QED
    BY <1>3, <1>5, <2>1 DEF AttemptsSpent
<1> QED
  BY <1>6, <1>7, <1>8, <1>9, <1>10, <1>11 DEF FirstInv, BudgetFits

LEMMA StepFirst == WireInv /\ WireInv' /\ FirstInv /\ [Next]_vars => FirstInv'
<1> SUFFICES ASSUME WireInv, WireInv', FirstInv, [Next]_vars PROVE FirstInv'
  OBVIOUS
<1>0. /\ TypeOK /\ TypeOK' /\ UnbornIdle /\ UnbornIdle' /\ QueueFits /\ WireFits /\ ResultsFit
      /\ OnlyResults /\ FirstSetup /\ FirstAlone /\ FirstStreams
  BY DEF WireInv, FirstInv
<1>1. CASE Next
  <2>1. OnlyResults'
    BY <1>0, <1>1, OnlyResultsKept
  <2>2. FirstSetup'
    <3> SUFFICES ASSUME First', Setup' PROVE NothingElse'
      BY DEF FirstSetup
    <3> QED
      BY <1>0, <1>1, FirstSetupKept
  <2>3. FirstAlone'
    <3>1. conn'["initial"].start = 0
      BY <1>0, <1>1, InitialFromStart
    <3>2. First' => Alone'
      BY <1>0, <1>1, FirstAloneKept
    <3> QED
      BY <3>1, <3>2 DEF FirstAlone
  <2>4. FirstStreams'
    <3>1. cancelled' => current' = 0
      <4>1. cancelled => current = 0
        BY <1>0 DEF FirstStreams
      <4> QED
        BY <1>0, <1>1, <4>1, CancelledIdle
    <3>2. ASSUME First', current' = 1 PROVE Streaming'
      BY <1>0, <1>1, <3>2, StreamingKept
    <3>3. ASSUME First' PROVE Stopping' /\ AllCovered'
      BY <1>0, <1>1, <3>3, StoppingKept, AllCoveredKept
    <3> QED
      BY <3>1, <3>2, <3>3 DEF FirstStreams
  <2> QED
    BY <2>1, <2>2, <2>3, <2>4 DEF FirstInv
<1>2. CASE UNCHANGED vars
  <2> USE <1>2 DEF vars, queue, coord, wire, sender, reader, final, stop, database, env
  <2>1. OnlyResults'
    BY <1>0 DEF OnlyResults
  <2>2. (First' <=> First) /\ (Setup' <=> Setup)
    BY DEF First, Follows, Setup
  <2>3. FirstSetup'
    BY <1>0, <2>2 DEF FirstSetup, NothingElse, Adopted
  <2>4. FirstAlone'
    BY <1>0, <2>2 DEF FirstAlone, Alone
  <2>5. FirstStreams'
    <3>1. (Streaming' <=> Streaming) /\ (Stopping' <=> Stopping)
      BY DEF Streaming, Pipeline, stopping, Stopping
    <3>2. AllCovered' <=> AllCovered
      BY DEF AllCovered, Covered
    <3> QED
      BY <1>0, <2>2, <3>1, <3>2 DEF FirstStreams, cancelled
  <2> QED
    BY <2>1, <2>3, <2>4, <2>5 DEF FirstInv
<1> QED
  BY <1>1, <1>2

LEMMA StepBudget == WireInv /\ BudgetFits /\ [Next]_vars => BudgetFits'
<1> SUFFICES ASSUME WireInv, BudgetFits, [Next]_vars PROVE BudgetFits'
  OBVIOUS
<1>1. CASE Next
  BY <1>1, BudgetFitsKept, StepFits DEF WireInv
<1>2. CASE UNCHANGED vars
  <2> USE <1>2 DEF vars, queue, coord, wire, sender, reader, final, stop, database, env
  <2>1. (Connecting' <=> Connecting) /\ (FirstConnects' <=> FirstConnects)
    BY DEF Connecting, FirstConnects, FirstConnecting
  <2>2. AttemptsSpent' <=> AttemptsSpent
    BY DEF AttemptsSpent, cancelled
  <2> QED
    BY <2>1, <2>2 DEF BudgetFits
<1> QED
  BY <1>1, <1>2

(* As long as there is one generation and no frame was skipped, nothing    *)
(* else happens while the first connection is set up, the queue and its    *)
(* sender lose nothing, and each step of Stop knows what is missing        *)
(* (realtime_coordinator.go, realtime_coordinator_stop.go).                *)
THEOREM FirstHolds == Spec => []FirstInv
BY InitFirst, StepFirst, WireHolds, PTL DEF Spec

(* The types hold, the rows claim no more than was written, and after a    *)
(* Stop of the first connection that returned no packet is neither sent    *)
(* nor written down as a gap.                                              *)
THEOREM TranscriptFits == Spec => []TranscriptInv
<1>1. WireInv /\ FirstInv => TranscriptInv
  <2> SUFFICES ASSUME WireInv, FirstInv PROVE FirstConnectionCovered
    BY DEF TranscriptInv, WireInv, WireFits, RowsBehindWire
  <2> SUFFICES ASSUME cancelled, gen = 1, tail = recorded, NEW i \in 0 .. recorded - 1
               PROVE  i \in Sent(1) \/ Covered(i)
    BY DEF FirstConnectionCovered
  <2>1. gen \in 0 .. MaxSessions /\ MaxSessions \in Nat /\ recorded \in Nat
    BY CapacityAssumption DEF WireInv, TypeOK, CoordType, QueueType, CapacityAssumption
  <2>2. First
    BY <2>1 DEF First, Gens, Follows
  <2>3. start[1] = 0 /\ sent[1] \in Nat
    BY <2>2 DEF FirstInv, FirstAlone, Alone, First, WireInv, TypeOK, WireType
  <2>4. i < sent[1] \/ Covered(i)
    BY <2>2 DEF FirstInv, FirstStreams, AllCovered, cancelled
  <2>5. i \in Nat
    BY <2>1
  <2> QED
    BY <2>3, <2>4, <2>5 DEF Sent
<1> QED
  BY <1>1, WireHolds, FirstHolds, PTL

(* A provider that keeps accepting and dropping connections uses up the    *)
(* attempts: a connection took one of them, and handleFailure goes on from *)
(* the attempts that the last one took.                                    *)
THEOREM BudgetHolds == Spec => []BudgetKept
<1>1. BudgetFits => BudgetKept
  BY DEF BudgetFits, AttemptsSpent, BudgetKept
<1> QED
  BY <1>1, InitFirst, StepBudget, WireHolds, PTL DEF Spec

=============================================================================
