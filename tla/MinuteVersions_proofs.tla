------------------------- MODULE MinuteVersions_proofs -------------------------
(***************************************************************************)
(* The invariant of MinuteVersions holds in every reachable state, an edit *)
(* passes over nothing that was in force, and the versions implement       *)
(* VersionHistory.                                                         *)
(***************************************************************************)
EXTENDS MinuteVersions, FiniteSetTheorems, SequenceTheorems, TLAPS

-----------------------------------------------------------------------------
(* The list of versions.                                                   *)

(* The current version is one of the list, or 0.                           *)
LEMMA CurrentExists ==
  ASSUME TypeOK
  PROVE  /\ Current = 0 <=> CurrentOnes(versions) = {}
         /\ Current # 0 => Current \in DOMAIN versions /\ versions[Current].current
<1>1. DOMAIN versions = 1..Len(versions) /\ Len(versions) \in Nat
  BY DEF TypeOK
<1>2. CASE CurrentOnes(versions) = {}
  BY <1>2 DEF Current
<1>3. CASE CurrentOnes(versions) # {}
  <2>1. Current \in CurrentOnes(versions)
    BY <1>3 DEF Current
  <2> QED
    BY <1>1, <2>1 DEF CurrentOnes
<1> QED
  BY <1>2, <1>3

LEMMA SameCurrent ==
  ASSUME CurrentOnes(versions)' = CurrentOnes(versions)
  PROVE  Current' = Current
BY DEF Current

(* A version is added at the end; it takes the place of the current one if *)
(* it is to be current, and nothing else of the list changes.              *)
LEMMA AddedKeeps ==
  ASSUME TypeOK, NEW source \in Sources, NEW state \in {"draft", "confirmed"},
         NEW id \in Generations \cup Editors, NEW parent \in Nat, NEW current \in BOOLEAN,
         versions' = Added(source, state, id, parent, current)
  PROVE  /\ versions' \in Seq(Version)
         /\ Len(versions') = Len(versions) + 1
         /\ LET new == versions'[Len(versions) + 1]
            IN  /\ new.source = source /\ new.state = state /\ new.id = id
                 /\ new.parent = parent /\ new.current = current
         /\ \A v \in DOMAIN versions :
              /\ versions'[v].source = versions[v].source
              /\ versions'[v].state = versions[v].state
              /\ versions'[v].id = versions[v].id
              /\ versions'[v].parent = versions[v].parent
              /\ versions'[v].current = IF current THEN FALSE ELSE versions[v].current
<1> DEFINE Old == [v \in DOMAIN versions |-> [versions[v] EXCEPT !.current = FALSE]]
           Base == IF current THEN Old ELSE versions
           New == [source |-> source, state |-> state, id |-> id, parent |-> parent, current |-> current]
<1>1. versions \in Seq(Version) /\ New \in Version
  BY DEF TypeOK, Version
<1>2. Old \in Seq(Version) /\ Len(Old) = Len(versions)
  <2>1. \A r \in Version : [r EXCEPT !.current = FALSE] \in Version
    BY DEF Version
  <2>2. Old \in [1..Len(versions) -> Version]
    BY <1>1, <2>1
  <2> QED
    BY <1>1, <2>2, SeqDef
<1>3. Base \in Seq(Version) /\ Len(Base) = Len(versions)
  BY <1>1, <1>2
<1>4. versions' = Append(Base, New)
  BY DEF Added
<1>5. \A v \in DOMAIN versions :
        /\ Base[v].source = versions[v].source /\ Base[v].state = versions[v].state
        /\ Base[v].id = versions[v].id /\ Base[v].parent = versions[v].parent
        /\ Base[v].current = IF current THEN FALSE ELSE versions[v].current
  BY <1>1 DEF Version
<1> HIDE DEF Base, New
<1>6. Append(Base, New) \in Seq(Version) /\ Len(Append(Base, New)) = Len(Base) + 1
  BY <1>1, <1>3
<1>7. Append(Base, New)[Len(Base) + 1] = New
  BY <1>1, <1>3
<1>8. \A v \in DOMAIN versions : Append(Base, New)[v] = Base[v]
  BY <1>1, <1>3
<1>9. versions'[Len(versions) + 1] = New
  BY <1>3, <1>4, <1>7
<1>10. New.source = source /\ New.state = state /\ New.id = id /\ New.parent = parent /\ New.current = current
  BY DEF New
<1> QED
  BY <1>3, <1>4, <1>5, <1>6, <1>8, <1>9, <1>10

(* Which version is current then.                                          *)
LEMMA AddedCurrent ==
  ASSUME TypeOK, NEW source \in Sources, NEW state \in {"draft", "confirmed"},
         NEW id \in Generations \cup Editors, NEW parent \in Nat, NEW current \in BOOLEAN,
         versions' = Added(source, state, id, parent, current)
  PROVE  Current' = IF current THEN Len(versions) + 1 ELSE Current
<1> DEFINE n == Len(versions)
<1>1. /\ versions \in Seq(Version) /\ versions' \in Seq(Version)
      /\ Len(versions') = n + 1 /\ versions'[n + 1].current = current
      /\ \A v \in DOMAIN versions : versions'[v].current = IF current THEN FALSE ELSE versions[v].current
  <2>1. versions \in Seq(Version) /\ versions' \in Seq(Version) /\ Len(versions') = n + 1
    BY AddedKeeps DEF TypeOK, Version
  <2>2. versions'[n + 1].current = current
    BY AddedKeeps
  <2> QED
    BY <2>1, <2>2, AddedKeeps
<1>2. DOMAIN versions = 1..n /\ DOMAIN versions' = 1..(n + 1) /\ n \in Nat
  BY <1>1
<1>3. CASE current
  <2>1. versions'[n + 1].current /\ \A v \in 1..n : ~versions'[v].current
    BY <1>1, <1>2, <1>3
  <2>2. CurrentOnes(versions)' = {n + 1}
    BY <1>2, <2>1 DEF CurrentOnes
  <2> QED
    BY <1>2, <1>3, <2>2 DEF Current
<1>4. CASE ~current
  <2>1. CurrentOnes(versions)' = CurrentOnes(versions)
    BY <1>1, <1>2, <1>4 DEF CurrentOnes, Version
  <2> QED
    BY <1>4, <2>1 DEF Current
<1> QED
  BY <1>3, <1>4

LEMMA AddedDomain ==
  ASSUME TypeOK, NEW source \in Sources, NEW state \in {"draft", "confirmed"},
         NEW id \in Generations \cup Editors, NEW parent \in Nat, NEW current \in BOOLEAN,
         versions' = Added(source, state, id, parent, current)
  PROVE  /\ DOMAIN versions' = DOMAIN versions \cup {Len(versions) + 1}
         /\ Len(versions) + 1 \in Nat \ {0}
<1>1. versions \in Seq(Version) /\ versions' \in Seq(Version) /\ Len(versions') = Len(versions) + 1
  BY AddedKeeps DEF TypeOK
<1> QED
  BY <1>1

(* Who has made which versions.                                            *)
LEMMA AddedMade ==
  ASSUME TypeOK, NEW source \in Sources, NEW state \in {"draft", "confirmed"},
         NEW id \in Generations \cup Editors, NEW parent \in Nat, NEW current \in BOOLEAN,
         versions' = Added(source, state, id, parent, current), NEW x
  PROVE  Made(x)' = IF x = id THEN Made(x) \cup {Len(versions) + 1} ELSE Made(x)
<1> DEFINE n == Len(versions)
<1>1. /\ versions \in Seq(Version) /\ versions' \in Seq(Version)
      /\ Len(versions') = n + 1 /\ versions'[n + 1].id = id
      /\ \A v \in DOMAIN versions : versions'[v].id = versions[v].id
  <2>1. versions \in Seq(Version) /\ versions' \in Seq(Version) /\ Len(versions') = n + 1
    BY AddedKeeps DEF TypeOK, Version
  <2>2. \A v \in DOMAIN versions : versions'[v].id = versions[v].id
    BY AddedKeeps
  <2>3. versions'[n + 1].id = id
    BY AddedKeeps
  <2> QED
    BY <2>1, <2>2, <2>3
<1>2. DOMAIN versions = 1..n /\ DOMAIN versions' = 1..(n + 1) /\ n \in Nat
  BY <1>1
<1> QED
  BY <1>1, <1>2 DEF Made

LEMMA MadeFinite ==
  ASSUME TypeOK, NEW x
  PROVE  IsFiniteSet(Made(x)) /\ (Cardinality(Made(x)) = 0 <=> Made(x) = {})
<1>1. Made(x) \subseteq 1..Len(versions) /\ Len(versions) \in Nat
  BY DEF Made, TypeOK
<1>2. IsFiniteSet(1..Len(versions))
  BY <1>1, FS_Interval
<1>3. IsFiniteSet(Made(x))
  BY <1>1, <1>2, FS_Subset
<1> QED
  BY <1>3, FS_EmptySet

-----------------------------------------------------------------------------
(* The raw record and the refreshes: they touch no row, and the last       *)
(* change of the record stays scheduled until a refresh for it begins.     *)

Refresh == DirtyIsScheduled /\ LastChangeRefreshed

Early(c) == gen[c].pc \in {"idle", "flush", "begin"}

LEMMA RowsAside ==
  ASSUME MinutesInv, UNCHANGED rows, UNCHANGED edit,
         \A c \in Generations : Early(c)' => Early(c)
  PROVE  /\ CompletedHasVersion' /\ MinuteStateFits' /\ GeneratingHasTurn' /\ BaseExists'
         /\ NotYetBegun' /\ Current' = Current
<1>1. Current' = Current
  BY DEF rows, Current, CurrentOnes
<1>2. CompletedHasVersion'
  BY DEF MinutesInv, CompletedHasVersion, Made, rows
<1>3. MinuteStateFits' /\ GeneratingHasTurn' /\ BaseExists'
  BY <1>1 DEF MinutesInv, MinuteStateFits, GeneratingHasTurn, Busy, BaseExists, rows
<1>4. NotYetBegun'
  BY DEF MinutesInv, NotYetBegun, Early, rows
<1> QED
  BY <1>1, <1>2, <1>3, <1>4

LEMMA AddFactKeeps ==
  ASSUME MinutesInv, AddFact
  PROVE  MinutesInv'
<1> USE DEF AddFact, MarkDirty
<1>1. TypeOK'
  BY DEF MinutesInv, TypeOK, rows
<1>2. Refresh'
  BY DEF MinutesInv, TypeOK, Refresh, DirtyIsScheduled, LastChangeRefreshed
<1> QED
  BY <1>1, <1>2, RowsAside DEF MinutesInv, Refresh, Early

LEMMA FireKeeps ==
  ASSUME MinutesInv, NEW t \in Timers, Fire(t)
  PROVE  MinutesInv'
<1> USE DEF Fire, Procs
<1>1. TypeOK'
  BY DEF MinutesInv, TypeOK, rows, NoFlush
<1>2. flush'[t].step = "check" /\ flush'[t].content = <<generation'>>
  BY DEF MinutesInv, TypeOK, NoFlush
<1>3. Refresh'
  BY <1>2 DEF Refresh, DirtyIsScheduled, LastChangeRefreshed
<1> QED
  BY <1>1, <1>3, RowsAside DEF MinutesInv, Refresh, Early

LEMMA RunScheduledKeeps ==
  ASSUME MinutesInv, NEW t \in Timers, RunScheduled(t)
  PROVE  MinutesInv'
<1> USE DEF RunScheduled, Procs
<1>1. TypeOK'
  <2>1. CASE flush' = [flush EXCEPT ![t] = NoFlush] /\ UNCHANGED shown
    BY <2>1 DEF MinutesInv, TypeOK, rows, NoFlush
  <2>2. CASE flush' = [flush EXCEPT ![t].step = "read"] /\ shown' = [shown EXCEPT !.raw = "writing"]
    BY <2>2 DEF MinutesInv, TypeOK, rows, NoFlush
  <2> QED
    BY <2>1, <2>2
<1>2. Refresh'
  BY DEF MinutesInv, TypeOK, Refresh, DirtyIsScheduled, LastChangeRefreshed, NoFlush
<1> QED
  BY <1>1, <1>2, RowsAside DEF MinutesInv, Refresh, Early

(* A refresh that ends leaves its document current or failed.              *)
LEMMA RefreshEnds ==
  ASSUME MinutesInv, NEW p \in Procs, FinishRefresh(p)
  PROVE  Refresh'
BY DEF MinutesInv, TypeOK, FinishRefresh, Ended, Refresh, DirtyIsScheduled, LastChangeRefreshed, Procs

LEMMA RefreshTypes ==
  ASSUME TypeOK, NEW p \in Procs, FinishRefresh(p) \/ FlushMinutes(p) \/ FlushRaw(p)
  PROVE  /\ shown' \in [{"raw", "minutes"} -> {"idle", "dirty", "writing", "current", "failed"}]
         /\ DOMAIN flush' = Procs /\ \A q \in Procs : DOMAIN flush'[q] = DOMAIN NoFlush
         /\ generation' \in Nat /\ due' \in {0, generation'}
<1>1. CASE FinishRefresh(p)
  <2>1. shown' \in [{"raw", "minutes"} -> {"idle", "dirty", "writing", "current", "failed"}]
    BY <1>1 DEF TypeOK, FinishRefresh, Ended
  <2> QED
    BY <1>1, <2>1 DEF TypeOK, FinishRefresh, NoFlush
<1>2. CASE FlushMinutes(p)
  BY <1>2 DEF TypeOK, FlushMinutes, NoFlush
<1>3. CASE FlushRaw(p)
  <2>1. shown' \in [{"raw", "minutes"} -> {"idle", "dirty", "writing", "current", "failed"}]
    BY <1>3 DEF TypeOK, FlushRaw
  <2>2. DOMAIN flush' = Procs /\ \A q \in Procs : DOMAIN flush'[q] = DOMAIN NoFlush
    BY <1>3 DEF TypeOK, FlushRaw, NoFlush
  <2> QED
    BY <1>3, <2>1, <2>2 DEF TypeOK, FlushRaw
<1> QED
  BY <1>1, <1>2, <1>3

(* A refresh that the call of another process begins is none of a timer's. *)
LEMMA RefreshBegins ==
  ASSUME MinutesInv, NEW p \in Procs \ Timers, FlushMinutes(p) \/ FlushRaw(p)
  PROVE  Refresh'
BY DEF MinutesInv, TypeOK, FlushMinutes, FlushRaw, Refresh, DirtyIsScheduled, LastChangeRefreshed,
       NoFlush, Procs

LEMMA ReadKeeps ==
  ASSUME MinutesInv, NEW p \in Procs, Read(p)
  PROVE  MinutesInv'
<1> USE DEF Read, Procs
<1>1. TypeOK'
  BY DEF MinutesInv, TypeOK, rows, NoFlush
<1>2. Refresh'
  BY DEF MinutesInv, TypeOK, Refresh, DirtyIsScheduled, LastChangeRefreshed, NoFlush
<1> QED
  BY <1>1, <1>2, RowsAside DEF MinutesInv, Refresh, Early

LEMMA WriteKeeps ==
  ASSUME MinutesInv, NEW p \in Procs, Write(p)
  PROVE  MinutesInv'
<1> USE DEF Write, Procs
<1>1. TypeOK'
  BY DEF MinutesInv, TypeOK, rows, NoFlush
<1>2. Refresh'
  BY DEF MinutesInv, TypeOK, Refresh, DirtyIsScheduled, LastChangeRefreshed, NoFlush
<1> QED
  BY <1>1, <1>2, RowsAside DEF MinutesInv, Refresh, Early

LEMMA ReadOrWriteFailsKeeps ==
  ASSUME MinutesInv, NEW p \in Procs, ReadOrWriteFails(p)
  PROVE  MinutesInv'
<1> USE DEF ReadOrWriteFails, Procs
<1>1. TypeOK'
  BY DEF MinutesInv, TypeOK, rows, NoFlush
<1>2. Refresh'
  BY DEF MinutesInv, TypeOK, Refresh, DirtyIsScheduled, LastChangeRefreshed, NoFlush
<1> QED
  BY <1>1, <1>2, RowsAside DEF MinutesInv, Refresh, Early

LEMMA RefreshedKeeps ==
  ASSUME MinutesInv, NEW t \in Timers, Refreshed(t)
  PROVE  MinutesInv'
<1> USE DEF Refreshed, FinishRefresh, Procs
<1>1. TypeOK'
  BY RefreshTypes DEF MinutesInv, TypeOK, rows
<1>2. Refresh'
  BY RefreshEnds DEF Refreshed
<1> QED
  BY <1>1, <1>2, RowsAside DEF MinutesInv, Refresh, Early

-----------------------------------------------------------------------------
(* A call of Generate.                                                     *)

LEMMA NoTimer == \A p \in Generations \cup Editors : p \in Procs \ Timers
BY MinutesAssumption DEF Procs

LEMMA GoesTypes ==
  ASSUME TypeOK, NEW c \in Generations, NEW pc \in GenPc, Goes(c, pc)
  PROVE  gen' \in [Generations -> Gen]
<1>1. \A g \in Gen : [g EXCEPT !.pc = pc] \in Gen
  BY DEF Gen
<1> QED
  BY <1>1 DEF TypeOK, Goes

LEMMA GenerateKeeps ==
  ASSUME MinutesInv, NEW c \in Generations, Generate(c)
  PROVE  MinutesInv'
<1> USE DEF Generate
<1>1. Refresh'
  BY RefreshBegins, NoTimer
<1>2. gen' \in [Generations -> Gen]
  <2>1. PICK r \in Requests : gen' = [gen EXCEPT ![c] = [NoGen EXCEPT !.pc = "flush", !.key = r]]
    OBVIOUS
  <2>2. [NoGen EXCEPT !.pc = "flush", !.key = r] \in Gen
    BY DEF NoGen, Gen, GenPc
  <2> QED
    BY <2>1, <2>2 DEF MinutesInv, TypeOK
<1>3. TypeOK'
  BY <1>2, RefreshTypes, NoTimer DEF MinutesInv, TypeOK, rows
<1> QED
  BY <1>1, <1>3, RowsAside DEF MinutesInv, TypeOK, Refresh, Early, At, NoGen, Gen

LEMMA PreflightKeeps ==
  ASSUME MinutesInv, NEW c \in Generations, Preflight(c)
  PROVE  MinutesInv'
<1> USE DEF Preflight
<1>1. Refresh'
  BY RefreshEnds, NoTimer
<1>2. gen' \in [Generations -> Gen]
  BY GoesTypes DEF MinutesInv, GenPc
<1>3. TypeOK'
  BY <1>2, RefreshTypes, NoTimer DEF MinutesInv, TypeOK, rows
<1>4. \A d \in Generations : Early(d)' => Early(d)
  BY DEF Early, Goes, At, MinutesInv, TypeOK, Gen
<1> QED
  BY <1>1, <1>3, <1>4, RowsAside DEF MinutesInv, Refresh

(* A step that leaves the versions, the documents and the commands of the  *)
(* host alone need only account for the turns and the state of the meeting.*)
LEMMA TurnsOnly ==
  ASSUME MinutesInv, UNCHANGED <<versions, edit, documents>>,
         turns' \in [Generations -> Turn], gen' \in [Generations -> Gen], active' \subseteq Generations,
         minute' \in {minute, "generating", "failed"}, GeneratingHasTurn',
         \A c \in Generations : (turns'[c].state = "completed") <=> (turns[c].state = "completed"),
         \A c \in Generations : Early(c)' => Early(c) /\ turns'[c] = turns[c]
  PROVE  MinutesInv'
<1>1. Current' = Current /\ \A c : Made(c)' = Made(c)
  BY DEF Current, CurrentOnes, Made
<1>2. CompletedHasVersion'
  BY <1>1 DEF MinutesInv, CompletedHasVersion
<1>3. MinuteStateFits' /\ BaseExists'
  BY <1>1 DEF MinutesInv, MinuteStateFits, BaseExists
<1>4. DirtyIsScheduled' /\ LastChangeRefreshed'
  BY DEF MinutesInv, DirtyIsScheduled, LastChangeRefreshed, documents
<1>5. NotYetBegun'
  BY DEF MinutesInv, NotYetBegun, Early
<1>6. TypeOK'
  BY DEF MinutesInv, TypeOK, documents
<1> QED
  BY <1>2, <1>3, <1>4, <1>5, <1>6 DEF MinutesInv

LEMMA BeginMinutesTurnKeeps ==
  ASSUME MinutesInv, NEW c \in Generations, BeginMinutesTurn(c)
  PROVE  MinutesInv'
<1> USE DEF BeginMinutesTurn
<1>0. gen' \in [Generations -> Gen]
  BY GoesTypes DEF MinutesInv, GenPc
<1>1. \A d \in Generations : Early(d)' => d # c /\ Early(d)
  BY DEF Early, Goes, MinutesInv, TypeOK, Gen
<1>2. CASE UNCHANGED rows
  BY <1>0, <1>1, <1>2, TurnsOnly DEF MinutesInv, TypeOK, rows, GeneratingHasTurn, Busy
<1>3. CASE /\ turns' = [turns EXCEPT ![c] = [state |-> "pending", key |-> gen[c].key]]
           /\ minute' = "generating" /\ UNCHANGED versions
  <2>1. [state |-> "pending", key |-> gen[c].key] \in Turn
    BY DEF MinutesInv, TypeOK, Gen, Turn, Pending
  <2>2. turns' \in [Generations -> Turn]
    BY <1>3, <2>1 DEF MinutesInv, TypeOK
  <2>3. turns[c].state = "none"
    BY DEF At, MinutesInv, NotYetBegun
  <2>4. \A d \in Generations : (turns'[d].state = "completed") <=> (turns[d].state = "completed")
    BY <1>3, <2>3 DEF MinutesInv, TypeOK
  <2>5. GeneratingHasTurn'
    BY <1>3 DEF GeneratingHasTurn, Busy, Pending, MinutesInv, TypeOK
  <2>6. \A d \in Generations : Early(d)' => Early(d) /\ turns'[d] = turns[d]
    BY <1>1, <1>3 DEF MinutesInv, TypeOK
  <2> QED
    BY <1>0, <1>3, <2>2, <2>4, <2>5, <2>6, TurnsOnly DEF MinutesInv, TypeOK
<1> QED
  BY <1>2, <1>3

(* A turn that is failed was active, or stays what it was.                 *)
LEMMA FailKeeps ==
  ASSUME MinutesInv, NEW c \in Generations, ~Early(c), UNCHANGED <<edit, documents>>,
         NEW state \in {"failed", "cancelled", "timed_out"}, Fail(c, state)
  PROVE  MinutesInv'
<1> USE DEF Fail
<1>0. gen' \in [Generations -> Gen] /\ active' \subseteq Generations
  BY GoesTypes DEF MinutesInv, TypeOK, GenPc
<1>1. \A d \in Generations : Early(d)' => d # c /\ Early(d)
  BY DEF Early, Goes, MinutesInv, TypeOK, Gen
<1>2. CASE UNCHANGED rows
  BY <1>0, <1>1, <1>2, TurnsOnly DEF MinutesInv, TypeOK, rows, GeneratingHasTurn, Busy
<1>3. CASE FailMinutesTurn(c, state)
  <2> USE <1>3 DEF FailMinutesTurn
  <2>1. \A t \in Turn : [t EXCEPT !.state = IF @ \in Pending THEN state ELSE @] \in Turn
    BY DEF Turn
  <2>2. turns' \in [Generations -> Turn]
    BY <2>1 DEF MinutesInv, TypeOK
  <2>3. \A d \in Generations : (turns'[d].state = "completed") <=> (turns[d].state = "completed")
    BY DEF MinutesInv, TypeOK, Turn, Pending
  <2>4. GeneratingHasTurn'
    <3>1. CASE turns[c].state \in Pending
      BY <3>1 DEF GeneratingHasTurn
    <3>2. CASE turns[c].state \notin Pending
      <4>1. \A d \in Generations : turns'[d].state = turns[d].state
        BY <3>2 DEF MinutesInv, TypeOK, Turn
      <4> QED
        BY <3>2, <4>1 DEF GeneratingHasTurn, Busy, MinutesInv
    <3> QED
      BY <3>1, <3>2
  <2>5. \A d \in Generations : Early(d)' => Early(d) /\ turns'[d] = turns[d]
    BY <1>1 DEF MinutesInv, TypeOK
  <2> QED
    BY <1>0, <2>2, <2>3, <2>4, <2>5, TurnsOnly DEF MinutesInv, TypeOK
<1> QED
  BY <1>2, <1>3

LEMMA OwnKeeps ==
  ASSUME MinutesInv, NEW c \in Generations, Own(c)
  PROVE  MinutesInv'
<1> USE DEF Own
<1>1. ~Early(c)
  BY DEF Early, At
<1>2. CASE Fail(c, "failed")
  BY <1>1, <1>2, FailKeeps
<1>3. CASE active' = {c} /\ Goes(c, "run") /\ UNCHANGED rows
  <2>1. gen' \in [Generations -> Gen]
    BY <1>3, GoesTypes DEF MinutesInv, GenPc
  <2>2. \A d \in Generations : Early(d)' => Early(d)
    BY <1>3 DEF Early, Goes, MinutesInv, TypeOK, Gen
  <2> QED
    BY <1>3, <2>1, <2>2, TurnsOnly DEF MinutesInv, TypeOK, rows, GeneratingHasTurn, Busy
<1> QED
  BY <1>2, <1>3

LEMMA StartedKeeps ==
  ASSUME MinutesInv, NEW c \in Generations, Started(c)
  PROVE  MinutesInv'
<1> USE DEF Started
<1>1. turns' \in [Generations -> Turn]
  <2>1. \A t \in Turn : [t EXCEPT !.state = "running"] \in Turn
    BY DEF Turn, Pending
  <2> QED
    BY <2>1 DEF MinutesInv, TypeOK
<1>2. \A d \in Generations : (turns'[d].state = "completed") <=> (turns[d].state = "completed")
  BY DEF MinutesInv, TypeOK, Turn
<1>3. GeneratingHasTurn'
  BY DEF MinutesInv, TypeOK, Turn, GeneratingHasTurn, Busy, Pending
<1>4. \A d \in Generations : Early(d)' => Early(d) /\ turns'[d] = turns[d]
  BY DEF Early, At, MinutesInv, TypeOK
<1> QED
  BY <1>1, <1>2, <1>3, <1>4, TurnsOnly DEF MinutesInv, TypeOK

LEMMA CompletedKeeps ==
  ASSUME MinutesInv, NEW c \in Generations, Completed(c)
  PROVE  MinutesInv'
<1> USE DEF Completed
<1>1. gen' \in [Generations -> Gen]
  BY GoesTypes DEF MinutesInv, GenPc
<1>2. \A d \in Generations : Early(d)' => Early(d)
  BY DEF Early, Goes, MinutesInv, TypeOK, Gen
<1> QED
  BY <1>1, <1>2, TurnsOnly DEF MinutesInv, TypeOK, rows, GeneratingHasTurn, Busy

LEMMA RunEndsKeeps ==
  ASSUME MinutesInv, NEW c \in Generations, RunEnds(c)
  PROVE  MinutesInv'
<1>1. ~Early(c)
  BY DEF RunEnds, Early
<1> QED
  BY <1>1, FailKeeps DEF RunEnds

LEMMA StopKeeps ==
  ASSUME MinutesInv, NEW c \in Generations, Stop(c)
  PROVE  MinutesInv'
<1> USE DEF Stop
<1>1. gen' \in [Generations -> Gen]
  <2>1. \A g \in Gen : [g EXCEPT !.cancelled = TRUE] \in Gen
    BY DEF Gen
  <2> QED
    BY <2>1 DEF MinutesInv, TypeOK
<1>2. \A d \in Generations : Early(d)' => Early(d)
  BY DEF Early, MinutesInv, TypeOK, Gen
<1> QED
  BY <1>1, <1>2, TurnsOnly DEF MinutesInv, TypeOK, rows, GeneratingHasTurn, Busy

(* The turn is completed by the one transaction that adds its version.     *)
LEMMA CommitGeneratedMinuteKeeps ==
  ASSUME MinutesInv, NEW c \in Generations, CommitGeneratedMinute(c)
  PROVE  MinutesInv'
<1> USE DEF CommitGeneratedMinute
<1>0. TypeOK /\ versions' = Added("ai", "draft", c, 0, MakesCurrent) /\ MakesCurrent \in BOOLEAN
  BY DEF MinutesInv, MakesCurrent
<1>1. /\ versions' \in Seq(Version) /\ Len(versions') = Len(versions) + 1
      /\ versions'[Len(versions) + 1].state = "draft"
      /\ \A v \in DOMAIN versions : v \in DOMAIN versions'
  <2>1. versions' \in Seq(Version) /\ Len(versions') = Len(versions) + 1
    BY <1>0, AddedKeeps DEF Sources
  <2>2. versions'[Len(versions) + 1].state = "draft"
    <3>1. "ai" \in Sources /\ "draft" \in {"draft", "confirmed"} /\ c \in Generations \cup Editors /\ 0 \in Nat
      BY DEF Sources
    <3> HIDE DEF CommitGeneratedMinute
    <3> QED
      BY <1>0, <3>1, AddedKeeps
  <2> QED
    BY <1>0, <2>1, <2>2 DEF TypeOK
<1>2. ASSUME NEW x \in Generations
      PROVE  Made(x)' = IF x = c THEN Made(x) \cup {Len(versions) + 1} ELSE Made(x)
  <2>1. "ai" \in Sources /\ "draft" \in {"draft", "confirmed"} /\ c \in Generations \cup Editors /\ 0 \in Nat
    BY DEF Sources
  <2> HIDE DEF CommitGeneratedMinute
  <2> QED
    BY <1>0, <2>1, AddedMade
<1>3. gen' \in [Generations -> Gen]
  BY <1>0, GoesTypes DEF GenPc
<1>4. \A d \in Generations : Early(d)' => d # c /\ Early(d)
  BY <1>0 DEF Early, Goes, TypeOK, Gen
<1>5. turns' \in [Generations -> Turn]
  <2>1. \A t \in Turn : [t EXCEPT !.state = "completed"] \in Turn
    BY DEF Turn
  <2> QED
    BY <1>0, <2>1 DEF TypeOK
<1>6. TypeOK'
  BY <1>0, <1>1, <1>3, <1>5, RefreshTypes, NoTimer DEF TypeOK
<1>7. CompletedHasVersion'
  <2>1. Made(c) = {}
    BY <1>0, MadeFinite DEF MinutesInv, CompletedHasVersion
  <2>2. Cardinality({Len(versions) + 1}) = 1
    BY FS_Singleton
  <2>3. Cardinality(Made(c)') = 1 /\ turns'[c].state = "completed"
    BY <1>0, <1>2, <2>1, <2>2 DEF TypeOK, Turn
  <2>4. \A d \in Generations \ {c} : Made(d)' = Made(d) /\ turns'[d] = turns[d]
    BY <1>0, <1>2 DEF TypeOK
  <2> QED
    BY <2>3, <2>4 DEF MinutesInv, CompletedHasVersion
<1>8. MinuteStateFits' /\ GeneratingHasTurn'
  BY <1>0, <1>1 DEF MinuteStateFits, GeneratingHasTurn, TypeOK
<1>9. DirtyIsScheduled' /\ LastChangeRefreshed'
  BY RefreshBegins, NoTimer DEF Refresh
<1>10. BaseExists'
  BY <1>1 DEF MinutesInv, BaseExists
<1>11. NotYetBegun'
  BY <1>0, <1>4 DEF MinutesInv, NotYetBegun, Early, TypeOK
<1> QED
  BY <1>6, <1>7, <1>8, <1>9, <1>10, <1>11 DEF MinutesInv

LEMMA ProjectedKeeps ==
  ASSUME MinutesInv, NEW c \in Generations, Projected(c)
  PROVE  MinutesInv'
<1> USE DEF Projected
<1>1. Refresh'
  BY RefreshEnds, NoTimer
<1>2. gen' \in [Generations -> Gen]
  BY GoesTypes DEF MinutesInv, GenPc
<1>3. TypeOK'
  BY <1>2, RefreshTypes, NoTimer DEF MinutesInv, TypeOK, rows
<1>4. \A d \in Generations : Early(d)' => Early(d)
  BY DEF Early, Goes, MinutesInv, TypeOK, Gen
<1> QED
  BY <1>1, <1>3, <1>4, RowsAside DEF MinutesInv, Refresh

-----------------------------------------------------------------------------
(* A command of the host.                                                  *)

LEMMA OpenKeeps ==
  ASSUME MinutesInv, NEW e \in Editors, Open(e)
  PROVE  MinutesInv'
<1> USE DEF Open
<1>1. PICK kind \in {"save", "confirm", "restore"}, v \in DOMAIN versions :
        edit' = [edit EXCEPT ![e] = [pc |-> "open", kind |-> kind, base |-> v, sent |-> 0]]
  BY CurrentExists DEF MinutesInv
<1>2. v \in Nat
  BY DEF MinutesInv, TypeOK
<1>3. TypeOK'
  <2>1. [pc |-> "open", kind |-> kind, base |-> v, sent |-> 0] \in Edit
    BY <1>2 DEF Edit
  <2> QED
    BY <1>1, <2>1 DEF MinutesInv, TypeOK, rows, documents
<1>4. BaseExists'
  BY <1>1 DEF MinutesInv, BaseExists, TypeOK, rows
<1>5. CompletedHasVersion' /\ MinuteStateFits' /\ GeneratingHasTurn' /\ NotYetBegun'
  BY DEF MinutesInv, CompletedHasVersion, Made, MinuteStateFits, Current, CurrentOnes, GeneratingHasTurn,
         Busy, NotYetBegun, rows
<1>6. DirtyIsScheduled' /\ LastChangeRefreshed'
  BY DEF MinutesInv, DirtyIsScheduled, LastChangeRefreshed, documents
<1> QED
  BY <1>3, <1>4, <1>5, <1>6 DEF MinutesInv

(* A command that is sent keeps what it is about.                          *)
LEMMA SentTypes ==
  ASSUME TypeOK, NEW e \in Editors, NEW pc \in {"open", "project"}, NEW more \in {0, 1},
         edit[e].pc # "idle", edit[e].sent + more <= 2,
         edit' = [edit EXCEPT ![e].pc = pc, ![e].sent = @ + more]
  PROVE  /\ edit' \in [Editors -> Edit]
         /\ \A x \in Editors : /\ edit'[x].pc # "idle" <=> edit[x].pc # "idle"
                               /\ edit'[x].kind = edit[x].kind /\ edit'[x].base = edit[x].base
<1>1. edit[e] \in Edit
  BY DEF TypeOK
<1>2. [edit[e] EXCEPT !.pc = pc, !.sent = edit[e].sent + more] \in Edit
  <2>1. edit[e].sent + more \in 0..2
    BY <1>1 DEF Edit
  <2> QED
    BY <1>1, <2>1 DEF Edit
<1>3. edit' = [edit EXCEPT ![e] = [edit[e] EXCEPT !.pc = pc, !.sent = edit[e].sent + more]]
  BY DEF TypeOK
<1> QED
  BY <1>1, <1>2, <1>3 DEF TypeOK, Edit

(* What is true of a list to which the host added a version.               *)
LEMMA HostAdds ==
  ASSUME MinutesInv, NEW e \in Editors, NEW source \in {"human", "restored"},
         NEW state \in {"draft", "confirmed"}, edit[e].base \in DOMAIN versions,
         versions' = Added(source, state, e, edit[e].base, TRUE), minute' = state,
         UNCHANGED <<turns, gen>>, edit' \in [Editors -> Edit],
         \A x \in Editors : /\ edit'[x].pc # "idle" <=> edit[x].pc # "idle"
                            /\ edit'[x].kind = edit[x].kind /\ edit'[x].base = edit[x].base
  PROVE  /\ versions' \in Seq(Version) /\ CompletedHasVersion' /\ MinuteStateFits'
         /\ GeneratingHasTurn' /\ BaseExists' /\ NotYetBegun'
<1> DEFINE n == Len(versions)
<1>0. /\ TypeOK /\ source \in Sources /\ e \in Generations \cup Editors /\ TRUE \in BOOLEAN
      /\ edit[e].base \in Nat
  BY DEF MinutesInv, Sources, TypeOK
<1>1. versions' \in Seq(Version) /\ versions'[n + 1].state = state
  <2>1. versions' \in Seq(Version)
    BY <1>0, AddedKeeps
  <2>2. versions'[n + 1].state = state
    BY <1>0, AddedKeeps
  <2> QED
    BY <2>1, <2>2
<1>2. DOMAIN versions' = DOMAIN versions \cup {n + 1} /\ n + 1 \in Nat \ {0}
  BY <1>0, AddedDomain
<1>3. Current' = n + 1
  BY <1>0, AddedCurrent
<1> HIDE DEF n
<1>4. CompletedHasVersion'
  <2>1. ASSUME NEW c \in Generations
        PROVE  Made(c)' = Made(c)
    BY <1>0, AddedMade, MinutesAssumption
  <2> QED
    BY <2>1 DEF MinutesInv, CompletedHasVersion
<1>5. MinuteStateFits'
  <2>1. n + 1 \in DOMAIN versions' /\ Current' # 0 /\ versions'[Current'].state = state
    BY <1>1, <1>2, <1>3
  <2> QED
    BY <1>3, <2>1 DEF MinuteStateFits
<1>6. GeneratingHasTurn' /\ NotYetBegun'
  BY DEF MinutesInv, GeneratingHasTurn, NotYetBegun
<1>7. BaseExists'
  BY <1>2 DEF MinutesInv, BaseExists
<1> QED
  BY <1>1, <1>4, <1>5, <1>6, <1>7

LEMMA SubmitKeeps ==
  ASSUME MinutesInv, NEW e \in Editors, Submit(e)
  PROVE  MinutesInv'
<1> USE DEF Submit
<1>0. TypeOK /\ edit[e].sent \in 0..2 /\ edit[e].base \in DOMAIN versions
  BY DEF MinutesInv, BaseExists, TypeOK, Edit
<1>1. /\ edit' \in [Editors -> Edit]
      /\ \A x \in Editors : /\ edit'[x].pc # "idle" <=> edit[x].pc # "idle"
                            /\ edit'[x].kind = edit[x].kind /\ edit'[x].base = edit[x].base
  <2>1. edit[e].sent + 1 <= 2 /\ edit[e].pc # "idle" /\ "project" \in {"open", "project"} /\ 1 \in {0, 1}
    BY <1>0
  <2>2. edit' = [edit EXCEPT ![e].pc = "project", ![e].sent = @ + 1]
    OBVIOUS
  <2> HIDE DEF Submit
  <2> QED
    BY <1>0, <2>1, <2>2, SentTypes
<1>2. DirtyIsScheduled' /\ LastChangeRefreshed'
  BY RefreshBegins, NoTimer DEF Refresh
<1>3. /\ minute' \in {"none", "generating", "draft", "confirmed", "failed"}
      /\ versions' \in Seq(Version) /\ UNCHANGED turns /\ CompletedHasVersion' /\ MinuteStateFits'
      /\ GeneratingHasTurn' /\ BaseExists' /\ NotYetBegun'
  <2>1. CASE SaveHumanMinute(e)
    BY <1>0, <1>1, <2>1, HostAdds DEF SaveHumanMinute
  <2>2. CASE RestoreMinuteVersion(e)
    <3>1. versions[edit[e].base].state \in {"draft", "confirmed"}
      <4>1. versions[edit[e].base] \in Version
        BY <1>0 DEF TypeOK
      <4> QED
        BY <4>1 DEF Version
    <3> QED
      BY <1>0, <1>1, <2>2, <3>1, HostAdds DEF RestoreMinuteVersion
  <2>3. CASE ConfirmCurrentMinute(e)
    <3> USE <2>3 DEF ConfirmCurrentMinute
    <3>0. Current \in DOMAIN versions /\ versions[Current].current
      BY <1>0, CurrentExists DEF BaseIsCurrent, TypeOK
    <3>1. versions' \in Seq(Version) /\ DOMAIN versions' = DOMAIN versions
      <4>1. \A v \in Version : [v EXCEPT !.state = "confirmed"] \in Version
        BY DEF Version
      <4> QED
        BY <1>0, <3>0, <4>1 DEF TypeOK
    <3>2. /\ versions'[Current].state = "confirmed"
          /\ \A v \in DOMAIN versions : /\ versions'[v].id = versions[v].id
                                        /\ versions'[v].current = versions[v].current
                                        /\ v # Current => versions'[v] = versions[v]
      <4>1. versions[Current] \in Version
        BY <1>0, <3>0 DEF TypeOK
      <4>2. versions' = [versions EXCEPT ![Current] = [versions[Current] EXCEPT !.state = "confirmed"]]
        OBVIOUS
      <4> QED
        BY <3>0, <4>1, <4>2 DEF Version
    <3>3. Current' = Current /\ \A c \in Generations : Made(c)' = Made(c)
      <4>1. CurrentOnes(versions)' = CurrentOnes(versions)
        BY <3>1, <3>2 DEF CurrentOnes
      <4>2. Current' = Current
        BY <4>1, SameCurrent
      <4> QED
        BY <3>1, <3>2, <4>2 DEF Made
    <3>4. CompletedHasVersion'
      BY <3>3 DEF MinutesInv, CompletedHasVersion
    <3>5. MinuteStateFits'
      <4>1. CASE Candidates = {}
        BY <1>0, <3>0, <3>2, <3>3, <4>1 DEF MinuteStateFits, TypeOK
      <4>2. CASE Candidates # {}
        BY <3>0, <3>1, <3>2, <4>2 DEF MinuteStateFits, Candidates
      <4> QED
        BY <4>1, <4>2
    <3> QED
      BY <1>0, <1>1, <3>1, <3>4, <3>5 DEF MinutesInv, GeneratingHasTurn, BaseExists, NotYetBegun
  <2>4. CASE Again(e)
    BY <1>0, <1>1, <2>4 DEF Again, rows, MinutesInv, TypeOK, CompletedHasVersion, Made, MinuteStateFits,
       Current, CurrentOnes, GeneratingHasTurn, Busy, BaseExists, NotYetBegun
  <2> QED
    BY <2>1, <2>2, <2>3, <2>4
<1>4. TypeOK'
  BY <1>0, <1>1, <1>3, RefreshTypes, NoTimer DEF TypeOK
<1> QED
  BY <1>2, <1>3, <1>4 DEF MinutesInv

LEMMA ConflictKeeps ==
  ASSUME MinutesInv, NEW e \in Editors, Conflict(e)
  PROVE  MinutesInv'
<1> USE DEF Conflict
<1>1. edit' \in [Editors -> Edit]
  <2>1. edit[e] \in Edit
    BY DEF MinutesInv, TypeOK
  <2>2. [edit[e] EXCEPT !.sent = edit[e].sent + 1] \in Edit
    BY <2>1 DEF Edit
  <2> QED
    BY <2>2 DEF MinutesInv, TypeOK
<1>2. BaseExists'
  BY DEF MinutesInv, TypeOK, Edit, BaseExists, rows
<1>3. TypeOK'
  BY <1>1 DEF MinutesInv, TypeOK, rows, documents
<1>4. CompletedHasVersion' /\ MinuteStateFits' /\ GeneratingHasTurn' /\ NotYetBegun'
  BY DEF MinutesInv, CompletedHasVersion, Made, MinuteStateFits, Current, CurrentOnes, GeneratingHasTurn,
         Busy, NotYetBegun, rows
<1>5. DirtyIsScheduled' /\ LastChangeRefreshed'
  BY DEF MinutesInv, DirtyIsScheduled, LastChangeRefreshed, documents
<1> QED
  BY <1>2, <1>3, <1>4, <1>5 DEF MinutesInv

LEMMA EditProjectedKeeps ==
  ASSUME MinutesInv, NEW e \in Editors, EditProjected(e)
  PROVE  MinutesInv'
<1> USE DEF EditProjected
<1>1. Refresh'
  BY RefreshEnds, NoTimer
<1>2. edit' \in [Editors -> Edit]
  <2>1. \A x \in Edit : [x EXCEPT !.pc = "open"] \in Edit
    BY DEF Edit
  <2> QED
    BY <2>1 DEF MinutesInv, TypeOK
<1>3. BaseExists'
  BY DEF MinutesInv, TypeOK, Edit, BaseExists, rows
<1>4. TypeOK'
  BY <1>2, RefreshTypes, NoTimer DEF MinutesInv, TypeOK, rows
<1>5. CompletedHasVersion' /\ MinuteStateFits' /\ GeneratingHasTurn' /\ NotYetBegun'
  BY DEF MinutesInv, CompletedHasVersion, Made, MinuteStateFits, Current, CurrentOnes, GeneratingHasTurn,
         Busy, NotYetBegun, rows
<1> QED
  BY <1>1, <1>3, <1>4, <1>5 DEF MinutesInv, Refresh

-----------------------------------------------------------------------------
(* The process.                                                            *)

LEMMA CrashKeeps ==
  ASSUME MinutesInv, Crash
  PROVE  MinutesInv'
<1> USE DEF Crash
<1>1. gen' \in [Generations -> Gen] /\ \A c \in Generations : Early(c)' => Early(c)
  <2>1. \A g \in Gen : [g EXCEPT !.pc = "done"] \in Gen /\ NoGen.pc = "idle"
    BY DEF Gen, GenPc, NoGen
  <2>2. \A c \in Generations : gen[c] \in Gen
    BY DEF MinutesInv, TypeOK
  <2>3. ASSUME NEW c \in Generations
        PROVE  gen'[c] \in Gen /\ (Early(c)' => Early(c))
    <3>1. CASE gen[c] = NoGen
      BY <2>2, <3>1 DEF Early
    <3>2. CASE gen[c] # NoGen
      BY <2>1, <2>2, <3>2 DEF Early, Gen
    <3> QED
      BY <3>1, <3>2
  <2> QED
    BY <2>3
<1>2. /\ edit' \in [Editors -> Edit]
      /\ \A e \in Editors : /\ edit'[e].pc # "idle" => edit[e].pc # "idle"
                            /\ edit'[e].kind = edit[e].kind /\ edit'[e].base = edit[e].base
  <2>1. \A x \in Edit : [x EXCEPT !.pc = "open"] \in Edit
    BY DEF Edit
  <2>2. \A e \in Editors : edit[e] \in Edit
    BY DEF MinutesInv, TypeOK
  <2>3. ASSUME NEW e \in Editors
        PROVE  /\ edit'[e] \in Edit
               /\ edit'[e].pc # "idle" => edit[e].pc # "idle"
               /\ edit'[e].kind = edit[e].kind /\ edit'[e].base = edit[e].base
    BY <2>1, <2>2 DEF Edit
  <2> QED
    BY <2>3
<1>3. TypeOK'
  BY <1>1, <1>2 DEF MinutesInv, TypeOK, rows, NoFlush
<1>4. BaseExists'
  BY <1>2 DEF MinutesInv, BaseExists, rows
<1>5. CompletedHasVersion' /\ MinuteStateFits' /\ GeneratingHasTurn'
  BY DEF MinutesInv, CompletedHasVersion, Made, MinuteStateFits, Current, CurrentOnes, GeneratingHasTurn,
         Busy, rows
<1>6. NotYetBegun'
  BY <1>1 DEF MinutesInv, NotYetBegun, Early, rows
<1>7. DirtyIsScheduled' /\ LastChangeRefreshed'
  BY DEF DirtyIsScheduled, LastChangeRefreshed
<1> QED
  BY <1>3, <1>4, <1>5, <1>6, <1>7 DEF MinutesInv

LEMMA RecoverInterruptedTurnsKeeps ==
  ASSUME MinutesInv, RecoverInterruptedTurns
  PROVE  MinutesInv'
<1> USE DEF RecoverInterruptedTurns
<1>1. \A t \in Turn : [t EXCEPT !.state = "failed"] \in Turn
  BY DEF Turn
<1>2. turns' \in [Generations -> Turn]
  BY <1>1 DEF MinutesInv, TypeOK
<1>3. \A c \in Generations : (turns'[c].state = "completed") <=> (turns[c].state = "completed")
  BY DEF MinutesInv, TypeOK, Turn, Pending
<1>4. GeneratingHasTurn'
  BY DEF MinutesInv, GeneratingHasTurn
<1>5. \A c \in Generations : Early(c)' => Early(c) /\ turns'[c] = turns[c]
  BY DEF MinutesInv, NotYetBegun, Early, Pending
<1> QED
  BY <1>2, <1>3, <1>4, <1>5, TurnsOnly DEF MinutesInv, TypeOK

-----------------------------------------------------------------------------
(* The theorems.                                                           *)

LEMMA InitHolds == Init => MinutesInv
<1> SUFFICES ASSUME Init
             PROVE  MinutesInv
  OBVIOUS
<1> USE DEF Init
<1>1. TypeOK
  <2>1. NoTurn \in Turn /\ NoGen \in Gen /\ NoEdit \in Edit
    BY DEF NoTurn, NoGen, NoEdit, Turn, Gen, GenPc, Edit
  <2>2. versions \in Seq(Version)
    OBVIOUS
  <2> QED
    BY <2>1, <2>2 DEF TypeOK
<1>2. CompletedHasVersion
  BY FS_EmptySet DEF CompletedHasVersion, Made, NoTurn
<1>3. BaseExists /\ NotYetBegun
  BY DEF BaseExists, NotYetBegun, NoEdit, NoTurn
<1>4. MinuteStateFits /\ GeneratingHasTurn /\ DirtyIsScheduled /\ LastChangeRefreshed
  BY DEF MinuteStateFits, GeneratingHasTurn, DirtyIsScheduled, LastChangeRefreshed
<1> QED
  BY <1>1, <1>2, <1>3, <1>4 DEF MinutesInv

LEMMA NextKeeps ==
  ASSUME MinutesInv, [Next]_vars
  PROVE  MinutesInv'
<1>1. CASE AddFact \/ Crash \/ RecoverInterruptedTurns
  BY <1>1, AddFactKeeps, CrashKeeps, RecoverInterruptedTurnsKeeps
<1>2. ASSUME NEW c \in Generations, GenerationStep(c)
      PROVE  MinutesInv'
  BY <1>2, GenerateKeeps, PreflightKeeps, BeginMinutesTurnKeeps, OwnKeeps, StartedKeeps, CompletedKeeps,
     RunEndsKeeps, StopKeeps, CommitGeneratedMinuteKeeps, ProjectedKeeps DEF GenerationStep
<1>3. ASSUME NEW e \in Editors, EditStep(e)
      PROVE  MinutesInv'
  BY <1>3, OpenKeeps, SubmitKeeps, ConflictKeeps, EditProjectedKeeps DEF EditStep
<1>4. ASSUME NEW p \in Procs, FlushStep(p)
      PROVE  MinutesInv'
  BY <1>4, ReadKeeps, WriteKeeps, ReadOrWriteFailsKeeps DEF FlushStep
<1>5. ASSUME NEW t \in Timers, TimerStep(t)
      PROVE  MinutesInv'
  BY <1>5, FireKeeps, RunScheduledKeeps, RefreshedKeeps DEF TimerStep
<1>6. CASE UNCHANGED vars
  <2>1. UNCHANGED rows /\ UNCHANGED <<gen, active, edit, documents>>
    BY <1>6 DEF vars
  <2>2. TypeOK' /\ DirtyIsScheduled' /\ LastChangeRefreshed'
    BY <2>1 DEF MinutesInv, TypeOK, DirtyIsScheduled, LastChangeRefreshed, rows, documents
  <2> QED
    BY <2>1, <2>2, RowsAside DEF MinutesInv, Early
<1> QED
  BY <1>1, <1>2, <1>3, <1>4, <1>5, <1>6 DEF Next

(* Turns, versions, the documents' states and the state of the meeting fit *)
(* together in every reachable state (repository/minutes/transactions.go,  *)
(* service/minutes/generation.go, raw_record_projector.go).                *)
THEOREM MinutesFit == Spec => []MinutesInv
<1>1. MinutesInv /\ [Next]_vars => MinutesInv'
  BY NextKeeps
<1> QED
  BY InitHolds, <1>1, PTL DEF Spec

-----------------------------------------------------------------------------
(* Who changes the list of versions.                                       *)
Proposed == \E c \in Generations : versions' = Added("ai", "draft", c, 0, MakesCurrent)
Changed(e) == SaveHumanMinute(e) \/ RestoreMinuteVersion(e) \/ ConfirmCurrentMinute(e)

LEMMA WhoWrites ==
  ASSUME MinutesInv, [Next]_vars
  PROVE  UNCHANGED versions \/ Proposed \/ \E e \in Editors : edit[e].pc = "open" /\ Changed(e)
<1>1. CASE AddFact \/ Crash \/ RecoverInterruptedTurns
  BY <1>1 DEF AddFact, Crash, RecoverInterruptedTurns, rows
<1>2. ASSUME NEW c \in Generations, GenerationStep(c)
      PROVE  UNCHANGED versions \/ Proposed
  <2>1. CASE CommitGeneratedMinute(c)
    BY <2>1 DEF CommitGeneratedMinute, Proposed
  <2>2. CASE Generate(c) \/ Preflight(c) \/ BeginMinutesTurn(c) \/ Started(c) \/ Completed(c) \/ Stop(c) \/ Projected(c)
    BY <2>2 DEF Generate, Preflight, BeginMinutesTurn, Started, Completed, Stop, Projected, rows
  <2>3. CASE Own(c) \/ RunEnds(c)
    BY <2>3 DEF Own, RunEnds, Fail, FailMinutesTurn, rows
  <2> QED
    BY <1>2, <2>1, <2>2, <2>3 DEF GenerationStep
<1>3. ASSUME NEW e \in Editors, EditStep(e)
      PROVE  UNCHANGED versions \/ (edit[e].pc = "open" /\ Changed(e))
  BY <1>3 DEF EditStep, Open, Submit, Conflict, EditProjected, Again, Changed, rows
<1>4. ASSUME NEW p \in Procs, FlushStep(p)
      PROVE  UNCHANGED versions
  BY <1>4 DEF FlushStep, Read, Write, ReadOrWriteFails, rows
<1>5. ASSUME NEW t \in Timers, TimerStep(t)
      PROVE  UNCHANGED versions
  BY <1>5 DEF TimerStep, Fire, RunScheduled, Refreshed, rows
<1>6. CASE UNCHANGED vars
  BY <1>6 DEF vars, rows
<1> QED
  BY <1>1, <1>2, <1>3, <1>4, <1>5, <1>6 DEF Next

(* What the list keeps when a version is added for the AI or the host.     *)
LEMMA EditedFrom ==
  ASSUME MinutesInv, NEW e \in Editors, edit[e].pc = "open"
  PROVE  /\ TypeOK /\ edit[e].base \in DOMAIN versions /\ edit[e].base \in Nat
         /\ versions[edit[e].base].state \in {"draft", "confirmed"}
         /\ e \in Generations \cup Editors
<1>1. TypeOK /\ edit[e].base \in DOMAIN versions
  BY DEF MinutesInv, BaseExists
<1>2. versions[edit[e].base] \in Version
  BY <1>1 DEF TypeOK
<1> QED
  BY <1>1, <1>2 DEF TypeOK, Version

(* A version is added: an edit is made from the version in force, and what *)
(* does not come into force is a proposal beside something that is none.   *)
LEMMA AddedMissesNothing ==
  ASSUME TypeOK, EditsInv, NEW source \in Sources, NEW state \in {"draft", "confirmed"},
         NEW id \in Generations \cup Editors, NEW parent \in Nat, NEW current \in BOOLEAN,
         versions' = Added(source, state, id, parent, current),
         source = "human" => Current # 0 /\ parent = Current,
         ~current => source = "ai" /\ ~MakesCurrent
  PROVE  EditsInv'
<1> DEFINE n == Len(versions)
<1>1. /\ n \in Nat /\ DOMAIN versions = 1..n
      /\ Len(versions') = n + 1 /\ DOMAIN versions' = 1..(n + 1)
  <2>1. versions \in Seq(Version) /\ versions' \in Seq(Version) /\ Len(versions') = Len(versions) + 1
    BY AddedKeeps DEF TypeOK
  <2> QED
    BY <2>1
<1>2. /\ versions'[n + 1].source = source /\ versions'[n + 1].parent = parent
      /\ \A v \in 1..n : /\ versions'[v].source = versions[v].source /\ versions'[v].state = versions[v].state
                         /\ versions'[v].parent = versions[v].parent
  BY <1>1, AddedKeeps
<1>3. Current' = IF current THEN n + 1 ELSE Current
  BY AddedCurrent
<1>4. Current = 0 \/ Current \in 1..n
  BY <1>1, CurrentExists
<1>5. EditsMissNothing'
  <2> SUFFICES ASSUME NEW w \in 1..(n + 1), versions'[w].source = "human"
               PROVE  /\ versions'[w].parent \in 1..(n + 1) /\ versions'[w].parent < w
                      /\ \A v \in (versions'[w].parent + 1)..(w - 1) : versions'[v].source = "ai"
                      /\ versions'[versions'[w].parent].source = "ai" /\ versions'[versions'[w].parent].state = "draft"
                           => w = versions'[w].parent + 1
    BY <1>1 DEF EditsMissNothing
  <2>1. CASE w \in 1..n
    <3> DEFINE p == versions[w].parent
    <3>1. /\ p \in 1..n /\ p < w /\ \A v \in (p + 1)..(w - 1) : versions[v].source = "ai"
          /\ versions[p].source = "ai" /\ versions[p].state = "draft" => w = p + 1
      BY <1>1, <1>2, <2>1 DEF EditsInv, EditsMissNothing
    <3>2. versions'[w].parent = p
      BY <1>2, <2>1
    <3> HIDE DEF p
    <3>3. \A v \in (p + 1)..(w - 1) : v \in 1..n
      BY <1>1, <2>1, <3>1
    <3> QED
      BY <1>1, <1>2, <2>1, <3>1, <3>2, <3>3
  <2>2. CASE w = n + 1
    <3>1. Current \in 1..n /\ versions'[w].parent = Current
      BY <1>2, <1>4, <2>2
    <3>2. /\ \A v \in (Current + 1)..n : versions[v].source = "ai"
          /\ versions[Current].source = "ai" /\ versions[Current].state = "draft" => Current = n
      <4>1. Current # 0
        BY <1>1, <3>1
      <4>2. BehindCurrent
        BY DEF EditsInv
      <4> QED
        BY <4>1, <4>2 DEF BehindCurrent
    <3> DEFINE p == Current
    <3>3. versions'[w].parent = p /\ p \in 1..(n + 1) /\ p < w
      BY <1>1, <2>2, <3>1
    <3>4. \A v \in (p + 1)..(w - 1) : versions'[v].source = "ai"
      <4>1. (p + 1)..(w - 1) = (Current + 1)..n
        BY <1>1, <2>2
      <4>2. \A v \in (Current + 1)..n : v \in 1..n
        BY <1>1, <3>1
      <4> QED
        BY <1>2, <3>2, <4>1, <4>2
    <3>5. versions'[p].source = "ai" /\ versions'[p].state = "draft" => w = p + 1
      BY <1>1, <1>2, <2>2, <3>1, <3>2
    <3> HIDE DEF p
    <3> QED
      BY <3>3, <3>4, <3>5
  <2> QED
    BY <1>1, <2>1, <2>2
<1>6. BehindCurrent'
  <2>1. CASE current
    <3>1. Current' = n + 1 /\ Len(versions') = n + 1
      BY <1>1, <1>3, <2>1
    <3> QED
      BY <1>1, <3>1 DEF BehindCurrent
  <2>2. CASE ~current
    <3>1. Current' = Current /\ Current \in 1..n /\ source = "ai"
          /\ ~(versions[Current].source = "ai" /\ versions[Current].state = "draft")
      BY <1>3, <1>4, <2>2 DEF MakesCurrent
    <3>2. \A v \in (Current + 1)..n : versions[v].source = "ai"
      <4>1. Current # 0
        BY <1>1, <3>1
      <4> QED
        BY <4>1 DEF EditsInv, BehindCurrent
    <3>3. \A v \in (Current + 1)..(n + 1) : versions'[v].source = "ai"
      BY <1>1, <1>2, <3>1, <3>2
    <3> QED
      BY <1>1, <1>2, <3>1, <3>3 DEF BehindCurrent
  <2> QED
    BY <2>1, <2>2
<1> QED
  BY <1>5, <1>6 DEF EditsInv

(* A version that is confirmed stays where it is.                          *)
LEMMA ConfirmedMissesNothing ==
  ASSUME TypeOK, EditsInv, NEW e \in Editors, ConfirmCurrentMinute(e)
  PROVE  EditsInv'
<1>1. versions \in Seq(Version) /\ \A v \in DOMAIN versions : versions[v] \in Version
  BY DEF TypeOK
<1>2. /\ DOMAIN versions' = DOMAIN versions /\ Len(versions') = Len(versions) /\ DOMAIN versions = 1..Len(versions)
      /\ Len(versions) \in Nat
      /\ \A v \in DOMAIN versions :
           /\ versions'[v].source = versions[v].source /\ versions'[v].parent = versions[v].parent
           /\ versions'[v].current = versions[v].current
           /\ versions'[v].state = "draft" => versions[v].state = "draft"
  BY <1>1 DEF ConfirmCurrentMinute, Version
<1>3. Current' = Current
  <2>1. CurrentOnes(versions)' = CurrentOnes(versions)
    BY <1>2 DEF CurrentOnes
  <2> QED
    BY <2>1, SameCurrent
<1>4. Current = 0 \/ Current \in 1..Len(versions)
  BY <1>2, CurrentExists
<1>5. EditsMissNothing'
  <2> SUFFICES ASSUME NEW w \in DOMAIN versions, versions[w].source = "human"
               PROVE  /\ versions[w].parent \in DOMAIN versions /\ versions[w].parent < w
                      /\ \A v \in (versions[w].parent + 1)..(w - 1) : versions'[v].source = "ai"
                      /\ versions'[versions[w].parent].source = "ai" /\ versions'[versions[w].parent].state = "draft"
                           => w = versions[w].parent + 1
    BY <1>2 DEF EditsMissNothing
  <2> DEFINE p == versions[w].parent
  <2>1. /\ p \in DOMAIN versions /\ p < w /\ \A v \in (p + 1)..(w - 1) : versions[v].source = "ai"
        /\ versions[p].source = "ai" /\ versions[p].state = "draft" => w = p + 1
    BY DEF EditsInv, EditsMissNothing
  <2> HIDE DEF p
  <2>2. \A v \in (p + 1)..(w - 1) : v \in DOMAIN versions
    BY <1>2, <2>1
  <2>3. \A v \in (p + 1)..(w - 1) : versions'[v].source = "ai"
    BY <1>2, <2>1, <2>2
  <2> QED
    BY <1>2, <2>1, <2>3 DEF p
<1>6. BehindCurrent'
  BY <1>2, <1>3, <1>4 DEF EditsInv, BehindCurrent
<1> QED
  BY <1>5, <1>6 DEF EditsInv

LEMMA NextMissesNothing ==
  ASSUME MinutesInv, EditsInv, [Next]_vars
  PROVE  EditsInv'
<1>0. TypeOK
  BY DEF MinutesInv
<1>1. CASE UNCHANGED versions
  BY <1>1 DEF EditsInv, EditsMissNothing, BehindCurrent, Current
<1>2. CASE Proposed
  <2>1. PICK c \in Generations : versions' = Added("ai", "draft", c, 0, MakesCurrent)
    BY <1>2 DEF Proposed
  <2>2. "ai" \in Sources /\ c \in Generations \cup Editors /\ 0 \in Nat /\ MakesCurrent \in BOOLEAN
    BY DEF Sources, MakesCurrent
  <2> QED
    BY <1>0, <2>1, <2>2, AddedMissesNothing
<1>3. ASSUME NEW x \in Editors, edit[x].pc = "open", Changed(x)
      PROVE  EditsInv'
  <2>1. CASE SaveHumanMinute(x)
    <3>1. edit[x].base = Current /\ edit[x].base # 0
      BY <1>0, <1>3, <2>1, EditedFrom DEF SaveHumanMinute, BaseIsCurrent, TypeOK
    <3> QED
      BY <1>0, <1>3, <2>1, <3>1, EditedFrom, AddedMissesNothing DEF SaveHumanMinute, Sources
  <2>2. CASE RestoreMinuteVersion(x)
    BY <1>0, <1>3, <2>2, EditedFrom, AddedMissesNothing DEF RestoreMinuteVersion, Sources
  <2>3. CASE ConfirmCurrentMinute(x)
    BY <1>0, <2>3, ConfirmedMissesNothing
  <2> QED
    BY <1>3, <2>1, <2>2, <2>3 DEF Changed
<1> QED
  BY <1>1, <1>2, <1>3, WhoWrites

(* Between an edit of the host and the version it was made from lie only   *)
(* proposals that never came into force, whatever was generated, edited,   *)
(* restored or confirmed meanwhile (SaveHumanMinute's base revision).      *)
THEOREM EditsMissNothingHolds == Spec => []EditsMissNothing
<1>1. Init => EditsInv
  BY DEF Init, EditsInv, EditsMissNothing, BehindCurrent, Current, CurrentOnes
<1>2. MinutesInv /\ EditsInv /\ [Next]_vars => EditsInv'
  BY NextMissesNothing
<1>3. EditsInv => EditsMissNothing
  BY DEF EditsInv
<1> QED
  BY <1>1, <1>2, <1>3, MinutesFit, PTL DEF Spec

-----------------------------------------------------------------------------
(* The versions implement VersionHistory.                                  *)
Authors == [v \in DOMAIN versions |-> versions[v].source]
Confirmed == {v \in DOMAIN versions : versions[v].state = "confirmed"}

LEMMA AddedIsAppended ==
  ASSUME TypeOK, NEW source \in Sources, NEW state \in {"draft", "confirmed"},
         NEW id \in Generations \cup Editors, NEW parent \in Nat, NEW current \in BOOLEAN,
         versions' = Added(source, state, id, parent, current)
  PROVE  /\ Authors' = Append(Authors, source) /\ Len(Authors') = Len(versions) + 1
         /\ Confirmed' = IF state = "confirmed" THEN Confirmed \cup {Len(versions) + 1} ELSE Confirmed
<1> DEFINE n == Len(versions)
<1>1. versions \in Seq(Version) /\ versions' \in Seq(Version) /\ Len(versions') = n + 1
  BY AddedKeeps DEF TypeOK
<1>2. DOMAIN versions = 1..n /\ DOMAIN versions' = 1..(n + 1) /\ n \in Nat
  BY <1>1
<1>3. /\ versions'[n + 1].source = source /\ versions'[n + 1].state = state
      /\ \A v \in DOMAIN versions : versions'[v].source = versions[v].source /\ versions'[v].state = versions[v].state
  <2>1. \A v \in DOMAIN versions : versions'[v].source = versions[v].source /\ versions'[v].state = versions[v].state
    BY AddedKeeps
  <2>2. versions'[n + 1].source = source /\ versions'[n + 1].state = state
    BY AddedKeeps
  <2> QED
    BY <2>1, <2>2
<1>4. Authors \in Seq(Sources) /\ Len(Authors) = n /\ Authors' \in Seq(Sources) /\ Len(Authors') = n + 1
  <2>1. (\A v \in 1..n : versions[v] \in Version) /\ (\A v \in 1..(n + 1) : versions'[v] \in Version)
    BY <1>1, <1>2
  <2>2. Authors \in [1..n -> Sources] /\ Authors' \in [1..(n + 1) -> Sources]
    BY <1>2, <2>1 DEF Authors, Version
  <2> QED
    BY <1>2, <2>2, SeqDef
<1>5. Authors' = Append(Authors, source)
  <2> DEFINE A == Append(Authors, source)
  <2>1. A \in Seq(Sources) /\ Len(A) = n + 1
    BY <1>2, <1>4
  <2>2. \A i \in 1..(n + 1) : Authors'[i] = IF i = n + 1 THEN source ELSE Authors[i]
    BY <1>2, <1>3 DEF Authors
  <2>3. \A i \in 1..(n + 1) : A[i] = IF i = n + 1 THEN source ELSE Authors[i]
    BY <1>2, <1>4
  <2> QED
    BY <1>4, <2>1, <2>2, <2>3, SeqEqual
<1>6. Confirmed' = IF state = "confirmed" THEN Confirmed \cup {n + 1} ELSE Confirmed
  BY <1>2, <1>3 DEF Confirmed
<1> QED
  BY <1>4, <1>5, <1>6

HistoryStep == [History!Next]_(History!vars)

LEMMA NextRefines ==
  ASSUME MinutesInv, [Next]_vars
  PROVE  HistoryStep
<1> USE DEF HistoryStep, History!vars
<1>0. TypeOK
  BY DEF MinutesInv
<1>1. CASE UNCHANGED versions
  BY <1>1 DEF Current, CurrentOnes
<1>2. CASE Proposed
  <2>1. PICK c \in Generations : versions' = Added("ai", "draft", c, 0, MakesCurrent)
    BY <1>2 DEF Proposed
  <2>2. "ai" \in Sources /\ c \in Generations \cup Editors /\ 0 \in Nat /\ MakesCurrent \in BOOLEAN
    BY DEF Sources, MakesCurrent
  <2>3. Authors' = Append(Authors, "ai") /\ Len(Authors') = Len(versions) + 1 /\ Confirmed' = Confirmed
    BY <1>0, <2>1, <2>2, AddedIsAppended
  <2>4. Current' = IF MakesCurrent THEN Len(versions) + 1 ELSE Current
    BY <1>0, <2>1, <2>2, AddedCurrent
  <2>5. MakesCurrent <=> Current = 0 \/ (Authors[Current] = "ai" /\ Current \notin Confirmed)
    <3>1. CASE Current = 0
      BY <3>1 DEF MakesCurrent
    <3>2. CASE Current # 0
      <4>1. Current \in DOMAIN versions /\ versions[Current] \in Version
        BY <1>0, <3>2, CurrentExists DEF TypeOK
      <4> QED
        BY <3>2, <4>1 DEF MakesCurrent, Authors, Confirmed, Version
    <3> QED
      BY <3>1, <3>2
  <2>6. History!Propose
    BY <2>3, <2>4, <2>5 DEF History!Propose, History!Proposal, Authors, Confirmed
  <2> QED
    BY <2>6 DEF History!Next
<1>3. ASSUME NEW e \in Editors, edit[e].pc = "open", Changed(e)
      PROVE  History!Next
  <2>0. edit[e].base \in DOMAIN versions /\ edit[e].base \in Nat \ {0} /\ e \in Generations \cup Editors
    BY <1>3, EditedFrom DEF TypeOK
  <2>1. CASE SaveHumanMinute(e)
    <3>1. versions' = Added("human", "draft", e, edit[e].base, TRUE) /\ Current # 0
      BY <2>0, <2>1 DEF SaveHumanMinute, BaseIsCurrent
    <3>2. Authors' = Append(Authors, "human") /\ Len(Authors') = Len(versions) + 1 /\ Confirmed' = Confirmed
      BY <1>0, <2>0, <3>1, AddedIsAppended DEF Sources
    <3>3. Current' = Len(versions) + 1
      BY <1>0, <2>0, <3>1, AddedCurrent DEF Sources
    <3>4. History!Write
      BY <3>1, <3>2, <3>3 DEF History!Write, Authors, Confirmed
    <3> QED
      BY <3>4 DEF History!Next
  <2>2. CASE RestoreMinuteVersion(e)
    <3> DEFINE v == edit[e].base
    <3>1. versions' = Added("restored", versions[v].state, e, v, TRUE) /\ versions[v].state \in {"draft", "confirmed"}
      BY <1>3, <2>2, EditedFrom DEF RestoreMinuteVersion
    <3>2. /\ Authors' = Append(Authors, "restored") /\ Len(Authors') = Len(versions) + 1
          /\ Confirmed' = IF versions[v].state = "confirmed" THEN Confirmed \cup {Len(versions) + 1} ELSE Confirmed
      BY <1>0, <2>0, <3>1, AddedIsAppended DEF Sources
    <3>3. Current' = Len(versions) + 1
      BY <1>0, <2>0, <3>1, AddedCurrent DEF Sources
    <3>4. v \in DOMAIN Authors /\ (versions[v].state = "confirmed" <=> v \in Confirmed)
      BY <2>0 DEF Authors, Confirmed
    <3>5. History!Restore
      BY <3>2, <3>3, <3>4 DEF History!Restore, Authors, Confirmed
    <3> QED
      BY <3>5 DEF History!Next
  <2>3. CASE ConfirmCurrentMinute(e)
    <3>1. Current \in DOMAIN versions /\ Current # 0
      BY <2>0, <2>3 DEF ConfirmCurrentMinute, BaseIsCurrent
    <3>2. \A v \in DOMAIN versions : versions[v] \in Version
      BY <1>0 DEF TypeOK
    <3>3. /\ DOMAIN versions' = DOMAIN versions /\ versions'[Current].state = "confirmed"
          /\ \A v \in DOMAIN versions : /\ versions'[v].source = versions[v].source
                                        /\ versions'[v].current = versions[v].current
                                        /\ v # Current => versions'[v] = versions[v]
      BY <2>3, <3>1, <3>2 DEF ConfirmCurrentMinute, Version
    <3>4. Authors' = Authors
      BY <3>3 DEF Authors
    <3>5. Confirmed' = Confirmed \cup {Current}
      BY <3>1, <3>3 DEF Confirmed
    <3>6. Current' = Current
      <4>1. CurrentOnes(versions)' = CurrentOnes(versions)
        BY <3>3 DEF CurrentOnes
      <4> QED
        BY <4>1, SameCurrent
    <3>7. History!Confirm
      BY <3>1, <3>4, <3>5, <3>6 DEF History!Confirm, Authors, Confirmed
    <3> QED
      BY <3>7 DEF History!Next
  <2> QED
    BY <1>3, <2>1, <2>2, <2>3 DEF Changed
<1> QED
  BY <1>1, <1>2, <1>3, WhoWrites

(* Whoever writes at once, a version is added and never changed but to be  *)
(* confirmed, and a proposal of the AI replaces another proposal at most   *)
(* (CommitGeneratedMinute, SaveHumanMinute, ConfirmCurrentMinute,          *)
(* RestoreMinuteVersion).                                                  *)
THEOREM HistoryRefined == Spec => ImplementsHistory
<1>1. Init => History!Init
  <2> SUFFICES ASSUME Init
               PROVE  History!Init
    OBVIOUS
  <2>1. DOMAIN versions = {}
    BY DEF Init
  <2>2. Current = 0
    BY <2>1 DEF Current, CurrentOnes
  <2>3. Authors = <<>> /\ Confirmed = {}
    BY <2>1 DEF Authors, Confirmed
  <2> QED
    BY <2>2, <2>3 DEF History!Init, Authors, Confirmed
<1>2. MinutesInv /\ [Next]_vars => [History!Next]_(History!vars)
  BY NextRefines DEF HistoryStep
<1> QED
  BY <1>1, <1>2, MinutesFit, PTL DEF Spec, ImplementsHistory, History!Spec

=============================================================================
