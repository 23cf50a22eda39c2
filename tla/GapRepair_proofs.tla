--------------------------- MODULE GapRepair_proofs ---------------------------
(***************************************************************************)
(* RepairInv and EvidenceKept hold in every reachable state; while the     *)
(* conflicts are resolved in one window, TranscribedOnce does as well.     *)
(***************************************************************************)
EXTENDS GapRepair, WellFoundedInduction, FiniteSetTheorems, TLAPS

-----------------------------------------------------------------------------
(* The operators the model is built from.                                  *)

LEMMA MinOf ==
  ASSUME NEW S \in SUBSET Nat, S # {}
  PROVE  Min(S) \in S /\ \A x \in S : Min(S) <= x
<1>1. \E x \in S : \A y \in S : ~ (<<y, x>> \in OpToRel(<, Nat))
  BY NatLessThanWellFounded, WFMin, Zenon
<1>2. \A x, y \in Nat : x < y => <<x, y>> \in OpToRel(<, Nat)
  BY Zenon DEF OpToRel
<1>3. \E x \in S : \A y \in S : ~ (y < x)
  BY <1>1, <1>2, Zenon
<1>4. \E x \in S : \A y \in S : x =< y
  BY <1>3
<1> QED
  BY <1>4 DEF Min

(* What the state of the meeting tells of its gaps.                        *)
LEMMA AggregateOf ==
  ASSUME NEW S \in SUBSET GapStates
  PROVE  /\ AggregateState(S) \in GapStates \cup {"none"}
         /\ AggregateState(S) = "conflict" <=> "conflict" \in S
<1> DEFINE order == <<"conflict", "processing", "failed", "pending">>
           present == {i \in 1..4 : order[i] \in S}
<1>1. /\ order[1] = "conflict" /\ order[2] = "processing" /\ order[3] = "failed" /\ order[4] = "pending"
  OBVIOUS
<1>2. present \in SUBSET Nat /\ (1 \in present <=> "conflict" \in S)
  BY <1>1
<1>3. CASE present = {}
  BY <1>2, <1>3 DEF AggregateState, GapStates
<1>4. CASE present # {}
  <2>1. Min(present) \in present /\ \A x \in present : Min(present) <= x
    BY <1>2, <1>4, MinOf
  <2>2. Min(present) \in 1..4 /\ (Min(present) = 1 <=> "conflict" \in S)
    BY <1>2, <2>1
  <2>3. S # {} /\ AggregateState(S) = order[Min(present)]
    BY <1>4 DEF AggregateState
  <2> HIDE DEF present
  <2> QED
    BY <1>1, <2>2, <2>3 DEF GapStates
<1> QED
  BY <1>3, <1>4

LEMMA MaxBelow ==
  ASSUME NEW u \in Nat, NEW S \in SUBSET (0..u), S # {}
  PROVE  \E x \in S : \A y \in S : y <= x
<1> DEFINE T == {u - y : y \in S}
<1>0. \A y \in S : u - y \in Nat
  OBVIOUS
<1>1. T \in SUBSET Nat /\ T # {}
  BY <1>0
<1>2. Min(T) \in T /\ \A x \in T : Min(T) <= x
  BY <1>1, MinOf
<1>3. PICK x \in S : Min(T) = u - x
  BY <1>2
<1>4. \A y \in S : u - x <= u - y
  BY <1>2, <1>3
<1> QED
  BY <1>4

(* The first slice holds gaps of the set only, and no unit outside them:   *)
(* the merged range ends at the first end no gap reaches over.             *)
LEMMA SliceOf ==
  ASSUME NEW S \in SUBSET Gaps, S # {}
  PROVE  /\ FirstSlice(S).items \in SUBSET S /\ FirstSlice(S).core \in SUBSET Units
         /\ \A u \in FirstSlice(S).core : \E g \in S : From[g] <= u /\ u < To[g]
<1> DEFINE starts == {From[g] : g \in S}
           start == Min(starts)
           last == {x \in S : \A y \in S : From[y] <= To[x] => To[y] <= To[x]}
           ends == {To[g] : g \in last} \ 0..start
           end == Min(ends)
<1>1. \A g \in S : From[g] \in Nat /\ To[g] \in Nat /\ From[g] < To[g]
  BY RangesAssumption DEF RangesAssumption
<1>2. starts \in SUBSET Nat /\ starts # {}
  BY <1>1
<1>3. start \in starts /\ \A x \in starts : start <= x
  BY <1>2, MinOf
<1>4. start \in Nat /\ \A g \in S : start <= From[g]
  BY <1>2, <1>3
<1>5. ends \in SUBSET Nat
  BY <1>1
<1>6. MergedEnd(S, start) = end
  BY DEF MergedEnd
<1>7. FirstSlice(S).core = start..((IF end < start + Limit THEN end ELSE start + Limit) - 1)
  BY <1>6 DEF FirstSlice
<1>8. ASSUME NEW u \in FirstSlice(S).core
      PROVE  \E g \in S : From[g] <= u /\ u < To[g]
  <2> SUFFICES ASSUME \A g \in S : ~ (From[g] <= u /\ u < To[g])
               PROVE  FALSE
    OBVIOUS
  <2> HIDE DEF start, end
  <2>1. u \in Nat /\ start <= u
    BY <1>4, <1>7
  <2> DEFINE before == {g \in S : From[g] <= u}
             tos == {To[g] : g \in before}
  <2>2. tos \in SUBSET (0..u)
    BY <1>1, <2>1
  <2>3. tos # {}
    BY <1>3, <2>1
  <2>4. PICK t \in tos : \A y \in tos : y <= t
    BY <2>1, <2>2, <2>3, MaxBelow
  <2>5. PICK x \in before : t = To[x]
    BY <2>4
  <2>6. \A y \in S : From[y] <= To[x] => To[y] <= To[x]
    BY <1>1, <2>1, <2>2, <2>4, <2>5
  <2>7. To[x] \in ends
    BY <1>1, <1>4, <2>5, <2>6
  <2>8. end \in Nat /\ end <= To[x]
    BY <1>5, <2>7, MinOf DEF end
  <2>9. To[x] <= u
    BY <2>2, <2>5
  <2>10. u < end
    BY <1>4, <1>7, <2>1, <2>8, RangesAssumption DEF RangesAssumption
  <2> QED
    BY <1>1, <2>1, <2>5, <2>8, <2>9, <2>10
<1>9. FirstSlice(S).core \in SUBSET Units
  <2>1. FirstSlice(S).core \in SUBSET Int
    BY <1>7
  <2> QED
    BY <1>1, <1>8, <2>1 DEF Units
<1> QED
  BY <1>8, <1>9 DEF FirstSlice

-----------------------------------------------------------------------------
(* Rows that are changed are rows.                                         *)

LEMMA RowEdits ==
  ASSUME NEW row \in Row
  PROVE  /\ \A v \in {"none", "running", "completed", "failed", "conflict"} : [row EXCEPT !.state = v] \in Row
         /\ \A v \in BOOLEAN : [row EXCEPT !.file = v] \in Row
         /\ \A v \in {"none", "ready", "deleted"} : [row EXCEPT !.asset = v] \in Row
         /\ \A v \in {"none", "running", "completed", "failed", "conflict"}, q \in Requests \cup {NoRequest} :
              [row EXCEPT !.state = v, !.req = q] \in Row
         /\ \A v \in {"none", "running", "completed", "failed", "conflict"}, c \in SUBSET Units :
              [row EXCEPT !.state = v, !.cand = c] \in Row
         /\ \A v \in BOOLEAN, w \in {"none", "ready", "deleted"} : [row EXCEPT !.file = v, !.asset = w] \in Row
         /\ Deleted(row) \in Row
  BY DEF Row, Deleted

LEMMA RowFields ==
  ASSUME NEW row \in Row
  PROVE  /\ row.state \in {"none", "running", "completed", "failed", "conflict"} /\ row.items \in SUBSET Gaps
         /\ row.core \in SUBSET Units /\ row.req \in Requests \cup {NoRequest} /\ row.cand \in SUBSET Units
         /\ row.file \in BOOLEAN /\ row.asset \in {"none", "ready", "deleted"}
  BY DEF Row

LEMMA OwnerFields ==
  ASSUME NEW o \in Owner
  PROVE  /\ o.req \in Requests \cup {NoRequest} /\ o.sel \in SUBSET Gaps /\ o.att \in Attempts \cup {NoAttempt}
         /\ o.cancelled \in BOOLEAN /\ o.cand \in SUBSET Units
  BY DEF Owner

LEMMA NoRowIsRow == NoRow \in Row /\ Idle \in Owner
  BY DEF NoRow, Row, Idle, Owner

LEMMA NoAttemptIsNone == NoAttempt \notin Attempts /\ Attempts \in SUBSET Nat
  BY RangesAssumption DEF RangesAssumption, NoAttempt, Attempts

(* A step of the owner.                                                    *)
LEMMA OwnerEdits ==
  ASSUME NEW o \in Owner,
         NEW p \in {"none", "lookup", "plan", "again", "sync", "finish"} \cup Preparing \cup Sent \cup Ending
  PROVE  /\ [o EXCEPT !.pc = p] \in Owner
         /\ \A a \in Attempts : [o EXCEPT !.pc = p, !.att = a] \in Owner
         /\ \A c \in SUBSET Units : [o EXCEPT !.pc = p, !.cand = c] \in Owner
         /\ [o EXCEPT !.pc = p, !.req = NoRequest, !.sel = {}] \in Owner
         /\ [o EXCEPT !.cancelled = TRUE] \in Owner
<1>1. [o EXCEPT !.pc = p] \in Owner /\ [o EXCEPT !.cancelled = TRUE] \in Owner
  BY DEF Owner
<1>2. \A a \in Attempts : [o EXCEPT !.pc = p, !.att = a] \in Owner
  BY DEF Owner
<1>3. \A c \in SUBSET Units : [o EXCEPT !.pc = p, !.cand = c] \in Owner
  BY DEF Owner
<1>4. [o EXCEPT !.pc = p, !.req = NoRequest, !.sel = {}] \in Owner
  BY DEF Owner
<1> QED
  BY <1>1, <1>2, <1>3, <1>4

(* The invariant, with at most one running attempt said without counting.  *)
Parts == /\ TypeOK
         /\ \A a, b \in Running : a = b
         /\ \A a \in Running : Held(a)
         /\ \A g \in Gaps : gaps[g] = "processing" => \E a \in Running : g \in attempts[a].items
         /\ AggregateCurrent /\ EvidenceKept /\ OwnerFits /\ RequestsFit /\ BilledOnce

LEMMA PartsSuffice ==
  ASSUME Parts
  PROVE  RepairInv /\ EvidenceKept
<1>1. Cardinality(Running) <= 1
  <2>1. CASE Running = {}
    BY <2>1, FS_EmptySet
  <2>2. CASE Running # {}
    <3>1. PICK a \in Running : TRUE
      BY <2>2
    <3>2. Running = {a}
      BY <3>1 DEF Parts
    <3>3. Cardinality(Running) = 1
      BY <3>2, FS_Singleton, Zenon
    <3> QED
      BY <3>3
  <2> QED
    BY <2>1, <2>2
<1> QED
  BY <1>1 DEF Parts, RepairInv, ProcessingHeld

LEMMA InitHolds ==
  ASSUME Init
  PROVE  Parts
<1>1. Running = {}
  BY DEF Init, Running, NoRow
<1>2. agg = Aggregate(gaps)
  BY DEF Init
<1>3. agg # "conflict" /\ agg \in GapStates \cup {"none"}
  <2> DEFINE states == {gaps[x] : x \in Gaps}
  <2>1. states \in SUBSET GapStates /\ "conflict" \notin states
    BY DEF Init, GapStates
  <2>2. agg = AggregateState(states)
    BY <1>2 DEF Aggregate
  <2> QED
    BY <2>1, <2>2, AggregateOf
<1>4. TypeOK
  BY <1>3, NoRowIsRow DEF Init, TypeOK, GapStates, Window
<1> QED
  BY <1>1, <1>2, <1>3, <1>4 DEF Init, Parts, AggregateCurrent, EvidenceKept, OwnerFits, RequestsFit, BilledOnce, Idle, Preparing, Sent, Ending

-----------------------------------------------------------------------------
(* Steps that change no row.                                               *)

LEMMA RowsAside ==
  ASSUME Parts, UNCHANGED <<gaps, agg, attempts>>
  PROVE  /\ \A a, b \in Running' : a = b
         /\ \A a \in Running' : Held(a)'
         /\ \A g \in Gaps : gaps'[g] = "processing" => \E a \in Running' : g \in attempts'[a].items
         /\ AggregateCurrent' /\ EvidenceKept'
<1>1. Running' = Running /\ Aggregate(gaps)' = Aggregate(gaps)
  BY DEF Running, Aggregate
<1>2. \A a : Held(a)' <=> Held(a)
  BY DEF Held
<1> QED
  BY <1>1, <1>2 DEF Parts, AggregateCurrent, EvidenceKept

LEMMA OwnerOnly ==
  ASSUME Parts, UNCHANGED <<gaps, agg, attempts, text, billed>>,
         owner' \in Owner, windows' \in [Resolvers -> Window], OwnerFits',
         owner'.pc = "call" => owner.pc = "call" /\ owner'.req = owner.req /\ owner'.att = owner.att
  PROVE  Parts'
<1>1. TypeOK'
  BY DEF Parts, TypeOK
<1>2. RequestsFit' /\ BilledOnce'
  BY DEF Parts, RequestsFit, BilledOnce
<1> QED
  BY <1>1, <1>2, RowsAside DEF Parts

(* The owner goes on, or gives up, without a change of a row.              *)
LEMMA OwnerGoes ==
  ASSUME Parts, UNCHANGED <<gaps, agg, attempts, text, billed, windows>>,
         NEW p \in {"none", "lookup", "plan", "again", "sync", "finish"} \cup Sent \cup Ending, owner' = [owner EXCEPT !.pc = p],
         p # "call" /\ p \notin {"cleanup_error", "cleanup_failed", "unclaimed"},
         p \in Sent \cup {"uncommitted"} => owner.pc \in Sent,
         p \in Ending => owner.pc \in Preparing \cup Sent \cup Ending
  PROVE  Parts'
<1>1. owner \in Owner /\ windows' \in [Resolvers -> Window]
  BY DEF Parts, TypeOK
<1>2. owner' \in Owner /\ owner'.pc = p /\ owner'.att = owner.att /\ owner'.req = owner.req
  BY <1>1, OwnerEdits DEF Owner
<1>3. OwnerFits'
  BY <1>2 DEF Parts, OwnerFits, Preparing, Sent, Ending
<1> QED
  BY <1>1, <1>2, <1>3, OwnerOnly

LEMMA OwnerStepsKeep ==
  ASSUME Parts,
         LookupRequest \/ ListOverlaps \/ FlushRawRecord \/ SyncFinal
  PROVE  Parts'
<1> USE DEF Env, Goto, At, rows
<1>1. UNCHANGED <<gaps, agg, attempts, text, billed, windows>>
  BY DEF LookupRequest, ListOverlaps, FlushRawRecord, SyncFinal
<1>2. CASE LookupRequest
  <2>1. PICK p \in {"plan", "again", "sync"} : owner' = [owner EXCEPT !.pc = p]
    BY <1>2 DEF LookupRequest
  <2> QED
    BY <1>1, <2>1, OwnerGoes DEF Sent, Ending
<1>3. CASE ListOverlaps
  <2>1. PICK p \in {"conflict", "store", "uncommitted"} : owner' = [owner EXCEPT !.pc = p]
    BY <1>3 DEF ListOverlaps
  <2>2. owner.pc = "look"
    BY <1>3 DEF ListOverlaps
  <2> QED
    BY <1>1, <2>1, <2>2, OwnerGoes DEF Sent, Ending
<1>4. CASE FlushRawRecord
  <2>1. PICK p \in {"settled", "settled_error"} : owner' = [owner EXCEPT !.pc = p]
    BY <1>4 DEF FlushRawRecord
  <2>2. owner.pc = "flush"
    BY <1>4 DEF FlushRawRecord
  <2> QED
    BY <1>1, <2>1, <2>2, OwnerGoes DEF Sent, Ending
<1>5. CASE SyncFinal
  BY <1>1, <1>5, OwnerGoes DEF SyncFinal, Sent, Ending
<1> QED
  BY <1>2, <1>3, <1>4, <1>5

LEMMA AgainKeeps ==
  ASSUME Parts, Again
  PROVE  Parts'
<1> USE DEF Again, Env, At, rows
<1>1. owner \in Owner /\ windows' \in [Resolvers -> Window]
  BY DEF Parts, TypeOK
<1>2. owner' \in Owner /\ owner'.pc = "plan"
  <2>1. "plan" \in {"none", "lookup", "plan", "again", "sync", "finish"} \cup Preparing \cup Sent \cup Ending
    OBVIOUS
  <2>2. owner' \in Owner
    BY <1>1, <2>1, OwnerEdits
  <2> QED
    BY <1>1, <2>2 DEF Owner
<1>3. OwnerFits'
  BY <1>2 DEF OwnerFits, Preparing, Sent, Ending
<1> QED
  BY <1>1, <1>2, <1>3, OwnerOnly

LEMMA StopMeetingKeeps ==
  ASSUME Parts, StopMeeting
  PROVE  Parts'
<1> USE DEF StopMeeting, Env, rows
<1>1. owner \in Owner /\ windows' \in [Resolvers -> Window]
  BY DEF Parts, TypeOK
<1>2. "none" \in {"none", "lookup", "plan", "again", "sync", "finish"} \cup Preparing \cup Sent \cup Ending
  OBVIOUS
<1>3. owner' \in Owner
  BY <1>1, <1>2, OwnerEdits
<1>4. owner'.pc = owner.pc /\ owner'.att = owner.att /\ owner'.req = owner.req
  BY <1>1 DEF Owner
<1>5. OwnerFits'
  BY <1>4 DEF Parts, OwnerFits
<1> QED
  BY <1>1, <1>3, <1>4, <1>5, OwnerOnly

LEMMA BeginningsKeep ==
  ASSUME Parts, NEW r \in Requests \cup {NoRequest}, NEW sel \in SUBSET Gaps,
         Trigger(r, sel) \/ FinishOwner \/ Crash
  PROVE  Parts'
<1> USE DEF Trigger, FinishOwner, Crash, Env, rows
<1>1. UNCHANGED <<gaps, agg, attempts, text, billed>>
  OBVIOUS
<1>2. windows' \in [Resolvers -> Window]
  BY DEF Parts, TypeOK, Window
<1>3. owner' = Idle \/ owner' = [Idle EXCEPT !.pc = "lookup", !.req = r, !.sel = sel]
  OBVIOUS
<1>4. owner' \in Owner /\ owner'.pc \in {"none", "lookup"}
  <2>1. \A o \in Owner : /\ [o EXCEPT !.pc = "lookup", !.req = r, !.sel = sel] \in Owner
                         /\ [o EXCEPT !.pc = "lookup", !.req = r, !.sel = sel].pc = "lookup"
    BY DEF Owner
  <2>2. Idle.pc = "none"
    BY DEF Idle
  <2> QED
    BY <1>3, <2>1, <2>2, NoRowIsRow
<1>5. OwnerFits'
  BY <1>4 DEF OwnerFits, Preparing, Sent, Ending
<1> QED
  BY <1>1, <1>2, <1>4, <1>5, OwnerOnly

LEMMA ReadConflictKeeps ==
  ASSUME Parts, NEW r \in Resolvers, NEW g \in Gaps, ReadConflict(r, g)
  PROVE  Parts'
<1> USE DEF ReadConflict, rows
<1> DEFINE seen == {u \in attempts[ConflictAttempt(g)].core : text[u] > 0}
           new == [pc |-> "read", gap |-> g, existing |-> seen]
<1>1. PICK a \in Attempts : attempts[a].state = "conflict" /\ g \in attempts[a].items
  BY DEF Parts, EvidenceKept
<1>2. ConflictAttempt(g) \in Attempts
  BY <1>1 DEF ConflictAttempt
<1>3. seen \in SUBSET Units
  BY <1>2, RowFields DEF Parts, TypeOK
<1>4. new \in Window
  BY <1>3 DEF Window
<1>5. windows' = [windows EXCEPT ![r] = new]
  OBVIOUS
<1> HIDE DEF new, ReadConflict
<1>6. windows' \in [Resolvers -> Window]
  BY <1>4, <1>5 DEF Parts, TypeOK
<1> USE DEF ReadConflict
<1>7. OwnerFits' /\ owner' \in Owner
  BY DEF Parts, OwnerFits, TypeOK
<1> QED
  BY <1>6, <1>7, OwnerOnly

-----------------------------------------------------------------------------
(* Steps that change one row and no gap.                                   *)

LEMMA OneRow ==
  ASSUME Parts, NEW a \in Attempts, UNCHANGED <<gaps, agg, text, billed, windows>>,
         attempts' \in [Attempts -> Row], \A b \in Attempts \ {a} : attempts'[b] = attempts[b],
         attempts'[a].state = attempts[a].state, attempts[a].state # "conflict",
         attempts'[a].items = attempts[a].items \/ attempts[a].state = "none",
         attempts'[a].req = attempts[a].req,
         owner' \in Owner, OwnerFits', owner'.pc # "call"
  PROVE  Parts'
<1>1. \A b \in Attempts : attempts'[b].state = attempts[b].state
  OBVIOUS
<1>2. Running' = Running /\ Aggregate(gaps)' = Aggregate(gaps)
  BY <1>1 DEF Running, Aggregate
<1>3. \A b \in Running : b \in Attempts /\ attempts'[b].items = attempts[b].items
  BY DEF Running
<1>4. \A b \in Running' : Held(b)'
  BY <1>1, <1>2, <1>3 DEF Parts, Held
<1>5. \A g \in Gaps : gaps'[g] = "processing" => \E b \in Running' : g \in attempts'[b].items
  BY <1>2, <1>3 DEF Parts
<1>6. AggregateCurrent'
  BY <1>2 DEF Parts, AggregateCurrent
<1>7. EvidenceKept'
  BY DEF Parts, EvidenceKept
<1>8. RequestsFit' /\ BilledOnce'
  <2>1. \A r \in Requests : billed'[r] > 0 => \E b \in Attempts : attempts'[b].req = r
    BY DEF Parts, RequestsFit
  <2> QED
    BY <2>1 DEF Parts, RequestsFit, BilledOnce
<1>9. TypeOK'
  BY DEF Parts, TypeOK
<1>10. \A b, c \in Running' : b = c
  BY <1>2 DEF Parts
<1> QED
  BY <1>4, <1>5, <1>6, <1>7, <1>8, <1>9, <1>10 DEF Parts

LEMMA PlanSliceKeeps ==
  ASSUME Parts, PlanSlice
  PROVE  Parts'
<1> USE DEF Env, At, Goto, rows
<1> DEFINE a == Min(NewFrom)
           new == Extracted(FirstSlice(Chosen))
<1>1. owner.pc = "plan" /\ owner \in Owner /\ attempts \in [Attempts -> Row]
  BY DEF PlanSlice, Parts, TypeOK
<1>2. \/ \E p \in {"sync", "finish"} : /\ owner' = [owner EXCEPT !.pc = p]
                                  /\ UNCHANGED <<gaps, agg, attempts, text, billed, windows>>
      \/ /\ Eligible # {} /\ Selectable /\ NewFrom # {} /\ attempts' = [attempts EXCEPT ![a] = new]
         /\ owner' = [owner EXCEPT !.pc = "register", !.att = a]
         /\ UNCHANGED <<gaps, agg, text, billed, windows>>
  BY DEF PlanSlice, Gives
<1>3. CASE \E p \in {"sync", "finish"} : /\ owner' = [owner EXCEPT !.pc = p]
                                   /\ UNCHANGED <<gaps, agg, attempts, text, billed, windows>>
  BY <1>3, OwnerGoes DEF Sent, Ending
<1>4. CASE /\ Eligible # {} /\ Selectable /\ NewFrom # {} /\ attempts' = [attempts EXCEPT ![a] = new]
           /\ owner' = [owner EXCEPT !.pc = "register", !.att = a]
           /\ UNCHANGED <<gaps, agg, text, billed, windows>>
  <2>1. a \in Attempts /\ attempts[a] = NoRow
    <3>1. NewFrom \in SUBSET Nat
      BY NoAttemptIsNone DEF NewFrom
    <3>2. a \in NewFrom
      BY <1>4, <3>1, MinOf
    <3> QED
      BY <3>2 DEF NewFrom
  <2>2. Chosen \in SUBSET Gaps /\ Chosen # {}
    BY <1>1, <1>4 DEF Chosen, Selectable, Eligible
  <2>3. FirstSlice(Chosen).items \in SUBSET Gaps /\ FirstSlice(Chosen).core \in SUBSET Units
    BY <2>2, SliceOf
  <2>4. new \in Row /\ new.state = "none" /\ new.req = NoRequest /\ new.file = TRUE
    <3> DEFINE slice == FirstSlice(Chosen)
    <3> HIDE DEF slice
    <3>1. slice.items \in SUBSET Gaps /\ slice.core \in SUBSET Units
      BY <2>3 DEF slice
    <3>2. NoRow.state = "none" /\ NoRow.req = NoRequest
      BY DEF NoRow
    <3>3. LET cut == [NoRow EXCEPT !.items = slice.items, !.core = slice.core, !.file = TRUE]
          IN  cut \in Row /\ cut.state = NoRow.state /\ cut.req = NoRow.req /\ cut.file = TRUE
      BY <3>1, NoRowIsRow DEF Row
    <3>4. new = [NoRow EXCEPT !.items = slice.items, !.core = slice.core, !.file = TRUE]
      BY DEF Extracted, slice
    <3> HIDE DEF new
    <3> QED
      BY <3>2, <3>3, <3>4
  <2> HIDE DEF a, new
  <2>5. attempts' \in [Attempts -> Row] /\ attempts'[a] = new /\ \A b \in Attempts \ {a} : attempts'[b] = attempts[b]
    BY <1>1, <1>4, <2>1, <2>4
  <2>6. owner' \in Owner /\ owner'.pc = "register" /\ owner'.att = a
    <3>1. "register" \in {"none", "lookup", "plan", "again", "sync", "finish"} \cup Preparing \cup Sent \cup Ending
      BY DEF Preparing
    <3>2. owner' \in Owner
      BY <1>1, <1>4, <2>1, <3>1, OwnerEdits
    <3> QED
      BY <1>1, <1>4, <3>2 DEF Owner
  <2>7. OwnerFits'
    BY <2>1, <2>4, <2>5, <2>6 DEF OwnerFits, Preparing, Sent, Ending
  <2> QED
    BY <1>4, <2>1, <2>4, <2>5, <2>6, <2>7, OneRow DEF NoRow
<1> QED
  BY <1>2, <1>3, <1>4

LEMMA RegisterGapAssetKeeps ==
  ASSUME Parts, RegisterGapAsset
  PROVE  Parts'
<1> USE DEF RegisterGapAsset, Env, At, Goto
<1> DEFINE a == owner.att
           row == attempts[a]
<1>1. owner \in Owner /\ attempts \in [Attempts -> Row]
  BY DEF Parts, TypeOK
<1>2. a \in Attempts /\ row.state = "none" /\ row.req = NoRequest /\ row.file /\ row \in Row
  BY <1>1 DEF Parts, OwnerFits, Preparing, Sent, Ending
<1>3. /\ attempts'[a] \in {[row EXCEPT !.asset = "ready"], [row EXCEPT !.file = FALSE]}
      /\ attempts' \in [Attempts -> Row] /\ \A b \in Attempts \ {a} : attempts'[b] = attempts[b]
      /\ owner'.pc = "claim" => attempts'[a] = [row EXCEPT !.asset = "ready"]
      /\ owner'.pc \in {"claim", "finish"} /\ owner'.att = a /\ owner' \in Owner
  <2>1. [row EXCEPT !.asset = "ready"] \in Row /\ [row EXCEPT !.file = FALSE] \in Row
    BY <1>2, RowEdits
  <2>2. \/ /\ attempts' = [attempts EXCEPT ![a] = [row EXCEPT !.asset = "ready"]]
           /\ owner' = [owner EXCEPT !.pc = "claim"]
        \/ /\ attempts' = [attempts EXCEPT ![a] = [row EXCEPT !.file = FALSE]]
           /\ owner' = [owner EXCEPT !.pc = "finish"]
    BY <1>1, <1>2
  <2>3. \A p \in {"claim", "finish"} : /\ [owner EXCEPT !.pc = p] \in Owner /\ [owner EXCEPT !.pc = p].att = a
                                     /\ [owner EXCEPT !.pc = p].pc = p
    BY <1>1, OwnerEdits DEF Owner, Preparing
  <2> HIDE DEF RegisterGapAsset, row
  <2> QED
    BY <1>1, <1>2, <2>1, <2>2, <2>3
<1>4. /\ attempts'[a].state = "none" /\ attempts'[a].items = row.items /\ attempts'[a].req = row.req
      /\ owner'.pc = "claim" => attempts'[a].file /\ attempts'[a].asset = "ready"
  BY <1>2, <1>3 DEF Row
<1>5. OwnerFits'
  BY <1>2, <1>3, <1>4 DEF OwnerFits, Preparing, Sent, Ending
<1>6. UNCHANGED <<gaps, agg, text, billed, windows>>
  OBVIOUS
<1> HIDE DEF RegisterGapAsset
<1> QED
  BY <1>2, <1>3, <1>4, <1>5, <1>6, OneRow

(* The owner at its next step.                                             *)
LEMMA OwnerAt ==
  ASSUME Parts, NEW p \in {"finish", "call", "sync", "again"} \cup Sent \cup Ending, owner' = [owner EXCEPT !.pc = p]
  PROVE  /\ owner' \in Owner /\ owner'.pc = p /\ owner'.att = owner.att /\ owner'.req = owner.req
         /\ owner'.cand = owner.cand /\ owner'.cancelled = owner.cancelled
<1>1. owner \in Owner
  BY DEF Parts, TypeOK
<1>2. p \in {"none", "lookup", "plan", "again", "sync", "finish"} \cup Preparing \cup Sent \cup Ending
  BY DEF Sent
<1>3. [owner EXCEPT !.pc = p] \in Owner
  BY <1>1, <1>2, OwnerEdits
<1> QED
  BY <1>1, <1>3 DEF Owner

LEMMA ClaimGapAttemptKeeps ==
  ASSUME Parts, ClaimGapAttempt
  PROVE  Parts'
<1> DEFINE a == owner.att
           row == attempts[a]
           new == [row EXCEPT !.state = "running", !.req = owner.req]
           can == /\ row.items \subseteq Eligible /\ Running = {}
                  /\ owner.req = NoRequest \/ \A b \in Attempts : attempts[b].req # owner.req
                  /\ ~owner.cancelled
<1>1. owner \in Owner /\ attempts \in [Attempts -> Row] /\ owner.pc = "claim" /\ gaps \in [Gaps -> GapStates]
  BY DEF Parts, TypeOK, ClaimGapAttempt, At
<1>2. a \in Attempts /\ row.state = "none" /\ row.file /\ row.asset = "ready" /\ row \in Row
  BY <1>1 DEF Parts, OwnerFits, Preparing, Sent, Ending
<1>3. \/ /\ can /\ SetGaps(row.items, "processing") /\ owner' = [owner EXCEPT !.pc = "call"]
         /\ attempts' = [attempts EXCEPT ![a] = new] /\ UNCHANGED <<agg, text, billed, windows>>
      \/ owner' = [owner EXCEPT !.pc = "unclaimed"] /\ UNCHANGED <<gaps, agg, attempts, text, billed, windows>>
  BY <1>1, <1>2 DEF ClaimGapAttempt, Gives, Goto, Env, rows
<1>4. CASE owner' = [owner EXCEPT !.pc = "unclaimed"] /\ UNCHANGED <<gaps, agg, attempts, text, billed, windows>>
  <2>1. owner' \in Owner /\ owner'.pc = "unclaimed" /\ owner'.att = a
    BY <1>4, OwnerAt DEF Ending
  <2>2. OwnerFits'
    BY <1>2, <1>4, <2>1 DEF OwnerFits, Preparing, Sent, Ending
  <2>3. windows' \in [Resolvers -> Window]
    BY <1>4 DEF Parts, TypeOK
  <2> QED
    BY <1>4, <2>1, <2>2, <2>3, OwnerOnly
<1>5. CASE /\ can /\ SetGaps(row.items, "processing") /\ owner' = [owner EXCEPT !.pc = "call"]
           /\ attempts' = [attempts EXCEPT ![a] = new] /\ UNCHANGED <<agg, text, billed, windows>>
  <2>1. /\ owner' \in Owner /\ owner'.pc = "call" /\ owner'.att = a /\ owner'.req = owner.req
        /\ owner.req \in Requests \cup {NoRequest}
    BY <1>1, <1>5, OwnerAt, OwnerFields DEF Sent
  <2>2. /\ new \in Row /\ new.state = "running" /\ new.req = owner.req /\ new.items = row.items /\ new.file = row.file
        /\ new.asset = row.asset
    <3>1. new \in Row
      BY <1>2, <2>1, RowEdits
    <3> QED
      BY <1>2, <3>1 DEF Row
  <2> HIDE DEF new
  <2>3. /\ attempts' \in [Attempts -> Row] /\ attempts'[a] = new
        /\ \A b \in Attempts \ {a} : attempts'[b] = attempts[b]
    BY <1>1, <1>2, <1>5, <2>2
  <2>4. Running' = {a} /\ Running = {}
    BY <1>2, <1>5, <2>2, <2>3 DEF Running
  <2>5. /\ gaps' \in [Gaps -> GapStates] /\ row.items \in SUBSET Gaps
        /\ \A g \in Gaps : gaps'[g] = IF g \in row.items THEN "processing" ELSE gaps[g]
    BY <1>1, <1>2, <1>5, RowFields DEF SetGaps, GapStates
  <2>6. \A b \in Running' : Held(b)'
    <3>1. attempts'[a].state = "running" /\ attempts'[a].items = row.items
      BY <2>2, <2>3
    <3> HIDE DEF a, row
    <3> QED
      BY <2>4, <2>5, <3>1 DEF Held
  <2>7. \A g \in Gaps : gaps'[g] = "processing" => \E b \in Running' : g \in attempts'[b].items
    BY <2>2, <2>3, <2>4, <2>5 DEF Parts
  <2>8. \A g \in Gaps : gaps'[g] = "conflict" <=> gaps[g] = "conflict"
    BY <1>5, <2>5 DEF Eligible
  <2>9. AggregateCurrent'
    BY <1>5, <2>4, <2>8 DEF Parts, AggregateCurrent
  <2>10. EvidenceKept'
    BY <1>2, <2>3, <2>8 DEF Parts, EvidenceKept
  <2>11. OwnerFits'
    BY <1>2, <2>1, <2>2, <2>3 DEF OwnerFits, Preparing, Sent, Ending
  <2>12. RequestsFit' /\ BilledOnce'
    <3>1. owner.req # NoRequest => billed[owner.req] = 0
      BY <1>5, <2>1 DEF Parts, RequestsFit, TypeOK
    <3>2. \A r \in Requests : billed'[r] > 0 => \E b \in Attempts : attempts'[b].req = r
      <4> SUFFICES ASSUME NEW r \in Requests, billed[r] > 0
                   PROVE  \E b \in Attempts : attempts'[b].req = r
        BY <1>5
      <4>1. PICK b \in Attempts : attempts[b].req = r
        BY DEF Parts, RequestsFit
      <4>2. CASE b # a
        BY <2>3, <4>1, <4>2
      <4>3. b # a
        BY <1>1, <4>1, RangesAssumption DEF RangesAssumption, Parts, OwnerFits, Preparing
      <4> QED
        BY <4>2, <4>3
    <3> QED
      BY <1>5, <2>1, <2>2, <2>3, <3>1, <3>2 DEF Parts, RequestsFit, BilledOnce
  <2>13. TypeOK'
    BY <1>5, <2>1, <2>3, <2>5 DEF Parts, TypeOK
  <2>14. \A b, c \in Running' : b = c
    BY <2>4
  <2> QED
    BY <2>6, <2>7, <2>9, <2>10, <2>11, <2>12, <2>13, <2>14 DEF Parts
<1> QED
  BY <1>3, <1>4, <1>5

LEMMA CleanupsKeep ==
  ASSUME Parts, CleanupUnclaimed \/ CleanupFailed \/ CleanupError \/ SettledSlice
  PROVE  Parts'
<1> DEFINE a == owner.att
           row == attempts[a]
<1>1. owner \in Owner /\ attempts \in [Attempts -> Row]
  BY DEF Parts, TypeOK
<1>2. owner.pc \in {"unclaimed", "cleanup_failed", "cleanup_error", "settled", "settled_error"}
  BY DEF CleanupUnclaimed, CleanupFailed, CleanupError, Cleanup, SettledSlice, At
<1>3. a \in Attempts /\ row \in Row
  BY <1>1, <1>2 DEF Parts, OwnerFits, Preparing, Sent, Ending
<1>4. PICK p \in {"finish", "sync", "again"} : owner' = [owner EXCEPT !.pc = p]
  BY DEF CleanupUnclaimed, CleanupFailed, CleanupError, Cleanup, SettledSlice, Goto
<1>5. owner' \in Owner /\ owner'.pc = p
  BY <1>4, OwnerAt
<1>6. OwnerFits' /\ owner'.pc # "call"
  BY <1>5 DEF OwnerFits, Preparing, Sent, Ending
<1>7. UNCHANGED <<gaps, agg, text, billed, windows>>
  BY DEF CleanupUnclaimed, CleanupFailed, CleanupError, Cleanup, SettledSlice, Env
<1>8. \/ UNCHANGED attempts
      \/ /\ row.state # "conflict"
         /\ \E new \in Row : /\ attempts' = [attempts EXCEPT ![a] = new]
                            /\ new.state = row.state /\ new.items = row.items /\ new.req = row.req
  <2>1. /\ \A f \in {"none", "ready", "deleted"} :
             /\ [row EXCEPT !.file = FALSE, !.asset = f] \in Row
             /\ [row EXCEPT !.file = FALSE, !.asset = f].state = row.state
             /\ [row EXCEPT !.file = FALSE, !.asset = f].items = row.items
             /\ [row EXCEPT !.file = FALSE, !.asset = f].req = row.req
        /\ row.asset \in {"none", "ready", "deleted"}
    BY <1>3 DEF Row
  <2>2. CASE CleanupUnclaimed
    <3>1. owner.pc = "unclaimed" /\ row.state = "none"
      BY <2>2 DEF Parts, OwnerFits, CleanupUnclaimed, At
    <3>2. attempts' = [attempts EXCEPT ![a] =
            [row EXCEPT !.file = FALSE, !.asset = IF owner.cancelled THEN row.asset ELSE "deleted"]]
      BY <1>1, <1>3, <2>2 DEF CleanupUnclaimed
    <3> HIDE DEF row
    <3> QED
      BY <2>1, <3>1, <3>2
  <2>3. CASE CleanupFailed \/ CleanupError \/ SettledSlice
    <3>1. \/ UNCHANGED attempts
          \/ row.state # "conflict" /\ attempts' = [attempts EXCEPT ![a] = Deleted(row)]
      <4>1. CASE CleanupFailed \/ CleanupError
        BY <1>1, <1>2, <1>3, <4>1 DEF CleanupFailed, CleanupError, Cleanup, At, Parts, OwnerFits, Sent
      <4>2. CASE SettledSlice
        BY <1>1, <1>3, <4>2 DEF SettledSlice
      <4> QED
        BY <2>3, <4>1, <4>2
    <3> HIDE DEF row
    <3> QED
      BY <2>1, <3>1 DEF Deleted
  <2> QED
    BY <2>2, <2>3
<1>9. CASE UNCHANGED attempts
  <2>1. windows' \in [Resolvers -> Window]
    BY <1>7 DEF Parts, TypeOK
  <2> QED
    BY <1>5, <1>6, <1>7, <1>9, <2>1, OwnerOnly
<1>10. CASE /\ row.state # "conflict"
            /\ \E new \in Row : /\ attempts' = [attempts EXCEPT ![a] = new]
                               /\ new.state = row.state /\ new.items = row.items /\ new.req = row.req
  BY <1>1, <1>3, <1>5, <1>6, <1>7, <1>10, OneRow
<1> QED
  BY <1>8, <1>9, <1>10

LEMMA TranscribeKeeps ==
  ASSUME Parts, Transcribe
  PROVE  Parts'
<1> USE DEF Transcribe, At, Goto, rows
<1>1. /\ owner \in Owner /\ owner.pc = "call" /\ owner.att \in Attempts /\ attempts \in [Attempts -> Row]
      /\ owner.req \in Requests \cup {NoRequest} /\ billed \in [Requests -> Nat]
  BY OwnerFields DEF Parts, TypeOK, OwnerFits, Sent
<1>2. UNCHANGED <<gaps, agg, attempts, text, windows>>
  OBVIOUS
<1>3. \/ \E p \in {"fail", "silence"} : owner' = [owner EXCEPT !.pc = p]
      \/ \E S \in SUBSET Units : owner' = [owner EXCEPT !.pc = "look", !.cand = S]
  <2>1. attempts[owner.att].core \in SUBSET Units
    BY <1>1, RowFields
  <2> QED
    BY <2>1 DEF Candidates
<1>4. /\ owner' \in Owner /\ owner'.att = owner.att /\ owner'.pc \in {"fail", "silence", "look"}
  <2>1. {"fail", "silence", "look"} \subseteq Sent
    BY DEF Sent
  <2>2. CASE \E p \in {"fail", "silence"} : owner' = [owner EXCEPT !.pc = p]
    BY <2>1, <2>2, OwnerAt
  <2>3. CASE \E S \in SUBSET Units : owner' = [owner EXCEPT !.pc = "look", !.cand = S]
    <3>1. PICK S \in SUBSET Units : owner' = [owner EXCEPT !.pc = "look", !.cand = S]
      BY <2>3
    <3>2. "look" \in {"none", "lookup", "plan", "again", "sync", "finish"} \cup Preparing \cup Sent \cup Ending
      BY <2>1
    <3>3. owner' \in Owner
      BY <1>1, <3>1, <3>2, OwnerEdits
    <3> QED
      BY <1>1, <3>1, <3>3 DEF Owner
  <2> QED
    BY <1>3, <2>2, <2>3
<1>5. OwnerFits'
  BY <1>1, <1>2, <1>4 DEF Parts, OwnerFits, Preparing, Sent, Ending
<1>6. /\ billed' \in [Requests -> Nat]
      /\ \A r \in Requests : billed'[r] # billed[r] => billed'[r] = 1 /\ attempts[owner.att].req = r
  <2>1. CASE owner.req = NoRequest
    <3>1. billed' = billed
      BY <2>1
    <3> HIDE DEF Transcribe
    <3> QED
      BY <1>1, <3>1
  <2>2. CASE owner.req # NoRequest
    <3>1. owner.req \in Requests /\ billed[owner.req] = 0 /\ attempts[owner.att].req = owner.req
      BY <1>1, <2>2 DEF Parts, RequestsFit
    <3>2. billed' = [billed EXCEPT ![owner.req] = billed[owner.req] + 1]
      BY <2>2
    <3> HIDE DEF Transcribe
    <3>3. billed[owner.req] + 1 = 1
      BY <3>1
    <3> QED
      BY <1>1, <3>1, <3>2, <3>3
  <2> QED
    BY <2>1, <2>2
<1> HIDE DEF Transcribe
<1>7. RequestsFit' /\ BilledOnce'
  <2>1. \A r \in Requests : billed'[r] > 0 => \E b \in Attempts : attempts'[b].req = r
    BY <1>1, <1>2, <1>6 DEF Parts, RequestsFit
  <2>2. \A r \in Requests : billed'[r] <= 1
    BY <1>6 DEF Parts, BilledOnce
  <2> QED
    BY <1>4, <2>1, <2>2 DEF RequestsFit, BilledOnce
<1>8. TypeOK'
  BY <1>2, <1>4, <1>6 DEF Parts, TypeOK
<1> QED
  BY <1>2, <1>5, <1>7, <1>8, RowsAside DEF Parts

-----------------------------------------------------------------------------
(* Steps that settle the attempt of the owner with its gaps.               *)

LEMMA SettleRows ==
  ASSUME Parts, NEW a \in Attempts, a = owner.att, Held(a), NEW s \in {"completed", "failed", "conflict"},
         SetGaps(attempts[a].items, s), agg' = Aggregate(gaps'),
         attempts' \in [Attempts -> Row], \A b \in Attempts \ {a} : attempts'[b] = attempts[b],
         attempts'[a].state = s, attempts'[a].items = attempts[a].items, attempts'[a].req = attempts[a].req,
         attempts'[a].file = attempts[a].file, attempts'[a].asset = attempts[a].asset,
         s = "conflict" => attempts[a].file /\ attempts[a].asset = "ready",
         UNCHANGED <<billed, windows>>, text' \in [Units -> Nat],
         owner' \in Owner, owner'.att = a,
         owner'.pc = "flush" \/ (s = "failed" /\ owner'.pc \in {"cleanup_failed", "cleanup_error"})
  PROVE  Parts'
<1>1. /\ a \in Running /\ Running = {a} /\ gaps \in [Gaps -> GapStates] /\ attempts[a].items \in SUBSET Gaps
  BY RowFields DEF Parts, TypeOK, Held, Running
<1>2. Running' = {}
  BY <1>1 DEF Running
<1>3. /\ gaps' \in [Gaps -> GapStates]
      /\ \A g \in Gaps : gaps'[g] = IF g \in attempts[a].items THEN s ELSE gaps[g]
  BY <1>1 DEF SetGaps, GapStates
<1>4. \A g \in Gaps : gaps[g] = "processing" => g \in attempts[a].items
  BY <1>1 DEF Parts
<1>5. \A g \in Gaps : gaps'[g] # "processing"
  BY <1>3, <1>4
<1>6. agg' \in GapStates \cup {"none"} /\ (agg' = "conflict" <=> \E g \in Gaps : gaps'[g] = "conflict")
  <2> DEFINE states == {gaps'[x] : x \in Gaps}
  <2>1. states \in SUBSET GapStates /\ ("conflict" \in states <=> \E g \in Gaps : gaps'[g] = "conflict")
    BY <1>3
  <2>2. agg' = AggregateState(states)
    BY DEF Aggregate
  <2> QED
    BY <2>1, <2>2, AggregateOf
<1>7. AggregateCurrent'
  BY <1>6 DEF AggregateCurrent, Aggregate
<1>8. EvidenceKept'
  <2> SUFFICES ASSUME NEW g \in Gaps, gaps'[g] = "conflict"
               PROVE  \E b \in Attempts : /\ attempts'[b].state = "conflict" /\ g \in attempts'[b].items
                                        /\ attempts'[b].file /\ attempts'[b].asset = "ready"
    BY DEF EvidenceKept
  <2>1. CASE g \in attempts[a].items
    BY <1>3, <2>1
  <2>2. CASE g \notin attempts[a].items
    <3>1. PICK b \in Attempts : /\ attempts[b].state = "conflict" /\ g \in attempts[b].items
                              /\ attempts[b].file /\ attempts[b].asset = "ready"
      BY <1>3, <2>2 DEF Parts, EvidenceKept
    <3>2. b # a
      BY <3>1 DEF Held
    <3> QED
      BY <3>1, <3>2
  <2> QED
    BY <2>1, <2>2
<1>9. OwnerFits'
  BY DEF OwnerFits, Preparing, Sent, Ending
<1>10. RequestsFit' /\ BilledOnce'
  <2>1. \A r \in Requests : billed'[r] > 0 => \E b \in Attempts : attempts'[b].req = r
    BY DEF Parts, RequestsFit
  <2> QED
    BY <2>1 DEF Parts, RequestsFit, BilledOnce
<1>11. TypeOK'
  BY <1>3, <1>6 DEF Parts, TypeOK
<1> QED
  BY <1>2, <1>5, <1>7, <1>8, <1>9, <1>10, <1>11 DEF Parts

LEMMA SettleKeeps ==
  ASSUME Parts, NEW a \in Attempts, a = owner.att, Held(a), NEW s \in {"completed", "failed"}, Settle(a, s, s),
         UNCHANGED <<billed, windows>>, text' \in [Units -> Nat],
         NEW p \in {"flush", "cleanup_failed", "cleanup_error"}, owner' = [owner EXCEPT !.pc = p],
         p = "flush" \/ s = "failed"
  PROVE  Parts'
<1> DEFINE row == attempts[a]
<1>1. attempts \in [Attempts -> Row] /\ row \in Row
  BY DEF Parts, TypeOK
<1>2. /\ [row EXCEPT !.state = s] \in Row /\ [row EXCEPT !.state = s].state = s
      /\ [row EXCEPT !.state = s].items = row.items /\ [row EXCEPT !.state = s].req = row.req
      /\ [row EXCEPT !.state = s].file = row.file /\ [row EXCEPT !.state = s].asset = row.asset
  BY <1>1 DEF Row
<1>3. attempts' = [attempts EXCEPT ![a] = [row EXCEPT !.state = s]]
  BY <1>1 DEF Settle, SetState
<1> HIDE DEF row
<1>4. /\ attempts' \in [Attempts -> Row] /\ attempts'[a] = [row EXCEPT !.state = s]
      /\ \A b \in Attempts \ {a} : attempts'[b] = attempts[b]
  BY <1>1, <1>2, <1>3
<1>5. owner' \in Owner /\ owner'.att = a /\ owner'.pc = p
  BY OwnerAt DEF Ending
<1> QED
  BY <1>2, <1>4, <1>5, SettleRows DEF row, Settle

LEMMA FailuresKeep ==
  ASSUME Parts, FailGapAttempt \/ Uncommitted
  PROVE  Parts'
<1> USE DEF Env, At, Goto, rows
<1> DEFINE a == owner.att
<1>1. owner \in Owner /\ attempts \in [Attempts -> Row] /\ text \in [Units -> Nat] /\ windows \in [Resolvers -> Window]
  BY DEF Parts, TypeOK
<1>2. owner.pc \in {"fail", "uncommitted"} /\ a \in Attempts
  BY DEF FailGapAttempt, Uncommitted, Parts, OwnerFits, Sent, Ending
<1>3. UNCHANGED <<text, billed, windows>>
  BY DEF FailGapAttempt, Uncommitted, Gives
<1>4. \/ \E p \in {"cleanup_failed", "cleanup_error"} :
           Held(a) /\ Settle(a, "failed", "failed") /\ owner' = [owner EXCEPT !.pc = p]
      \/ UNCHANGED <<gaps, agg, attempts>> /\ owner.pc = "fail" /\ owner' = [owner EXCEPT !.pc = "finish"]
      \/ UNCHANGED <<gaps, agg, attempts>> /\ owner.pc = "uncommitted" /\ owner' = [owner EXCEPT !.pc = "cleanup_error"]
  BY DEF FailGapAttempt, Uncommitted, Gives
<1>5. CASE \E p \in {"cleanup_failed", "cleanup_error"} :
             Held(a) /\ Settle(a, "failed", "failed") /\ owner' = [owner EXCEPT !.pc = p]
  BY <1>1, <1>2, <1>3, <1>5, SettleKeeps
<1>6. CASE UNCHANGED <<gaps, agg, attempts>> /\ owner.pc = "fail" /\ owner' = [owner EXCEPT !.pc = "finish"]
  BY <1>3, <1>6, OwnerGoes DEF Sent, Ending
<1>7. CASE UNCHANGED <<gaps, agg, attempts>> /\ owner.pc = "uncommitted" /\ owner' = [owner EXCEPT !.pc = "cleanup_error"]
  <2>1. owner' \in Owner /\ owner'.pc = "cleanup_error" /\ owner'.att = a
    BY <1>7, OwnerAt DEF Ending
  <2>2. OwnerFits'
    BY <1>2, <1>7, <2>1 DEF Parts, OwnerFits, Preparing, Sent, Ending
  <2> QED
    BY <1>1, <1>3, <1>7, <2>1, <2>2, OwnerOnly
<1> QED
  BY <1>4, <1>5, <1>6, <1>7

LEMMA CommitsKeep ==
  ASSUME Parts, CommitNoSpeech \/ CommitCompensation
  PROVE  Parts'
<1> USE DEF Env, At, Goto, rows
<1> DEFINE a == owner.att
<1>1. owner \in Owner /\ text \in [Units -> Nat] /\ windows \in [Resolvers -> Window]
  BY DEF Parts, TypeOK
<1>2. owner.pc \in {"silence", "store"} /\ a \in Attempts
  BY DEF CommitNoSpeech, CommitCompensation, Parts, OwnerFits, Sent
<1>3. UNCHANGED <<billed, windows>>
  BY DEF CommitNoSpeech, CommitCompensation, Gives
<1>4. text' \in [Units -> Nat]
  <2>1. text' = text \/ CreateUtterances(owner.cand)
    BY DEF CommitNoSpeech, CommitCompensation, Gives
  <2> QED
    BY <1>1, <2>1 DEF CreateUtterances
<1>5. \/ Held(a) /\ Settle(a, "completed", "completed") /\ owner' = [owner EXCEPT !.pc = "flush"]
      \/ \E p \in {"uncommitted", "conflict"} :
           UNCHANGED <<gaps, agg, attempts, text>> /\ owner' = [owner EXCEPT !.pc = p]
  BY DEF CommitNoSpeech, CommitCompensation, Gives
<1>6. CASE Held(a) /\ Settle(a, "completed", "completed") /\ owner' = [owner EXCEPT !.pc = "flush"]
  BY <1>2, <1>3, <1>4, <1>6, SettleKeeps
<1>7. CASE \E p \in {"uncommitted", "conflict"} :
             UNCHANGED <<gaps, agg, attempts, text>> /\ owner' = [owner EXCEPT !.pc = p]
  BY <1>2, <1>3, <1>7, OwnerGoes DEF Sent, Ending
<1> QED
  BY <1>5, <1>6, <1>7

LEMMA CommitGapConflictKeeps ==
  ASSUME Parts, CommitGapConflict
  PROVE  Parts'
<1> USE DEF Env, At, Goto, rows
<1> DEFINE a == owner.att
           row == attempts[a]
           new == [row EXCEPT !.state = "conflict", !.cand = owner.cand]
<1>1. /\ owner \in Owner /\ text \in [Units -> Nat] /\ windows \in [Resolvers -> Window]
      /\ attempts \in [Attempts -> Row] /\ owner.cand \in SUBSET Units
  BY OwnerFields DEF Parts, TypeOK
<1>2. owner.pc = "conflict" /\ a \in Attempts /\ row.file /\ row.asset = "ready" /\ row \in Row
  BY <1>1 DEF CommitGapConflict, Parts, OwnerFits, Sent
<1>3. UNCHANGED <<text, billed, windows>>
  BY DEF CommitGapConflict, Gives
<1>4. \/ /\ Held(a) /\ SetGaps(row.items, "conflict") /\ attempts' = [attempts EXCEPT ![a] = new]
         /\ agg' = Aggregate(gaps') /\ owner' = [owner EXCEPT !.pc = "flush"]
      \/ UNCHANGED <<gaps, agg, attempts>> /\ owner' = [owner EXCEPT !.pc = "uncommitted"]
  BY <1>1, <1>2 DEF CommitGapConflict, Gives
<1>5. CASE UNCHANGED <<gaps, agg, attempts>> /\ owner' = [owner EXCEPT !.pc = "uncommitted"]
  BY <1>2, <1>3, <1>5, OwnerGoes DEF Sent, Ending
<1>6. CASE /\ Held(a) /\ SetGaps(row.items, "conflict") /\ attempts' = [attempts EXCEPT ![a] = new]
           /\ agg' = Aggregate(gaps') /\ owner' = [owner EXCEPT !.pc = "flush"]
  <2>1. /\ new \in Row /\ new.state = "conflict" /\ new.items = row.items /\ new.req = row.req
        /\ new.file = row.file /\ new.asset = row.asset
    <3>1. new \in Row
      BY <1>1, <1>2, RowEdits
    <3> QED
      BY <1>2, <3>1 DEF Row
  <2>2. owner' \in Owner /\ owner'.att = a /\ owner'.pc = "flush"
    BY <1>6, OwnerAt DEF Ending
  <2> HIDE DEF new, row
  <2>3. /\ attempts' \in [Attempts -> Row] /\ attempts'[a] = new
        /\ \A b \in Attempts \ {a} : attempts'[b] = attempts[b]
    BY <1>1, <1>2, <1>6, <2>1
  <2> QED
    BY <1>1, <1>2, <1>3, <1>6, <2>1, <2>2, <2>3, SettleRows DEF row
<1> QED
  BY <1>4, <1>5, <1>6

-----------------------------------------------------------------------------
(* The host resolves a conflict.                                           *)

(* An attempt in conflict is completed only when all its gaps are.         *)
LEMMA ResolutionOf ==
  ASSUME NEW row \in Row, NEW now, NEW cleaned \in BOOLEAN
  PROVE  LET new == SettledResolution(row, now, cleaned) IN
         /\ new \in Row /\ new.items = row.items /\ new.req = row.req
         /\ new = row \/ (new.state = "completed" /\ \A x \in row.items : now[x] = "completed")
<1> DEFINE done == [row EXCEPT !.state = "completed"]
<1>1. /\ done \in Row /\ done.state = "completed" /\ done.items = row.items /\ done.req = row.req
  BY DEF Row
<1> HIDE DEF done
<1>2. /\ Deleted(done) \in Row /\ Deleted(done).state = "completed" /\ Deleted(done).items = row.items
      /\ Deleted(done).req = row.req
  BY <1>1 DEF Deleted, Row
<1>3. CASE \E x \in row.items : now[x] # "completed"
  BY <1>3 DEF SettledResolution
<1>4. CASE \A x \in row.items : now[x] = "completed"
  <2>1. SettledResolution(row, now, cleaned) \in {done, Deleted(done)}
    BY <1>4 DEF SettledResolution, done
  <2> QED
    BY <1>1, <1>2, <1>4, <2>1
<1> QED
  BY <1>3, <1>4

LEMMA ResolveGapConflictKeeps ==
  ASSUME Parts, NEW r \in Resolvers, ResolveGapConflict(r)
  PROVE  Parts'
<1> DEFINE g == windows[r].gap
           a == ConflictAttempt(g)
<1>1. /\ attempts \in [Attempts -> Row] /\ gaps \in [Gaps -> GapStates] /\ text \in [Units -> Nat]
      /\ windows \in [Resolvers -> Window] /\ owner \in Owner
  BY DEF Parts, TypeOK
<1>2. windows[r].pc = "read" /\ g \in Gaps
  BY <1>1 DEF ResolveGapConflict, Window, Closed
<1>3. windows' \in [Resolvers -> Window] /\ UNCHANGED <<owner, billed>>
  BY <1>1 DEF ResolveGapConflict, Window
<1>4. CASE UNCHANGED rows
  <2>1. OwnerFits'
    BY <1>3, <1>4 DEF Parts, OwnerFits, rows
  <2> QED
    BY <1>1, <1>3, <1>4, <2>1, OwnerOnly DEF rows
<1>5. CASE /\ gaps[g] = "conflict" /\ gaps' = [gaps EXCEPT ![g] = "completed"] /\ agg' = Aggregate(gaps')
           /\ \E added \in {NonOverlapping(attempts[a].cand, windows[r].existing)} : CreateUtterances(added)
           /\ \E cleaned \in BOOLEAN :
                attempts' = [attempts EXCEPT ![a] = SettledResolution(attempts[a], gaps', cleaned)]
  <2>1. PICK b \in Attempts : attempts[b].state = "conflict" /\ g \in attempts[b].items
    BY <1>2, <1>5 DEF Parts, EvidenceKept
  <2>2. a \in Attempts /\ attempts[a].state = "conflict" /\ g \in attempts[a].items
    BY <2>1 DEF ConflictAttempt
  <2>3. PICK cleaned \in BOOLEAN : attempts' = [attempts EXCEPT ![a] = SettledResolution(attempts[a], gaps', cleaned)]
    BY <1>5
  <2> DEFINE new == SettledResolution(attempts[a], gaps', cleaned)
  <2>4. /\ new \in Row /\ new.items = attempts[a].items /\ new.req = attempts[a].req
        /\ new = attempts[a] \/ (new.state = "completed" /\ \A x \in attempts[a].items : gaps'[x] = "completed")
    BY <1>1, <2>2, ResolutionOf
  <2> HIDE DEF new, a, g
  <2>5. /\ attempts' \in [Attempts -> Row] /\ attempts'[a] = new
        /\ \A c \in Attempts \ {a} : attempts'[c] = attempts[c]
    BY <1>1, <2>2, <2>3, <2>4 DEF new
  <2>6. /\ gaps' \in [Gaps -> GapStates] /\ gaps'[g] = "completed" /\ \A x \in Gaps \ {g} : gaps'[x] = gaps[x]
    BY <1>1, <1>2, <1>5 DEF GapStates
  <2>7. Running' = Running /\ \A c \in Running : c \in Attempts /\ attempts'[c] = attempts[c]
    BY <2>2, <2>4, <2>5 DEF Running
  <2>8. \A c \in Running' : Held(c)'
    <3> SUFFICES ASSUME NEW c \in Running
                 PROVE  Held(c)'
      BY <2>7
    <3>1. c \in Attempts /\ attempts'[c] = attempts[c] /\ Held(c) /\ attempts[c].items \in SUBSET Gaps
      BY <1>1, <2>7, RowFields DEF Parts
    <3>2. \A x \in attempts[c].items : gaps'[x] = "processing"
      BY <1>5, <2>6, <3>1 DEF Held
    <3> QED
      BY <3>1, <3>2 DEF Held
  <2>9. \A x \in Gaps : gaps'[x] = "processing" => \E c \in Running' : x \in attempts'[c].items
    BY <2>6, <2>7 DEF Parts
  <2>10. agg' \in GapStates \cup {"none"} /\ (agg' = "conflict" <=> \E x \in Gaps : gaps'[x] = "conflict")
    <3> DEFINE states == {gaps'[x] : x \in Gaps}
    <3>1. states \in SUBSET GapStates /\ ("conflict" \in states <=> \E x \in Gaps : gaps'[x] = "conflict")
      BY <2>6
    <3>2. agg' = AggregateState(states)
      BY <1>5 DEF Aggregate
    <3> QED
      BY <3>1, <3>2, AggregateOf
  <2>11. AggregateCurrent'
    BY <1>5, <2>10 DEF AggregateCurrent, Aggregate
  <2>12. EvidenceKept'
    <3> SUFFICES ASSUME NEW x \in Gaps, gaps'[x] = "conflict"
                 PROVE  \E c \in Attempts : /\ attempts'[c].state = "conflict" /\ x \in attempts'[c].items
                                          /\ attempts'[c].file /\ attempts'[c].asset = "ready"
      BY DEF EvidenceKept
    <3>1. x # g /\ gaps[x] = "conflict"
      BY <2>6
    <3>2. PICK c \in Attempts : /\ attempts[c].state = "conflict" /\ x \in attempts[c].items
                              /\ attempts[c].file /\ attempts[c].asset = "ready"
      BY <3>1 DEF Parts, EvidenceKept
    <3>3. attempts'[c] = attempts[c]
      BY <2>4, <2>5, <3>2
    <3> QED
      BY <3>2, <3>3
  <2>13. OwnerFits'
    <3>1. owner.pc \in Preparing \cup Sent \cup {"unclaimed", "uncommitted", "cleanup_error", "cleanup_failed"} =>
            owner.att # a
      BY <2>2 DEF Parts, OwnerFits, Preparing, Sent, Ending
    <3> QED
      BY <1>3, <2>5, <3>1 DEF Parts, OwnerFits, Preparing, Sent, Ending
  <2>14. RequestsFit' /\ BilledOnce'
    <3>1. \A c \in Attempts : attempts'[c].req = attempts[c].req
      BY <2>4, <2>5
    <3>2. owner.pc = "call" => owner.att \in Attempts
      BY DEF Parts, OwnerFits, Sent
    <3> QED
      BY <1>3, <3>1, <3>2 DEF Parts, RequestsFit, BilledOnce
  <2>15. text' \in [Units -> Nat]
    BY <1>1, <1>5 DEF CreateUtterances
  <2>16. TypeOK'
    BY <1>1, <1>3, <2>5, <2>6, <2>10, <2>15 DEF Parts, TypeOK
  <2>17. \A c, d \in Running' : c = d
    BY <2>7 DEF Parts
  <2> QED
    BY <2>8, <2>9, <2>11, <2>12, <2>13, <2>14, <2>16, <2>17 DEF Parts
<1>6. UNCHANGED rows \/
      /\ gaps[g] = "conflict" /\ gaps' = [gaps EXCEPT ![g] = "completed"] /\ agg' = Aggregate(gaps')
      /\ \E added \in {NonOverlapping(attempts[a].cand, windows[r].existing)} : CreateUtterances(added)
      /\ \E cleaned \in BOOLEAN :
           attempts' = [attempts EXCEPT ![a] = SettledResolution(attempts[a], gaps', cleaned)]
  BY DEF ResolveGapConflict
<1> QED
  BY <1>4, <1>5, <1>6

-----------------------------------------------------------------------------
(* The recovery of a new process.                                          *)

LEMMA RecoverAttemptIsRow ==
  ASSUME NEW row \in Row
  PROVE  /\ RecoverAttempt(row) \in Row /\ RecoverAttempt(row).state = "failed"
         /\ RecoverAttempt(row).req = row.req /\ RecoverAttempt(row).file = row.file
         /\ RecoverAttempt(row).asset = row.asset
  BY DEF RecoverAttempt, Row

LEMMA RecoverInterruptedKeeps ==
  ASSUME Parts, RecoverInterrupted
  PROVE  Parts'
<1> DEFINE left == UNION {attempts[b].items : b \in Running}
<1>1. /\ attempts \in [Attempts -> Row] /\ gaps \in [Gaps -> GapStates] /\ agg \in GapStates \cup {"none"}
      /\ UNCHANGED <<text, owner, billed, windows>>
  BY DEF Parts, TypeOK, RecoverInterrupted
<1>2. \A x \in Gaps : x \in left <=> gaps[x] = "processing"
  BY DEF Parts, Held
<1>3. /\ gaps' = [x \in Gaps |-> IF x \in left THEN "failed" ELSE gaps[x]]
      /\ attempts' = [b \in Attempts |-> IF b \in Running THEN RecoverAttempt(attempts[b]) ELSE attempts[b]]
      /\ agg' = IF Running = {} THEN agg ELSE Aggregate(gaps')
  BY DEF RecoverInterrupted, SetGaps
<1> HIDE DEF left
<1>4. /\ gaps' \in [Gaps -> GapStates] /\ \A x \in Gaps : gaps'[x] # "processing"
      /\ \A x \in Gaps : gaps'[x] = "conflict" <=> gaps[x] = "conflict"
  BY <1>1, <1>2, <1>3 DEF GapStates
<1>5. /\ attempts' \in [Attempts -> Row]
      /\ \A b \in Attempts : attempts[b].state # "running" => attempts'[b] = attempts[b]
      /\ \A b \in Attempts : attempts[b].state = "running" => attempts'[b] = RecoverAttempt(attempts[b])
  BY <1>1, <1>3, RecoverAttemptIsRow DEF Running
<1>6. \A b \in Attempts : attempts'[b].req = attempts[b].req /\ attempts'[b].state # "running"
  BY <1>1, <1>5, RecoverAttemptIsRow
<1>7. Running' = {}
  BY <1>6 DEF Running
<1>8. agg' \in GapStates \cup {"none"} /\ AggregateCurrent'
  <2>1. CASE Running = {}
    <3>1. left = {}
      BY <2>1 DEF left
    <3>2. gaps' = gaps /\ agg' = agg
      BY <1>1, <1>3, <2>1, <3>1
    <3> QED
      BY <1>1, <2>1, <3>2 DEF Parts, AggregateCurrent, Aggregate
  <2>2. CASE Running # {}
    <3> DEFINE states == {gaps'[x] : x \in Gaps}
    <3>1. states \in SUBSET GapStates /\ ("conflict" \in states <=> \E x \in Gaps : gaps'[x] = "conflict")
      BY <1>4
    <3>2. agg' = AggregateState(states) /\ agg' = Aggregate(gaps')
      BY <1>3, <2>2 DEF Aggregate
    <3>3. agg' \in GapStates \cup {"none"} /\ (agg' = "conflict" <=> \E x \in Gaps : gaps'[x] = "conflict")
      BY <3>1, <3>2, AggregateOf
    <3> QED
      BY <3>2, <3>3 DEF AggregateCurrent, Aggregate
  <2> QED
    BY <2>1, <2>2
<1>9. EvidenceKept'
  BY <1>4, <1>5 DEF Parts, EvidenceKept
<1>10. OwnerFits'
  <2> DEFINE b == owner.att
  <2>1. owner' = owner
    BY <1>1
  <2>2. CASE owner.pc \notin Preparing \cup Sent \cup Ending
    BY <2>1, <2>2 DEF OwnerFits, Preparing, Sent, Ending
  <2>3. CASE owner.pc \in Preparing \cup Sent \cup Ending
    <3>1. b \in Attempts
      BY <2>3 DEF Parts, OwnerFits
    <3>2. CASE attempts[b].state # "running"
      <4>1. attempts'[b] = attempts[b]
        BY <1>5, <3>1, <3>2
      <4> QED
        BY <2>1, <4>1 DEF Parts, OwnerFits
    <3>3. CASE attempts[b].state = "running"
      <4>1. /\ attempts'[b].state = "failed" /\ attempts'[b].req = attempts[b].req
            /\ attempts'[b].file = attempts[b].file /\ attempts'[b].asset = attempts[b].asset
        BY <1>1, <1>5, <3>1, <3>3, RecoverAttemptIsRow
      <4> QED
        BY <2>1, <3>1, <3>3, <4>1 DEF Parts, OwnerFits
    <3> QED
      BY <3>2, <3>3
  <2> QED
    BY <2>2, <2>3
<1>11. RequestsFit' /\ BilledOnce'
  <2>1. owner.pc = "call" => owner.att \in Attempts
    BY DEF Parts, OwnerFits, Sent
  <2> QED
    BY <1>1, <1>6, <2>1 DEF Parts, RequestsFit, BilledOnce
<1>12. TypeOK'
  BY <1>1, <1>4, <1>5, <1>8 DEF Parts, TypeOK
<1> QED
  BY <1>4, <1>7, <1>8, <1>9, <1>10, <1>11, <1>12 DEF Parts

-----------------------------------------------------------------------------
LEMMA NextKeeps ==
  ASSUME Parts, [Next]_vars
  PROVE  Parts'
<1>1. CASE OwnerStep
  BY <1>1, OwnerStepsKeep, AgainKeeps, PlanSliceKeeps, RegisterGapAssetKeeps, ClaimGapAttemptKeeps, CleanupsKeep,
     TranscribeKeeps, FailuresKeep, CommitsKeep, CommitGapConflictKeeps, BeginningsKeep DEF OwnerStep
<1>2. CASE Next /\ ~OwnerStep
  BY <1>2, StopMeetingKeeps, RecoverInterruptedKeeps, BeginningsKeep, ResolveGapConflictKeeps, ReadConflictKeeps
     DEF Next
<1>3. CASE UNCHANGED vars
  <2>1. /\ UNCHANGED <<gaps, agg, attempts, text, billed, windows, owner>> /\ owner \in Owner
        /\ windows \in [Resolvers -> Window]
    BY <1>3 DEF vars, rows, Parts, TypeOK
  <2>2. OwnerFits'
    BY <2>1 DEF Parts, OwnerFits
  <2> QED
    BY <2>1, <2>2, OwnerOnly
<1> QED
  BY <1>1, <1>2, <1>3

(* For any gaps, request ids, windows and faults: a gap is processed       *)
(* exactly while one running attempt holds it, the state of the meeting    *)
(* tells what its gaps are, and a request id is paid for once.             *)
THEOREM RepairFits == Spec => []RepairInv
<1>1. Init => Parts
  BY InitHolds
<1>2. Parts /\ [Next]_vars => Parts'
  BY NextKeeps
<1>3. Parts => RepairInv
  BY PartsSuffice
<1> QED
  BY <1>1, <1>2, <1>3, PTL DEF Spec

(* However the owner, the host and the recovery interleave, a gap that is  *)
(* in conflict has the attempt, the candidates and the audio it is         *)
(* resolved with.                                                          *)
THEOREM EvidenceStays == Spec => []EvidenceKept
<1>1. Init => Parts
  BY InitHolds
<1>2. Parts /\ [Next]_vars => Parts'
  BY NextKeeps
<1>3. Parts => EvidenceKept
  BY PartsSuffice
<1> QED
  BY <1>1, <1>2, <1>3, PTL DEF Spec
-----------------------------------------------------------------------------
(* The text of a conflict: nobody but the host adds what it proposes.      *)

(* Of finitely many elements one has the greatest value.                   *)
LEMMA FiniteMax ==
  ASSUME NEW S, IsFiniteSet(S), S # {}, NEW f, \A x \in S : f[x] \in Nat
  PROVE  \E x \in S : \A y \in S : f[y] <= f[x]
<1> DEFINE Top(T) == \E x \in T : \A y \in T : f[y] <= f[x]
           Bad == {T \in SUBSET S : T # {} /\ ~Top(T)}
           Sizes == {Cardinality(T) : T \in Bad}
<1> SUFFICES ASSUME S \in Bad
             PROVE  FALSE
  OBVIOUS
<1>1. \A T \in SUBSET S : IsFiniteSet(T) /\ Cardinality(T) \in Nat
  BY FS_Subset, FS_CardinalityType
<1>2. Sizes \in SUBSET Nat /\ Sizes # {}
  BY <1>1
<1>3. PICK T \in Bad : \A U \in Bad : Cardinality(T) <= Cardinality(U)
  <2>1. Min(Sizes) \in Sizes /\ \A n \in Sizes : Min(Sizes) <= n
    BY <1>2, MinOf
  <2> QED
    BY <2>1
<1>4. PICK x \in T : TRUE
  BY <1>3
<1> DEFINE R == T \ {x}
<1>5. IsFiniteSet(R) /\ Cardinality(R) = Cardinality(T) - 1 /\ R \in SUBSET S
  BY <1>1, <1>3, <1>4, FS_RemoveElement
<1>6. R \notin Bad
  <2>1. Cardinality(R) < Cardinality(T) /\ ~ (Cardinality(T) <= Cardinality(R))
    BY <1>1, <1>3, <1>5
  <2> HIDE DEF Bad
  <2> QED
    BY <1>3, <2>1
<1>7. T \in SUBSET S /\ ~Top(T)
  BY <1>3
<1>8. CASE R = {}
  <2>1. T = {x} /\ f[x] \in Nat
    BY <1>4, <1>7, <1>8
  <2> QED
    BY <1>7, <2>1
<1>9. CASE Top(R)
  <2>1. PICK m \in R : \A y \in R : f[y] <= f[m]
    BY <1>9
  <2>2. m \in T /\ f[m] \in Nat /\ f[x] \in Nat
    BY <1>4, <1>7, <2>1
  <2>3. CASE f[x] <= f[m]
    BY <1>7, <2>1, <2>2, <2>3
  <2>4. CASE f[m] < f[x]
    <3>1. \A y \in R : f[y] <= f[x]
      BY <1>7, <2>1, <2>2, <2>4
    <3> QED
      BY <1>4, <1>7, <2>2, <3>1
  <2> QED
    BY <2>2, <2>3, <2>4
<1> QED
  BY <1>5, <1>6, <1>8, <1>9

UnitsOf(set) == UNION {From[g]..(To[g] - 1) : g \in set}
Overlap(g, h) == From[g] < To[h] /\ From[h] < To[g]
\* A set of gaps that holds every gap one of its gaps overlaps.
Joined(set) == \A g \in set, h \in Gaps : Overlap(g, h) => h \in set

(* What the first slice asks for belongs to the gaps it holds, and it      *)
(* holds a gap with those it overlaps.                                     *)
LEMMA SliceHolds ==
  ASSUME IsFiniteSet(Gaps), NEW S \in SUBSET Gaps, S # {}
  PROVE  /\ FirstSlice(S).core \in SUBSET UnitsOf(FirstSlice(S).items)
         /\ Joined(S) => Joined(FirstSlice(S).items)
<1> DEFINE starts == {From[g] : g \in S}
           start == Min(starts)
           last == {x \in S : \A y \in S : From[y] <= To[x] => To[y] <= To[x]}
           ends == {To[g] : g \in last} \ 0..start
           end == Min(ends)
<1>1. \A g \in S : From[g] \in Nat /\ To[g] \in Nat /\ From[g] < To[g]
  BY RangesAssumption DEF RangesAssumption
<1>2. start \in starts /\ \A x \in starts : start <= x
  <2>1. starts \in SUBSET Nat /\ starts # {}
    BY <1>1
  <2> QED
    BY <2>1, MinOf
<1>3. start \in Nat /\ \A g \in S : start <= From[g]
  BY <1>1, <1>2
<1> HIDE DEF start
<1>4. end \in Nat /\ end \in ends
  <2>1. IsFiniteSet(S)
    BY FS_Subset
  <2>2. PICK g \in S : \A y \in S : To[y] <= To[g]
    BY <1>1, <2>1, FiniteMax
  <2>6. To[g] \in ends
    BY <1>1, <1>3, <2>2
  <2>7. ends \in SUBSET Nat
    BY <1>1
  <2> QED
    BY <2>6, <2>7, MinOf
<1>5. /\ FirstSlice(S).core = start..((IF end < start + Limit THEN end ELSE start + Limit) - 1)
      /\ FirstSlice(S).items = {g \in S : From[g] < end}
  BY DEF FirstSlice, MergedEnd, start
<1>6. PICK x \in S : end = To[x] /\ \A y \in S : From[y] <= To[x] => To[y] <= To[x]
  BY <1>4
<1> HIDE DEF end
<1>7. ASSUME NEW u \in FirstSlice(S).core
      PROVE  u \in UnitsOf(FirstSlice(S).items)
  <2>1. u \in Int /\ u < end
    BY <1>3, <1>4, <1>5, RangesAssumption DEF RangesAssumption
  <2>2. PICK g \in S : From[g] <= u /\ u < To[g]
    BY SliceOf
  <2>3. g \in FirstSlice(S).items /\ u \in From[g]..(To[g] - 1)
    BY <1>1, <1>4, <1>5, <2>1, <2>2
  <2> QED
    BY <2>3 DEF UnitsOf
<1>8. ASSUME Joined(S), NEW g \in FirstSlice(S).items, NEW h \in Gaps, Overlap(g, h)
      PROVE  h \in FirstSlice(S).items
  <2>1. g \in S /\ h \in S /\ From[g] < end
    BY <1>5, <1>8 DEF Joined
  <2>2. To[g] <= end
    BY <1>1, <1>4, <1>6, <2>1
  <2>3. From[h] < end
    BY <1>1, <1>4, <1>8, <2>1, <2>2 DEF Overlap
  <2> QED
    BY <1>5, <2>1, <2>3
<1> QED
  BY <1>7, <1>8 DEF Joined

Decided == {"conflict", "completed"}

\* A slice asks for units of its gaps, and its candidates are units it asked for.
CoresFit == \A a \in Attempts : attempts[a].core \in SUBSET UnitsOf(attempts[a].items)
CandidatesFit == owner.pc \in {"look", "store", "conflict"} =>
    owner.cand \in SUBSET attempts[owner.att].core
\* The gaps of a conflict are claimed by nobody else.
ConflictsFit ==
    /\ \A a \in Attempts : attempts[a].state = "conflict" =>
         /\ attempts[a].cand \in SUBSET attempts[a].core
         /\ \A g \in attempts[a].items : gaps[g] \in Decided
    /\ \A a, b \in Attempts :
         /\ attempts[a].state = "conflict" /\ attempts[b].state = "conflict"
         /\ \E g \in Gaps : g \in attempts[a].items /\ g \in attempts[b].items
         => a = b
\* An open window knows every candidate that has an utterance.
WindowsFit == \A r \in Resolvers : windows[r].pc = "read" =>
    /\ gaps[windows[r].gap] \in Decided
    /\ \A a \in Attempts : attempts[a].state = "conflict" /\ windows[r].gap \in attempts[a].items =>
         \A u \in attempts[a].cand : text[u] > 0 => u \in windows[r].existing

\* Gaps that overlap are claimed together, and go on together until the host decides.
JoinedFit == Joined(Eligible) /\ \A a \in Attempts : Joined(attempts[a].items)
GapsApart == \A g, h \in Gaps : Overlap(g, h) => g = h
PicksFit == GapsApart \/ owner.sel = {}

OnceInv == Parts /\ TranscribedOnce /\ CoresFit /\ CandidatesFit /\ ConflictsFit /\ WindowsFit /\ JoinedFit /\ PicksFit

\* What the theorem asks of the constants: the host resolves conflicts in one window,
\* a meeting has finitely many gaps, and where two of them overlap (as the one a
\* crash leaves and one from before it do) no request of the host picks among them.
OneWindow == \A r, s \in Resolvers : r = s
NoPicks == IsFiniteSet(Gaps) /\ (GapsApart \/ Requests = {})

LEMMA UnitsApart ==
  ASSUME NEW S \in SUBSET Gaps, NEW T \in SUBSET Gaps, Joined(S), NEW u \in UnitsOf(S), u \in UnitsOf(T)
  PROVE  \E g \in Gaps : g \in S /\ g \in T
<1>1. PICK g \in S : u \in From[g]..(To[g] - 1)
  BY DEF UnitsOf
<1>2. PICK h \in T : u \in From[h]..(To[h] - 1)
  BY DEF UnitsOf
<1>3. From[g] \in Nat /\ To[g] \in Nat /\ From[h] \in Nat /\ To[h] \in Nat
  BY RangesAssumption DEF RangesAssumption
<1>4. Overlap(g, h)
  BY <1>1, <1>2, <1>3 DEF Overlap
<1> QED
  BY <1>4 DEF Joined

(* The host names no gap where he must not.                                *)
LEMMA PicksKeep ==
  ASSUME OnceInv, Parts', NoPicks, [Next]_vars
  PROVE  PicksFit'
<1> SUFFICES ASSUME ~GapsApart
             PROVE  owner'.sel = {}
  BY DEF PicksFit
<1>1. owner \in Owner /\ owner.sel = {} /\ Idle \in Owner /\ Idle.sel = {} /\ Requests = {}
  BY NoRowIsRow DEF OnceInv, Parts, TypeOK, PicksFit, NoPicks, Idle
<1> USE DEF At, Goto, Env, rows
<1>2. CASE LookupRequest \/ Again \/ PlanSlice \/ RegisterGapAsset \/ ClaimGapAttempt \/ CleanupUnclaimed
  BY <1>1, <1>2 DEF LookupRequest, Again, PlanSlice, RegisterGapAsset, ClaimGapAttempt, CleanupUnclaimed, Gives, Owner
<1>3. CASE Transcribe \/ FailGapAttempt \/ CleanupFailed \/ CommitNoSpeech \/ ListOverlaps
  BY <1>1, <1>3 DEF Transcribe, FailGapAttempt, CleanupFailed, Cleanup, CommitNoSpeech, ListOverlaps, Gives, Owner
<1>4. CASE CommitCompensation \/ CommitGapConflict \/ FlushRawRecord \/ SettledSlice \/ Uncommitted \/ CleanupError
  BY <1>1, <1>4 DEF CommitCompensation, CommitGapConflict, FlushRawRecord, SettledSlice, Uncommitted, CleanupError,
                    Cleanup, Gives, Owner
<1>5. CASE SyncFinal \/ FinishOwner \/ StopMeeting \/ RecoverInterrupted \/ Crash \/ UNCHANGED vars
  BY <1>1, <1>5 DEF SyncFinal, FinishOwner, StopMeeting, RecoverInterrupted, Crash, vars, Owner
<1>6. CASE Trigger(NoRequest, {})
  <2>1. [Idle EXCEPT !.pc = "lookup", !.req = NoRequest, !.sel = {}].sel = {}
    BY <1>1 DEF Owner
  <2> QED
    BY <1>6, <2>1 DEF Trigger
<1>7. CASE \E r \in Resolvers : ResolveGapConflict(r) \/ \E g \in Gaps : ReadConflict(r, g)
  BY <1>1, <1>7 DEF ResolveGapConflict, ReadConflict
<1> QED
  BY <1>1, <1>2, <1>3, <1>4, <1>5, <1>6, <1>7 DEF Next, OwnerStep

(* What is decided stays, and gaps that overlap stay together.             *)
GapsGoOn == (\A g \in Gaps : gaps[g] \in Decided => gaps'[g] \in Decided) /\ Joined(Eligible)'

(* A row goes on with its slice, and becomes no evidence.                  *)
Carries(a) == /\ attempts'[a].items = attempts[a].items /\ attempts'[a].core = attempts[a].core
              /\ attempts'[a].state = "conflict" =>
                   attempts[a].state = "conflict" /\ attempts'[a].cand = attempts[a].cand
(* A row is cut, which is no evidence.                                     *)
Cut(a) == /\ attempts'[a].state # "conflict" /\ attempts'[a].core \in SUBSET UnitsOf(attempts'[a].items)
          /\ Joined(attempts'[a].items)
(* Evidence is still free where it was.                                    *)
TextStays == \A a \in Attempts : attempts[a].state = "conflict" =>
    \A u \in attempts[a].cand : text'[u] = text[u]

LEMMA OnceFrame ==
  ASSUME OnceInv, Parts', PicksFit', TranscribedOnce', CandidatesFit',
         \A a \in Attempts : Carries(a) \/ Cut(a),
         GapsGoOn,
         \A r \in Resolvers : windows'[r] = Closed \/ (windows'[r] = windows[r] /\ TextStays)
  PROVE  OnceInv'
<1>1. attempts \in [Attempts -> Row] /\ windows \in [Resolvers -> Window] /\ Closed.pc # "read"
  BY DEF OnceInv, Parts, TypeOK, Closed
<1>2. \A a \in Attempts : attempts[a].items \in SUBSET Gaps
  BY <1>1, RowFields
<1>3. \A a \in Attempts : attempts'[a].state = "conflict" =>
        /\ attempts[a].state = "conflict" /\ attempts'[a].cand = attempts[a].cand
        /\ attempts'[a].items = attempts[a].items /\ attempts'[a].core = attempts[a].core
  BY DEF Carries, Cut
<1>4. CoresFit'
  BY DEF OnceInv, CoresFit, Carries, Cut, UnitsOf
<1>5. ConflictsFit'
  <2>1. \A a \in Attempts : attempts'[a].state = "conflict" =>
          /\ attempts'[a].cand \in SUBSET attempts'[a].core
          /\ \A g \in attempts'[a].items : gaps'[g] \in Decided
    BY <1>2, <1>3 DEF OnceInv, ConflictsFit, GapsGoOn
  <2>2. \A a, b \in Attempts :
          /\ attempts'[a].state = "conflict" /\ attempts'[b].state = "conflict"
          /\ \E g \in Gaps : g \in attempts'[a].items /\ g \in attempts'[b].items
          => a = b
    BY <1>3 DEF OnceInv, ConflictsFit
  <2> QED
    BY <2>1, <2>2 DEF ConflictsFit, Decided
<1>6. WindowsFit'
  <2> SUFFICES ASSUME NEW r \in Resolvers, windows'[r].pc = "read"
               PROVE  /\ gaps'[windows'[r].gap] \in Decided
                      /\ \A a \in Attempts : attempts'[a].state = "conflict" /\ windows'[r].gap \in attempts'[a].items =>
                           \A u \in attempts'[a].cand : text'[u] > 0 => u \in windows'[r].existing
    BY DEF WindowsFit, Decided
  <2>1. windows'[r] = windows[r] /\ TextStays
    BY <1>1
  <2>2. windows[r].gap \in Gaps
    BY <1>1, <2>1 DEF Window, Closed
  <2>3. gaps'[windows'[r].gap] \in Decided
    BY <2>1, <2>2 DEF OnceInv, WindowsFit, GapsGoOn
  <2> QED
    BY <1>3, <2>1, <2>3 DEF OnceInv, WindowsFit, TextStays
<1>7. JoinedFit'
  BY DEF OnceInv, JoinedFit, GapsGoOn, Carries, Cut, Joined
<1> QED
  BY <1>4, <1>5, <1>6, <1>7 DEF OnceInv

States == {"none", "running", "completed", "failed", "conflict"}
Same(v, row) == v.items = row.items /\ v.core = row.core /\ v.cand = row.cand /\ v.state = row.state
(* The fields of a row that is changed.                                    *)
LEMMA RowCarries ==
  ASSUME NEW row \in Row
  PROVE  /\ Same([row EXCEPT !.file = FALSE], row) /\ Same(Deleted(row), row)
         /\ Same([row EXCEPT !.asset = "ready"], row)
         /\ \A w \in {"none", "ready", "deleted"} : Same([row EXCEPT !.file = FALSE, !.asset = w], row)
         /\ \A s \in States : LET v == [row EXCEPT !.state = s] IN
              v.items = row.items /\ v.core = row.core /\ v.state = s
         /\ \A s \in States, c \in SUBSET Units : LET v == [row EXCEPT !.state = s, !.cand = c] IN
              v.items = row.items /\ v.core = row.core /\ v.cand = c /\ v.state = s
         /\ LET v == RecoverAttempt(row) IN v.items = row.items /\ v.core = row.core /\ v.state = "failed"
  BY DEF Row, Deleted, RecoverAttempt, Same, States

LEMMA GapsSame ==
  ASSUME OnceInv, UNCHANGED gaps
  PROVE  GapsGoOn
  BY DEF OnceInv, JoinedFit, GapsGoOn, Joined, Eligible

(* The gaps of one slice go on together; one that was eligible, or is      *)
(* processed, holds no decided gap.                                        *)
LEMMA SliceGoesOn ==
  ASSUME OnceInv, NEW S \in SUBSET Gaps, Joined(S), NEW s, SetGaps(S, s),
         s \in Decided \/ \A g \in S : gaps[g] \notin Decided
  PROVE  GapsGoOn
<1>1. \A g \in Gaps : gaps'[g] = IF g \in S THEN s ELSE gaps[g]
  BY DEF SetGaps
<1>2. \A g \in Gaps : gaps[g] \in Decided => gaps'[g] \in Decided
  BY <1>1
<1>3. \A g, h \in Gaps : Overlap(g, h) => Overlap(h, g)
  BY DEF Overlap
<1>4. Joined(Eligible)'
  <2> SUFFICES ASSUME NEW g \in Gaps, gaps'[g] \in {"pending", "failed"}, NEW h \in Gaps, Overlap(g, h)
               PROVE  gaps'[h] \in {"pending", "failed"}
    BY DEF Joined, Eligible
  <2>1. g \in S <=> h \in S
    BY <1>3 DEF Joined
  <2>2. CASE g \in S
    BY <1>1, <2>1, <2>2
  <2>3. CASE g \notin S
    BY <1>1, <2>1, <2>3 DEF OnceInv, JoinedFit, Joined, Eligible
  <2> QED
    BY <2>2, <2>3
<1> QED
  BY <1>2, <1>4 DEF GapsGoOn

LEMMA RowGoesOn ==
  ASSUME OnceInv, NEW a \in Attempts
  PROVE  attempts[a].items \in SUBSET Gaps /\ Joined(attempts[a].items)
  BY RowFields DEF OnceInv, Parts, TypeOK, JoinedFit

-----------------------------------------------------------------------------
(* The owner and the windows, while no gap, row or utterance changes.      *)

LEMMA AsideKeepsOnce ==
  ASSUME OnceInv, Parts', PicksFit', UNCHANGED <<gaps, attempts, text>>, CandidatesFit',
         \A r \in Resolvers : windows'[r] = Closed \/ windows'[r] = windows[r]
  PROVE  OnceInv'
<1>1. \A a \in Attempts : Carries(a)
  BY DEF Carries
<1>2. TextStays /\ TranscribedOnce'
  BY DEF TextStays, OnceInv, TranscribedOnce
<1> QED
  BY <1>1, <1>2, GapsSame, OnceFrame

LEMMA QuietStepsKeepOnce ==
  ASSUME OnceInv, Parts', PicksFit',
         \/ LookupRequest \/ Again \/ ListOverlaps \/ FlushRawRecord \/ SyncFinal \/ FinishOwner \/ StopMeeting
         \/ Crash \/ \E r \in Requests \cup {NoRequest}, sel \in SUBSET Gaps : Trigger(r, sel)
  PROVE  OnceInv'
<1> USE DEF At, Goto, Env, rows
<1>1. owner \in Owner /\ windows \in [Resolvers -> Window] /\ CandidatesFit
  BY DEF OnceInv, Parts, TypeOK
<1>2. UNCHANGED <<gaps, attempts, text>>
  BY DEF LookupRequest, Again, ListOverlaps, FlushRawRecord, SyncFinal, FinishOwner, StopMeeting, Crash, Trigger
<1>3. \A r \in Resolvers : windows'[r] = Closed \/ windows'[r] = windows[r]
  BY <1>1 DEF LookupRequest, Again, ListOverlaps, FlushRawRecord, SyncFinal, FinishOwner, StopMeeting, Crash, Trigger
<1>4. \/ owner'.pc \notin {"look", "store", "conflict"}
      \/ /\ owner.pc \in {"look", "store", "conflict"}
         /\ owner'.att = owner.att /\ owner'.cand = owner.cand
  <2>1. CASE LookupRequest \/ Again \/ FlushRawRecord \/ SyncFinal
    BY <1>1, <2>1 DEF LookupRequest, Again, FlushRawRecord, SyncFinal, Owner
  <2>2. CASE ListOverlaps \/ StopMeeting
    BY <1>1, <2>2 DEF ListOverlaps, StopMeeting, Owner
  <2>3. CASE \/ FinishOwner \/ Crash
             \/ \E r \in Requests \cup {NoRequest}, sel \in SUBSET Gaps : Trigger(r, sel)
    <3>1. Idle \in Owner /\ Idle.pc = "none"
      BY NoRowIsRow DEF Idle
    <3>2. CASE FinishOwner \/ Crash
      BY <3>1, <3>2 DEF FinishOwner, Crash
    <3>3. CASE \E r \in Requests \cup {NoRequest}, sel \in SUBSET Gaps : Trigger(r, sel)
      <4>1. PICK r \in Requests \cup {NoRequest}, sel \in SUBSET Gaps :
              owner' = [Idle EXCEPT !.pc = "lookup", !.req = r, !.sel = sel]
        BY <3>3 DEF Trigger
      <4>2. owner'.pc = "lookup"
        BY <3>1, <4>1 DEF Owner
      <4> QED
        BY <4>2
    <3> QED
      BY <2>3, <3>2, <3>3
  <2> QED
    BY <2>1, <2>2, <2>3
<1>5. CandidatesFit'
  BY <1>1, <1>2, <1>4 DEF CandidatesFit
<1> QED
  BY <1>2, <1>3, <1>5, AsideKeepsOnce

LEMMA TranscribeKeepsOnce ==
  ASSUME OnceInv, Parts', PicksFit', Transcribe
  PROVE  OnceInv'
<1> USE DEF At, Goto, rows
<1>1. owner \in Owner /\ owner.att \in Attempts
  BY DEF OnceInv, Parts, TypeOK, OwnerFits, Sent, Transcribe
<1>2. UNCHANGED <<gaps, attempts, text, windows>>
  BY DEF Transcribe
<1>3. \/ owner'.pc \in {"fail", "silence"}
      \/ owner'.att = owner.att /\ owner'.cand \in SUBSET attempts[owner.att].core
  BY <1>1 DEF Transcribe, Candidates, Owner
<1>4. CandidatesFit'
  BY <1>2, <1>3 DEF CandidatesFit
<1> QED
  BY <1>2, <1>4, AsideKeepsOnce

-----------------------------------------------------------------------------
(* Rows and gaps, while no utterance is added.                             *)

(* The owner writes its row and goes where it has no candidates.           *)
LEMMA RowKeepsOnce ==
  ASSUME OnceInv, Parts', PicksFit', NEW a \in Attempts, NEW new, attempts' = [attempts EXCEPT ![a] = new],
         UNCHANGED <<text, windows>>, owner'.pc \notin {"look", "store", "conflict"},
         GapsGoOn,
         \/ /\ new.items = attempts[a].items /\ new.core = attempts[a].core
            /\ new.state = "conflict" => attempts[a].state = "conflict" /\ new.cand = attempts[a].cand
         \/ new.state # "conflict" /\ new.core \in SUBSET UnitsOf(new.items) /\ Joined(new.items)
  PROVE  OnceInv'
<1>1. attempts'[a] = new /\ \A b \in Attempts \ {a} : attempts'[b] = attempts[b]
  BY DEF OnceInv, Parts, TypeOK
<1>2. \A b \in Attempts : Carries(b) \/ Cut(b)
  BY <1>1 DEF Carries, Cut
<1>3. TextStays /\ TranscribedOnce' /\ CandidatesFit'
  BY DEF TextStays, OnceInv, TranscribedOnce, CandidatesFit
<1> QED
  BY <1>2, <1>3, OnceFrame

LEMMA PlanSliceKeepsOnce ==
  ASSUME OnceInv, Parts', PicksFit', PlanSlice, NoPicks
  PROVE  OnceInv'
<1> USE DEF At, Goto, Env, rows
<1> DEFINE a == Min(NewFrom)
           new == Extracted(FirstSlice(Chosen))
<1>1. owner.pc = "plan" /\ owner \in Owner
  BY DEF PlanSlice, OnceInv, Parts, TypeOK
<1>2. \/ \E p \in {"sync", "finish"} : /\ owner' = [owner EXCEPT !.pc = p]
                                  /\ UNCHANGED <<gaps, attempts, text, windows>>
      \/ /\ Eligible # {} /\ Selectable /\ NewFrom # {} /\ attempts' = [attempts EXCEPT ![a] = new]
         /\ owner' = [owner EXCEPT !.pc = "register", !.att = a]
         /\ UNCHANGED <<gaps, text, windows>>
  BY DEF PlanSlice, Gives
<1>3. CASE \E p \in {"sync", "finish"} : /\ owner' = [owner EXCEPT !.pc = p]
                                   /\ UNCHANGED <<gaps, attempts, text, windows>>
  <2>1. owner'.pc \notin {"look", "store", "conflict"}
    BY <1>1, <1>3 DEF Owner
  <2> QED
    BY <1>3, <2>1, AsideKeepsOnce DEF CandidatesFit
<1>4. CASE /\ Eligible # {} /\ Selectable /\ NewFrom # {} /\ attempts' = [attempts EXCEPT ![a] = new]
           /\ owner' = [owner EXCEPT !.pc = "register", !.att = a]
           /\ UNCHANGED <<gaps, text, windows>>
  <2>1. a \in Attempts
    <3>1. NewFrom \in SUBSET Nat
      BY NoAttemptIsNone DEF NewFrom
    <3>2. a \in NewFrom
      BY <1>4, <3>1, MinOf
    <3> QED
      BY <3>2 DEF NewFrom
  <2>2. Chosen \in SUBSET Gaps /\ Chosen # {}
    BY <1>1, <1>4 DEF Chosen, Selectable, Eligible
  <2>3. Joined(Chosen)
    BY <2>2 DEF Chosen, Joined, OnceInv, JoinedFit, PicksFit, GapsApart
  <2>7. /\ FirstSlice(Chosen).core \in SUBSET UnitsOf(FirstSlice(Chosen).items)
        /\ Joined(FirstSlice(Chosen).items)
    BY <2>2, <2>3, SliceHolds DEF NoPicks
  <2>4. /\ new.state = "none" /\ new.items = FirstSlice(Chosen).items
        /\ new.core = FirstSlice(Chosen).core
    <3> HIDE DEF FirstSlice
    <3> QED
      BY DEF Extracted, NoRow
  <2>5. new.state # "conflict" /\ new.core \in SUBSET UnitsOf(new.items) /\ Joined(new.items)
    BY <2>4, <2>7
  <2>6. owner'.pc \notin {"look", "store", "conflict"}
    BY <1>1, <1>4 DEF Owner
  <2> HIDE DEF a, new
  <2> QED
    BY <1>4, <2>1, <2>5, <2>6, GapsSame, RowKeepsOnce
<1> QED
  BY <1>2, <1>3, <1>4

LEMMA RegisterKeepsOnce ==
  ASSUME OnceInv, Parts', PicksFit', RegisterGapAsset
  PROVE  OnceInv'
<1> DEFINE a == owner.att
<1>1. owner \in Owner /\ attempts \in [Attempts -> Row] /\ a \in Attempts
  BY DEF OnceInv, Parts, TypeOK, OwnerFits, Preparing, RegisterGapAsset, At
<1>2. /\ UNCHANGED <<gaps, text, windows>> /\ owner'.pc \in {"claim", "finish"}
      /\ attempts' \in {[attempts EXCEPT ![a] = [attempts[a] EXCEPT !.asset = "ready"]],
                        [attempts EXCEPT ![a] = [attempts[a] EXCEPT !.file = FALSE]]}
  BY <1>1 DEF RegisterGapAsset, Env, Goto, Owner
<1>3. attempts[a] \in Row
  BY <1>1
<1>4. PICK new : attempts' = [attempts EXCEPT ![a] = new] /\ Same(new, attempts[a])
  BY <1>2, <1>3, RowCarries
<1> QED
  BY <1>1, <1>2, <1>4, GapsSame, RowKeepsOnce DEF Same

LEMMA CleanupsKeepOnce ==
  ASSUME OnceInv, Parts', PicksFit', CleanupUnclaimed \/ CleanupFailed \/ CleanupError \/ SettledSlice
  PROVE  OnceInv'
<1> DEFINE a == owner.att
           row == attempts[a]
<1>1. owner \in Owner /\ attempts \in [Attempts -> Row] /\ a \in Attempts
  BY DEF OnceInv, Parts, TypeOK, OwnerFits, Ending, CleanupUnclaimed, CleanupFailed, CleanupError, Cleanup,
         SettledSlice, At
<1>2. row \in Row /\ row.asset \in {"none", "ready", "deleted"}
  BY <1>1, RowFields
<1>3. UNCHANGED <<gaps, text, windows>>
  BY DEF CleanupUnclaimed, CleanupFailed, CleanupError, Cleanup, SettledSlice, Env
<1>4. owner'.pc \notin {"look", "store", "conflict"}
  BY <1>1 DEF CleanupUnclaimed, CleanupFailed, CleanupError, Cleanup, SettledSlice, Goto, Owner
<1>5. \/ UNCHANGED attempts
      \/ attempts' = [attempts EXCEPT ![a] = Deleted(row)]
      \/ attempts' = [attempts EXCEPT ![a] =
           [row EXCEPT !.file = FALSE, !.asset = IF owner.cancelled THEN row.asset ELSE "deleted"]]
  BY <1>1 DEF CleanupUnclaimed, CleanupFailed, CleanupError, Cleanup, SettledSlice
<1>6. CASE UNCHANGED attempts
  BY <1>3, <1>4, <1>6, AsideKeepsOnce DEF CandidatesFit
<1>7. CASE \E new : attempts' = [attempts EXCEPT ![a] = new] /\ Same(new, row)
  BY <1>1, <1>3, <1>4, <1>7, GapsSame, RowKeepsOnce DEF Same
<1>8. \/ UNCHANGED attempts
      \/ \E new : attempts' = [attempts EXCEPT ![a] = new] /\ Same(new, row)
  <2> HIDE DEF row
  <2> DEFINE w == IF owner.cancelled THEN row.asset ELSE "deleted"
  <2>1. w \in {"none", "ready", "deleted"}
    BY <1>2
  <2>2. \/ UNCHANGED attempts
        \/ attempts' = [attempts EXCEPT ![a] = Deleted(row)]
        \/ attempts' = [attempts EXCEPT ![a] = [row EXCEPT !.file = FALSE, !.asset = w]]
    BY <1>5
  <2> HIDE DEF w
  <2>3. Same(Deleted(row), row) /\ Same([row EXCEPT !.file = FALSE, !.asset = w], row)
    BY <1>2, <2>1, RowCarries
  <2> QED
    BY <2>2, <2>3
<1> QED
  BY <1>6, <1>7, <1>8

LEMMA ClaimKeepsOnce ==
  ASSUME OnceInv, Parts', PicksFit', ClaimGapAttempt
  PROVE  OnceInv'
<1> DEFINE a == owner.att
           new == [attempts[a] EXCEPT !.state = "running", !.req = owner.req]
<1>1. /\ owner \in Owner /\ attempts \in [Attempts -> Row] /\ a \in Attempts /\ gaps \in [Gaps -> GapStates]
  BY DEF OnceInv, Parts, TypeOK, OwnerFits, Preparing, ClaimGapAttempt, At
<1>2. /\ UNCHANGED <<text, windows>> /\ owner'.pc \in {"call", "unclaimed"}
      /\ \/ UNCHANGED <<gaps, attempts>>
         \/ /\ attempts[a].items \subseteq Eligible /\ SetGaps(attempts[a].items, "processing")
            /\ attempts' = [attempts EXCEPT ![a] = new]
  BY <1>1 DEF ClaimGapAttempt, Gives, Env, Goto, rows, Owner
<1>3. CASE UNCHANGED <<gaps, attempts>>
  BY <1>2, <1>3, AsideKeepsOnce DEF CandidatesFit
<1>4. CASE /\ attempts[a].items \subseteq Eligible /\ SetGaps(attempts[a].items, "processing")
           /\ attempts' = [attempts EXCEPT ![a] = new]
  <2>1. new.items = attempts[a].items /\ new.core = attempts[a].core /\ new.state = "running"
    <3>1. attempts[a] \in Row
      BY <1>1
    <3> QED
      BY <3>1 DEF Row
  <2>2. \A g \in attempts[a].items : gaps[g] \notin Decided
    BY <1>4 DEF Eligible, Decided
  <2>3. GapsGoOn
    BY <1>1, <1>4, <2>2, RowGoesOn, SliceGoesOn
  <2> HIDE DEF new
  <2> QED
    BY <1>1, <1>2, <1>4, <2>1, <2>3, RowKeepsOnce
<1> QED
  BY <1>2, <1>3, <1>4

LEMMA SettlingsKeepOnce ==
  ASSUME OnceInv, Parts', PicksFit', FailGapAttempt \/ Uncommitted \/ CommitNoSpeech
  PROVE  OnceInv'
<1> DEFINE a == owner.att
<1>1. /\ owner \in Owner /\ attempts \in [Attempts -> Row] /\ a \in Attempts /\ gaps \in [Gaps -> GapStates]
  BY DEF OnceInv, Parts, TypeOK, OwnerFits, Sent, Ending, FailGapAttempt, Uncommitted, CommitNoSpeech, At
<1>2. UNCHANGED <<text, windows>>
  BY DEF FailGapAttempt, Uncommitted, CommitNoSpeech, Gives, Env, rows
<1>3. owner'.pc \notin {"look", "store", "conflict"}
  BY <1>1 DEF FailGapAttempt, Uncommitted, CommitNoSpeech, Gives, Goto, Owner
<1>4. \/ UNCHANGED <<gaps, attempts>>
      \/ \E s \in {"failed", "completed"} : Held(a) /\ SetGaps(attempts[a].items, s) /\ SetState(a, s)
  BY DEF FailGapAttempt, Uncommitted, CommitNoSpeech, Gives, rows, Settle
<1>5. CASE UNCHANGED <<gaps, attempts>>
  BY <1>2, <1>3, <1>5, AsideKeepsOnce DEF CandidatesFit
<1>6. CASE \E s \in {"failed", "completed"} : Held(a) /\ SetGaps(attempts[a].items, s) /\ SetState(a, s)
  <2>1. PICK s \in {"failed", "completed"} : Held(a) /\ SetGaps(attempts[a].items, s) /\ SetState(a, s)
    BY <1>6
  <2> DEFINE new == [attempts[a] EXCEPT !.state = s]
  <2>2. new.items = attempts[a].items /\ new.core = attempts[a].core /\ new.state = s
    <3>1. attempts[a] \in Row /\ s \in States
      BY <1>1 DEF States
    <3> QED
      BY <3>1, RowCarries
  <2>3. attempts' = [attempts EXCEPT ![a] = new]
    BY <1>1, <2>1 DEF SetState
  <2>4. \A g \in attempts[a].items : gaps[g] \notin Decided
    BY <2>1 DEF Held, Decided
  <2>5. GapsGoOn
    BY <1>1, <2>1, <2>4, RowGoesOn, SliceGoesOn
  <2> HIDE DEF new
  <2> QED
    BY <1>1, <1>2, <1>3, <2>1, <2>2, <2>3, <2>5, RowKeepsOnce
<1> QED
  BY <1>4, <1>5, <1>6

LEMMA RecoverKeepsOnce ==
  ASSUME OnceInv, Parts', PicksFit', RecoverInterrupted
  PROVE  OnceInv'
<1> DEFINE left == UNION {attempts[b].items : b \in Running}
<1>1. /\ attempts \in [Attempts -> Row] /\ gaps \in [Gaps -> GapStates] /\ UNCHANGED <<text, owner, windows>>
      /\ SetGaps(left, "failed")
      /\ attempts' = [b \in Attempts |-> IF b \in Running THEN RecoverAttempt(attempts[b]) ELSE attempts[b]]
  BY DEF OnceInv, Parts, TypeOK, RecoverInterrupted
<1>2. \A g \in left : gaps[g] \notin Decided
  BY DEF OnceInv, Parts, Held, Decided
<1>3. GapsGoOn
  <2>1. \A b \in Running : b \in Attempts
    BY DEF Running
  <2>2. left \in SUBSET Gaps /\ Joined(left)
    BY <2>1, RowGoesOn DEF Joined
  <2> QED
    BY <1>1, <1>2, <2>2, SliceGoesOn
<1>4. \A b \in Attempts : /\ attempts'[b].items = attempts[b].items /\ attempts'[b].core = attempts[b].core
                          /\ attempts'[b].state # "failed" => attempts'[b] = attempts[b]
  BY <1>1, RowCarries
<1>5. \A b \in Attempts : Carries(b)
  BY <1>4 DEF Carries
<1>6. TextStays /\ TranscribedOnce'
  BY <1>1 DEF TextStays, OnceInv, TranscribedOnce
<1>7. CandidatesFit'
  <2>1. owner.pc \in {"look", "store", "conflict"} => owner.att \in Attempts
    BY DEF OnceInv, Parts, OwnerFits, Sent
  <2> QED
    BY <1>1, <1>4, <2>1 DEF OnceInv, CandidatesFit
<1> QED
  BY <1>1, <1>3, <1>5, <1>6, <1>7, OnceFrame

-----------------------------------------------------------------------------
(* Utterances are added, and conflicts made, read and resolved.            *)

(* What is being processed has no unit in common with a conflict.          *)
LEMMA HeldApart ==
  ASSUME OnceInv, NEW a \in Attempts, Held(a), NEW b \in Attempts, attempts[b].state = "conflict",
         NEW u \in attempts[a].core
  PROVE  u \notin attempts[b].cand
<1> SUFFICES ASSUME u \in attempts[b].cand
             PROVE  FALSE
  OBVIOUS
<1>1. attempts[a].items \in SUBSET Gaps /\ attempts[b].items \in SUBSET Gaps
  BY RowFields DEF OnceInv, Parts, TypeOK
<1>2. u \in UnitsOf(attempts[a].items) /\ u \in UnitsOf(attempts[b].items)
  BY DEF OnceInv, CoresFit, ConflictsFit
<1>3. PICK g \in Gaps : g \in attempts[a].items /\ g \in attempts[b].items
  BY <1>1, <1>2, RowGoesOn, UnitsApart
<1>4. gaps[g] = "processing" /\ gaps[g] \in Decided
  BY <1>3 DEF Held, OnceInv, ConflictsFit
<1> QED
  BY <1>4 DEF Decided

LEMMA CompensationKeepsOnce ==
  ASSUME OnceInv, Parts', PicksFit', CommitCompensation
  PROVE  OnceInv'
<1> DEFINE a == owner.att
           new == [attempts[a] EXCEPT !.state = "completed"]
<1>1. /\ owner \in Owner /\ attempts \in [Attempts -> Row] /\ a \in Attempts /\ gaps \in [Gaps -> GapStates]
      /\ text \in [Units -> Nat] /\ owner.cand \in SUBSET attempts[a].core /\ owner.pc = "store"
  BY DEF OnceInv, Parts, TypeOK, OwnerFits, Sent, CommitCompensation, At, CandidatesFit
<1>2. /\ UNCHANGED windows
      /\ \/ /\ UNCHANGED <<gaps, attempts, text>>
            /\ owner'.pc \in {"conflict", "uncommitted"} /\ owner'.att = a /\ owner'.cand = owner.cand
         \/ /\ Held(a) /\ ~HasOverlap(owner.cand) /\ SetGaps(attempts[a].items, "completed")
            /\ attempts' = [attempts EXCEPT ![a] = new] /\ CreateUtterances(owner.cand) /\ owner'.pc = "flush"
  BY <1>1 DEF CommitCompensation, Gives, Env, Goto, rows, Owner, Settle, SetState
<1>3. CASE UNCHANGED <<gaps, attempts, text>> /\ owner'.pc \in {"conflict", "uncommitted"} /\ owner'.att = a
           /\ owner'.cand = owner.cand
  <2>1. CandidatesFit'
    BY <1>1, <1>3 DEF CandidatesFit
  <2> QED
    BY <1>2, <1>3, <2>1, AsideKeepsOnce
<1>4. CASE /\ Held(a) /\ ~HasOverlap(owner.cand) /\ SetGaps(attempts[a].items, "completed")
           /\ attempts' = [attempts EXCEPT ![a] = new] /\ CreateUtterances(owner.cand) /\ owner'.pc = "flush"
  <2>1. new.items = attempts[a].items /\ new.core = attempts[a].core /\ new.state = "completed"
    <3>1. attempts[a] \in Row
      BY <1>1
    <3> QED
      BY <3>1 DEF Row
  <2> HIDE DEF new
  <2>2. \A b \in Attempts : Carries(b)
    <3>1. attempts'[a] = new /\ \A b \in Attempts \ {a} : attempts'[b] = attempts[b]
      BY <1>1, <1>4
    <3> QED
      BY <2>1, <3>1 DEF Carries
  <2>3. GapsGoOn
    BY <1>1, <1>4, RowGoesOn, SliceGoesOn DEF Decided
  <2>4. \A u \in Units : text'[u] = text[u] + (IF u \in owner.cand THEN 1 ELSE 0)
    BY <1>4 DEF CreateUtterances
  <2>5. TranscribedOnce'
    <3>1. \A u \in owner.cand : ~ (text[u] > 0)
      BY <1>4 DEF HasOverlap
    <3> QED
      BY <1>1, <2>4, <3>1 DEF OnceInv, TranscribedOnce
  <2>6. TextStays
    <3> SUFFICES ASSUME NEW b \in Attempts, attempts[b].state = "conflict", NEW u \in attempts[b].cand
                 PROVE  text'[u] = text[u]
      BY DEF TextStays
    <3>1. u \notin owner.cand
      BY <1>1, <1>4, HeldApart
    <3>2. u \in Units
      BY <1>1, RowFields
    <3> QED
      BY <1>1, <2>4, <3>1, <3>2
  <2>7. CandidatesFit'
    BY <1>4 DEF CandidatesFit
  <2> QED
    BY <1>2, <2>2, <2>3, <2>5, <2>6, <2>7, OnceFrame
<1> QED
  BY <1>2, <1>3, <1>4

LEMMA ConflictKeepsOnce ==
  ASSUME OnceInv, Parts', PicksFit', CommitGapConflict
  PROVE  OnceInv'
<1> DEFINE a == owner.att
           new == [attempts[a] EXCEPT !.state = "conflict", !.cand = owner.cand]
<1>1. /\ owner \in Owner /\ attempts \in [Attempts -> Row] /\ a \in Attempts /\ gaps \in [Gaps -> GapStates]
      /\ owner.cand \in SUBSET attempts[a].core /\ owner.pc = "conflict" /\ windows \in [Resolvers -> Window]
  BY DEF OnceInv, Parts, TypeOK, OwnerFits, Sent, CommitGapConflict, At, CandidatesFit
<1>2. /\ UNCHANGED <<text, windows>> /\ owner'.pc \in {"flush", "uncommitted"}
      /\ \/ UNCHANGED <<gaps, attempts>>
         \/ /\ Held(a) /\ SetGaps(attempts[a].items, "conflict") /\ attempts' = [attempts EXCEPT ![a] = new]
  BY <1>1 DEF CommitGapConflict, Gives, Env, Goto, rows, Owner
<1>3. CASE UNCHANGED <<gaps, attempts>>
  BY <1>2, <1>3, AsideKeepsOnce DEF CandidatesFit
<1>4. CASE Held(a) /\ SetGaps(attempts[a].items, "conflict") /\ attempts' = [attempts EXCEPT ![a] = new]
  <2>1. /\ new.items = attempts[a].items /\ new.core = attempts[a].core /\ new.state = "conflict"
        /\ new.cand = owner.cand
    <3>1. attempts[a] \in Row
      BY <1>1
    <3> QED
      BY <3>1 DEF Row
  <2> HIDE DEF new
  <2>2. attempts'[a] = new /\ \A b \in Attempts \ {a} : attempts'[b] = attempts[b]
    BY <1>1, <1>4
  <2>3. GapsGoOn
    BY <1>1, <1>4, RowGoesOn, SliceGoesOn DEF Decided
  <2>4. \A b \in Attempts : attempts[b].items \in SUBSET Gaps
    BY <1>1, RowFields
  <2>5. \A g \in attempts[a].items : gaps[g] \notin Decided /\ gaps'[g] \in Decided
    BY <1>1, <1>4, <2>4 DEF Held, SetGaps, Decided
  <2>6. CoresFit'
    <3>1. \A b \in Attempts : attempts'[b].items = attempts[b].items /\ attempts'[b].core = attempts[b].core
      BY <2>1, <2>2
    <3> QED
      BY <3>1 DEF OnceInv, CoresFit, UnitsOf
  <2>7. ConflictsFit'
    <3>1. \A b \in Attempts : attempts'[b].state = "conflict" =>
            /\ attempts'[b].cand \in SUBSET attempts'[b].core
            /\ \A g \in attempts'[b].items : gaps'[g] \in Decided
      BY <1>1, <2>1, <2>2, <2>3, <2>4, <2>5 DEF OnceInv, ConflictsFit, GapsGoOn
    <3>2. \A b \in Attempts \ {a} : attempts[b].state = "conflict" =>
            \A g \in Gaps : g \in attempts[a].items => g \notin attempts[b].items
      BY <2>5 DEF OnceInv, ConflictsFit
    <3>3. \A b, c \in Attempts :
            /\ attempts'[b].state = "conflict" /\ attempts'[c].state = "conflict"
            /\ \E g \in Gaps : g \in attempts'[b].items /\ g \in attempts'[c].items
            => b = c
      BY <2>1, <2>2, <3>2 DEF OnceInv, ConflictsFit
    <3> QED
      BY <3>1, <3>3 DEF ConflictsFit, Decided
  <2>8. WindowsFit'
    <3> SUFFICES ASSUME NEW r \in Resolvers, windows[r].pc = "read"
                 PROVE  /\ gaps'[windows[r].gap] \in Decided
                        /\ \A b \in Attempts : attempts'[b].state = "conflict" /\ windows[r].gap \in attempts'[b].items =>
                             \A u \in attempts'[b].cand : text[u] > 0 => u \in windows[r].existing
      BY <1>2 DEF WindowsFit, Decided
    <3>1. windows[r].gap \in Gaps
      BY <1>1 DEF Window, Closed
    <3>2. gaps[windows[r].gap] \in Decided /\ windows[r].gap \notin attempts[a].items
      BY <2>5 DEF OnceInv, WindowsFit
    <3> QED
      BY <2>1, <2>2, <2>3, <3>1, <3>2 DEF OnceInv, WindowsFit, GapsGoOn
  <2>9. TranscribedOnce' /\ CandidatesFit'
    BY <1>2 DEF OnceInv, TranscribedOnce, CandidatesFit
  <2>10. JoinedFit'
    BY <2>1, <2>2, <2>3 DEF OnceInv, JoinedFit, GapsGoOn, Joined
  <2> QED
    BY <2>6, <2>7, <2>8, <2>9, <2>10 DEF OnceInv
<1> QED
  BY <1>2, <1>3, <1>4

(* The attempt a window speaks of.                                         *)
LEMMA EvidenceOf ==
  ASSUME OnceInv, NEW g \in Gaps, gaps[g] = "conflict"
  PROVE  /\ ConflictAttempt(g) \in Attempts /\ attempts[ConflictAttempt(g)].state = "conflict"
         /\ g \in attempts[ConflictAttempt(g)].items
         /\ \A a \in Attempts : attempts[a].state = "conflict" /\ g \in attempts[a].items => a = ConflictAttempt(g)
<1>1. \E a \in Attempts : attempts[a].state = "conflict" /\ g \in attempts[a].items
  BY DEF OnceInv, Parts, EvidenceKept
<1>2. /\ ConflictAttempt(g) \in Attempts /\ attempts[ConflictAttempt(g)].state = "conflict"
      /\ g \in attempts[ConflictAttempt(g)].items
  BY <1>1 DEF ConflictAttempt
<1> QED
  BY <1>2 DEF OnceInv, ConflictsFit

LEMMA ReadKeepsOnce ==
  ASSUME OnceInv, Parts', PicksFit', NEW r \in Resolvers, NEW g \in Gaps, ReadConflict(r, g)
  PROVE  OnceInv'
<1> DEFINE a == ConflictAttempt(g)
           new == [pc |-> "read", gap |-> g, existing |-> {u \in attempts[a].core : text[u] > 0}]
<1>1. /\ UNCHANGED <<gaps, attempts, text, owner>> /\ gaps[g] = "conflict" /\ windows \in [Resolvers -> Window]
      /\ windows' = [windows EXCEPT ![r] = new]
  BY DEF ReadConflict, rows, OnceInv, Parts, TypeOK
<1>2. /\ a \in Attempts /\ attempts[a].state = "conflict"
      /\ \A b \in Attempts : attempts[b].state = "conflict" /\ g \in attempts[b].items => b = a
  BY <1>1, EvidenceOf
<1>3. /\ new.gap = g /\ \A u \in attempts[a].cand : text[u] > 0 => u \in new.existing
  BY <1>2 DEF OnceInv, ConflictsFit
<1> HIDE DEF a, new
<1>4. windows'[r] = new /\ \A s \in Resolvers \ {r} : windows'[s] = windows[s]
  BY <1>1
<1>5. WindowsFit'
  <2> SUFFICES ASSUME NEW s \in Resolvers, windows'[s].pc = "read"
               PROVE  /\ gaps[windows'[s].gap] \in Decided
                      /\ \A b \in Attempts : attempts[b].state = "conflict" /\ windows'[s].gap \in attempts[b].items =>
                           \A u \in attempts[b].cand : text[u] > 0 => u \in windows'[s].existing
    BY <1>1 DEF WindowsFit, Decided
  <2>1. CASE s = r
    BY <1>1, <1>2, <1>3, <1>4, <2>1 DEF Decided
  <2>2. CASE s # r
    BY <1>4, <2>2 DEF OnceInv, WindowsFit
  <2> QED
    BY <2>1, <2>2
<1>6. TranscribedOnce' /\ CandidatesFit' /\ CoresFit' /\ ConflictsFit'
  BY <1>1 DEF OnceInv, TranscribedOnce, CandidatesFit, CoresFit, UnitsOf, ConflictsFit, Decided
<1>7. JoinedFit'
  BY <1>1 DEF OnceInv, JoinedFit, Joined, Eligible
<1> QED
  BY <1>5, <1>6, <1>7 DEF OnceInv

LEMMA ResolutionCarries ==
  ASSUME NEW row \in Row, NEW now, NEW cleaned \in BOOLEAN
  PROVE  LET new == SettledResolution(row, now, cleaned) IN
         new.items = row.items /\ new.core = row.core /\ new.cand = row.cand
<1> DEFINE done == [row EXCEPT !.state = "completed"]
<1>1. done \in Row /\ done.items = row.items /\ done.core = row.core /\ done.cand = row.cand
  BY DEF Row
<1> HIDE DEF done
<1>2. Same(Deleted(done), done)
  BY <1>1, RowCarries
<1>3. SettledResolution(row, now, cleaned) \in {row, done, Deleted(done)}
  BY DEF SettledResolution, done
<1> QED
  BY <1>1, <1>2, <1>3 DEF Same

LEMMA ResolveKeepsOnce ==
  ASSUME OnceInv, Parts', PicksFit', OneWindow, NEW r \in Resolvers, ResolveGapConflict(r)
  PROVE  OnceInv'
<1> DEFINE g == windows[r].gap
           a == ConflictAttempt(g)
           added == attempts[a].cand \ windows[r].existing
<1>1. /\ attempts \in [Attempts -> Row] /\ gaps \in [Gaps -> GapStates] /\ text \in [Units -> Nat]
      /\ windows \in [Resolvers -> Window] /\ windows[r].pc = "read" /\ UNCHANGED owner
  BY DEF OnceInv, Parts, TypeOK, ResolveGapConflict
<1>2. g \in Gaps
  BY <1>1 DEF Window, Closed
<1>3. \A s \in Resolvers : windows'[s] = Closed
  BY <1>1 DEF ResolveGapConflict, OneWindow
<1>4. \/ UNCHANGED <<gaps, attempts, text>>
      \/ /\ gaps[g] = "conflict" /\ gaps' = [gaps EXCEPT ![g] = "completed"] /\ CreateUtterances(added)
         /\ \E cleaned \in BOOLEAN :
              attempts' = [attempts EXCEPT ![a] = SettledResolution(attempts[a], gaps', cleaned)]
  BY DEF ResolveGapConflict, NonOverlapping, rows
<1>5. CASE UNCHANGED <<gaps, attempts, text>>
  <2>1. CandidatesFit'
    BY <1>1, <1>5 DEF OnceInv, CandidatesFit
  <2> QED
    BY <1>3, <1>5, <2>1, AsideKeepsOnce
<1>6. CASE /\ gaps[g] = "conflict" /\ gaps' = [gaps EXCEPT ![g] = "completed"] /\ CreateUtterances(added)
           /\ \E cleaned \in BOOLEAN :
                attempts' = [attempts EXCEPT ![a] = SettledResolution(attempts[a], gaps', cleaned)]
  <2>1. a \in Attempts /\ attempts[a].state = "conflict" /\ g \in attempts[a].items
    BY <1>2, <1>6, EvidenceOf
  <2>2. PICK cleaned \in BOOLEAN : attempts' = [attempts EXCEPT ![a] = SettledResolution(attempts[a], gaps', cleaned)]
    BY <1>6
  <2> DEFINE new == SettledResolution(attempts[a], gaps', cleaned)
  <2>3. new.items = attempts[a].items /\ new.core = attempts[a].core /\ new.cand = attempts[a].cand
    BY <1>1, <2>1, ResolutionCarries
  <2> HIDE DEF new, a, g
  <2>4. attempts'[a] = new /\ \A b \in Attempts \ {a} : attempts'[b] = attempts[b]
    BY <1>1, <2>1, <2>2 DEF new
  <2>5. \A b \in Attempts : Carries(b)
    BY <2>1, <2>3, <2>4 DEF Carries
  <2>6. GapsGoOn
    <3>1. gaps'[g] = "completed" /\ \A x \in Gaps \ {g} : gaps'[x] = gaps[x]
      BY <1>1, <1>2, <1>6
    <3>2. \A x \in Gaps : gaps[x] \in Decided => gaps'[x] \in Decided
      BY <3>1 DEF Decided
    <3>3. Eligible' = Eligible
      BY <1>2, <1>6, <3>1 DEF Eligible
    <3> QED
      BY <3>2, <3>3 DEF OnceInv, JoinedFit, GapsGoOn, Joined
  <2>7. TranscribedOnce'
    <3>1. \A u \in added : ~ (text[u] > 0)
      BY <1>1, <2>1 DEF OnceInv, WindowsFit, g
    <3>2. \A u \in Units : text'[u] = text[u] + (IF u \in added THEN 1 ELSE 0)
      BY <1>6 DEF CreateUtterances
    <3> HIDE DEF added
    <3> QED
      BY <1>1, <3>1, <3>2 DEF OnceInv, TranscribedOnce
  <2>8. CandidatesFit'
    <3>1. owner.pc \in {"look", "store", "conflict"} => owner.att \in Attempts
      BY DEF OnceInv, Parts, OwnerFits, Sent
    <3> QED
      BY <1>1, <2>5, <3>1 DEF OnceInv, CandidatesFit, Carries
  <2> QED
    BY <1>3, <2>5, <2>6, <2>7, <2>8, OnceFrame
<1> QED
  BY <1>4, <1>5, <1>6

LEMMA InitOnce ==
  ASSUME Init
  PROVE  OnceInv
<1>1. Parts
  BY InitHolds
<1>2. TranscribedOnce
  <2>1. PICK S \in SUBSET Heard : text = [u \in Units |-> IF u \in S THEN 1 ELSE 0]
    BY DEF Init
  <2> QED
    BY <2>1 DEF TranscribedOnce
<1>3. /\ \A a \in Attempts : attempts[a].state = "none" /\ attempts[a].core = {} /\ attempts[a].items = {}
      /\ \A r \in Resolvers : windows[r].pc = "closed"
      /\ owner.pc = "none" /\ owner.sel = {} /\ Eligible = Gaps
  BY DEF Init, NoRow, Closed, Idle, Eligible
<1>4. CoresFit /\ CandidatesFit /\ ConflictsFit /\ WindowsFit
  BY <1>3 DEF CoresFit, CandidatesFit, ConflictsFit, WindowsFit
<1>5. JoinedFit /\ PicksFit
  BY <1>3 DEF JoinedFit, PicksFit, Joined
<1> QED
  BY <1>1, <1>2, <1>4, <1>5 DEF OnceInv

LEMMA NextOnce ==
  ASSUME OnceInv, [Next]_vars, OneWindow, NoPicks
  PROVE  OnceInv'
<1>1. Parts' /\ PicksFit'
  BY NextKeeps, PicksKeep DEF OnceInv
<1>2. CASE OwnerStep
  BY <1>1, <1>2, QuietStepsKeepOnce, TranscribeKeepsOnce, PlanSliceKeepsOnce, RegisterKeepsOnce, CleanupsKeepOnce,
     ClaimKeepsOnce, SettlingsKeepOnce, CompensationKeepsOnce, ConflictKeepsOnce DEF OwnerStep
<1>3. CASE Next /\ ~OwnerStep
  BY <1>1, <1>3, QuietStepsKeepOnce, RecoverKeepsOnce, ReadKeepsOnce, ResolveKeepsOnce DEF Next
<1>4. CASE UNCHANGED vars
  <2>1. UNCHANGED <<gaps, attempts, text, owner, windows>>
    BY <1>4 DEF vars, rows
  <2>2. CandidatesFit'
    BY <2>1 DEF OnceInv, CandidatesFit
  <2> QED
    BY <1>1, <2>1, <2>2, AsideKeepsOnce
<1> QED
  BY <1>2, <1>3, <1>4

(* While conflicts are resolved in one window, and gaps are disjoint or    *)
(* taken up by the owner alone, the repair never puts a second utterance   *)
(* where there is one: not by a compensation that looked before it stored, *)
(* and not by a resolution that uses what was read before its transaction. *)
THEOREM OneWindowTranscribesOnce ==
  ASSUME OneWindow, NoPicks
  PROVE  Spec => []TranscribedOnce
<1>1. Init => OnceInv
  BY InitOnce
<1>2. OnceInv /\ [Next]_vars => OnceInv'
  BY NextOnce
<1>3. OnceInv => TranscribedOnce
  BY DEF OnceInv
<1> QED
  BY <1>1, <1>2, <1>3, PTL DEF Spec
=============================================================================
