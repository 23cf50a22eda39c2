----------------------- MODULE SpeakerCorrection_proofs -----------------------
(***************************************************************************)
(* Proofs about SpeakerIdentification and SpeakerCorrection, for any       *)
(* finals, labels, participants, workers, commands and failures.           *)
(*                                                                         *)
(* The first part is about the operators of the models, the second about   *)
(* the workers, the third about the host's commands beside them.           *)
(***************************************************************************)
EXTENDS SpeakerCorrection, FiniteSetTheorems, WellFoundedInduction, TLAPS

-----------------------------------------------------------------------------
(* Least and greatest numbers.                                             *)

LessOnNat == {ss \in Nat \X Nat : ss[1] < ss[2]}

LEMMA NatOrder == IsWellFoundedOn(LessOnNat, Nat)
  BY NatLessThanWellFounded, Zenon DEF OpToRel, LessOnNat

LEMMA HasMin ==
    ASSUME NEW S \in SUBSET Nat, S # {}
    PROVE  \E s \in S : \A r \in S : s <= r
<1>1. PICK s \in S : \A r \in S : ~ (<<r, s>> \in LessOnNat)
  BY NatOrder, WFMin, Zenon
<1>2. \A r, t \in S : r < t => <<r, t>> \in LessOnNat
  BY DEF LessOnNat
<1>3. \A r \in S : ~ (r < s)
  BY <1>1, <1>2
<1>4. \A r \in S : s <= r
  BY <1>3
<1> QED BY <1>4

LEMMA MinOf ==
    ASSUME NEW S \in SUBSET Nat, S # {}
    PROVE  Min(S) \in S /\ \A x \in S : Min(S) <= x
<1>1. \E s \in S : \A x \in S : s <= x
  BY HasMin
<1> QED BY <1>1, Zenon DEF Min

LEMMA MaxOf ==
    ASSUME NEW S \in SUBSET Nat, S # {}, NEW b \in Nat, \A x \in S : x <= b
    PROVE  Max(S) \in S /\ \A x \in S : x <= Max(S)
<1> DEFINE T == {b - s : s \in S}
<1>1. T \in SUBSET Nat /\ T # {}
  <2>1. \A s \in S : b - s \in Nat
    OBVIOUS
  <2> QED BY <2>1
<1>2. \A r \in S : b - r \in T
  OBVIOUS
<1>3. \A t \in T : \E s \in S : t = b - s
  OBVIOUS
<1> HIDE DEF T
<1>4. PICK t \in T : \A r \in T : t <= r
  BY <1>1, HasMin
<1>5. PICK s \in S : t = b - s
  BY <1>3
<1>6. \A r \in S : b - s <= b - r
  BY <1>2, <1>4, <1>5
<1>7. \A r \in S : s >= r
  BY <1>6
<1>8. \E m \in S : \A r \in S : m >= r
  BY <1>7
<1>9. Max(S) \in S /\ \A r \in S : Max(S) >= r
  BY <1>8, Zenon DEF Max
<1> QED BY <1>9

(* Induction up to n, with the numbers that are reached as a set.          *)
LEMMA Upwards ==
    ASSUME NEW n \in Nat, NEW S, 0 \in S, \A k \in 1..n : k - 1 \in S => k \in S
    PROVE  n \in S
<1> DEFINE bad == {k \in 0..n : k \notin S}
<1>1. n \in bad \/ n \in S
  OBVIOUS
<1>2. SUFFICES ASSUME bad # {} PROVE FALSE
  BY <1>1
<1>3. bad \in SUBSET Nat
  OBVIOUS
<1>4. PICK k \in bad : \A j \in bad : k <= j
  <2> HIDE DEF bad
  <2> QED BY <1>2, <1>3, HasMin
<1>5. k \in 1..n
  OBVIOUS
<1>6. k - 1 \notin bad
  <2>1. k - 1 < k
    BY <1>5
  <2> HIDE DEF bad
  <2> QED BY <1>3, <1>4, <1>5, <2>1
<1>7. k - 1 \in S
  BY <1>5, <1>6
<1> QED BY <1>5, <1>7

LEMMA Bounded ==
    ASSUME NEW n \in Nat, NEW f \in [1..n -> Nat]
    PROVE  \E b \in Nat : \A i \in 1..n : f[i] <= b
<1> DEFINE Has(k) == \E b \in Nat : \A i \in 1..k : f[i] <= b
           good == {k \in 0..n : Has(k)}
<1>1. Has(0)
  <2>1. \A i \in 1..0 : f[i] <= 0
    OBVIOUS
  <2> QED BY <2>1
<1>2. ASSUME NEW k \in 1..n, Has(k - 1) PROVE Has(k)
  <2>1. PICK b \in Nat : \A i \in 1..(k - 1) : f[i] <= b
    BY <1>2
  <2>2. CASE b <= f[k]
    <3>1. \A i \in 1..k : f[i] <= f[k]
      BY <2>1, <2>2
    <3> QED BY <3>1
  <2>3. CASE f[k] <= b
    <3>1. \A i \in 1..k : f[i] <= b
      BY <2>1, <2>3
    <3> QED BY <3>1
  <2> QED BY <2>2, <2>3
<1> HIDE DEF Has
<1>3. 0 \in good /\ \A k \in 1..n : k - 1 \in good => k \in good
  BY <1>1, <1>2
<1> HIDE DEF good
<1>4. n \in good
  BY <1>3, Upwards
<1> QED BY <1>4 DEF good, Has

(* The greatest of some of n numbers, or 0.                                *)
LEMMA MaxAmong ==
    ASSUME NEW n \in Nat, NEW f \in [1..n -> Nat], NEW S \in SUBSET (1..n)
    PROVE  Max({f[i] : i \in S} \cup {0}) \in Nat
<1> DEFINE T == {f[i] : i \in S} \cup {0}
<1>1. PICK b \in Nat : \A i \in 1..n : f[i] <= b
  BY Bounded
<1>2. T \in SUBSET Nat /\ T # {} /\ \A x \in T : x <= b
  BY <1>1
<1> HIDE DEF T
<1>3. Max(T) \in T
  BY <1>2, MaxOf
<1> QED BY <1>2, <1>3 DEF T

LEMMA MinOfTwo == \A a, b \in Nat : /\ Min({a, b}) \in Nat
                                    /\ Min({a, b}) <= a /\ Min({a, b}) <= b
                                    /\ Min({a, b}) \in {a, b}
<1> TAKE a, b \in Nat
<1>1. {a, b} \in SUBSET Nat /\ {a, b} # {}
  OBVIOUS
<1>2. Min({a, b}) \in {a, b} /\ \A x \in {a, b} : Min({a, b}) <= x
  BY <1>1, MinOf
<1> QED BY <1>2

-----------------------------------------------------------------------------
(* FirstOf is what its name says: there are n first ones.                  *)

LEMMA FirstExists ==
    ASSUME NEW p, NEW ids, IsFiniteSet(ids),
           \A x \in ids : Position(p, x) \in Nat,
           \A x, y \in ids : Position(p, x) = Position(p, y) => x = y,
           NEW n \in Nat, n <= Cardinality(ids)
    PROVE  \E S \in SUBSET ids : /\ Cardinality(S) = n
              /\ \A x \in S, y \in ids \ S : Position(p, x) < Position(p, y)
<1> DEFINE First_(S) == \A x \in S, y \in ids \ S : Position(p, x) < Position(p, y)
           Has(k) == \E S \in SUBSET ids : Cardinality(S) = k /\ First_(S)
           good == {k \in 0..n : Has(k)}
<1>1. Has(0)
  BY FS_EmptySet
<1>2. ASSUME NEW k \in 1..n, Has(k - 1) PROVE Has(k)
  <2>1. PICK S \in SUBSET ids : Cardinality(S) = k - 1 /\ First_(S)
    BY <1>2
  <2>2. Cardinality(ids) \in Nat /\ IsFiniteSet(S)
    BY FS_CardinalityType, FS_Subset
  <2>3. ids \ S # {}
    BY <2>1, <2>2
  <2> DEFINE Pos == {Position(p, x) : x \in ids \ S}
  <2>4. Pos \in SUBSET Nat /\ Pos # {}
    BY <2>3
  <2>5. \E m \in Pos : \A q \in Pos : m <= q
    <3> HIDE DEF Pos
    <3> QED BY <2>4, HasMin
  <2>6. PICK y \in ids \ S : \A z \in ids \ S : Position(p, y) <= Position(p, z)
    BY <2>5
  <2>7. Cardinality(S \cup {y}) = Cardinality(S) + 1
    BY <2>2, <2>6, FS_AddElement
  <2>8. Cardinality(S \cup {y}) = k
    BY <2>1, <2>7
  <2>9. First_(S \cup {y})
    <3> SUFFICES ASSUME NEW x \in S \cup {y}, NEW z \in ids \ (S \cup {y})
                 PROVE  Position(p, x) < Position(p, z)
      OBVIOUS
    <3>1. CASE x \in S
      BY <2>1, <3>1
    <3>2. CASE x = y
      <4>1. Position(p, y) <= Position(p, z) /\ Position(p, y) # Position(p, z)
        BY <2>6
      <4>2. Position(p, y) \in Nat /\ Position(p, z) \in Nat
        OBVIOUS
      <4> QED BY <3>2, <4>1, <4>2
    <3> QED BY <3>1, <3>2
  <2>10. S \cup {y} \in SUBSET ids
    OBVIOUS
  <2> HIDE DEF First_
  <2> QED BY <2>8, <2>9, <2>10
<1> HIDE DEF Has
<1>3. 0 \in good /\ \A k \in 1..n : k - 1 \in good => k \in good
  BY <1>1, <1>2
<1> HIDE DEF good
<1>4. n \in good
  BY <1>3, Upwards
<1> QED BY <1>4 DEF good, Has

LEMMA FirstOfIn ==
    ASSUME NEW p, NEW ids, IsFiniteSet(ids),
           \A x \in ids : Position(p, x) \in Nat,
           \A x, y \in ids : Position(p, x) = Position(p, y) => x = y,
           NEW n \in Nat
    PROVE  FirstOf(p, ids, n) \in SUBSET ids /\ Cardinality(FirstOf(p, ids, n)) <= n
<1>1. Cardinality(ids) \in Nat
  BY FS_CardinalityType
<1> DEFINE m == Min({n, Cardinality(ids)})
<1>2. m \in Nat /\ m <= n /\ m <= Cardinality(ids)
  BY <1>1, MinOfTwo
<1> HIDE DEF m
<1>3. \E S \in SUBSET ids : /\ Cardinality(S) = m
         /\ \A x \in S, y \in ids \ S : Position(p, x) < Position(p, y)
  BY <1>2, FirstExists
<1>4. FirstOf(p, ids, n) \in SUBSET ids /\ Cardinality(FirstOf(p, ids, n)) = m
  BY <1>3, Zenon DEF FirstOf, m
<1> QED BY <1>2, <1>4

(* Of one id, whether it has a position or not.                            *)
LEMMA FirstOfOne ==
    ASSUME NEW p, NEW id, NEW ids \in SUBSET {id}, NEW n \in Nat
    PROVE  FirstOf(p, ids, n) \in SUBSET ids /\ Cardinality(FirstOf(p, ids, n)) <= n
<1>1. IsFiniteSet(ids) /\ Cardinality(ids) \in {0, 1} /\ (Cardinality(ids) = 0 => ids = {})
  <2>1. CASE ids = {}
    <3>1. IsFiniteSet({}) /\ Cardinality({}) = 0
      BY FS_EmptySet
    <3> QED BY <2>1, <3>1
  <2>2. CASE ids # {}
    <3>1. ids = {id}
      BY <2>2
    <3>2. IsFiniteSet({id}) /\ Cardinality({id}) = 1
      BY FS_Singleton
    <3> QED BY <3>1, <3>2
  <2> QED BY <2>1, <2>2
<1> DEFINE m == Min({n, Cardinality(ids)})
<1>2. m \in {0, Cardinality(ids)} /\ m <= n /\ m \in Nat
  BY <1>1, MinOfTwo
<1> HIDE DEF m
<1>3. \E S \in SUBSET ids : /\ Cardinality(S) = m
         /\ \A x \in S, y \in ids \ S : Position(p, x) < Position(p, y)
  <2>1. CASE m = 0
    BY <2>1, FS_EmptySet
  <2>2. CASE m = Cardinality(ids)
    <3>1. \A x \in ids, y \in ids \ ids : Position(p, x) < Position(p, y)
      OBVIOUS
    <3> QED BY <2>2, <3>1
  <2> QED BY <1>2, <2>1, <2>2
<1>4. FirstOf(p, ids, n) \in SUBSET ids /\ Cardinality(FirstOf(p, ids, n)) = m
  BY <1>3, Zenon DEF FirstOf, m
<1> QED BY <1>2, <1>4

-----------------------------------------------------------------------------
(* What the operators of the workers return.                               *)

LEMMA OrderNat ==
    ASSUME SpeakerTypeOK, NEW t
    PROVE  NextOrder(t) \in Nat
<1> DEFINE f == [u \in 1..Finals |-> ev[u].order]
<1>1. f \in [1..Finals -> Nat] /\ InTrack(t) \in SUBSET (1..Finals) /\ Finals \in Nat
  BY SpeakerAssumption DEF SpeakerTypeOK, EvidenceRow, InTrack, Utts
<1>2. {f[u] : u \in InTrack(t)} = {ev[u].order : u \in InTrack(t)}
  BY DEF InTrack, Utts
<1> HIDE DEF f
<1>3. Max({f[u] : u \in InTrack(t)} \cup {0}) \in Nat
  BY <1>1, MaxAmong
<1>4. NextOrder(t) = Max({f[u] : u \in InTrack(t)} \cup {0}) + 1
  BY <1>2, Zenon DEF NextOrder
<1> QED BY <1>3, <1>4

LEMMA TrackRows ==
    ASSUME SpeakerTypeOK
    PROVE  /\ Len(tracks) \in Nat /\ DOMAIN tracks = 1..Len(tracks) /\ Len(tracks) <= MaxTracks
           /\ \A t \in DOMAIN tracks : tracks[t] \in TrackRow
           /\ \A l : Segments(l) \in SUBSET (1..Len(tracks))
<1>1. /\ Len(tracks) \in Nat /\ DOMAIN tracks = 1..Len(tracks) /\ Len(tracks) <= MaxTracks
      /\ \A t \in DOMAIN tracks : tracks[t] \in TrackRow
  BY DEF SpeakerTypeOK
<1> QED BY <1>1 DEF Segments

LEMMA SegmentNat ==
    ASSUME SpeakerTypeOK, NEW l
    PROVE  NextSegment(l) \in Nat
<1> DEFINE f == [t \in 1..Len(tracks) |-> tracks[t].segment]
<1>1. f \in [1..Len(tracks) -> Nat] /\ Segments(l) \in SUBSET (1..Len(tracks)) /\ Len(tracks) \in Nat
  BY TrackRows DEF TrackRow
<1>2. {f[t] : t \in Segments(l)} = {tracks[t].segment : t \in Segments(l)}
  BY <1>1
<1> HIDE DEF f
<1>3. Max({f[t] : t \in Segments(l)} \cup {0}) \in Nat
  BY <1>1, MaxAmong
<1>4. NextSegment(l) = Max({f[t] : t \in Segments(l)} \cup {0}) + 1
  BY <1>2, Zenon DEF NextSegment
<1> QED BY <1>3, <1>4

LEMMA ProvisionalIn ==
    ASSUME SpeakerTypeOK, NEW u \in Utts
    PROVE  ProvisionalTrack(u) \in 1..(Len(tracks) + 1)
<1> DEFINE own == Segments(Label[u])
<1>1. Len(tracks) \in Nat /\ own \in SUBSET (1..Len(tracks)) /\ \A t \in own : tracks[t].segment \in Nat
  BY TrackRows DEF TrackRow
<1> HIDE DEF own
<1>2. CASE own = {}
  BY <1>1, <1>2 DEF ProvisionalTrack, own
<1>3. CASE own # {}
  <2> DEFINE nos == {tracks[t].segment : t \in own}
  <2>1. nos \in SUBSET Nat /\ nos # {}
    BY <1>1, <1>3
  <2>2. \E m \in nos : \A q \in nos : m <= q
    <3> HIDE DEF nos
    <3> QED BY <2>1, HasMin
  <2>3. \E t \in own : \A s \in own : tracks[t].segment <= tracks[s].segment
    BY <2>2
  <2> HIDE DEF nos
  <2>4. ProvisionalTrack(u) = CHOOSE t \in own : \A s \in own : tracks[t].segment <= tracks[s].segment
    BY <1>3, Zenon DEF ProvisionalTrack, own
  <2>5. ProvisionalTrack(u) \in own
    BY <2>3, <2>4, Zenon
  <2>6. ProvisionalTrack(u) \in 1..Len(tracks)
    BY <1>1, <2>5, Zenon
  <2> QED BY <1>1, <2>6
<1> QED BY <1>2, <1>3

LEMMA FirstUtts ==
    ASSUME NEW S \in SUBSET Utts, NEW n \in Nat
    PROVE  FirstOf("routing", S, n) \in SUBSET Utts
<1>1. Finals \in Nat /\ IsFiniteSet(1..Finals)
  BY SpeakerAssumption, FS_Interval
<1>2. IsFiniteSet(S)
  BY <1>1, FS_Subset DEF Utts
<1>3. /\ \A x \in S : Position("routing", x) \in Nat
      /\ \A x, y \in S : Position("routing", x) = Position("routing", y) => x = y
  BY <1>1 DEF Position, Utts
<1>4. FirstOf("routing", S, n) \in SUBSET S
  BY <1>2, <1>3, FirstOfIn
<1> QED BY <1>4

LEMMA ItemsIn ==
    ASSUME SpeakerTypeOK, NEW w \in Workers
    PROVE  Items(w) \in SUBSET Utts /\ Target \in Nat
<1>1. work[w].seen \in SUBSET Utts /\ Target \in Nat
  BY SpeakerAssumption DEF SpeakerTypeOK, WorkRow
<1> QED BY <1>1, FirstUtts DEF Items

LEMMA RenumberedKeeps ==
    ASSUME SpeakerTypeOK, NEW items \in SUBSET Utts
    PROVE  /\ Renumbered(items) \in [Utts -> EvidenceRow]
           /\ \A u \in Utts : /\ Renumbered(items)[u].routing = ev[u].routing
                              /\ Renumbered(items)[u].track = ev[u].track
<1>1. Finals \in Nat /\ IsFiniteSet(1..Finals)
  BY SpeakerAssumption, FS_Interval
<1>2. \A u \in items : Place(items, u) \in Nat
  <2> TAKE u \in items
  <2>1. IsFiniteSet({v \in items : v <= u})
    BY <1>1, FS_Subset DEF Utts
  <2> QED BY <2>1, FS_CardinalityType DEF Place
<1>3. \A u \in Utts : ev[u] \in EvidenceRow
  BY DEF SpeakerTypeOK
<1> DEFINE row(u) == IF u \in items THEN [ev[u] EXCEPT !.order = Place(items, u)] ELSE ev[u]
<1>4. \A u \in Utts : row(u) \in EvidenceRow /\ row(u).routing = ev[u].routing /\ row(u).track = ev[u].track
  BY <1>2, <1>3 DEF EvidenceRow
<1>5. Renumbered(items) = [u \in Utts |-> row(u)]
  BY DEF Renumbered
<1> HIDE DEF row
<1> QED BY <1>4, <1>5

LEMMA EvidenceStateIn ==
    ASSUME NEW w
    PROVE  EvidenceState(w) \in {"ready", "collecting", "insufficient"}
  BY DEF EvidenceState

-----------------------------------------------------------------------------
(* The queues of the pools.                                                *)

PoolOK == pool \in [Pools -> PoolRow] /\ PoolsFit

LEMMA PoolsOfWorkers ==
    /\ \A w \in Workers \ {"host"} : PoolOf(w) \in Pools
    /\ \A w, x \in Workers \ {"host"} : w # x => PoolOf(w) # PoolOf(x)
  BY SpeakerAssumption DEF Pools, PoolOf

(* What a queue takes in was not reserved, and fits.                       *)
LEMMA EnqueuedFits ==
    ASSUME PoolOK, NEW p \in Pools, NEW ids \in SUBSET Nat,
           \/ /\ IsFiniteSet(ids) /\ \A x \in ids : Position(p, x) \in Nat
              /\ \A x, y \in ids : Position(p, x) = Position(p, y) => x = y
           \/ \E id : ids \in SUBSET {id}
    PROVE  \E new \in SUBSET (ids \ pool[p].reserved) :
             /\ Enqueued(p, ids) = [pool[p] EXCEPT !.jobs = @ \cup new, !.reserved = @ \cup new]
             /\ IsFiniteSet(pool[p].jobs \cup new)
             /\ Cardinality(pool[p].jobs \cup new) <= QueueCapacity
<1> DEFINE n == QueueCapacity - Cardinality(pool[p].jobs)
           left == ids \ pool[p].reserved
           new == FirstOf(p, left, n)
<1>1. /\ IsFiniteSet(pool[p].jobs) /\ Cardinality(pool[p].jobs) <= QueueCapacity
      /\ QueueCapacity \in Nat
  BY SpeakerAssumption DEF PoolOK, PoolsFit
<1>2. Cardinality(pool[p].jobs) \in Nat
  BY <1>1, FS_CardinalityType
<1>3. n \in Nat /\ n + Cardinality(pool[p].jobs) = QueueCapacity
  BY <1>1, <1>2
<1> HIDE DEF n
<1>4. new \in SUBSET left /\ Cardinality(new) <= n /\ IsFiniteSet(left)
  <2>1. CASE /\ IsFiniteSet(ids) /\ \A x \in ids : Position(p, x) \in Nat
             /\ \A x, y \in ids : Position(p, x) = Position(p, y) => x = y
    <3>1. IsFiniteSet(left)
      BY <2>1, FS_Subset
    <3>2. /\ \A x \in left : Position(p, x) \in Nat
          /\ \A x, y \in left : Position(p, x) = Position(p, y) => x = y
      BY <2>1
    <3> HIDE DEF left
    <3> QED BY <1>3, <3>1, <3>2, FirstOfIn
  <2>2. CASE \E id : ids \in SUBSET {id}
    <3>1. PICK id : ids \in SUBSET {id}
      BY <2>2
    <3>2. left \in SUBSET {id} /\ IsFiniteSet({id})
      BY <3>1, FS_Singleton
    <3>3. IsFiniteSet(left)
      BY <3>2, FS_Subset
    <3> HIDE DEF left
    <3> QED BY <1>3, <3>2, <3>3, FirstOfOne
  <2> QED BY <2>1, <2>2
<1>5. Enqueued(p, ids) = [pool[p] EXCEPT !.jobs = @ \cup new, !.reserved = @ \cup new]
  BY DEF Enqueued, n
<1> HIDE DEF new
<1>6. IsFiniteSet(new)
  BY <1>4, FS_Subset
<1>7. IsFiniteSet(pool[p].jobs \cup new)
  BY <1>1, <1>6, FS_Union
<1>8. Cardinality(pool[p].jobs \cup new) <= QueueCapacity
  <2>1. Cardinality(pool[p].jobs \cup new)
          = Cardinality(pool[p].jobs) + Cardinality(new) - Cardinality(pool[p].jobs \cap new)
    BY <1>1, <1>6, FS_Union
  <2>2. IsFiniteSet(pool[p].jobs \cap new)
    BY <1>1, FS_Intersection
  <2>3. Cardinality(pool[p].jobs \cap new) \in Nat /\ Cardinality(new) \in Nat
    BY <1>6, <2>2, FS_CardinalityType
  <2> QED BY <1>1, <1>2, <1>3, <1>4, <2>1, <2>3
<1> QED BY <1>4, <1>5, <1>7, <1>8

(* A row of a pool that only takes in what nobody has in hand.             *)
LEMMA PoolRowSet ==
    ASSUME PoolOK, NEW p \in Pools, NEW row \in PoolRow, pool' = [pool EXCEPT ![p] = row],
           row.jobs \subseteq row.reserved, IsFiniteSet(row.jobs), Cardinality(row.jobs) <= QueueCapacity,
           pool[p].reserved \subseteq row.reserved, row.jobs \cap pool[p].reserved \subseteq pool[p].jobs,
           UNCHANGED work
    PROVE  PoolOK'
<1>1. pool \in [Pools -> PoolRow] /\ pool' \in [Pools -> PoolRow]
  BY DEF PoolOK
<1>2. pool'[p] = row /\ \A q \in Pools : q # p => pool'[q] = pool[q]
  BY <1>1
<1>3. \A q \in Pools : /\ pool'[q].jobs \subseteq pool'[q].reserved
                       /\ IsFiniteSet(pool'[q].jobs) /\ Cardinality(pool'[q].jobs) <= QueueCapacity
  BY <1>2 DEF PoolOK, PoolsFit
<1>4. ASSUME NEW w \in Workers \ {"host"}, work[w] # Idle
      PROVE  work[w].id \in pool'[PoolOf(w)].reserved \ pool'[PoolOf(w)].jobs
  <2>1. PoolOf(w) \in Pools /\ work[w].id \in pool[PoolOf(w)].reserved \ pool[PoolOf(w)].jobs
    BY <1>4, PoolsOfWorkers DEF PoolOK, PoolsFit
  <2>2. CASE PoolOf(w) = p
    BY <1>2, <2>1, <2>2
  <2> QED BY <1>2, <2>1, <2>2
<1> QED BY <1>1, <1>3, <1>4 DEF PoolOK, PoolsFit

LEMMA SentFits ==
    ASSUME PoolOK, NEW p, NEW id \in Nat, pool' = Sent(p, id), UNCHANGED work
    PROVE  PoolOK'
<1>1. CASE pool' = pool
  BY <1>1, Zenon DEF PoolOK, PoolsFit
<1>2. CASE pool' # pool
  <2>1. p \in Pools /\ pool' = [pool EXCEPT ![p].wake = @ \cup {id}] /\ pool[p] \in PoolRow
    BY <1>2 DEF Sent, PoolOK
  <2> DEFINE row == [pool[p] EXCEPT !.wake = @ \cup {id}]
  <2>2. row \in PoolRow /\ row.jobs = pool[p].jobs /\ row.reserved = pool[p].reserved
    BY <2>1 DEF PoolRow
  <2>3. pool' = [pool EXCEPT ![p] = row]
    BY <2>1
  <2>4. /\ pool[p].jobs \subseteq pool[p].reserved
        /\ IsFiniteSet(pool[p].jobs) /\ Cardinality(pool[p].jobs) <= QueueCapacity
    BY <2>1 DEF PoolOK, PoolsFit
  <2> HIDE DEF row
  <2>5. /\ row.jobs \subseteq row.reserved /\ IsFiniteSet(row.jobs) /\ Cardinality(row.jobs) <= QueueCapacity
        /\ pool[p].reserved \subseteq row.reserved /\ row.jobs \cap pool[p].reserved \subseteq pool[p].jobs
    BY <2>2, <2>4
  <2> QED BY <2>1, <2>2, <2>3, <2>5, PoolRowSet
<1> QED BY <1>1, <1>2

LEMMA RecoverableFits ==
    ASSUME SpeakerTypeOK, NEW p \in Pools
    PROVE  /\ Recoverable(p) \in SUBSET Nat /\ IsFiniteSet(Recoverable(p))
           /\ \A x \in Recoverable(p) : Position(p, x) \in Nat
           /\ \A x, y \in Recoverable(p) : Position(p, x) = Position(p, y) => x = y
<1>1. /\ Finals \in Nat /\ IsFiniteSet(1..Finals) /\ Len(tracks) \in Nat
      /\ IsFiniteSet(1..Len(tracks)) /\ DOMAIN tracks = 1..Len(tracks)
  BY SpeakerAssumption, TrackRows, FS_Interval
<1>2. CASE p = "routing"
  <2>1. Recoverable(p) \in SUBSET (1..Finals) /\ \A x : Position(p, x) = x
    BY <1>2 DEF Recoverable, Position, Utts
  <2>2. IsFiniteSet(Recoverable(p))
    BY <1>1, <2>1, FS_Subset
  <2> QED BY <1>1, <2>1, <2>2
<1>3. CASE p # "routing"
  <2>1. Recoverable(p) \in SUBSET (1..Len(tracks)) /\ \A x \in Recoverable(p) : Routed(x) # {}
    BY <1>1, <1>3 DEF Recoverable
  <2>2. IsFiniteSet(Recoverable(p))
    BY <1>1, <2>1, FS_Subset
  <2>3. ASSUME NEW x \in Recoverable(p)
        PROVE  Position(p, x) \in Nat /\ ev[Position(p, x)].track = x
    <3>1. Routed(x) \in SUBSET Nat /\ Routed(x) # {}
      BY <1>1, <2>1 DEF Routed, InTrack, Utts
    <3>2. Min(Routed(x)) \in Routed(x)
      BY <3>1, MinOf
    <3>3. Position(p, x) \in Routed(x)
      BY <1>3, <3>2, Zenon DEF Position
    <3> QED BY <3>1, <3>3 DEF Routed, InTrack
  <2> QED BY <1>1, <2>1, <2>2, <2>3
<1> QED BY <1>2, <1>3

LEMMA PollFits ==
    ASSUME SpeakerTypeOK, PoolOK, NEW p \in Pools, Poll(p)
    PROVE  PoolOK'
<1> DEFINE ids == FirstOf(p, Recoverable(p), QueueCapacity)
<1>1. QueueCapacity \in Nat /\ pool[p] \in PoolRow
  BY SpeakerAssumption DEF PoolOK
<1>2. ids \in SUBSET Recoverable(p)
  BY <1>1, RecoverableFits, FirstOfIn
<1>3. pool' = [pool EXCEPT ![p] = Enqueued(p, ids)] /\ UNCHANGED work
  BY DEF Poll
<1> HIDE DEF ids
<1>4. /\ ids \in SUBSET Nat
      /\ IsFiniteSet(ids) /\ \A x \in ids : Position(p, x) \in Nat
      /\ \A x, y \in ids : Position(p, x) = Position(p, y) => x = y
  BY <1>2, RecoverableFits, FS_Subset
<1>5. PICK new \in SUBSET (ids \ pool[p].reserved) :
         /\ Enqueued(p, ids) = [pool[p] EXCEPT !.jobs = @ \cup new, !.reserved = @ \cup new]
         /\ IsFiniteSet(pool[p].jobs \cup new)
         /\ Cardinality(pool[p].jobs \cup new) <= QueueCapacity
  BY <1>4, EnqueuedFits
<1> DEFINE row == Enqueued(p, ids)
<1>6. row \in PoolRow /\ row.jobs = pool[p].jobs \cup new /\ row.reserved = pool[p].reserved \cup new
  BY <1>1, <1>4, <1>5 DEF PoolRow
<1>7. pool[p].jobs \subseteq pool[p].reserved
  BY DEF PoolOK, PoolsFit
<1> HIDE DEF row
<1>8. /\ row.jobs \subseteq row.reserved /\ IsFiniteSet(row.jobs) /\ Cardinality(row.jobs) <= QueueCapacity
      /\ pool[p].reserved \subseteq row.reserved /\ row.jobs \cap pool[p].reserved \subseteq pool[p].jobs
  BY <1>5, <1>6, <1>7
<1>9. pool' = [pool EXCEPT ![p] = row]
  BY <1>3 DEF row
<1> QED BY <1>3, <1>6, <1>8, <1>9, PoolRowSet

LEMMA PoolRowEdit ==
    \A r \in PoolRow : \A J, R :
      [[r EXCEPT !.jobs = J] EXCEPT !.reserved = R] = [wake |-> r.wake, jobs |-> J, reserved |-> R]
<1> TAKE r \in PoolRow
<1> TAKE J, R
<1>1. r = [wake |-> r.wake, jobs |-> r.jobs, reserved |-> r.reserved]
  BY DEF PoolRow
<1>2. [r EXCEPT !.jobs = J] = [wake |-> r.wake, jobs |-> J, reserved |-> r.reserved]
  BY <1>1
<1> DEFINE s == [wake |-> r.wake, jobs |-> J, reserved |-> r.reserved]
<1>3. [s EXCEPT !.reserved = R] = [wake |-> r.wake, jobs |-> J, reserved |-> R]
  OBVIOUS
<1> HIDE DEF s
<1>4. [[r EXCEPT !.jobs = J] EXCEPT !.reserved = R] = [s EXCEPT !.reserved = R]
  BY <1>2 DEF s
<1> QED BY <1>3, <1>4

LEMMA WakeFits ==
    ASSUME PoolOK, NEW p \in Pools, NEW id, Wake(p, id)
    PROVE  PoolOK'
<1>1. pool[p] \in PoolRow /\ pool \in [Pools -> PoolRow] /\ id \in pool[p].wake /\ UNCHANGED work
  BY DEF PoolOK, Wake
<1>2. id \in Nat
  BY <1>1 DEF PoolRow
<1>3. /\ pool[p].jobs \subseteq pool[p].reserved
      /\ IsFiniteSet(pool[p].jobs) /\ Cardinality(pool[p].jobs) <= QueueCapacity
  BY DEF PoolOK, PoolsFit
<1> DEFINE gone == [pool EXCEPT ![p].wake = @ \ {id}]
<1>4. CASE pool' = gone
  <2> DEFINE row == [pool[p] EXCEPT !.wake = @ \ {id}]
  <2>1. row \in PoolRow /\ row.jobs = pool[p].jobs /\ row.reserved = pool[p].reserved
    BY <1>1 DEF PoolRow
  <2>2. pool' = [pool EXCEPT ![p] = row]
    BY <1>4
  <2> HIDE DEF row
  <2>3. /\ row.jobs \subseteq row.reserved /\ IsFiniteSet(row.jobs) /\ Cardinality(row.jobs) <= QueueCapacity
        /\ pool[p].reserved \subseteq row.reserved /\ row.jobs \cap pool[p].reserved \subseteq pool[p].jobs
    BY <1>3, <2>1
  <2> QED BY <1>1, <2>1, <2>2, <2>3, PoolRowSet
<1>5. CASE /\ Enqueued(p, {id}).jobs # pool[p].jobs
           /\ pool' = [gone EXCEPT ![p].jobs = @ \cup {id}, ![p].reserved = @ \cup {id}]
  <2>1. {id} \in SUBSET Nat /\ \E i : {id} \in SUBSET {i}
    BY <1>2
  <2>2. PICK new \in SUBSET ({id} \ pool[p].reserved) :
         /\ Enqueued(p, {id}) = [pool[p] EXCEPT !.jobs = @ \cup new, !.reserved = @ \cup new]
         /\ IsFiniteSet(pool[p].jobs \cup new)
         /\ Cardinality(pool[p].jobs \cup new) <= QueueCapacity
    BY <2>1, EnqueuedFits
  <2>3. Enqueued(p, {id}).jobs = pool[p].jobs \cup new
    BY <1>1, <2>2 DEF PoolRow
  <2>4. new # {}
    BY <1>5, <2>3
  <2>5. new = {id} /\ id \notin pool[p].reserved
    BY <2>2, <2>4
  <2> DEFINE row == [wake |-> pool[p].wake \ {id}, jobs |-> pool[p].jobs \cup {id},
                     reserved |-> pool[p].reserved \cup {id}]
  <2>6. row \in PoolRow
    BY <1>1, <1>2 DEF PoolRow
  <2>7. pool' = [pool EXCEPT ![p] = row]
    <3>1. gone \in [Pools -> PoolRow] /\ gone[p] = [pool[p] EXCEPT !.wake = @ \ {id}]
      BY <1>1 DEF PoolRow
    <3>2. gone[p] = [wake |-> pool[p].wake \ {id}, jobs |-> pool[p].jobs, reserved |-> pool[p].reserved]
      BY <1>1, <3>1 DEF PoolRow
    <3>3. \A q \in Pools : q # p => gone[q] = pool[q]
      BY <1>1
    <3> HIDE DEF gone
    <3>4. pool' = [gone EXCEPT ![p] = [[gone[p] EXCEPT !.jobs = gone[p].jobs \cup {id}]
                                         EXCEPT !.reserved = gone[p].reserved \cup {id}]]
      BY <1>5, <3>1, <3>2
    <3>5. [[gone[p] EXCEPT !.jobs = gone[p].jobs \cup {id}] EXCEPT !.reserved = gone[p].reserved \cup {id}]
            = [wake |-> gone[p].wake, jobs |-> gone[p].jobs \cup {id}, reserved |-> gone[p].reserved \cup {id}]
      <4>1. gone[p] \in PoolRow
        BY <1>1, <3>1
      <4> QED BY <4>1, PoolRowEdit, Zenon
    <3>6. [wake |-> gone[p].wake, jobs |-> gone[p].jobs \cup {id}, reserved |-> gone[p].reserved \cup {id}] = row
      BY <3>2
    <3> HIDE DEF row
    <3>7. pool' = [gone EXCEPT ![p] = row]
      BY <3>4, <3>5, <3>6
    <3>8. pool' = [q \in Pools |-> IF q = p THEN row ELSE pool[q]]
      BY <3>1, <3>3, <3>7
    <3>9. [pool EXCEPT ![p] = row] = [q \in Pools |-> IF q = p THEN row ELSE pool[q]]
      BY <1>1
    <3> QED BY <3>8, <3>9
  <2>8. row.jobs = pool[p].jobs \cup {id} /\ row.reserved = pool[p].reserved \cup {id}
    OBVIOUS
  <2> HIDE DEF row
  <2>9. /\ row.jobs \subseteq row.reserved /\ IsFiniteSet(row.jobs) /\ Cardinality(row.jobs) <= QueueCapacity
        /\ pool[p].reserved \subseteq row.reserved /\ row.jobs \cap pool[p].reserved \subseteq pool[p].jobs
    BY <1>3, <2>2, <2>5, <2>8
  <2> QED BY <1>1, <2>6, <2>7, <2>9, PoolRowSet
<1> QED BY <1>4, <1>5, Zenon DEF Wake

(* A worker takes an id, and has it in hand if there is something to do.   *)
LEMMA ReadsFits ==
    ASSUME SpeakerTypeOK, PoolOK, NEW w \in Workers, NEW id, NEW read \in WorkRow, work[w] = Idle, Reads(w, id, read),
           read = Idle \/ read.id = id, w = "host" \/ id \in pool[PoolOf(w)].jobs
    PROVE  PoolOK' /\ work' \in [Workers -> WorkRow] /\ work' = [work EXCEPT ![w] = read]
<1>1. work' = [work EXCEPT ![w] = read] /\ work \in [Workers -> WorkRow] /\ pool \in [Pools -> PoolRow]
  BY DEF Reads, SpeakerTypeOK, PoolOK
<1>2. work' \in [Workers -> WorkRow]
  BY <1>1
<1>3. work'[w] = read /\ \A x \in Workers : x # w => work'[x] = work[x]
  BY <1>1
<1>4. CASE w = "host"
  <2>1. UNCHANGED pool
    BY <1>4 DEF Reads
  <2>2. \A x \in Workers \ {"host"} : work'[x] = work[x]
    BY <1>3, <1>4
  <2> QED BY <1>1, <1>2, <2>1, <2>2 DEF PoolOK, PoolsFit
<1>5. CASE w # "host"
  <2> DEFINE p == PoolOf(w)
             reserved == IF read = Idle THEN pool[p].reserved \ {id} ELSE pool[p].reserved
             row == [wake |-> pool[p].wake, jobs |-> pool[p].jobs \ {id}, reserved |-> reserved]
  <2>1. p \in Pools /\ pool[p] \in PoolRow
    BY <1>1, <1>5, PoolsOfWorkers
  <2>2. row \in PoolRow /\ row.jobs = pool[p].jobs \ {id} /\ row.reserved = reserved
    BY <2>1 DEF PoolRow
  <2>3. pool' = [pool EXCEPT ![p] = row]
    <3>1. pool' = [pool EXCEPT ![p] = [[pool[p] EXCEPT !.jobs = @ \ {id}] EXCEPT !.reserved = reserved]]
      <4>1. CASE read = Idle
        BY <1>1, <1>5, <2>1, <4>1 DEF Reads
      <4>2. CASE read # Idle
        BY <1>1, <1>5, <2>1, <4>2 DEF Reads
      <4> QED BY <4>1, <4>2
    <3>2. [[pool[p] EXCEPT !.jobs = pool[p].jobs \ {id}] EXCEPT !.reserved = reserved] = row
      <4> HIDE DEF reserved, p, row
      <4>1. [[pool[p] EXCEPT !.jobs = pool[p].jobs \ {id}] EXCEPT !.reserved = reserved]
              = [wake |-> pool[p].wake, jobs |-> pool[p].jobs \ {id}, reserved |-> reserved]
        BY <2>1, PoolRowEdit, Zenon
      <4> QED BY <4>1 DEF row
    <3> HIDE DEF row, p
    <3> QED BY <3>1, <3>2
  <2>4. /\ pool[p].jobs \subseteq pool[p].reserved
        /\ IsFiniteSet(pool[p].jobs) /\ Cardinality(pool[p].jobs) <= QueueCapacity
        /\ Cardinality(pool[p].jobs) \in Nat /\ QueueCapacity \in Nat
    BY <2>1, FS_CardinalityType, SpeakerAssumption DEF PoolOK, PoolsFit
  <2>5. /\ row.jobs \subseteq row.reserved
        /\ IsFiniteSet(row.jobs) /\ Cardinality(row.jobs) <= QueueCapacity
    <3>1. row.jobs \subseteq pool[p].jobs /\ row.jobs \subseteq row.reserved
      BY <2>2, <2>4
    <3>2. IsFiniteSet(row.jobs) /\ Cardinality(row.jobs) <= Cardinality(pool[p].jobs)
      BY <2>4, <3>1, FS_Subset
    <3>3. Cardinality(row.jobs) \in Nat
      BY <3>2, FS_CardinalityType
    <3> HIDE DEF row, p
    <3> QED BY <2>4, <3>1, <3>2, <3>3
  <2>6. id \in pool[p].jobs
    BY <1>5
  <2> HIDE DEF row
  <2>7. pool'[p] = row /\ \A q \in Pools : q # p => pool'[q] = pool[q]
    BY <1>1, <2>1, <2>3
  <2>8. pool' \in [Pools -> PoolRow]
    BY <1>1, <2>1, <2>2, <2>3
  <2>9. \A q \in Pools : /\ pool'[q].jobs \subseteq pool'[q].reserved
                         /\ IsFiniteSet(pool'[q].jobs) /\ Cardinality(pool'[q].jobs) <= QueueCapacity
    BY <2>5, <2>7 DEF PoolOK, PoolsFit
  <2>10. ASSUME NEW x \in Workers \ {"host"}, work'[x] # Idle
         PROVE  work'[x].id \in pool'[PoolOf(x)].reserved \ pool'[PoolOf(x)].jobs
    <3>1. CASE x = w
      <4>1. read # Idle /\ read.id = id
        BY <1>3, <2>10, <3>1
      <4> QED BY <1>3, <2>2, <2>4, <2>6, <2>7, <3>1, <4>1
    <3>2. CASE x # w
      <4>1. PoolOf(x) \in Pools /\ PoolOf(x) # p
        BY <1>5, <3>2, PoolsOfWorkers
      <4>2. work'[x] = work[x] /\ work[x].id \in pool[PoolOf(x)].reserved \ pool[PoolOf(x)].jobs
        BY <1>3, <2>10, <3>2 DEF PoolOK, PoolsFit
      <4> QED BY <2>7, <4>1, <4>2
    <3> QED BY <3>1, <3>2
  <2> QED BY <1>1, <1>2, <2>8, <2>9, <2>10 DEF PoolOK, PoolsFit
<1> QED BY <1>4, <1>5

(* A worker is done with what it had in hand.                              *)
LEMMA ReturnedFits ==
    ASSUME SpeakerTypeOK, PoolOK, NEW w \in Workers, NEW ok, Returned(w, ok), work[w] # Idle,
           DOMAIN work' = Workers, work'[w] = Idle,
           \A x \in Workers \ {w} : (work'[x] = Idle <=> work[x] = Idle) /\ work'[x].id = work[x].id
    PROVE  PoolOK'
<1>1. CASE w = "host"
  BY <1>1 DEF Returned, PoolOK, PoolsFit
<1>2. CASE w # "host"
  <2> DEFINE p == PoolOf(w)
             row == [pool[p] EXCEPT !.reserved = @ \ {work[w].id}]
  <2>1. p \in Pools /\ pool[p] \in PoolRow /\ pool \in [Pools -> PoolRow]
    BY <1>2, PoolsOfWorkers DEF PoolOK
  <2>2. row \in PoolRow /\ row.jobs = pool[p].jobs /\ row.reserved = pool[p].reserved \ {work[w].id}
    BY <2>1 DEF PoolRow
  <2>3. pool' = [pool EXCEPT ![p] = row]
    BY <1>2 DEF Returned
  <2>4. work[w].id \in pool[p].reserved \ pool[p].jobs
    BY <1>2 DEF PoolOK, PoolsFit
  <2> HIDE DEF row
  <2>5. pool'[p] = row /\ \A q \in Pools : q # p => pool'[q] = pool[q]
    BY <2>1, <2>3
  <2>6. pool' \in [Pools -> PoolRow]
    BY <2>1, <2>2, <2>3
  <2>7. \A q \in Pools : /\ pool'[q].jobs \subseteq pool'[q].reserved
                         /\ IsFiniteSet(pool'[q].jobs) /\ Cardinality(pool'[q].jobs) <= QueueCapacity
    BY <2>2, <2>4, <2>5 DEF PoolOK, PoolsFit
  <2>8. ASSUME NEW x \in Workers \ {"host"}, work'[x] # Idle
        PROVE  work'[x].id \in pool'[PoolOf(x)].reserved \ pool'[PoolOf(x)].jobs
    <3>1. x # w
      BY <2>8
    <3>2. PoolOf(x) \in Pools /\ PoolOf(x) # p
      BY <1>2, <3>1, PoolsOfWorkers
    <3>3. work[x].id \in pool[PoolOf(x)].reserved \ pool[PoolOf(x)].jobs
      BY <2>8, <3>1 DEF PoolOK, PoolsFit
    <3> QED BY <2>5, <3>1, <3>2, <3>3
  <2> QED BY <2>6, <2>7, <2>8 DEF PoolOK, PoolsFit
<1> QED BY <1>1, <1>2

-----------------------------------------------------------------------------
(* The invariant of the workers, in the parts that the actions change.     *)

ControlFits == meeting \in {"recording", "ended"} /\ observing \in Utts \cup {None} /\ ready \in BOOLEAN
RowTypes ==
    /\ ev \in [Utts -> EvidenceRow] /\ utt \in [Utts -> SpeakerRow]
    /\ tracks \in Seq(TrackRow) /\ Len(tracks) <= MaxTracks
    /\ clusters \in Seq(ClusterRow) /\ Len(clusters) <= MaxClusters
RowsFit  == RowTypes /\ TracksFit /\ EvidenceFits /\ NoneLeftBehind
HandsFit == work \in [Workers -> WorkRow] /\ WorkFits
WorkersFit == ControlFits /\ RowsFit /\ PoolOK /\ HandsFit

LEMMA WorkersParts == WorkersFit <=> SpeakerTypeOK /\ SpeakerInv
  BY DEF WorkersFit, ControlFits, RowsFit, RowTypes, HandsFit, PoolOK, SpeakerInv, SpeakerTypeOK

LEMMA WorkersType == WorkersFit => SpeakerTypeOK
  BY WorkersParts

LEMMA RowsKept ==
    ASSUME RowsFit, UNCHANGED speakerRows
    PROVE  RowsFit'
  BY DEF RowsFit, RowTypes, TracksFit, EvidenceFits, NoneLeftBehind, InTrack, speakerRows

LEMMA PoolKept ==
    ASSUME PoolOK, UNCHANGED <<pool, work>>
    PROVE  PoolOK'
  BY DEF PoolOK, PoolsFit

LEMMA ControlKept ==
    ASSUME ControlFits, UNCHANGED <<meeting, observing, ready>>
    PROVE  ControlFits'
  BY DEF ControlFits

(* What a worker has in hand stays good: evidence does not become new, no  *)
(* track goes away, and a copy is stale when its track is decided.         *)
LEMMA HandsKept ==
    ASSUME HandsFit, work' \in [Workers -> WorkRow],
           \A u \in Utts : ev[u].routing \notin {"absent", "final"} => ev'[u].routing \notin {"absent", "final"},
           DOMAIN tracks \subseteq DOMAIN tracks',
           \A w \in Workers :
             \/ work'[w] = Idle
             \/ /\ work'[w] = work[w]
                /\ work[w].pc = "decide" /\ work[w].fresh => tracks'[work[w].id].state = tracks[work[w].id].state
             \/ work[w].pc = "decide" /\ work'[w] = [work[w] EXCEPT !.fresh = FALSE]
    PROVE  HandsFit'
<1> SUFFICES ASSUME NEW w \in Workers
    PROVE /\ work'[w].pc \in {"route", "skip"} =>
                w # "runner" /\ work'[w].id \in Utts /\ ev'[work'[w].id].routing \notin {"absent", "final"}
          /\ work'[w].pc = "route" => work'[w].target \in {None} \cup DOMAIN tracks'
          /\ work'[w].pc = "decide" =>
                /\ w # "router" /\ work'[w].id \in DOMAIN tracks'
                /\ work'[w].fresh => tracks'[work'[w].id].state \notin Terminal
  BY DEF HandsFit, WorkFits
<1>1. work[w] \in WorkRow
  BY DEF HandsFit
<1>2. /\ work[w].pc \in {"route", "skip"} =>
            w # "runner" /\ work[w].id \in Utts /\ ev[work[w].id].routing \notin {"absent", "final"}
      /\ work[w].pc = "route" => work[w].target \in {None} \cup DOMAIN tracks
      /\ work[w].pc = "decide" =>
            /\ w # "router" /\ work[w].id \in DOMAIN tracks
            /\ work[w].fresh => tracks[work[w].id].state \notin Terminal
  BY DEF HandsFit, WorkFits
<1>3. CASE work'[w] = Idle
  BY <1>3 DEF Idle
<1>4. CASE /\ work'[w] = work[w]
           /\ work[w].pc = "decide" /\ work[w].fresh => tracks'[work[w].id].state = tracks[work[w].id].state
  BY <1>2, <1>4
<1>5. CASE work[w].pc = "decide" /\ work'[w] = [work[w] EXCEPT !.fresh = FALSE]
  <2>1. work'[w].pc = "decide" /\ work'[w].id = work[w].id /\ work'[w].fresh = FALSE
    BY <1>1, <1>5 DEF WorkRow
  <2> QED BY <1>2, <1>5, <2>1
<1> QED BY <1>3, <1>4, <1>5

LEMMA IdleRow == Idle \in WorkRow
<1>1. None \in 0..MaxTracks /\ MaxTracks \in Nat
  BY SpeakerAssumption DEF None
<1> QED BY <1>1 DEF Idle, WorkRow, None

LEMMA WorkersStart == SpeakerInit => WorkersFit
<1> SUFFICES ASSUME SpeakerInit PROVE WorkersFit
  OBVIOUS
<1>1. MaxTracks \in Nat /\ MaxClusters \in Nat /\ QueueCapacity \in Nat /\ Nobody \notin Participants
  BY SpeakerAssumption
<1>2. ControlFits
  BY DEF SpeakerInit, ControlFits
<1>3. RowTypes
  <2>1. [routing |-> "absent", track |-> None, order |-> 0] \in EvidenceRow
    BY <1>1 DEF EvidenceRow, None
  <2>2. Unknown \in SpeakerRow
    BY <1>1 DEF Unknown, SpeakerRow, None
  <2>3. <<>> \in Seq(TrackRow) /\ <<>> \in Seq(ClusterRow) /\ Len(<<>>) = 0
    OBVIOUS
  <2> QED BY <1>1, <2>1, <2>2, <2>3 DEF SpeakerInit, RowTypes
<1>4. TracksFit /\ EvidenceFits /\ NoneLeftBehind
  BY DEF SpeakerInit, TracksFit, EvidenceFits, NoneLeftBehind
<1>5. HandsFit
  <2>1. work \in [Workers -> WorkRow] /\ \A w \in Workers : work[w] = Idle
    BY IdleRow DEF SpeakerInit
  <2> QED BY <2>1 DEF HandsFit, WorkFits, Idle
<1>6. PoolOK
  <2>1. \A p \in Pools : pool[p] = NoPool
    BY DEF SpeakerInit
  <2>2. NoPool \in PoolRow /\ NoPool.jobs = {} /\ NoPool.reserved = {}
    BY DEF NoPool, PoolRow
  <2>3. IsFiniteSet({}) /\ Cardinality({}) = 0
    BY FS_EmptySet
  <2>4. \A w \in Workers : work[w] = Idle
    BY DEF SpeakerInit
  <2>5. pool \in [Pools -> PoolRow]
    BY <2>2 DEF SpeakerInit
  <2> QED BY <1>1, <2>1, <2>2, <2>3, <2>4, <2>5 DEF PoolOK, PoolsFit
<1> QED BY <1>2, <1>3, <1>4, <1>5, <1>6 DEF WorkersFit, RowsFit

-----------------------------------------------------------------------------
(* One lemma per action: first those that leave the rows alone.            *)

LEMMA PoolSteps ==
    ASSUME WorkersFit, NEW p \in Pools, Poll(p) \/ \E id \in pool[p].wake : Wake(p, id)
    PROVE  WorkersFit'
<1>1. SpeakerTypeOK /\ ControlFits /\ RowsFit /\ PoolOK /\ HandsFit
  BY WorkersType DEF WorkersFit
<1>2. PoolOK'
  BY <1>1, PollFits, WakeFits
<1>3. UNCHANGED <<meeting, observing, ready>> /\ UNCHANGED speakerRows /\ UNCHANGED work
  BY DEF Poll, Wake
<1>4. ControlFits' /\ RowsFit'
  BY <1>1, <1>3, ControlKept, RowsKept
<1>5. HandsFit'
  BY <1>1, <1>3 DEF HandsFit, WorkFits, speakerRows
<1> QED BY <1>2, <1>4, <1>5 DEF WorkersFit

LEMMA ControlSteps ==
    ASSUME WorkersFit, BecomesReady \/ EndMeeting \/ RetrySpeaker \/ RetryTracks \/ ObserveFails
    PROVE  WorkersFit'
<1>1. ControlFits /\ RowsFit /\ PoolOK /\ HandsFit
  BY DEF WorkersFit
<1>2. UNCHANGED speakerRows /\ UNCHANGED <<pool, work>>
  BY DEF BecomesReady, EndMeeting, RetrySpeaker, RetryTracks, ObserveFails
<1>3. ControlFits'
  BY <1>1 DEF ControlFits, BecomesReady, EndMeeting, RetrySpeaker, RetryTracks, ObserveFails
<1>4. HandsFit'
  BY <1>1, <1>2 DEF HandsFit, WorkFits, speakerRows
<1> QED BY <1>1, <1>2, <1>3, <1>4, RowsKept, PoolKept DEF WorkersFit

LEMMA CrashStep ==
    ASSUME WorkersFit, SpeakerCrash
    PROVE  WorkersFit'
<1>1. ControlFits /\ RowsFit
  BY DEF WorkersFit
<1>2. /\ meeting' = "ended" /\ observing' = None /\ ready' \in BOOLEAN /\ UNCHANGED speakerRows
      /\ pool' = [p \in Pools |-> NoPool] /\ work' = [w \in Workers |-> Idle]
  BY DEF SpeakerCrash
<1>3. ControlFits'
  BY <1>2 DEF ControlFits
<1>4. HandsFit'
  <2>1. work' \in [Workers -> WorkRow] /\ \A w \in Workers : work'[w] = Idle
    BY <1>2, IdleRow
  <2> QED BY <2>1 DEF HandsFit, WorkFits, Idle
<1>5. PoolOK'
  <2>1. \A p \in Pools : pool'[p] = NoPool
    BY <1>2
  <2>2. NoPool \in PoolRow /\ NoPool.jobs = {} /\ NoPool.reserved = {}
    BY DEF NoPool, PoolRow
  <2>3. IsFiniteSet({}) /\ Cardinality({}) = 0 /\ QueueCapacity \in Nat
    BY FS_EmptySet, SpeakerAssumption
  <2>4. \A w \in Workers : work'[w] = Idle
    BY <1>2
  <2>5. pool' \in [Pools -> PoolRow]
    BY <1>2, <2>2
  <2>6. 0 <= QueueCapacity
    BY <2>3
  <2> QED BY <2>1, <2>2, <2>3, <2>4, <2>5, <2>6 DEF PoolOK, PoolsFit
<1> QED BY <1>1, <1>2, <1>3, <1>4, <1>5, RowsKept DEF WorkersFit

(* The worker reads: what it has in hand is good.                          *)
LEMMA ReadsStep ==
    ASSUME WorkersFit, NEW w \in Workers, NEW id, NEW read \in WorkRow, work[w] = Idle, Reads(w, id, read),
           UNCHANGED <<meeting, observing, ready>>, UNCHANGED speakerRows,
           read = Idle \/ read.id = id, w = "host" \/ id \in pool[PoolOf(w)].jobs,
           read.pc \in {"route", "skip"} =>
              w # "runner" /\ read.id \in Utts /\ ev[read.id].routing \notin {"absent", "final"},
           read.pc = "route" => read.target \in {None} \cup DOMAIN tracks,
           read.pc = "decide" => /\ w # "router" /\ read.id \in DOMAIN tracks
                                 /\ read.fresh => tracks[read.id].state \notin Terminal
    PROVE  WorkersFit'
<1>1. SpeakerTypeOK /\ ControlFits /\ RowsFit /\ PoolOK /\ HandsFit
  BY WorkersType DEF WorkersFit
<1>2. PoolOK' /\ work' \in [Workers -> WorkRow] /\ work' = [work EXCEPT ![w] = read]
  BY <1>1, ReadsFits
<1>3. work'[w] = read /\ \A x \in Workers : x # w => work'[x] = work[x]
  BY <1>1, <1>2 DEF HandsFit
<1>4. ev' = ev /\ tracks' = tracks
  BY DEF speakerRows
<1>5. WorkFits'
  <2> SUFFICES ASSUME NEW x \in Workers
      PROVE /\ work'[x].pc \in {"route", "skip"} =>
                  x # "runner" /\ work'[x].id \in Utts /\ ev'[work'[x].id].routing \notin {"absent", "final"}
            /\ work'[x].pc = "route" => work'[x].target \in {None} \cup DOMAIN tracks'
            /\ work'[x].pc = "decide" =>
                  /\ x # "router" /\ work'[x].id \in DOMAIN tracks'
                  /\ work'[x].fresh => tracks'[work'[x].id].state \notin Terminal
    BY DEF WorkFits
  <2>1. CASE x = w
    BY <1>3, <1>4, <2>1
  <2>2. CASE x # w
    BY <1>1, <1>3, <1>4, <2>2 DEF HandsFit, WorkFits
  <2> QED BY <2>1, <2>2
<1>6. ControlFits' /\ RowsFit'
  BY <1>1, ControlKept, RowsKept
<1> QED BY <1>2, <1>5, <1>6 DEF WorkersFit, HandsFit

LEMMA RouteStep ==
    ASSUME WorkersFit, NEW w \in Workers, NEW u \in Utts, Route(w, u)
    PROVE  WorkersFit'
<1>1. SpeakerTypeOK /\ RowsFit /\ u \in Nat /\ MaxTracks \in Nat
  BY WorkersType, SpeakerAssumption DEF WorkersFit, Utts
<1>2. /\ work[w] = Idle /\ u \in Offered(w, "routing")
      /\ UNCHANGED <<meeting, observing, ready>> /\ UNCHANGED speakerRows
  BY DEF Route
<1>3. (w = "host" \/ u \in pool[PoolOf(w)].jobs) /\ w # "runner"
  <2>1. w = "host" \/ (PoolOf(w) = "routing" /\ u \in pool["routing"].jobs)
    BY <1>2 DEF Offered
  <2>2. PoolOf("runner") = "track"
    BY DEF PoolOf
  <2> QED BY <2>1, <2>2
<1>4. CASE Reads(w, u, Idle)
  BY <1>2, <1>3, <1>4, IdleRow, ReadsStep DEF Idle
<1>5. ASSUME ev[u].routing \in Routable, Reads(w, u, [Idle EXCEPT !.pc = "skip", !.id = u])
      PROVE  WorkersFit'
  <2> DEFINE read == [Idle EXCEPT !.pc = "skip", !.id = u]
  <2>1. read \in WorkRow /\ read.pc = "skip" /\ read.id = u
    BY <1>1, IdleRow DEF WorkRow
  <2>2. Reads(w, u, read)
    BY <1>5
  <2>3. ev[u].routing \notin {"absent", "final"}
    BY <1>5 DEF Routable
  <2> HIDE DEF read
  <2> QED BY <1>2, <1>3, <2>1, <2>2, <2>3, ReadsStep
<1>6. ASSUME ev[u].routing \in Routable, NEW t \in Targets(u),
             Reads(w, u, [Idle EXCEPT !.pc = "route", !.id = u, !.target = t])
      PROVE  WorkersFit'
  <2> DEFINE read == [Idle EXCEPT !.pc = "route", !.id = u, !.target = t]
  <2>1. ev[u].routing \notin {"absent", "final"}
    BY <1>6 DEF Routable
  <2>2. ev[u].track \in DOMAIN tracks
    BY <1>1, <2>1 DEF RowsFit, EvidenceFits
  <2>3. t \in {None} \cup DOMAIN tracks
    BY <1>6, <2>2 DEF Targets, Segments
  <2>4. t \in 0..MaxTracks
    BY <1>1, <2>3, TrackRows DEF None
  <2>5. read \in WorkRow /\ read.pc = "route" /\ read.id = u /\ read.target = t
    BY <1>1, <2>4, IdleRow DEF WorkRow
  <2>6. Reads(w, u, read)
    BY <1>6
  <2> HIDE DEF read
  <2> QED BY <1>2, <1>3, <2>1, <2>3, <2>5, <2>6, ReadsStep
<1> QED BY <1>4, <1>5, <1>6 DEF Route

LEMMA LoadStep ==
    ASSUME WorkersFit, NEW w \in Workers, NEW t \in DOMAIN tracks, Load(w, t)
    PROVE  WorkersFit'
<1>1. SpeakerTypeOK /\ RowsFit /\ t \in Nat /\ MaxTracks \in Nat
  BY WorkersType, SpeakerAssumption, TrackRows DEF WorkersFit
<1>2. /\ work[w] = Idle /\ t \in Offered(w, "track")
      /\ UNCHANGED <<meeting, observing, ready>> /\ UNCHANGED speakerRows
  BY DEF Load
<1>3. (w = "host" \/ t \in pool[PoolOf(w)].jobs) /\ w # "router"
  <2>1. w = "host" \/ (PoolOf(w) = "track" /\ t \in pool["track"].jobs)
    BY <1>2 DEF Offered
  <2>2. PoolOf("router") = "routing"
    BY DEF PoolOf
  <2> QED BY <2>1, <2>2
<1>4. CASE tracks[t].state \in Terminal
  <2>1. Reads(w, t, Idle)
    BY <1>4 DEF Load
  <2> QED BY <1>2, <1>3, <2>1, IdleRow, ReadsStep DEF Idle
<1>5. CASE tracks[t].state \notin Terminal
  <2> DEFINE final == w = "host" \/ meeting = "ended"
             read == [Idle EXCEPT !.pc = "decide", !.id = t, !.seen = Routed(t), !.final = final]
  <2>1. Routed(t) \in SUBSET Utts /\ final \in BOOLEAN
    BY DEF Routed, InTrack
  <2>2. Reads(w, t, [Idle EXCEPT !.pc = "decide", !.id = t, !.seen = Routed(t), !.final = final])
    BY <1>5 DEF Load
  <2> HIDE DEF final
  <2>3. read \in WorkRow /\ read.pc = "decide" /\ read.id = t
    BY <1>1, <2>1, IdleRow DEF WorkRow
  <2>4. Reads(w, t, read)
    BY <2>2
  <2> HIDE DEF read
  <2> QED BY <1>2, <1>3, <1>5, <2>3, <2>4, ReadsStep
<1> QED BY <1>4, <1>5

-----------------------------------------------------------------------------
(* Evidence of one final is written.                                       *)

LEMMA EvidenceStep ==
    ASSUME RowsFit, NEW u \in Utts, NEW row \in EvidenceRow, ev' = [ev EXCEPT ![u] = row],
           row.routing # "routed", row.routing \notin {"absent", "final"} => row.track \in DOMAIN tracks,
           UNCHANGED <<utt, tracks, clusters>>
    PROVE  RowsFit'
<1>1. ev \in [Utts -> EvidenceRow] /\ ev'[u] = row /\ \A v \in Utts : v # u => ev'[v] = ev[v]
  BY DEF RowsFit, RowTypes
<1>2. RowTypes'
  BY <1>1 DEF RowsFit, RowTypes
<1>3. TracksFit'
  BY DEF RowsFit, TracksFit
<1>4. EvidenceFits'
  BY <1>1 DEF RowsFit, EvidenceFits
<1>5. NoneLeftBehind'
  BY <1>1 DEF RowsFit, NoneLeftBehind
<1> QED BY <1>2, <1>3, <1>4, <1>5 DEF RowsFit

LEMMA PersistStep ==
    ASSUME WorkersFit, NEW u \in Utts, Persist(u)
    PROVE  WorkersFit'
<1>1. ControlFits /\ RowsFit /\ PoolOK /\ HandsFit /\ ev[u] \in EvidenceRow /\ ev \in [Utts -> EvidenceRow]
  BY DEF WorkersFit, RowsFit, RowTypes
<1> DEFINE row == [ev[u] EXCEPT !.routing = "final"]
<1>2. row \in EvidenceRow /\ row.routing = "final"
  BY <1>1 DEF EvidenceRow
<1>3. ev' = [ev EXCEPT ![u] = row] /\ UNCHANGED <<utt, tracks, clusters>> /\ UNCHANGED <<pool, work>>
  BY DEF Persist
<1> HIDE DEF row
<1>4. RowsFit' /\ PoolOK'
  BY <1>1, <1>2, <1>3, EvidenceStep, PoolKept
<1>5. ControlFits'
  BY <1>1 DEF Persist, ControlFits
<1>6. \A v \in Utts : ev[v].routing \notin {"absent", "final"} => ev'[v].routing \notin {"absent", "final"}
  BY <1>1, <1>3 DEF Persist
<1>7. HandsFit'
  BY <1>1, <1>3, <1>6, HandsKept DEF HandsFit
<1> QED BY <1>4, <1>5, <1>7 DEF WorkersFit

LEMMA HandSteps ==
    ASSUME WorkersFit, NEW w \in Workers, SkipManualRouting(w) \/ RouteFails(w)
    PROVE  WorkersFit'
<1> DEFINE u == work[w].id
<1>1. /\ SpeakerTypeOK /\ ControlFits /\ RowsFit /\ PoolOK /\ HandsFit
      /\ ev \in [Utts -> EvidenceRow] /\ work \in [Workers -> WorkRow]
  BY WorkersType DEF WorkersFit, RowsFit, RowTypes, HandsFit
<1>2. work[w].pc \in {"skip", "route"} /\ UNCHANGED <<utt, tracks, clusters>> /\ UNCHANGED <<meeting, observing, ready>>
  BY DEF SkipManualRouting, RouteFails
<1>3. u \in Utts /\ ev[u].routing \notin {"absent", "final"}
  BY <1>1, <1>2 DEF HandsFit, WorkFits
<1>4. PICK s \in {"insufficient", "failed"} :
        ev' = IF ev[u].routing \in Routable THEN [ev EXCEPT ![u].routing = s] ELSE ev
  BY DEF SkipManualRouting, RouteFails
<1>5. \E ok \in BOOLEAN : Done(w, ok)
  BY DEF SkipManualRouting, RouteFails
<1>6. RowsFit'
  <2>1. CASE ev[u].routing \in Routable
    <3> DEFINE row == [ev[u] EXCEPT !.routing = s]
    <3>1. row \in EvidenceRow /\ row.routing = s /\ row.track = ev[u].track
      BY <1>1, <1>3 DEF EvidenceRow
    <3>2. ev' = [ev EXCEPT ![u] = row]
      BY <1>4, <2>1
    <3> HIDE DEF row
    <3>3. row.track \in DOMAIN tracks
      BY <1>1, <1>3, <3>1 DEF RowsFit, EvidenceFits
    <3>4. row.routing # "routed"
      BY <3>1
    <3> HIDE DEF u
    <3> QED BY <1>1, <1>2, <1>3, <3>1, <3>2, <3>3, <3>4, EvidenceStep
  <2>2. CASE ev[u].routing \notin Routable
    <3>1. UNCHANGED speakerRows
      BY <1>2, <1>4, <2>2 DEF speakerRows
    <3> QED BY <1>1, <3>1, RowsKept
  <2> QED BY <2>1, <2>2
<1>7. work' = [work EXCEPT ![w] = Idle] /\ \E ok \in BOOLEAN : Returned(w, ok)
  BY <1>5 DEF Done
<1>8. /\ work' \in [Workers -> WorkRow] /\ work'[w] = Idle /\ work[w] # Idle
      /\ \A x \in Workers \ {w} : work'[x] = work[x]
  BY <1>1, <1>2, <1>7, IdleRow DEF Idle
<1>9. PoolOK'
  <2>1. PICK ok \in BOOLEAN : Returned(w, ok)
    BY <1>7
  <2>2. DOMAIN work' = Workers
    BY <1>8
  <2> QED BY <1>1, <1>8, <2>1, <2>2, ReturnedFits
<1>10. \A v \in Utts : ev[v].routing \notin {"absent", "final"} => ev'[v].routing \notin {"absent", "final"}
  <2> TAKE v \in Utts
  <2>1. CASE ev[u].routing \in Routable
    <3>1. ev'[v] = IF v = u THEN [ev[u] EXCEPT !.routing = s] ELSE ev[v]
      BY <1>1, <1>3, <1>4, <2>1
    <3>2. [ev[u] EXCEPT !.routing = s].routing = s
      BY <1>1, <1>3 DEF EvidenceRow
    <3> QED BY <3>1, <3>2
  <2> QED BY <1>4, <2>1
<1>11. \A x \in Workers : \/ work'[x] = Idle
         \/ /\ work'[x] = work[x]
            /\ work[x].pc = "decide" /\ work[x].fresh => tracks'[work[x].id].state = tracks[work[x].id].state
  BY <1>2, <1>8
<1>12. DOMAIN tracks \subseteq DOMAIN tracks'
  BY <1>2
<1>13. HandsFit'
  BY <1>1, <1>8, <1>10, <1>11, <1>12, HandsKept
<1> QED BY <1>1, <1>2, <1>6, <1>9, <1>13, ControlKept DEF WorkersFit

-----------------------------------------------------------------------------
(* Evidence moves to a track, which may be new.                            *)

LEMMA AppendTrack ==
    ASSUME RowTypes, TracksFit, NEW l \in Labels, NEW seg \in Nat, NEW t \in 1..(Len(tracks) + 1), t <= MaxTracks,
           tracks' = (IF t > Len(tracks) THEN Append(tracks, NoTrack(l, seg)) ELSE tracks),
           Len(clusters') \in Nat, Len(clusters) <= Len(clusters')
    PROVE  /\ tracks' \in Seq(TrackRow) /\ Len(tracks') <= MaxTracks /\ TracksFit'
           /\ t \in DOMAIN tracks' /\ DOMAIN tracks \subseteq DOMAIN tracks'
           /\ \A s \in DOMAIN tracks : tracks'[s] = tracks[s]
           /\ t \notin DOMAIN tracks => tracks'[t].state = "collecting"
<1>1. /\ Len(tracks) \in Nat /\ DOMAIN tracks = 1..Len(tracks) /\ Len(tracks) <= MaxTracks
      /\ tracks \in Seq(TrackRow) /\ MaxTracks \in Nat /\ Len(clusters) \in Nat
  BY SpeakerAssumption DEF RowTypes
<1>2. CASE t <= Len(tracks)
  <2>1. ~ (t > Len(tracks))
    BY <1>1, <1>2
  <2>2. tracks' = tracks
    BY <2>1, Zenon
  <2>3. TracksFit'
    <3> SUFFICES ASSUME NEW s \in DOMAIN tracks
        PROVE  /\ tracks'[s].state = "matched" <=> tracks'[s].member # Nobody
               /\ tracks'[s].state = "clustered" <=> tracks'[s].cluster # None
               /\ tracks'[s].events = IF tracks'[s].state \in {"matched", "clustered"} THEN 1 ELSE 0
               /\ tracks'[s].cluster <= Len(clusters')
      BY <2>2 DEF TracksFit
    <3>1. tracks'[s] = tracks[s] /\ tracks[s] \in TrackRow
      <4>1. tracks'[s] = tracks[s]
        BY <2>2, Zenon
      <4>2. tracks[s] \in TrackRow
        BY <1>1
      <4> QED BY <4>1, <4>2
    <3>2. tracks[s].cluster \in Nat /\ tracks[s].cluster <= Len(clusters)
      BY <3>1, SpeakerAssumption DEF TracksFit, TrackRow
    <3> QED BY <1>1, <3>1, <3>2 DEF TracksFit
  <2>4. t \in DOMAIN tracks
    BY <1>1, <1>2
  <2> QED BY <1>1, <2>2, <2>3, <2>4
<1>3. CASE t > Len(tracks)
  <2> DEFINE row == NoTrack(l, seg)
  <2>1. tracks' = Append(tracks, row) /\ t = Len(tracks) + 1
    BY <1>1, <1>3
  <2>2. /\ row \in TrackRow /\ row.state = "collecting" /\ row.member = Nobody /\ row.cluster = None /\ row.events = 0
    BY SpeakerAssumption DEF NoTrack, TrackRow, None
  <2> HIDE DEF row
  <2>3. /\ tracks' \in Seq(TrackRow) /\ Len(tracks') = Len(tracks) + 1 /\ tracks'[t] = row
        /\ \A s \in 1..Len(tracks) : tracks'[s] = tracks[s]
    BY <1>1, <2>1, <2>2
  <2>4. DOMAIN tracks' = 1..t
    BY <1>1, <2>1, <2>3
  <2>5. TracksFit'
    <3> SUFFICES ASSUME NEW s \in 1..t
        PROVE  /\ tracks'[s].state = "matched" <=> tracks'[s].member # Nobody
               /\ tracks'[s].state = "clustered" <=> tracks'[s].cluster # None
               /\ tracks'[s].events = IF tracks'[s].state \in {"matched", "clustered"} THEN 1 ELSE 0
               /\ tracks'[s].cluster <= Len(clusters')
      BY <2>4 DEF TracksFit
    <3>1. CASE s = t
      BY <2>2, <2>3, <3>1 DEF None
    <3>2. CASE s # t
      <4>1. s \in DOMAIN tracks /\ tracks'[s] = tracks[s]
        BY <1>1, <2>1, <2>3, <3>2
      <4>2. tracks[s].cluster \in Nat /\ tracks[s].cluster <= Len(clusters)
        <5>1. tracks[s] \in TrackRow
          BY <1>1, <4>1
        <5> QED BY <4>1, <5>1, SpeakerAssumption DEF TracksFit, TrackRow
      <4> QED BY <1>1, <4>1, <4>2 DEF TracksFit
    <3> QED BY <3>1, <3>2
  <2> QED BY <1>1, <2>1, <2>2, <2>3, <2>4, <2>5
<1> QED BY <1>1, <1>2, <1>3

LEMMA RoutedStep ==
    ASSUME RowsFit, NEW u \in Utts, NEW row \in EvidenceRow, ev' = [ev EXCEPT ![u] = row],
           tracks' \in Seq(TrackRow), Len(tracks') <= MaxTracks, TracksFit',
           row.track \in DOMAIN tracks', DOMAIN tracks \subseteq DOMAIN tracks',
           \A s \in DOMAIN tracks : tracks'[s] = tracks[s],
           utt' \in [Utts -> SpeakerRow], \A v \in Utts \ {u} : utt'[v] = utt[v],
           row.routing = "routed" /\ utt'[u].src = "unassigned"
             => tracks'[row.track].state \notin {"matched", "clustered"},
           clusters' \in Seq(ClusterRow), Len(clusters') <= MaxClusters
    PROVE  RowsFit'
<1>1. ev \in [Utts -> EvidenceRow] /\ ev'[u] = row /\ \A v \in Utts \ {u} : ev'[v] = ev[v]
  BY DEF RowsFit, RowTypes
<1>2. RowTypes'
  BY <1>1 DEF RowsFit, RowTypes
<1>3. EvidenceFits'
  <2> SUFFICES ASSUME NEW v \in Utts, ev'[v].routing \notin {"absent", "final"} PROVE ev'[v].track \in DOMAIN tracks'
    BY DEF EvidenceFits
  <2>1. CASE v = u
    BY <1>1, <2>1
  <2>2. CASE v # u
    BY <1>1, <2>2 DEF RowsFit, EvidenceFits
  <2> QED BY <2>1, <2>2
<1>4. NoneLeftBehind'
  <2> SUFFICES ASSUME NEW v \in Utts, ev'[v].routing = "routed", utt'[v].src = "unassigned"
               PROVE  tracks'[ev'[v].track].state \notin {"matched", "clustered"}
    BY DEF NoneLeftBehind
  <2>1. CASE v = u
    BY <1>1, <2>1
  <2>2. CASE v # u
    <3>1. ev[v].routing = "routed" /\ utt[v].src = "unassigned" /\ ev'[v].track = ev[v].track
      BY <1>1, <2>2
    <3>2. ev[v].track \in DOMAIN tracks /\ tracks[ev[v].track].state \notin {"matched", "clustered"}
      BY <3>1 DEF RowsFit, EvidenceFits, NoneLeftBehind
    <3> QED BY <3>1, <3>2
  <2> QED BY <2>1, <2>2
<1> QED BY <1>2, <1>3, <1>4 DEF RowsFit

LEMMA ClusterRows ==
    ASSUME RowTypes
    PROVE  /\ Len(clusters) \in Nat /\ DOMAIN clusters = 1..Len(clusters)
           /\ Len(clusters) <= MaxClusters /\ MaxClusters \in Nat
           /\ \A c \in DOMAIN clusters : clusters[c] \in ClusterRow
  BY SpeakerAssumption DEF RowTypes

LEMMA ClusterCounted ==
    ASSUME RowTypes, NEW c \in DOMAIN clusters
    PROVE  /\ [clusters EXCEPT ![c].rev = @ + 1] \in Seq(ClusterRow)
           /\ Len([clusters EXCEPT ![c].rev = @ + 1]) = Len(clusters)
<1>1. clusters[c] \in ClusterRow /\ DOMAIN clusters = 1..Len(clusters) /\ clusters \in Seq(ClusterRow)
  BY DEF RowTypes
<1> DEFINE row == [clusters[c] EXCEPT !.rev = @ + 1]
<1>2. row \in ClusterRow
  BY <1>1 DEF ClusterRow
<1> HIDE DEF row
<1>3. [clusters EXCEPT ![c] = row] \in Seq(ClusterRow) /\ Len([clusters EXCEPT ![c] = row]) = Len(clusters)
  BY <1>1, <1>2
<1>4. [clusters EXCEPT ![c].rev = @ + 1] = [clusters EXCEPT ![c] = row]
  BY DEF row
<1> QED BY <1>3, <1>4

LEMMA InheritedFits ==
    ASSUME RowTypes, TracksFit, NEW u \in Utts, NEW t
    PROVE  /\ Inherited(u, t, clusters)[1] \in [Utts -> SpeakerRow]
           /\ \A v \in Utts \ {u} : Inherited(u, t, clusters)[1][v] = utt[v]
           /\ Inherited(u, t, clusters)[2] \in Seq(ClusterRow)
           /\ Len(Inherited(u, t, clusters)[2]) = Len(clusters)
           /\ t \in DOMAIN tracks /\ tracks[t].state \in {"matched", "clustered"}
                => Inherited(u, t, clusters)[1][u].src # "unassigned"
<1> DEFINE I == Inherited(u, t, clusters)
           Fits == /\ I[1] \in [Utts -> SpeakerRow] /\ \A v \in Utts \ {u} : I[1][v] = utt[v]
                   /\ I[2] \in Seq(ClusterRow) /\ Len(I[2]) = Len(clusters)
                   /\ t \in DOMAIN tracks /\ tracks[t].state \in {"matched", "clustered"} => I[1][u].src # "unassigned"
<1> SUFFICES Fits
  OBVIOUS
<1>1. utt \in [Utts -> SpeakerRow] /\ utt[u] \in SpeakerRow /\ clusters \in Seq(ClusterRow)
  BY DEF RowTypes
<1>2. CASE t \notin DOMAIN tracks \/ utt[u].src # "unassigned"
  <2>1. I = <<utt, clusters>>
    BY <1>2 DEF Inherited
  <2> HIDE DEF I
  <2> QED BY <1>1, <1>2, <2>1
<1> DEFINE tr == tracks[t]
           c  == tr.cluster
           to(who, cluster, src) == [who |-> who, cluster |-> cluster, src |-> src, rev |-> utt[u].rev + 1]
<1>3. ASSUME t \in DOMAIN tracks, utt[u].src = "unassigned" PROVE Fits
  <2>1. /\ tr \in TrackRow /\ c \in Nat /\ c <= Len(clusters) /\ c <= MaxClusters /\ Len(clusters) \in Nat
        /\ DOMAIN clusters = 1..Len(clusters) /\ \A k \in DOMAIN clusters : clusters[k] \in ClusterRow
    <3>1. tr \in TrackRow
      BY <1>3 DEF RowTypes
    <3>2. /\ Len(clusters) \in Nat /\ DOMAIN clusters = 1..Len(clusters) /\ MaxClusters \in Nat
          /\ Len(clusters) <= MaxClusters /\ \A k \in DOMAIN clusters : clusters[k] \in ClusterRow
      BY ClusterRows
    <3>3. c \in Nat
      BY <3>1, <3>2 DEF TrackRow
    <3>4. c <= Len(clusters)
      BY <1>3 DEF TracksFit
    <3> HIDE DEF c, tr
    <3> QED BY <3>1, <3>2, <3>3, <3>4
  <2>2. CASE tr.state = "matched"
    <3>1. to(tr.member, utt[u].cluster, "automatic_member") \in SpeakerRow
      BY <1>1, <2>1 DEF SpeakerRow, TrackRow
    <3>2. I = <<[utt EXCEPT ![u] = to(tr.member, utt[u].cluster, "automatic_member")], clusters>>
      BY <1>3, <2>2 DEF Inherited
    <3>3. to(tr.member, utt[u].cluster, "automatic_member").src # "unassigned"
      OBVIOUS
    <3> HIDE DEF I, to, tr
    <3> QED BY <1>1, <3>1, <3>2, <3>3
  <2>3. CASE tr.state # "matched" /\ c = None
    <3>1. I = <<utt, clusters>>
      BY <1>3, <2>3 DEF Inherited
    <3>2. tr.state # "clustered"
      BY <1>3, <2>3 DEF TracksFit
    <3> HIDE DEF I
    <3> QED BY <1>1, <2>3, <3>1, <3>2
  <2>4. ASSUME tr.state # "matched", c # None PROVE Fits
    <3>1. c \in DOMAIN clusters
      BY <2>1, <2>4 DEF None
    <3> DEFINE counted == [clusters EXCEPT ![c].rev = @ + 1]
    <3>2. counted \in Seq(ClusterRow) /\ Len(counted) = Len(clusters)
      BY <3>1, ClusterCounted
    <3>3. PICK who \in Participants \cup {Nobody}, src \in {"manual_cluster", "automatic_cluster"} :
             I = <<[utt EXCEPT ![u] = to(who, c, src)], counted>>
      <4>1. clusters[c].who \in Participants \cup {Nobody} /\ utt[u].who \in Participants \cup {Nobody}
        BY <1>1, <2>1, <3>1 DEF ClusterRow, SpeakerRow
      <4>2. CASE clusters[c].src = "manual"
        <5>1. I = <<[utt EXCEPT ![u] = to(clusters[c].who, c, "manual_cluster")], counted>>
          BY <1>3, <2>4, <4>2 DEF Inherited
        <5> HIDE DEF I, to, counted
        <5> QED BY <4>1, <5>1
      <4>3. CASE clusters[c].src # "manual"
        <5>1. I = <<[utt EXCEPT ![u] = to(utt[u].who, c, "automatic_cluster")], counted>>
          BY <1>3, <2>4, <4>3 DEF Inherited
        <5> HIDE DEF I, to, counted
        <5> QED BY <4>1, <5>1
      <4> QED BY <4>2, <4>3
    <3>4. to(who, c, src) \in SpeakerRow
      BY <1>1, <2>1, SpeakerAssumption DEF SpeakerRow, Manual
    <3>5. to(who, c, src).src # "unassigned"
      OBVIOUS
    <3> HIDE DEF I, to, tr, counted, c
    <3> QED BY <1>1, <3>2, <3>3, <3>4, <3>5
  <2> QED BY <2>2, <2>3, <2>4
<1> QED BY <1>2, <1>3

LEMMA ObserveStep ==
    ASSUME WorkersFit, Observe
    PROVE  WorkersFit'
<1> DEFINE u == observing
           t == ProvisionalTrack(u)
           row == [routing |-> "pending", track |-> t, order |-> NextOrder(t)]
<1>1. SpeakerTypeOK /\ ControlFits /\ RowsFit /\ PoolOK /\ HandsFit /\ RowTypes /\ TracksFit
  BY WorkersType DEF WorkersFit, RowsFit
<1>2. u \in Utts
  BY <1>1 DEF Observe, ControlFits
<1>3. /\ t <= MaxTracks /\ ev' = [ev EXCEPT ![u] = row] /\ pool' = Sent("routing", u)
      /\ tracks' = IF t > Len(tracks) THEN Append(tracks, NoTrack(Label[u], 1)) ELSE tracks
      /\ observing' = None /\ UNCHANGED <<meeting, utt, clusters, work, ready>>
  BY DEF Observe
<1>4. t \in 1..(Len(tracks) + 1) /\ NextOrder(t) \in Nat
  BY <1>1, <1>2, ProvisionalIn, OrderNat
<1>5. Len(tracks) \in Nat /\ MaxTracks \in Nat /\ Len(clusters) \in Nat /\ u \in Nat /\ Label[u] \in Labels
  BY <1>1, <1>2, TrackRows, ClusterRows, SpeakerAssumption DEF Labels, Utts
<1>6. row \in EvidenceRow /\ row.routing = "pending" /\ row.track = t
  BY <1>3, <1>4, <1>5 DEF EvidenceRow
<1> HIDE DEF row, t, u
<1>7. Len(clusters') \in Nat /\ Len(clusters) <= Len(clusters')
  BY <1>3, <1>5
<1>8. /\ tracks' \in Seq(TrackRow) /\ Len(tracks') <= MaxTracks /\ TracksFit'
      /\ t \in DOMAIN tracks' /\ DOMAIN tracks \subseteq DOMAIN tracks'
      /\ \A s \in DOMAIN tracks : tracks'[s] = tracks[s]
  BY <1>1, <1>3, <1>4, <1>5, <1>7, AppendTrack
<1>9. /\ utt' \in [Utts -> SpeakerRow] /\ (\A v \in Utts \ {u} : utt'[v] = utt[v])
      /\ clusters' \in Seq(ClusterRow) /\ Len(clusters') <= MaxClusters
  BY <1>1, <1>3 DEF RowTypes
<1>10. row.routing # "routed" /\ row.track \in DOMAIN tracks'
  BY <1>6, <1>8
<1>11. RowsFit'
  BY <1>1, <1>2, <1>3, <1>6, <1>8, <1>9, <1>10, RoutedStep
<1>12. PoolOK'
  BY <1>1, <1>3, <1>5, SentFits
<1>13. ControlFits'
  BY <1>1, <1>3 DEF ControlFits
<1>14. \A v \in Utts : ev[v].routing \notin {"absent", "final"} => ev'[v].routing \notin {"absent", "final"}
  <2> TAKE v \in Utts
  <2>1. ev'[v] = IF v = u THEN row ELSE ev[v]
    BY <1>1, <1>2, <1>3 DEF RowTypes
  <2> QED BY <1>6, <2>1
<1>15. work' \in [Workers -> WorkRow] /\ \A w \in Workers : work'[w] = work[w]
  BY <1>1, <1>3 DEF HandsFit
<1>16. \A w \in Workers : work[w].pc = "decide" /\ work[w].fresh => tracks'[work[w].id].state = tracks[work[w].id].state
  BY <1>1, <1>8 DEF HandsFit, WorkFits
<1>17. HandsFit'
  BY <1>1, <1>8, <1>14, <1>15, <1>16, HandsKept
<1> QED BY <1>11, <1>12, <1>13, <1>17 DEF WorkersFit

(* The job is done: the worker drops what it had, and wakes the other pool. *)
LEMMA RoutedPool ==
    ASSUME SpeakerTypeOK, PoolOK, NEW w \in Workers, NEW u, NEW t \in Nat, w \notin {"runner"},
           work[w] # Idle, work[w].id = u, work' = [work EXCEPT ![w] = Idle],
           IF w = "host" THEN UNCHANGED pool ELSE pool' = [Sent("track", t) EXCEPT !["routing"].reserved = @ \ {u}]
    PROVE  PoolOK'
<1>1. work \in [Workers -> WorkRow] /\ pool \in [Pools -> PoolRow]
  BY DEF SpeakerTypeOK, PoolOK
<1>2. work'[w] = Idle /\ DOMAIN work' = Workers /\ \A x \in Workers \ {w} : work'[x] = work[x]
  BY <1>1
<1>3. CASE w = "host"
  <2>1. UNCHANGED pool
    BY <1>3
  <2> QED BY <1>2, <1>3, <2>1 DEF PoolOK, PoolsFit
<1>4. CASE w # "host"
  <2>1. w = "router" /\ PoolOf(w) = "routing" /\ "routing" \in Pools
    <3>1. w = "router"
      BY <1>4, SpeakerAssumption
    <3> QED BY <1>4, <3>1, PoolsOfWorkers DEF PoolOf
  <2>2. pool' = [Sent("track", t) EXCEPT !["routing"].reserved = @ \ {u}]
    BY <1>4
  <2> DEFINE sent == Sent("track", t)
  <2>3. /\ sent \in [Pools -> PoolRow]
        /\ \A p \in Pools : sent[p].jobs = pool[p].jobs /\ sent[p].reserved = pool[p].reserved
    <3>1. CASE sent = pool
      BY <1>1, <3>1
    <3>2. CASE sent # pool
      <4> DEFINE row == [pool["track"] EXCEPT !.wake = @ \cup {t}]
      <4>1. "track" \in Pools /\ sent = [pool EXCEPT !["track"].wake = @ \cup {t}]
        BY <3>2 DEF Sent
      <4>2. pool["track"] \in PoolRow
        BY <1>1, <4>1
      <4>3. row \in PoolRow /\ row.jobs = pool["track"].jobs /\ row.reserved = pool["track"].reserved
        BY <4>2 DEF PoolRow
      <4>4. sent = [pool EXCEPT !["track"] = row]
        BY <4>1
      <4> HIDE DEF row, sent
      <4> QED BY <1>1, <4>1, <4>3, <4>4
    <3> QED BY <3>1, <3>2
  <2> HIDE DEF sent
  <2> DEFINE row == [sent["routing"] EXCEPT !.reserved = @ \ {u}]
  <2>4. /\ row \in PoolRow /\ row.jobs = pool["routing"].jobs /\ row.reserved = pool["routing"].reserved \ {u}
    <3>1. sent["routing"] \in PoolRow
      BY <2>1, <2>3
    <3> QED BY <2>1, <2>3, <3>1 DEF PoolRow
  <2>5. pool' = [sent EXCEPT !["routing"] = row]
    BY <2>2 DEF sent
  <2> HIDE DEF row
  <2>6. /\ pool' \in [Pools -> PoolRow]
        /\ pool'["routing"].jobs = pool["routing"].jobs /\ pool'["routing"].reserved = pool["routing"].reserved \ {u}
        /\ \A p \in Pools : p # "routing" => pool'[p].jobs = pool[p].jobs /\ pool'[p].reserved = pool[p].reserved
    BY <2>1, <2>3, <2>4, <2>5
  <2>7. u \in pool["routing"].reserved \ pool["routing"].jobs
    BY <1>4, <2>1 DEF PoolOK, PoolsFit
  <2>8. \A p \in Pools : /\ pool'[p].jobs \subseteq pool'[p].reserved
                         /\ IsFiniteSet(pool'[p].jobs) /\ Cardinality(pool'[p].jobs) <= QueueCapacity
    BY <2>6, <2>7 DEF PoolOK, PoolsFit
  <2>9. ASSUME NEW x \in Workers \ {"host"}, work'[x] # Idle
        PROVE  work'[x].id \in pool'[PoolOf(x)].reserved \ pool'[PoolOf(x)].jobs
    <3>1. x # w
      BY <1>2, <2>9
    <3>2. PoolOf(x) \in Pools /\ PoolOf(x) # "routing"
      BY <1>4, <2>1, <3>1, PoolsOfWorkers
    <3>3. work'[x] = work[x] /\ work[x].id \in pool[PoolOf(x)].reserved \ pool[PoolOf(x)].jobs
      BY <1>2, <2>9, <3>1 DEF PoolOK, PoolsFit
    <3> QED BY <2>6, <3>2, <3>3
  <2> QED BY <2>6, <2>8, <2>9 DEF PoolOK, PoolsFit
<1> QED BY <1>3, <1>4

LEMMA CommitRoutingStep ==
    ASSUME WorkersFit, NEW w \in Workers, CommitRouting(w)
    PROVE  WorkersFit'
<1> DEFINE u == work[w].id
           t == IF work[w].target = None THEN Len(tracks) + 1 ELSE work[w].target
           row == [routing |-> "routed", track |-> t, order |-> NextOrder(t)]
           seg == NextSegment(Label[u])
<1>1. /\ SpeakerTypeOK /\ ControlFits /\ RowsFit /\ PoolOK /\ HandsFit /\ RowTypes /\ TracksFit
      /\ work \in [Workers -> WorkRow]
  BY WorkersType DEF WorkersFit, RowsFit, HandsFit
<1>2. work[w].pc = "route" /\ t <= MaxTracks /\ UNCHANGED <<meeting, observing, ready>>
  BY DEF CommitRouting
<1>3. w # "runner" /\ u \in Utts /\ ev[u].routing \notin {"absent", "final"} /\ work[w].target \in {None} \cup DOMAIN tracks
  BY <1>1, <1>2 DEF HandsFit, WorkFits
<1>4. work[w] # Idle
  BY <1>2 DEF Idle
<1>5. Len(tracks) \in Nat /\ MaxTracks \in Nat /\ Len(clusters) \in Nat /\ Label[u] \in Labels /\ DOMAIN tracks = 1..Len(tracks)
  BY <1>1, <1>3, TrackRows, ClusterRows, SpeakerAssumption DEF Labels, Utts
<1>6. t \in 1..(Len(tracks) + 1)
  BY <1>3, <1>5
<1>7. ControlFits'
  BY <1>1, <1>2, ControlKept
<1>8. CASE ev[u].routing \notin Routable
  <2>1. UNCHANGED speakerRows /\ Done(w, TRUE)
    BY <1>8 DEF CommitRouting, speakerRows
  <2>2. work' = [work EXCEPT ![w] = Idle] /\ Returned(w, TRUE)
    BY <2>1 DEF Done
  <2>3. /\ work' \in [Workers -> WorkRow] /\ work'[w] = Idle /\ DOMAIN work' = Workers
        /\ \A x \in Workers \ {w} : work'[x] = work[x]
    BY <1>1, <2>2, IdleRow
  <2>4. PoolOK'
    BY <1>1, <1>4, <2>2, <2>3, ReturnedFits
  <2>5. RowsFit'
    BY <1>1, <2>1, RowsKept
  <2>6. HandsFit'
    <3>1. ev' = ev /\ tracks' = tracks
      BY <2>1 DEF speakerRows
    <3>2. \A x \in Workers : work'[x] = Idle \/ work'[x] = work[x]
      BY <2>3
    <3> QED BY <1>1, <2>3, <3>1, <3>2, HandsKept
  <2> QED BY <1>7, <2>4, <2>5, <2>6 DEF WorkersFit
<1>9. CASE ev[u].routing \in Routable
  <2> DEFINE inherited == Inherited(u, t, clusters)
  <2>1. /\ tracks' = IF t > Len(tracks) THEN Append(tracks, NoTrack(Label[u], seg)) ELSE tracks
        /\ ev' = [ev EXCEPT ![u] = row]
        /\ utt' = inherited[1] /\ clusters' = inherited[2]
        /\ work' = [work EXCEPT ![w] = Idle]
        /\ IF w = "host" THEN UNCHANGED pool ELSE pool' = [Sent("track", t) EXCEPT !["routing"].reserved = @ \ {u}]
    BY <1>9 DEF CommitRouting
  <2>2. NextOrder(t) \in Nat /\ seg \in Nat
    BY <1>1, OrderNat, SegmentNat
  <2>3. row \in EvidenceRow /\ row.routing = "routed" /\ row.track = t
    BY <1>2, <1>5, <1>6, <2>2 DEF EvidenceRow
  <2> HIDE DEF row, seg, t, u
  <2>4. /\ utt' \in [Utts -> SpeakerRow] /\ (\A v \in Utts \ {u} : utt'[v] = utt[v])
        /\ clusters' \in Seq(ClusterRow) /\ Len(clusters') = Len(clusters)
        /\ t \in DOMAIN tracks /\ tracks[t].state \in {"matched", "clustered"} => utt'[u].src # "unassigned"
    BY <1>1, <1>3, <2>1, InheritedFits
  <2>5. Len(clusters') \in Nat /\ Len(clusters) <= Len(clusters') /\ Len(clusters') <= MaxClusters
    BY <1>1, <1>5, <2>4 DEF RowTypes
  <2>6. /\ tracks' \in Seq(TrackRow) /\ Len(tracks') <= MaxTracks /\ TracksFit'
        /\ t \in DOMAIN tracks' /\ DOMAIN tracks \subseteq DOMAIN tracks'
        /\ \A s \in DOMAIN tracks : tracks'[s] = tracks[s]
        /\ t \notin DOMAIN tracks => tracks'[t].state = "collecting"
    BY <1>1, <1>2, <1>5, <1>6, <2>1, <2>2, <2>5, AppendTrack
  <2>7. utt'[u].src = "unassigned" => tracks'[row.track].state \notin {"matched", "clustered"}
    <3> HAVE utt'[u].src = "unassigned"
    <3>1. CASE t \in DOMAIN tracks
      BY <2>3, <2>4, <2>6, <3>1
    <3>2. CASE t \notin DOMAIN tracks
      BY <2>3, <2>6, <3>2
    <3> QED BY <3>1, <3>2
  <2>8. row.track \in DOMAIN tracks'
    BY <2>3, <2>6
  <2>9. RowsFit'
    BY <1>1, <1>3, <2>1, <2>3, <2>4, <2>5, <2>6, <2>7, <2>8, RoutedStep
  <2>10. PoolOK'
    <3>1. t \in Nat /\ w \notin {"runner"} /\ work[w].id = u
      BY <1>3, <1>5, <1>6 DEF u
    <3> QED BY <1>1, <1>4, <2>1, <3>1, RoutedPool
  <2>11. \A v \in Utts : ev[v].routing \notin {"absent", "final"} => ev'[v].routing \notin {"absent", "final"}
    <3> TAKE v \in Utts
    <3>1. ev'[v] = IF v = u THEN row ELSE ev[v]
      BY <1>1, <1>3, <2>1 DEF RowTypes
    <3> QED BY <2>3, <3>1
  <2>12. work' \in [Workers -> WorkRow] /\ \A x \in Workers : work'[x] = Idle \/ work'[x] = work[x]
    BY <1>1, <2>1, IdleRow
  <2>13. \A x \in Workers : work[x].pc = "decide" /\ work[x].fresh => tracks'[work[x].id].state = tracks[work[x].id].state
    BY <1>1, <2>6 DEF HandsFit, WorkFits
  <2>14. HandsFit'
    BY <1>1, <2>6, <2>11, <2>12, <2>13, HandsKept
  <2> QED BY <1>7, <2>9, <2>10, <2>14 DEF WorkersFit
<1> QED BY <1>8, <1>9

-----------------------------------------------------------------------------
(* The runner commits on the track it read.                                *)

(* A copy that is fresh is one of an undecided track.                      *)
LEMMA Undecided ==
    ASSUME WorkersFit, NEW w \in Workers, Deciding(w), Current(w)
    PROVE  LET t == work[w].id IN
           /\ t \in DOMAIN tracks /\ tracks[t] \in TrackRow /\ tracks[t].state \notin Terminal
           /\ tracks[t].member = Nobody /\ tracks[t].cluster = None /\ tracks[t].events = 0
<1> DEFINE t == work[w].id
<1>1. HandsFit /\ RowsFit /\ SpeakerTypeOK
  BY WorkersType DEF WorkersFit
<1>2. t \in DOMAIN tracks /\ tracks[t].state \notin Terminal
  BY <1>1 DEF HandsFit, WorkFits, Deciding, Current
<1>3. tracks[t] \in TrackRow
  BY <1>1, <1>2, TrackRows
<1>4. tracks[t].state # "matched" /\ tracks[t].state # "clustered"
  BY <1>2 DEF Terminal
<1> HIDE DEF t
<1>5. tracks[t].member = Nobody /\ tracks[t].cluster = None /\ tracks[t].events = 0
  BY <1>1, <1>2, <1>4 DEF RowsFit, TracksFit
<1> QED BY <1>2, <1>3, <1>5 DEF t

LEMMA CommitStep ==
    ASSUME WorkersFit, NEW w \in Workers, NEW items \in SUBSET Utts, NEW row \in TrackRow,
           CommitTrack(w, items, row), NEW ok, Returned(w, ok),
           utt' \in [Utts -> SpeakerRow], clusters' \in Seq(ClusterRow), Len(clusters') <= MaxClusters,
           Len(clusters) <= Len(clusters'),
           row.state = "matched" <=> row.member # Nobody,
           row.state = "clustered" <=> row.cluster # None,
           row.events = IF row.state \in {"matched", "clustered"} THEN 1 ELSE 0,
           row.cluster <= Len(clusters'),
           \A u \in Utts : ev[u].routing = "routed" /\ utt'[u].src = "unassigned" =>
              /\ utt[u].src = "unassigned"
              /\ ev[u].track = work[w].id => row.state \notin {"matched", "clustered"}
    PROVE  WorkersFit'
<1> DEFINE t == work[w].id
<1>1. /\ SpeakerTypeOK /\ ControlFits /\ RowsFit /\ PoolOK /\ HandsFit /\ RowTypes
      /\ work \in [Workers -> WorkRow] /\ tracks \in Seq(TrackRow)
  BY WorkersType DEF WorkersFit, RowsFit, RowTypes, HandsFit
<1>2. /\ work[w].pc = "decide" /\ ev' = Renumbered(items) /\ tracks' = [tracks EXCEPT ![t] = row]
      /\ UNCHANGED <<meeting, observing, ready>>
      /\ work' = [x \in Workers |-> IF x = w THEN Idle
            ELSE IF work[x].pc = "decide" /\ work[x].id = t THEN [work[x] EXCEPT !.fresh = FALSE] ELSE work[x]]
  BY DEF CommitTrack, Deciding
<1>3. t \in DOMAIN tracks
  BY <1>1, <1>2 DEF HandsFit, WorkFits
<1>4. /\ ev' \in [Utts -> EvidenceRow]
      /\ \A u \in Utts : ev'[u].routing = ev[u].routing /\ ev'[u].track = ev[u].track
  BY <1>1, <1>2, RenumberedKeeps
<1>5. /\ work'[w] = Idle /\ DOMAIN work' = Workers
      /\ \A x \in Workers \ {w} : work'[x] =
            IF work[x].pc = "decide" /\ work[x].id = t THEN [work[x] EXCEPT !.fresh = FALSE] ELSE work[x]
  BY <1>2
<1> HIDE DEF t
<1>6. /\ tracks' \in Seq(TrackRow) /\ Len(tracks') = Len(tracks) /\ DOMAIN tracks' = DOMAIN tracks
      /\ tracks'[t] = row /\ \A s \in DOMAIN tracks : s # t => tracks'[s] = tracks[s]
  BY <1>1, <1>2, <1>3
<1>7. RowTypes'
  BY <1>1, <1>4, <1>6 DEF RowTypes
<1>8. TracksFit'
  <2> SUFFICES ASSUME NEW s \in DOMAIN tracks
      PROVE  /\ tracks'[s].state = "matched" <=> tracks'[s].member # Nobody
             /\ tracks'[s].state = "clustered" <=> tracks'[s].cluster # None
             /\ tracks'[s].events = IF tracks'[s].state \in {"matched", "clustered"} THEN 1 ELSE 0
             /\ tracks'[s].cluster <= Len(clusters')
    BY <1>6 DEF TracksFit
  <2>1. CASE s = t
    BY <1>6, <2>1
  <2>2. CASE s # t
    <3>1. tracks'[s] = tracks[s] /\ tracks[s] \in TrackRow
      BY <1>1, <1>6, <2>2
    <3>2. Len(clusters) \in Nat /\ Len(clusters') \in Nat /\ MaxClusters \in Nat
      BY <1>1, ClusterRows
    <3>3. tracks[s].cluster \in Nat /\ tracks[s].cluster <= Len(clusters)
      BY <1>1, <3>1, <3>2 DEF RowsFit, TracksFit, TrackRow
    <3>4. tracks[s].cluster <= Len(clusters')
      BY <3>2, <3>3
    <3> QED BY <1>1, <3>1, <3>4 DEF RowsFit, TracksFit
  <2> QED BY <2>1, <2>2
<1>9. EvidenceFits'
  BY <1>1, <1>4, <1>6 DEF RowsFit, EvidenceFits
<1>10. NoneLeftBehind'
  <2> SUFFICES ASSUME NEW u \in Utts, ev'[u].routing = "routed", utt'[u].src = "unassigned"
               PROVE  tracks'[ev'[u].track].state \notin {"matched", "clustered"}
    BY DEF NoneLeftBehind
  <2>1. ev[u].routing = "routed" /\ ev'[u].track = ev[u].track /\ ev[u].track \in DOMAIN tracks
    BY <1>1, <1>4 DEF RowsFit, EvidenceFits
  <2>2. /\ utt[u].src = "unassigned"
        /\ ev[u].track = t => row.state \notin {"matched", "clustered"}
    BY <2>1 DEF t
  <2>3. CASE ev[u].track = t
    BY <1>6, <2>1, <2>2, <2>3
  <2>4. CASE ev[u].track # t
    BY <1>1, <1>6, <2>1, <2>2, <2>4 DEF RowsFit, NoneLeftBehind
  <2> QED BY <2>3, <2>4
<1>11. \A x \in Workers : [work[x] EXCEPT !.fresh = FALSE] \in WorkRow
  BY <1>1 DEF WorkRow
<1>12. work' \in [Workers -> WorkRow]
  BY <1>1, <1>2, <1>11, IdleRow
<1>13. HandsFit'
  <2>1. \A x \in Workers :
          \/ work'[x] = Idle
          \/ /\ work'[x] = work[x]
             /\ work[x].pc = "decide" /\ work[x].fresh => tracks'[work[x].id].state = tracks[work[x].id].state
          \/ work[x].pc = "decide" /\ work'[x] = [work[x] EXCEPT !.fresh = FALSE]
    <3> TAKE x \in Workers
    <3>1. CASE x = w
      BY <1>5, <3>1
    <3>2. CASE x # w /\ work[x].pc = "decide" /\ work[x].id = t
      BY <1>5, <3>2
    <3>3. CASE x # w /\ ~ (work[x].pc = "decide" /\ work[x].id = t)
      <4>1. work'[x] = work[x]
        BY <1>5, <3>3
      <4>2. work[x].pc = "decide" => work[x].id \in DOMAIN tracks /\ work[x].id # t
        BY <1>1, <3>3 DEF HandsFit, WorkFits
      <4> QED BY <1>6, <4>1, <4>2
    <3> QED BY <3>1, <3>2, <3>3
  <2>2. /\ DOMAIN tracks \subseteq DOMAIN tracks'
        /\ \A u \in Utts : ev[u].routing \notin {"absent", "final"} => ev'[u].routing \notin {"absent", "final"}
    BY <1>4, <1>6
  <2> QED BY <1>1, <1>12, <2>1, <2>2, HandsKept
<1>14. PoolOK'
  <2>1. work[w] # Idle
    BY <1>2 DEF Idle
  <2>2. \A x \in Workers \ {w} : (work'[x] = Idle <=> work[x] = Idle) /\ work'[x].id = work[x].id
    <3> TAKE x \in Workers \ {w}
    <3>1. CASE work[x].pc = "decide" /\ work[x].id = t
      <4>1. work'[x] = [work[x] EXCEPT !.fresh = FALSE] /\ work[x] \in WorkRow
        BY <1>1, <1>5, <3>1
      <4>2. work'[x].pc = "decide" /\ work'[x].id = work[x].id
        BY <3>1, <4>1 DEF WorkRow
      <4> QED BY <3>1, <4>2 DEF Idle
    <3>2. CASE ~ (work[x].pc = "decide" /\ work[x].id = t)
      BY <1>5, <3>2
    <3> QED BY <3>1, <3>2
  <2> QED BY <1>1, <1>5, <2>1, <2>2, ReturnedFits
<1> QED BY <1>1, <1>2, <1>7, <1>8, <1>9, <1>10, <1>13, <1>14, ControlKept DEF WorkersFit, RowsFit

LEMMA UpdateEvidenceStep ==
    ASSUME WorkersFit, NEW w \in Workers, UpdateEvidenceState(w)
    PROVE  WorkersFit'
<1> DEFINE t == work[w].id
<1>1. PICK state \in {"collecting", "insufficient", "pending"}, n \in Nat :
        /\ CommitTrack(w, FirstOf("routing", Items(w), n), [tracks[t] EXCEPT !.state = state])
        /\ Returned(w, TRUE) /\ UNCHANGED <<utt, clusters>>
  <2>1. EvidenceState(w) \in {"ready", "collecting", "insufficient"}
    BY EvidenceStateIn
  <2>2. PICK state \in ({EvidenceState(w)} \ {"ready"}) \cup (IF meeting = "recording" THEN {"pending"} ELSE {}) :
          \E n \in IF state = "pending" THEN 0..(Target - 1) ELSE {Target} :
            /\ CommitTrack(w, FirstOf("routing", Items(w), n), [tracks[t] EXCEPT !.state = state])
            /\ Returned(w, TRUE) /\ UNCHANGED <<utt, clusters>>
    BY Zenon DEF UpdateEvidenceState
  <2>3. state \in {"collecting", "insufficient", "pending"}
    BY <2>1
  <2>4. PICK n \in IF state = "pending" THEN 0..(Target - 1) ELSE {Target} :
            /\ CommitTrack(w, FirstOf("routing", Items(w), n), [tracks[t] EXCEPT !.state = state])
            /\ Returned(w, TRUE) /\ UNCHANGED <<utt, clusters>>
    BY <2>2
  <2>5. n \in Nat
    BY SpeakerAssumption
  <2> QED BY <2>3, <2>4, <2>5
<1>2. /\ Deciding(w) /\ Current(w) /\ RowsFit /\ SpeakerTypeOK
  BY <1>1, WorkersType DEF CommitTrack, WorkersFit
<1>3. /\ t \in DOMAIN tracks /\ tracks[t] \in TrackRow
      /\ tracks[t].member = Nobody /\ tracks[t].cluster = None /\ tracks[t].events = 0
  BY <1>2, Undecided
<1> DEFINE row == [tracks[t] EXCEPT !.state = state]
           items == FirstOf("routing", Items(w), n)
<1>4. /\ row \in TrackRow /\ row.state = state /\ row.member = Nobody /\ row.cluster = None /\ row.events = 0
  BY <1>3 DEF TrackRow, Terminal
<1>5. items \in SUBSET Utts
  BY <1>2, ItemsIn, FirstUtts
<1>6. CommitTrack(w, items, row)
  BY <1>1
<1>7. /\ utt' \in [Utts -> SpeakerRow] /\ clusters' \in Seq(ClusterRow) /\ Len(clusters') <= MaxClusters
      /\ Len(clusters) <= Len(clusters') /\ None <= Len(clusters')
  <2>1. Len(clusters) \in Nat
    BY <1>2, ClusterRows DEF RowsFit
  <2> QED BY <1>1, <1>2, <2>1 DEF RowsFit, RowTypes, None
<1> HIDE DEF row, items
<1>8. /\ row.state # "matched" /\ row.state # "clustered" /\ row.state \notin {"matched", "clustered"}
  BY <1>4
<1>9. \A u \in Utts : ev[u].routing = "routed" /\ utt'[u].src = "unassigned" =>
              /\ utt[u].src = "unassigned"
              /\ ev[u].track = work[w].id => row.state \notin {"matched", "clustered"}
  BY <1>1, <1>8
<1>10. /\ row.state = "matched" <=> row.member # Nobody
       /\ row.state = "clustered" <=> row.cluster # None
       /\ row.events = IF row.state \in {"matched", "clustered"} THEN 1 ELSE 0
       /\ row.cluster <= Len(clusters')
  BY <1>4, <1>7, <1>8
<1> HIDE DEF t
<1> QED BY <1>1, <1>4, <1>5, <1>6, <1>7, <1>9, <1>10, CommitStep

LEMMA FailureStep ==
    ASSUME WorkersFit, NEW w \in Workers, MarkTrackFailure(w)
    PROVE  WorkersFit'
<1> DEFINE t == work[w].id
<1>1. PICK state \in {"failed", "unavailable"} :
        /\ CommitTrack(w, Items(w), [tracks[t] EXCEPT !.state = state])
        /\ Returned(w, FALSE) /\ UNCHANGED <<utt, clusters>>
  BY DEF MarkTrackFailure
<1>2. /\ Deciding(w) /\ Current(w) /\ RowsFit /\ SpeakerTypeOK
  BY <1>1, WorkersType DEF CommitTrack, WorkersFit
<1>3. /\ t \in DOMAIN tracks /\ tracks[t] \in TrackRow
      /\ tracks[t].member = Nobody /\ tracks[t].cluster = None /\ tracks[t].events = 0
  BY <1>2, Undecided
<1> DEFINE row == [tracks[t] EXCEPT !.state = state]
<1>4. /\ row \in TrackRow /\ row.state = state /\ row.member = Nobody /\ row.cluster = None /\ row.events = 0
  BY <1>3 DEF TrackRow, Terminal
<1>5. Items(w) \in SUBSET Utts
  BY <1>2, ItemsIn
<1>6. CommitTrack(w, Items(w), row)
  BY <1>1
<1>7. /\ utt' \in [Utts -> SpeakerRow] /\ clusters' \in Seq(ClusterRow) /\ Len(clusters') <= MaxClusters
      /\ Len(clusters) <= Len(clusters') /\ None <= Len(clusters')
  <2>1. Len(clusters) \in Nat
    BY <1>2, ClusterRows DEF RowsFit
  <2> QED BY <1>1, <1>2, <2>1 DEF RowsFit, RowTypes, None
<1> HIDE DEF row
<1>8. /\ row.state # "matched" /\ row.state # "clustered" /\ row.state \notin {"matched", "clustered"}
  BY <1>4
<1>9. \A u \in Utts : ev[u].routing = "routed" /\ utt'[u].src = "unassigned" =>
              /\ utt[u].src = "unassigned"
              /\ ev[u].track = work[w].id => row.state \notin {"matched", "clustered"}
  BY <1>1, <1>8
<1>10. /\ row.state = "matched" <=> row.member # Nobody
       /\ row.state = "clustered" <=> row.cluster # None
       /\ row.events = IF row.state \in {"matched", "clustered"} THEN 1 ELSE 0
       /\ row.cluster <= Len(clusters')
  BY <1>4, <1>7, <1>8
<1> HIDE DEF t
<1> QED BY <1>1, <1>4, <1>5, <1>6, <1>7, <1>9, <1>10, CommitStep

MatchedRow(r, who) == [[[r EXCEPT !.state = "matched"] EXCEPT !.member = who] EXCEPT !.events = @ + 1]

LEMMA MatchedRowFits ==
    ASSUME NEW r \in TrackRow, r.events = 0, NEW who \in Participants \cup {Nobody}
    PROVE  /\ MatchedRow(r, who) \in TrackRow /\ MatchedRow(r, who).state = "matched" /\ MatchedRow(r, who).member = who
           /\ MatchedRow(r, who).cluster = r.cluster /\ MatchedRow(r, who).events = 1
<1> DEFINE a == [r EXCEPT !.state = "matched"]
           b == [a EXCEPT !.member = who]
           d == [b EXCEPT !.events = b.events + 1]
<1>1. a \in TrackRow /\ a.state = "matched" /\ a.cluster = r.cluster /\ a.events = 0
  BY DEF TrackRow, Terminal
<1>2. MatchedRow(r, who) = d
  BY DEF MatchedRow
<1> HIDE DEF a
<1>3. b \in TrackRow /\ b.state = "matched" /\ b.cluster = r.cluster /\ b.events = 0 /\ b.member = who
  BY <1>1 DEF TrackRow
<1> HIDE DEF b
<1>4. d \in TrackRow /\ d.state = "matched" /\ d.member = who /\ d.cluster = r.cluster /\ d.events = 1
  BY <1>3 DEF TrackRow
<1> HIDE DEF d
<1> QED BY <1>2, <1>4

ClusteredRow(r, c) == [[[r EXCEPT !.state = "clustered"] EXCEPT !.cluster = c] EXCEPT !.events = @ + 1]

LEMMA ClusteredRowFits ==
    ASSUME NEW r \in TrackRow, r.events = 0, NEW c \in 0..MaxClusters
    PROVE  /\ ClusteredRow(r, c) \in TrackRow /\ ClusteredRow(r, c).state = "clustered" /\ ClusteredRow(r, c).cluster = c
           /\ ClusteredRow(r, c).member = r.member /\ ClusteredRow(r, c).events = 1
<1> DEFINE a == [r EXCEPT !.state = "clustered"]
           b == [a EXCEPT !.cluster = c]
           d == [b EXCEPT !.events = b.events + 1]
<1>1. a \in TrackRow /\ a.state = "clustered" /\ a.member = r.member /\ a.events = 0
  BY DEF TrackRow, Terminal
<1>2. ClusteredRow(r, c) = d
  BY DEF ClusteredRow
<1> HIDE DEF a
<1>3. b \in TrackRow /\ b.state = "clustered" /\ b.member = r.member /\ b.events = 0 /\ b.cluster = c
  BY <1>1 DEF TrackRow
<1> HIDE DEF b
<1>4. d \in TrackRow /\ d.state = "clustered" /\ d.cluster = c /\ d.member = r.member /\ d.events = 1
  BY <1>3 DEF TrackRow
<1> HIDE DEF d
<1> QED BY <1>2, <1>4

LEMMA MatchedStep ==
    ASSUME WorkersFit, NEW w \in Workers, CommitMatched(w)
    PROVE  WorkersFit'
<1> DEFINE t == work[w].id
<1>1. PICK who \in Participants :
        /\ CommitTrack(w, Items(w), [tracks[t] EXCEPT !.state = "matched", !.member = who, !.events = @ + 1])
        /\ utt' = MemberProjection(t, who) /\ Returned(w, TRUE) /\ UNCHANGED clusters
  BY DEF CommitMatched
<1>2. /\ Deciding(w) /\ Current(w) /\ RowsFit /\ SpeakerTypeOK /\ utt \in [Utts -> SpeakerRow]
  BY <1>1, WorkersType DEF CommitTrack, WorkersFit, RowsFit, RowTypes
<1>3. /\ t \in DOMAIN tracks /\ tracks[t] \in TrackRow
      /\ tracks[t].member = Nobody /\ tracks[t].cluster = None /\ tracks[t].events = 0
  BY <1>2, Undecided
<1> DEFINE row == MatchedRow(tracks[t], who)
<1>4. /\ row \in TrackRow /\ row.state = "matched" /\ row.member = who /\ row.cluster = None /\ row.events = 1
  <2> HIDE DEF t
  <2> QED BY <1>3, MatchedRowFits
<1>5. Items(w) \in SUBSET Utts /\ who # Nobody
  BY <1>2, ItemsIn, SpeakerAssumption
<1>6. CommitTrack(w, Items(w), row)
  <2>1. row = [tracks[t] EXCEPT !.state = "matched", !.member = who, !.events = @ + 1]
    BY DEF MatchedRow
  <2> HIDE DEF row
  <2> QED BY <1>1, <2>1
<1> HIDE DEF row
<1> DEFINE new(u) == [who |-> who, cluster |-> None, src |-> "automatic_member", rev |-> utt[u].rev + 1]
<1>7. \A u \in Utts : utt[u] \in SpeakerRow /\ new(u) \in SpeakerRow /\ new(u).src = "automatic_member"
  BY <1>2, SpeakerAssumption DEF SpeakerRow, None
<1>8. utt' = [u \in Utts |-> IF ev[u].track # t \/ utt[u].src \in Manual THEN utt[u] ELSE new(u)]
  BY <1>1 DEF MemberProjection
<1> HIDE DEF new, t
<1>9. utt' \in [Utts -> SpeakerRow]
  BY <1>7, <1>8
<1>10. /\ clusters' \in Seq(ClusterRow) /\ Len(clusters') <= MaxClusters
       /\ Len(clusters) <= Len(clusters') /\ None <= Len(clusters')
  <2>1. Len(clusters) \in Nat
    BY <1>2, ClusterRows DEF RowsFit
  <2> QED BY <1>1, <1>2, <2>1 DEF RowsFit, RowTypes, None
<1>11. ASSUME NEW u \in Utts, ev[u].routing = "routed", utt'[u].src = "unassigned"
       PROVE  utt[u].src = "unassigned" /\ ev[u].track # t
  <2>1. utt'[u] = IF ev[u].track # t \/ utt[u].src \in Manual THEN utt[u] ELSE new(u)
    BY <1>8
  <2>2. utt'[u] = utt[u] /\ (ev[u].track # t \/ utt[u].src \in Manual)
    BY <1>7, <1>11, <2>1
  <2> QED BY <1>11, <2>2 DEF Manual
<1>12. \A u \in Utts : ev[u].routing = "routed" /\ utt'[u].src = "unassigned" =>
              /\ utt[u].src = "unassigned"
              /\ ev[u].track = work[w].id => row.state \notin {"matched", "clustered"}
  BY <1>11 DEF t
<1>13. /\ row.state = "matched" <=> row.member # Nobody
       /\ row.state = "clustered" <=> row.cluster # None
       /\ row.events = IF row.state \in {"matched", "clustered"} THEN 1 ELSE 0
       /\ row.cluster <= Len(clusters')
  BY <1>4, <1>5, <1>10
<1> QED BY <1>1, <1>4, <1>5, <1>6, <1>9, <1>10, <1>12, <1>13, CommitStep

LEMMA JoinedFits ==
    ASSUME RowTypes, NEW c \in DOMAIN clusters \cup {Len(clusters) + 1}, c <= MaxClusters
    PROVE  /\ JoinedClusters(c) \in Seq(ClusterRow) /\ Len(JoinedClusters(c)) <= MaxClusters
           /\ Len(clusters) <= Len(JoinedClusters(c)) /\ c <= Len(JoinedClusters(c)) /\ c \in Nat \ {0}
           /\ \A k \in DOMAIN clusters : k \in DOMAIN JoinedClusters(c)
                /\ JoinedClusters(c)[k].rev = IF k = c THEN clusters[k].rev + 1 ELSE clusters[k].rev
<1>1. /\ Len(clusters) \in Nat /\ DOMAIN clusters = 1..Len(clusters) /\ clusters \in Seq(ClusterRow)
      /\ Len(clusters) <= MaxClusters /\ MaxClusters \in Nat
      /\ \A k \in DOMAIN clusters : clusters[k] \in ClusterRow
  BY ClusterRows DEF RowTypes
<1>2. CASE c \in DOMAIN clusters
  <2>1. JoinedClusters(c) = [clusters EXCEPT ![c].rev = @ + 1]
    <3>1. ~ (c > Len(clusters))
      BY <1>1, <1>2
    <3> QED BY <3>1, Zenon DEF JoinedClusters
  <2>2. JoinedClusters(c) \in Seq(ClusterRow) /\ Len(JoinedClusters(c)) = Len(clusters)
    BY <1>2, <2>1, ClusterCounted
  <2>3. \A k \in DOMAIN clusters : k \in DOMAIN JoinedClusters(c)
                /\ JoinedClusters(c)[k].rev = IF k = c THEN clusters[k].rev + 1 ELSE clusters[k].rev
    <3> TAKE k \in DOMAIN clusters
    <3>1. JoinedClusters(c)[k] = IF k = c THEN [clusters[c] EXCEPT !.rev = @ + 1] ELSE clusters[k]
      BY <1>1, <1>2, <2>1
    <3>2. [clusters[c] EXCEPT !.rev = @ + 1].rev = clusters[c].rev + 1
      BY <1>1, <1>2 DEF ClusterRow
    <3>3. DOMAIN JoinedClusters(c) = DOMAIN clusters
      BY <2>1
    <3> QED BY <3>1, <3>2, <3>3
  <2> QED BY <1>1, <1>2, <2>2, <2>3
<1>3. CASE c = Len(clusters) + 1
  <2> DEFINE row == [who |-> Nobody, src |-> "unassigned", rev |-> 1]
  <2>1. JoinedClusters(c) = Append(clusters, row)
    BY <1>1, <1>3 DEF JoinedClusters
  <2>2. row \in ClusterRow
    BY DEF ClusterRow
  <2> HIDE DEF row
  <2>3. /\ JoinedClusters(c) \in Seq(ClusterRow) /\ Len(JoinedClusters(c)) = Len(clusters) + 1
        /\ DOMAIN JoinedClusters(c) = 1..(Len(clusters) + 1)
        /\ \A k \in 1..Len(clusters) : JoinedClusters(c)[k] = clusters[k]
    BY <1>1, <2>1, <2>2
  <2> QED BY <1>1, <1>3, <2>3
<1> QED BY <1>2, <1>3

LEMMA AssignStep ==
    ASSUME WorkersFit, NEW w \in Workers, AssignPrepared(w)
    PROVE  WorkersFit'
<1> DEFINE t == work[w].id
<1>1. PICK c \in DOMAIN clusters \cup {Len(clusters) + 1} :
        /\ c <= MaxClusters
        /\ CommitTrack(w, Items(w), [tracks[t] EXCEPT !.state = "clustered", !.cluster = c, !.events = @ + 1])
        /\ clusters' = JoinedClusters(c) /\ utt' = ClusterProjection(t, c) /\ Returned(w, TRUE)
  BY DEF AssignPrepared
<1>2. /\ Deciding(w) /\ Current(w) /\ RowsFit /\ SpeakerTypeOK /\ RowTypes /\ utt \in [Utts -> SpeakerRow]
  BY <1>1, WorkersType DEF CommitTrack, WorkersFit, RowsFit, RowTypes
<1>3. /\ t \in DOMAIN tracks /\ tracks[t] \in TrackRow
      /\ tracks[t].member = Nobody /\ tracks[t].cluster = None /\ tracks[t].events = 0
  BY <1>2, Undecided
<1>4. /\ clusters' \in Seq(ClusterRow) /\ Len(clusters') <= MaxClusters
      /\ Len(clusters) <= Len(clusters') /\ c <= Len(clusters') /\ c \in Nat \ {0} /\ c \in 0..MaxClusters
  <2>1. MaxClusters \in Nat
    BY SpeakerAssumption
  <2> QED BY <1>1, <1>2, <2>1, JoinedFits
<1> DEFINE row == ClusteredRow(tracks[t], c)
<1>5. /\ row \in TrackRow /\ row.state = "clustered" /\ row.member = Nobody /\ row.cluster = c /\ row.events = 1
  <2> HIDE DEF t
  <2> QED BY <1>3, <1>4, ClusteredRowFits
<1>6. Items(w) \in SUBSET Utts
  BY <1>2, ItemsIn
<1>7. CommitTrack(w, Items(w), row)
  <2>1. row = [tracks[t] EXCEPT !.state = "clustered", !.cluster = c, !.events = @ + 1]
    BY DEF ClusteredRow
  <2> HIDE DEF row
  <2> QED BY <1>1, <2>1
<1> HIDE DEF row
<1> DEFINE new(u) == [[utt[u] EXCEPT !.cluster = c] EXCEPT !.src = "automatic_cluster"]
<1>8. \A u \in Utts : utt[u] \in SpeakerRow /\ new(u) \in SpeakerRow /\ new(u).src = "automatic_cluster"
  BY <1>2, <1>4 DEF SpeakerRow
<1>9. utt' = [u \in Utts |-> IF ev[u].track = t /\ utt[u].src = "unassigned" THEN new(u) ELSE utt[u]]
  BY <1>1 DEF ClusterProjection
<1> HIDE DEF new, t
<1>10. utt' \in [Utts -> SpeakerRow]
  BY <1>8, <1>9
<1>11. ASSUME NEW u \in Utts, ev[u].routing = "routed", utt'[u].src = "unassigned"
       PROVE  utt[u].src = "unassigned" /\ ev[u].track # t
  BY <1>8, <1>9, <1>11
<1>12. \A u \in Utts : ev[u].routing = "routed" /\ utt'[u].src = "unassigned" =>
              /\ utt[u].src = "unassigned"
              /\ ev[u].track = work[w].id => row.state \notin {"matched", "clustered"}
  BY <1>11 DEF t
<1>13. /\ row.state = "matched" <=> row.member # Nobody
       /\ row.state = "clustered" <=> row.cluster # None
       /\ row.events = IF row.state \in {"matched", "clustered"} THEN 1 ELSE 0
       /\ row.cluster <= Len(clusters')
  BY <1>4, <1>5 DEF None
<1> QED BY <1>1, <1>4, <1>5, <1>6, <1>7, <1>10, <1>12, <1>13, CommitStep

LEMMA RejectedStep ==
    ASSUME WorkersFit, NEW w \in Workers, Rejected(w)
    PROVE  WorkersFit'
<1>1. /\ SpeakerTypeOK /\ ControlFits /\ RowsFit /\ PoolOK /\ HandsFit /\ work \in [Workers -> WorkRow]
  BY WorkersType DEF WorkersFit, HandsFit
<1>2. /\ work[w].pc = "decide" /\ Done(w, FALSE)
      /\ UNCHANGED <<meeting, observing, ready>> /\ UNCHANGED speakerRows
  BY DEF Rejected, Deciding
<1>3. work' = [work EXCEPT ![w] = Idle] /\ Returned(w, FALSE) /\ work[w] # Idle
  <2>1. work[w] # Idle
    BY <1>2 DEF Idle
  <2> QED BY <1>2, <2>1 DEF Done
<1>4. /\ work' \in [Workers -> WorkRow] /\ work'[w] = Idle /\ DOMAIN work' = Workers
      /\ \A x \in Workers \ {w} : work'[x] = work[x]
  BY <1>1, <1>3, IdleRow
<1>5. PoolOK'
  BY <1>1, <1>3, <1>4, ReturnedFits
<1>6. HandsFit'
  <2>1. ev' = ev /\ tracks' = tracks
    BY <1>2 DEF speakerRows
  <2>2. \A x \in Workers : work'[x] = Idle \/ work'[x] = work[x]
    BY <1>4
  <2> QED BY <1>1, <1>4, <2>1, <2>2, HandsKept
<1> QED BY <1>1, <1>2, <1>5, <1>6, ControlKept, RowsKept DEF WorkersFit

LEMMA WorkersStep ==
    ASSUME WorkersFit, SpeakerNext \/ HostDriven
    PROVE  WorkersFit'
<1>1. CASE \E w \in Workers : Routing(w)
  BY <1>1, RouteStep, CommitRoutingStep, HandSteps DEF Routing
<1>2. CASE \E w \in Workers : Running(w)
  BY <1>2, LoadStep, UpdateEvidenceStep, FailureStep, MatchedStep, AssignStep, RejectedStep DEF Running
<1>3. CASE Observing
  BY <1>3, ObserveStep, ControlSteps, PersistStep DEF Observing
<1>4. CASE Pooling
  BY <1>4, PoolSteps DEF Pooling
<1>5. CASE BecomesReady \/ EndMeeting
  BY <1>5, ControlSteps
<1>6. CASE SpeakerCrash
  BY <1>6, CrashStep
<1>7. CASE HostDriven
  BY <1>7, ControlSteps, HandSteps DEF HostDriven
<1> QED BY <1>1, <1>2, <1>3, <1>4, <1>5, <1>6, <1>7 DEF SpeakerNext

LEMMA WorkersStutter == WorkersFit /\ UNCHANGED speakerVars => WorkersFit'
<1> SUFFICES ASSUME WorkersFit, UNCHANGED speakerVars PROVE WorkersFit'
  OBVIOUS
<1>1. UNCHANGED <<meeting, observing, ready>> /\ UNCHANGED speakerRows /\ UNCHANGED <<pool, work>>
  BY DEF speakerVars
<1>2. ControlFits' /\ RowsFit' /\ PoolOK'
  BY <1>1, ControlKept, RowsKept, PoolKept DEF WorkersFit
<1>3. HandsFit'
  BY <1>1 DEF WorkersFit, HandsFit, WorkFits, speakerRows
<1> QED BY <1>2, <1>3 DEF WorkersFit

(* Whoever was routed to a track before, while or after it was decided has *)
(* what was decided, whatever the pools, the retry of the host and the     *)
(* crashes do.                                                             *)
THEOREM DecisionsReachAll == SpeakerSpec => []NoneLeftBehind
<1>1. WorkersFit /\ [SpeakerNext]_speakerVars => WorkersFit'
  BY WorkersStep, WorkersStutter
<1>2. WorkersFit => NoneLeftBehind
  BY DEF WorkersFit, RowsFit
<1> QED BY WorkersStart, <1>1, <1>2, PTL DEF SpeakerSpec

-----------------------------------------------------------------------------
(* What a step of the workers leaves to the host's commands.               *)

\* An utterance that changes gets a revision, unless only its cluster changes.
UtteranceKept(u) ==
    /\ utt[u].src \in Manual => utt'[u] = utt[u]
    /\ utt[u].rev <= utt'[u].rev
    /\ utt[u].rev = utt'[u].rev => utt'[u].who = utt[u].who
\* A cluster that gets a row gets a revision.
ClusterKept(c) ==
    /\ c \in DOMAIN clusters' /\ clusters[c].rev <= clusters'[c].rev
    /\ clusters[c].rev = clusters'[c].rev => \A u \in Utts : utt'[u].cluster = c => utt[u].cluster = c
Effect == /\ \A u \in Utts : UtteranceKept(u)
          /\ \A c \in DOMAIN clusters : ClusterKept(c)

LEMMA EffectOfNone ==
    ASSUME RowTypes, UNCHANGED <<utt, clusters>>
    PROVE  Effect
<1>1. utt' = utt /\ clusters' = clusters /\ utt \in [Utts -> SpeakerRow]
  BY DEF RowTypes
<1>2. \A u \in Utts : utt[u].rev \in Nat
  BY <1>1 DEF SpeakerRow
<1>3. \A c \in DOMAIN clusters : clusters[c].rev \in Nat
  <2>1. \A c \in DOMAIN clusters : clusters[c] \in ClusterRow
    BY ClusterRows
  <2> QED BY <2>1 DEF ClusterRow
<1> QED BY <1>1, <1>2, <1>3 DEF Effect, UtteranceKept, ClusterKept

LEMMA CountedRev ==
    ASSUME RowTypes, NEW c \in DOMAIN clusters, NEW k \in DOMAIN clusters
    PROVE  /\ k \in DOMAIN [clusters EXCEPT ![c].rev = @ + 1]
           /\ [clusters EXCEPT ![c].rev = @ + 1][k].rev = IF k = c THEN clusters[k].rev + 1 ELSE clusters[k].rev
<1>1. clusters[c] \in ClusterRow /\ clusters \in Seq(ClusterRow) /\ DOMAIN clusters = 1..Len(clusters)
  BY DEF RowTypes
<1>2. [clusters EXCEPT ![c].rev = @ + 1][k] = IF k = c THEN [clusters[c] EXCEPT !.rev = @ + 1] ELSE clusters[k]
  BY <1>1
<1>3. [clusters[c] EXCEPT !.rev = @ + 1].rev = clusters[c].rev + 1
  BY <1>1 DEF ClusterRow
<1>4. DOMAIN [clusters EXCEPT ![c].rev = @ + 1] = DOMAIN clusters
  OBVIOUS
<1> QED BY <1>2, <1>3, <1>4

LEMMA EffectOfRouting ==
    ASSUME RowTypes, TracksFit, NEW u \in Utts, NEW t,
           utt' = Inherited(u, t, clusters)[1], clusters' = Inherited(u, t, clusters)[2]
    PROVE  Effect
<1> DEFINE I == Inherited(u, t, clusters)
           tr == tracks[t]
           c  == tr.cluster
           to(who, cluster, src) == [who |-> who, cluster |-> cluster, src |-> src, rev |-> utt[u].rev + 1]
<1>1. utt \in [Utts -> SpeakerRow] /\ \A v \in Utts : utt[v].rev \in Nat
  BY DEF RowTypes, SpeakerRow
<1>2. \A k \in DOMAIN clusters : clusters[k].rev \in Nat
  <2>1. \A k \in DOMAIN clusters : clusters[k] \in ClusterRow
    BY ClusterRows
  <2> QED BY <2>1 DEF ClusterRow
<1>3. CASE I = <<utt, clusters>>
  <2> HIDE DEF I
  <2>1. UNCHANGED <<utt, clusters>>
    BY <1>3 DEF I
  <2> QED BY <2>1, EffectOfNone
<1>4. ASSUME t \in DOMAIN tracks, utt[u].src = "unassigned", tr.state = "matched"
      PROVE  Effect
  <2> DEFINE row == to(tr.member, utt[u].cluster, "automatic_member")
  <2>1. I = <<[utt EXCEPT ![u] = row], clusters>>
    BY <1>4 DEF Inherited
  <2>2. row.rev = utt[u].rev + 1 /\ row.cluster = utt[u].cluster
    OBVIOUS
  <2> HIDE DEF I, row
  <2>3. utt' = [utt EXCEPT ![u] = row] /\ clusters' = clusters
    BY <2>1 DEF I
  <2>4. utt'[u] = row /\ \A v \in Utts : v # u => utt'[v] = utt[v]
    BY <1>1, <2>3
  <2>5. utt[u].src \notin Manual
    BY <1>4 DEF Manual
  <2>6. \A v \in Utts : UtteranceKept(v)
    BY <1>1, <2>2, <2>4, <2>5 DEF UtteranceKept
  <2>7. \A k \in DOMAIN clusters : ClusterKept(k)
    BY <1>2, <2>2, <2>3, <2>4 DEF ClusterKept
  <2> QED BY <2>6, <2>7 DEF Effect
<1>5. ASSUME t \in DOMAIN tracks, utt[u].src = "unassigned", tr.state # "matched", c # None
      PROVE  Effect
  <2> DEFINE counted == [clusters EXCEPT ![c].rev = @ + 1]
  <2>1. c \in DOMAIN clusters
    <3>1. tr \in TrackRow /\ c <= Len(clusters) /\ Len(clusters) \in Nat /\ DOMAIN clusters = 1..Len(clusters)
      BY <1>5, ClusterRows DEF RowTypes, TracksFit
    <3>2. c \in Nat
      BY <3>1, SpeakerAssumption DEF TrackRow
    <3> HIDE DEF c, tr
    <3> QED BY <1>5, <3>1, <3>2 DEF None
  <2>2. \A k \in DOMAIN clusters : /\ k \in DOMAIN counted
             /\ counted[k].rev = IF k = c THEN clusters[k].rev + 1 ELSE clusters[k].rev
    BY <2>1, CountedRev
  <2>3. PICK who, src : I = <<[utt EXCEPT ![u] = to(who, c, src)], counted>>
    <3>1. CASE clusters[c].src = "manual"
      <4>1. I = <<[utt EXCEPT ![u] = to(clusters[c].who, c, "manual_cluster")], counted>>
        BY <1>5, <3>1 DEF Inherited
      <4> HIDE DEF I, to, counted
      <4> QED BY <4>1
    <3>2. CASE clusters[c].src # "manual"
      <4>1. I = <<[utt EXCEPT ![u] = to(utt[u].who, c, "automatic_cluster")], counted>>
        BY <1>5, <3>2 DEF Inherited
      <4> HIDE DEF I, to, counted
      <4> QED BY <4>1
    <3> QED BY <3>1, <3>2
  <2> DEFINE row == to(who, c, src)
  <2>4. row.rev = utt[u].rev + 1 /\ row.cluster = c
    OBVIOUS
  <2> HIDE DEF I, row, counted, c
  <2>5. utt' = [utt EXCEPT ![u] = row] /\ clusters' = counted
    BY <2>3 DEF I, row
  <2>6. utt'[u] = row /\ \A v \in Utts : v # u => utt'[v] = utt[v]
    BY <1>1, <2>5
  <2>7. utt[u].src \notin Manual
    BY <1>5 DEF Manual
  <2>8. \A v \in Utts : UtteranceKept(v)
    BY <1>1, <2>4, <2>6, <2>7 DEF UtteranceKept
  <2>9. \A k \in DOMAIN clusters : ClusterKept(k)
    BY <1>2, <2>2, <2>4, <2>5, <2>6 DEF ClusterKept
  <2> QED BY <2>8, <2>9 DEF Effect
<1>6. \/ I = <<utt, clusters>>
      \/ t \in DOMAIN tracks /\ utt[u].src = "unassigned" /\ tr.state = "matched"
      \/ t \in DOMAIN tracks /\ utt[u].src = "unassigned" /\ tr.state # "matched" /\ c # None
  BY DEF Inherited
<1> HIDE DEF I
<1> QED BY <1>3, <1>4, <1>5, <1>6

LEMMA EffectOfMatch ==
    ASSUME RowTypes, NEW t, NEW who, utt' = MemberProjection(t, who), UNCHANGED clusters
    PROVE  Effect
<1>1. utt \in [Utts -> SpeakerRow] /\ \A v \in Utts : utt[v].rev \in Nat
  BY DEF RowTypes, SpeakerRow
<1>2. \A k \in DOMAIN clusters : clusters[k].rev \in Nat /\ k # None
  <2>1. \A k \in DOMAIN clusters : clusters[k] \in ClusterRow /\ k \in 1..Len(clusters)
    BY ClusterRows
  <2>2. Len(clusters) \in Nat
    BY ClusterRows
  <2> QED BY <2>1, <2>2 DEF ClusterRow, None
<1> DEFINE new(u) == [who |-> who, cluster |-> None, src |-> "automatic_member", rev |-> utt[u].rev + 1]
<1>3. \A u \in Utts : utt'[u] = IF ev[u].track # t \/ utt[u].src \in Manual THEN utt[u] ELSE new(u)
  BY DEF MemberProjection
<1>4. \A u \in Utts : new(u).rev = utt[u].rev + 1 /\ new(u).cluster = None
  OBVIOUS
<1> HIDE DEF new
<1>5. \A v \in Utts : UtteranceKept(v)
  BY <1>1, <1>3, <1>4 DEF UtteranceKept
<1>6. \A k \in DOMAIN clusters : ClusterKept(k)
  BY <1>2, <1>3, <1>4 DEF ClusterKept
<1> QED BY <1>5, <1>6 DEF Effect

LEMMA EffectOfAssign ==
    ASSUME RowTypes, NEW t, NEW c \in DOMAIN clusters \cup {Len(clusters) + 1}, c <= MaxClusters,
           utt' = ClusterProjection(t, c), clusters' = JoinedClusters(c)
    PROVE  Effect
<1>1. utt \in [Utts -> SpeakerRow] /\ \A v \in Utts : utt[v].rev \in Nat /\ utt[v] \in SpeakerRow
  BY DEF RowTypes, SpeakerRow
<1>2. \A k \in DOMAIN clusters : clusters[k].rev \in Nat
  <2>1. \A k \in DOMAIN clusters : clusters[k] \in ClusterRow
    BY ClusterRows
  <2> QED BY <2>1 DEF ClusterRow
<1> DEFINE new(u) == [[utt[u] EXCEPT !.cluster = c] EXCEPT !.src = "automatic_cluster"]
<1>3. \A u \in Utts : utt'[u] = IF ev[u].track = t /\ utt[u].src = "unassigned" THEN new(u) ELSE utt[u]
  BY DEF ClusterProjection
<1>4. \A u \in Utts : new(u).rev = utt[u].rev /\ new(u).cluster = c /\ new(u).who = utt[u].who
  BY <1>1 DEF SpeakerRow
<1> HIDE DEF new
<1>5. \A v \in Utts : UtteranceKept(v)
  BY <1>1, <1>3, <1>4 DEF UtteranceKept, Manual
<1>6. \A k \in DOMAIN clusters : k \in DOMAIN clusters' /\ clusters'[k].rev = IF k = c THEN clusters[k].rev + 1 ELSE clusters[k].rev
  BY JoinedFits
<1>7. \A k \in DOMAIN clusters : ClusterKept(k)
  BY <1>2, <1>3, <1>4, <1>6 DEF ClusterKept
<1> QED BY <1>5, <1>7 DEF Effect

(* No worker changes what is assigned by hand, and what the host was shown *)
(* with a revision is what there is as long as the revision is.            *)
LEMMA WorkersEffect ==
    ASSUME WorkersFit, SpeakerNext \/ HostDriven
    PROVE  Effect /\ (meeting = "ended" => meeting' = "ended")
<1>1. RowTypes /\ TracksFit /\ HandsFit
  BY DEF WorkersFit, RowsFit
<1>2. meeting = "ended" => meeting' = "ended"
  BY DEF SpeakerNext, HostDriven, Observing, Persist, Observe, ObserveFails, Pooling, Poll, Wake, BecomesReady,
         EndMeeting, SpeakerCrash, Routing, Route, CommitRouting, RouteFails, Running, Load, UpdateEvidenceState,
         MarkTrackFailure, CommitMatched, AssignPrepared, CommitTrack, Rejected, RetrySpeaker, RetryTracks,
         SkipManualRouting
<1>3. ASSUME NEW w \in Workers, Routing(w) PROVE Effect
  <2>1. CASE \E u \in Utts : Route(w, u)
    BY <1>1, <2>1, EffectOfNone DEF Route, speakerRows
  <2>2. CASE RouteFails(w)
    BY <1>1, <2>2, EffectOfNone DEF RouteFails
  <2>3. CASE CommitRouting(w)
    <3> DEFINE u == work[w].id
               t == IF work[w].target = None THEN Len(tracks) + 1 ELSE work[w].target
    <3>1. CASE ev[u].routing \notin Routable
      <4>1. UNCHANGED <<utt, clusters>>
        BY <2>3, <3>1 DEF CommitRouting, speakerRows
      <4> QED BY <1>1, <4>1, EffectOfNone
    <3>2. CASE ev[u].routing \in Routable
      <4>1. utt' = Inherited(u, t, clusters)[1] /\ clusters' = Inherited(u, t, clusters)[2]
        BY <2>3, <3>2 DEF CommitRouting
      <4>2. u \in Utts
        BY <1>1, <2>3 DEF CommitRouting, HandsFit, WorkFits
      <4> HIDE DEF u, t
      <4> QED BY <1>1, <4>1, <4>2, EffectOfRouting
    <3> QED BY <3>1, <3>2
  <2> QED BY <1>3, <2>1, <2>2, <2>3 DEF Routing
<1>4. ASSUME NEW w \in Workers, Running(w) PROVE Effect
  <2>1. CASE CommitMatched(w)
    <3>1. \E who : utt' = MemberProjection(work[w].id, who) /\ UNCHANGED clusters
      BY <2>1 DEF CommitMatched
    <3> QED BY <1>1, <3>1, EffectOfMatch
  <2>2. CASE AssignPrepared(w)
    <3>1. PICK c \in DOMAIN clusters \cup {Len(clusters) + 1} :
            c <= MaxClusters /\ utt' = ClusterProjection(work[w].id, c) /\ clusters' = JoinedClusters(c)
      BY <2>2 DEF AssignPrepared
    <3> QED BY <1>1, <3>1, EffectOfAssign
  <2>3. CASE UNCHANGED <<utt, clusters>>
    BY <1>1, <2>3, EffectOfNone
  <2> QED BY <1>4, <2>1, <2>2, <2>3 DEF Running, Load, UpdateEvidenceState, MarkTrackFailure, Rejected, speakerRows
<1>5. ASSUME Observing \/ Pooling \/ BecomesReady \/ EndMeeting \/ SpeakerCrash \/ HostDriven
      PROVE  Effect
  <2>1. UNCHANGED <<utt, clusters>>
    BY <1>5 DEF Observing, Persist, Observe, ObserveFails, Pooling, Poll, Wake, BecomesReady, EndMeeting,
                SpeakerCrash, HostDriven, RetrySpeaker, RetryTracks, SkipManualRouting, speakerRows
  <2> QED BY <1>1, <2>1, EffectOfNone
<1> QED BY <1>2, <1>3, <1>4, <1>5 DEF SpeakerNext

-----------------------------------------------------------------------------
(* The log of corrections.                                                 *)

LEMMA LaterOf ==
    ASSUME NEW log, NEW n \in Nat, DOMAIN log = 1..n, NEW kind, NEW u, NEW i
    PROVE  {j \in DOMAIN log : j > i /\ About(log[j], kind, u)} \in SUBSET (1..n)
  OBVIOUS

(* What is appended found what was there, and leaves what is there then.   *)
LEMMA ChainAppend ==
    ASSUME NEW S, NEW log \in Seq(S), NEW row, NEW kind, NEW u, NEW now, NEW then,
           ChainOf(log, kind, u, now),
           About(row, kind, u) => Before(row, u) = now /\ then = row.after,
           ~ About(row, kind, u) => then = now
    PROVE  ChainOf(Append(log, row), kind, u, then)
<1> DEFINE n == Len(log)
           log2 == Append(log, row)
           later(i) == {j \in DOMAIN log : j > i /\ About(log[j], kind, u)}
           later2(i) == {j \in DOMAIN log2 : j > i /\ About(log2[j], kind, u)}
<1>1. n \in Nat /\ DOMAIN log = 1..n
  OBVIOUS
<1>2. DOMAIN log2 = 1..(n + 1) /\ log2[n + 1] = row /\ \A i \in 1..n : log2[i] = log[i]
  <2>1. Len(log2) = n + 1 /\ log2[n + 1] = row /\ \A i \in 1..n : log2[i] = log[i]
    OBVIOUS
  <2>2. DOMAIN log2 = 1..(n + 1)
    BY <1>1
  <2> QED BY <2>1, <2>2
<1> HIDE DEF log2, n
<1> SUFFICES ASSUME NEW i \in DOMAIN log2, About(log2[i], kind, u)
             PROVE  (IF later2(i) = {} THEN then ELSE Before(log2[Min(later2(i))], u)) = log2[i].after
  BY DEF ChainOf, log2
<1>3. CASE i = n + 1
  <2>1. later2(i) = {} /\ log2[i] = row
    BY <1>1, <1>2, <1>3
  <2> HIDE DEF later2
  <2> QED BY <2>1
<1>4. CASE i # n + 1
  <2>1. i \in 1..n /\ log2[i] = log[i] /\ About(log[i], kind, u)
    BY <1>1, <1>2, <1>4
  <2>2. (IF later(i) = {} THEN now ELSE Before(log[Min(later(i))], u)) = log[i].after
    BY <1>1, <2>1, Zenon DEF ChainOf
  <2>3. later2(i) = IF About(row, kind, u) THEN later(i) \cup {n + 1} ELSE later(i)
    BY <1>1, <1>2, <2>1
  <2>4. later(i) \in SUBSET (1..n)
    BY <1>1
  <2> HIDE DEF later, later2
  <2>5. CASE later(i) = {}
    <3>1. CASE About(row, kind, u)
      <4>1. later2(i) = {n + 1} /\ {n + 1} \in SUBSET Nat
        BY <1>1, <2>3, <2>5, <3>1
      <4>2. Min({n + 1}) \in {n + 1}
        BY <4>1, MinOf
      <4>3. log2[Min(later2(i))] = row /\ later2(i) # {}
        BY <1>2, <4>1, <4>2
      <4> QED BY <2>1, <2>2, <2>5, <3>1, <4>3
    <3>2. CASE ~ About(row, kind, u)
      BY <2>1, <2>2, <2>3, <2>5, <3>2
    <3> QED BY <3>1, <3>2
  <2>6. CASE later(i) # {}
    <3>1. later(i) \in SUBSET Nat /\ later2(i) \in SUBSET Nat /\ later2(i) # {}
      BY <1>1, <2>3, <2>4, <2>6
    <3>2. /\ Min(later(i)) \in later(i) /\ \A x \in later(i) : Min(later(i)) <= x
          /\ Min(later2(i)) \in later2(i) /\ \A x \in later2(i) : Min(later2(i)) <= x
      BY <2>6, <3>1, MinOf
    <3>3. Min(later(i)) \in later2(i) /\ Min(later(i)) \in 1..n
      BY <2>3, <2>4, <3>2
    <3>4. Min(later2(i)) <= Min(later(i)) /\ Min(later2(i)) # n + 1
      BY <1>1, <3>1, <3>2, <3>3
    <3>5. Min(later2(i)) \in later(i)
      BY <2>3, <3>2, <3>4
    <3>6. Min(later2(i)) = Min(later(i))
      BY <3>1, <3>2, <3>4, <3>5
    <3>7. log2[Min(later2(i))] = log[Min(later(i))]
      BY <1>2, <3>3, <3>6
    <3> QED BY <2>1, <2>2, <2>6, <3>1, <3>7
  <2> QED BY <2>5, <2>6
<1> QED BY <1>3, <1>4

LEMMA BeforeIs ==
    ASSUME NEW row, SingleValued(row.items), NEW x \in row.items
    PROVE  Before(row, x[1]) = x[2]
<1>1. \E y \in row.items : y[1] = x[1]
  OBVIOUS
<1> DEFINE y == CHOOSE y \in row.items : y[1] = x[1]
<1>2. y \in row.items /\ y[1] = x[1]
  BY <1>1, Zenon
<1>3. Before(row, x[1]) = y[2]
  BY Zenon DEF Before
<1> HIDE DEF y
<1> QED BY <1>2, <1>3 DEF SingleValued

LEMMA EntriesAppend ==
    ASSUME NEW S, NEW log \in Seq(S), NEW row, NEW r
    PROVE  {i \in DOMAIN Append(log, row) : Append(log, row)[i].request = r}
             = {i \in DOMAIN log : log[i].request = r} \cup (IF row.request = r THEN {Len(log) + 1} ELSE {})
<1> DEFINE log2 == Append(log, row)
<1>1. Len(log) \in Nat /\ DOMAIN log = 1..Len(log)
  OBVIOUS
<1>2. /\ log2[Len(log) + 1] = row /\ (\A i \in 1..Len(log) : log2[i] = log[i]) /\ Len(log2) = Len(log) + 1
  OBVIOUS
<1>3. DOMAIN log2 = 1..(Len(log) + 1)
  BY <1>1
<1> HIDE DEF log2
<1>4. {i \in DOMAIN log2 : log2[i].request = r}
             = {i \in DOMAIN log : log[i].request = r} \cup (IF row.request = r THEN {Len(log) + 1} ELSE {})
  BY <1>1, <1>2, <1>3
<1> QED BY <1>4 DEF log2

(* Rows that are among those the host was shown, and as many, are those.   *)
LEMMA SameRows ==
    ASSUME NEW items, NEW S, SingleValued(items), First(items) \subseteq Utts, S \subseteq First(items),
           Cardinality(S) = Cardinality(items)
    PROVE  S = First(items)
<1> DEFINE f == [x \in items |-> x[1]]
<1>1. IsFiniteSet(First(items))
  <2>1. Finals \in Nat /\ IsFiniteSet(1..Finals)
    BY SpeakerAssumption, FS_Interval
  <2>2. First(items) \in SUBSET (1..Finals)
    BY DEF Utts
  <2> QED BY <2>1, <2>2, FS_Subset
<1>2. f \in [items -> First(items)]
  BY DEF First
<1>3. f \in Injection(items, First(items))
  BY <1>2 DEF Injection, IsInjective, SingleValued
<1>4. f \in Surjection(items, First(items))
  BY <1>2 DEF Surjection, First
<1> HIDE DEF f
<1>5. IsFiniteSet(items) /\ Cardinality(items) = Cardinality(First(items))
  BY <1>1, <1>3, <1>4, FS_Injection
<1> QED BY <1>1, <1>5, FS_Subset

-----------------------------------------------------------------------------
(* The invariant of the commands and their log, beside that of the workers. *)

LogTypes ==
    /\ text \in [Utts -> VersionedText] /\ resource \in VersionedText
    /\ audit \in Seq(AuditRow) /\ commands \in [Requests -> CommandRow]
HostFits == LogTypes /\ CommandsFit /\ AuditFits /\ AuditChain /\ SavedStaysSaved

LEMMA CorrectionParts == CorrectionInv <=> WorkersFit /\ HostFits
<1>1. WorkersFit => DecidedOnce
  BY DEF WorkersFit, RowsFit, TracksFit, DecidedOnce
<1> QED BY <1>1, WorkersParts DEF CorrectionInv, TypeOK, HostFits, LogTypes

LEMMA HostStart == Init => HostFits
<1> SUFFICES ASSUME Init PROVE HostFits
  OBVIOUS
<1>1. /\ text = [u \in Utts |-> [value |-> Original, rev |-> 1]] /\ resource = [value |-> Original, rev |-> 1]
      /\ audit = <<>> /\ commands = [r \in Requests |-> NoCommand]
  BY DEF Init
<1>2. [value |-> Original, rev |-> 1] \in VersionedText
  BY CorrectionAssumption DEF VersionedText
<1>3. NoCommand \in CommandRow /\ NoCommand.kind = "none" /\ NoCommand.saved = FALSE
  BY CorrectionAssumption DEF NoCommand, CommandRow, ItemSets, None
<1>4. LogTypes
  <2>1. audit \in Seq(AuditRow)
    BY <1>1
  <2> QED BY <1>1, <1>2, <1>3, <2>1 DEF LogTypes
<1>5. \A r \in Requests : commands[r].kind = "none" /\ ~ commands[r].saved
  BY <1>1, <1>3
<1>6. CommandsFit /\ SavedStaysSaved
  BY <1>5 DEF CommandsFit, SavedStaysSaved, TextFits, ResourceFits, SpeakerFits, ClusterFits
<1>7. AuditFits /\ AuditChain
  BY <1>1 DEF AuditFits, AuditChain, ChainOf
<1> QED BY <1>4, <1>6, <1>7 DEF HostFits

(* A row changes with its revision.                                        *)
RevisionsTell ==
    /\ \A u \in Utts : /\ text[u].rev <= text'[u].rev /\ (text[u].rev = text'[u].rev => text'[u] = text[u])
                       /\ utt[u].rev <= utt'[u].rev /\ (utt[u].rev = utt'[u].rev => utt'[u].who = utt[u].who)
    /\ resource.rev <= resource'.rev /\ (resource.rev = resource'.rev => resource' = resource)
    /\ \A c \in DOMAIN clusters : ClusterKept(c)
SameCommand(q) ==
    /\ commands'[q].kind = commands[q].kind /\ commands'[q].target = commands[q].target
    /\ commands'[q].value = commands[q].value /\ commands'[q].rev = commands[q].rev
    /\ commands'[q].shown = commands[q].shown

LEMMA CommandsKept ==
    ASSUME HostFits, WorkersFit, LogTypes', RowTypes', RevisionsTell, meeting = "ended" => meeting' = "ended",
           \A q \in Requests : SameCommand(q)
    PROVE  CommandsFit'
<1> SUFFICES ASSUME NEW r \in Requests
             PROVE  /\ TextFits(commands[r])' /\ ResourceFits(commands[r])' /\ SpeakerFits(commands[r])'
                    /\ ClusterFits(commands[r])' /\ (commands'[r].kind # "none" => meeting' = "ended")
  BY DEF CommandsFit
<1>1. /\ TextFits(commands[r]) /\ ResourceFits(commands[r]) /\ SpeakerFits(commands[r])
      /\ ClusterFits(commands[r]) /\ (commands[r].kind # "none" => meeting = "ended")
  BY DEF HostFits, CommandsFit
<1> DEFINE cmd == commands[r]
<1>2. /\ cmd \in CommandRow /\ commands'[r].kind = cmd.kind /\ commands'[r].target = cmd.target
      /\ commands'[r].value = cmd.value /\ commands'[r].rev = cmd.rev /\ commands'[r].shown = cmd.shown
  BY DEF HostFits, LogTypes, SameCommand
<1>3. cmd.rev \in Nat
  BY <1>2 DEF CommandRow
<1>4. TextFits(commands[r])'
  <2> SUFFICES ASSUME cmd.kind = "text"
      PROVE  /\ cmd.value \in Texts /\ cmd.target \in Utts /\ cmd.rev <= text'[cmd.target].rev
             /\ cmd.rev = text'[cmd.target].rev => cmd.shown = {<<cmd.target, text'[cmd.target].value>>}
    BY <1>2 DEF TextFits
  <2>1. /\ cmd.value \in Texts /\ cmd.target \in Utts /\ cmd.rev <= text[cmd.target].rev
        /\ cmd.rev = text[cmd.target].rev => cmd.shown = {<<cmd.target, text[cmd.target].value>>}
    BY <1>1 DEF TextFits
  <2> HIDE DEF cmd
  <2>2. /\ text[cmd.target].rev <= text'[cmd.target].rev
        /\ text[cmd.target].rev = text'[cmd.target].rev => text'[cmd.target] = text[cmd.target]
    BY <2>1 DEF RevisionsTell
  <2>3. text[cmd.target].rev \in Nat /\ text'[cmd.target].rev \in Nat
    BY <2>1 DEF HostFits, LogTypes, VersionedText
  <2>4. cmd.rev <= text'[cmd.target].rev
    BY <1>3, <2>1, <2>2, <2>3
  <2>5. cmd.rev = text'[cmd.target].rev => cmd.rev = text[cmd.target].rev /\ text'[cmd.target] = text[cmd.target]
    BY <1>3, <2>1, <2>2, <2>3
  <2> QED BY <2>1, <2>4, <2>5
<1>5. ResourceFits(commands[r])'
  <2> SUFFICES ASSUME cmd.kind = "resource"
      PROVE  /\ cmd.value \in Texts /\ cmd.rev <= resource'.rev
             /\ cmd.rev = resource'.rev => cmd.shown = {<<None, resource'.value>>}
    BY <1>2 DEF ResourceFits
  <2>1. /\ cmd.value \in Texts /\ cmd.rev <= resource.rev
        /\ cmd.rev = resource.rev => cmd.shown = {<<None, resource.value>>}
    BY <1>1 DEF ResourceFits
  <2> HIDE DEF cmd
  <2>2. resource.rev \in Nat /\ resource'.rev \in Nat
    BY DEF HostFits, LogTypes, VersionedText
  <2>3. resource.rev <= resource'.rev /\ (resource.rev = resource'.rev => resource' = resource)
    BY DEF RevisionsTell
  <2>4. cmd.rev <= resource'.rev /\ (cmd.rev = resource'.rev => cmd.rev = resource.rev /\ resource' = resource)
    BY <1>3, <2>1, <2>2, <2>3
  <2> QED BY <2>1, <2>4
<1>6. SpeakerFits(commands[r])'
  <2> SUFFICES ASSUME cmd.kind = "speaker"
      PROVE  /\ cmd.value \in Participants /\ cmd.target \in Utts /\ cmd.rev <= utt'[cmd.target].rev
             /\ \A x \in cmd.shown : x[1] = cmd.target
                  /\ (cmd.rev = utt'[cmd.target].rev => utt'[cmd.target].who = x[2].who)
    BY <1>2 DEF SpeakerFits
  <2>1. /\ cmd.value \in Participants /\ cmd.target \in Utts /\ cmd.rev <= utt[cmd.target].rev
        /\ \A x \in cmd.shown : x[1] = cmd.target
                  /\ (cmd.rev = utt[cmd.target].rev => utt[cmd.target].who = x[2].who)
    BY <1>1 DEF SpeakerFits
  <2> HIDE DEF cmd
  <2>2. /\ utt[cmd.target].rev <= utt'[cmd.target].rev
        /\ utt[cmd.target].rev = utt'[cmd.target].rev => utt'[cmd.target].who = utt[cmd.target].who
    BY <2>1 DEF RevisionsTell
  <2>3. utt[cmd.target].rev \in Nat /\ utt'[cmd.target].rev \in Nat
    <3>1. utt[cmd.target] \in SpeakerRow /\ utt'[cmd.target] \in SpeakerRow
      BY <2>1 DEF WorkersFit, RowsFit, RowTypes
    <3> QED BY <3>1 DEF SpeakerRow
  <2>4. cmd.rev <= utt'[cmd.target].rev
    BY <1>3, <2>1, <2>2, <2>3
  <2>5. cmd.rev = utt'[cmd.target].rev => cmd.rev = utt[cmd.target].rev /\ utt'[cmd.target].who = utt[cmd.target].who
    BY <1>3, <2>1, <2>2, <2>3
  <2> QED BY <2>1, <2>4, <2>5
<1>7. ClusterFits(commands[r])'
  <2> SUFFICES ASSUME cmd.kind = "cluster"
      PROVE  /\ cmd.value \in Participants /\ cmd.target \in DOMAIN clusters' /\ cmd.rev <= clusters'[cmd.target].rev
             /\ cmd.rev = clusters'[cmd.target].rev =>
                  {u \in Utts : utt'[u].cluster = cmd.target} \subseteq First(cmd.shown)
             /\ cmd.shown # {} /\ First(cmd.shown) \subseteq Utts /\ SingleValued(cmd.shown)
    BY <1>2 DEF ClusterFits, Rows, First, SingleValued
  <2>1. /\ cmd.value \in Participants /\ cmd.target \in DOMAIN clusters /\ cmd.rev <= clusters[cmd.target].rev
        /\ cmd.rev = clusters[cmd.target].rev =>
             {u \in Utts : utt[u].cluster = cmd.target} \subseteq First(cmd.shown)
        /\ cmd.shown # {} /\ First(cmd.shown) \subseteq Utts /\ SingleValued(cmd.shown)
    BY <1>1 DEF ClusterFits, Rows
  <2> HIDE DEF cmd
  <2>2. /\ cmd.target \in DOMAIN clusters' /\ clusters[cmd.target].rev <= clusters'[cmd.target].rev
        /\ clusters[cmd.target].rev = clusters'[cmd.target].rev =>
              \A u \in Utts : utt'[u].cluster = cmd.target => utt[u].cluster = cmd.target
    BY <2>1 DEF RevisionsTell, ClusterKept
  <2>3. clusters[cmd.target].rev \in Nat /\ clusters'[cmd.target].rev \in Nat
    <3>1. clusters \in Seq(ClusterRow) /\ clusters' \in Seq(ClusterRow)
      BY DEF WorkersFit, RowsFit, RowTypes
    <3>2. clusters[cmd.target] \in ClusterRow /\ clusters'[cmd.target] \in ClusterRow
      BY <2>1, <2>2, <3>1
    <3> QED BY <3>2 DEF ClusterRow
  <2>4. cmd.rev <= clusters'[cmd.target].rev
    BY <1>3, <2>1, <2>2, <2>3
  <2>5. cmd.rev = clusters'[cmd.target].rev => cmd.rev = clusters[cmd.target].rev
          /\ \A u \in Utts : utt'[u].cluster = cmd.target => utt[u].cluster = cmd.target
    BY <1>3, <2>1, <2>2, <2>3
  <2> QED BY <2>1, <2>2, <2>4, <2>5
<1> QED BY <1>1, <1>2, <1>4, <1>5, <1>6, <1>7

LEMMA HostBesideWorkers ==
    ASSUME HostFits, WorkersFit, RowTypes', Effect, meeting = "ended" => meeting' = "ended", UNCHANGED correctionVars
    PROVE  HostFits'
<1>1. /\ text' = text /\ resource' = resource /\ audit' = audit /\ commands' = commands
      /\ \A u \in Utts : UtteranceKept(u)
      /\ \A c \in DOMAIN clusters : ClusterKept(c)
  BY DEF correctionVars, Effect
<1>2. LogTypes' /\ SavedStaysSaved'
  BY <1>1 DEF HostFits, LogTypes, SavedStaysSaved
<1>3. CommandsFit'
  <2>1. RevisionsTell
    <3>1. \A u \in Utts : text[u].rev \in Nat
      BY DEF HostFits, LogTypes, VersionedText
    <3>2. resource.rev \in Nat
      BY DEF HostFits, LogTypes, VersionedText
    <3> QED BY <1>1, <3>1, <3>2 DEF RevisionsTell, UtteranceKept
  <2>2. \A q \in Requests : SameCommand(q)
    BY <1>1 DEF SameCommand
  <2> QED BY <1>2, <2>1, <2>2, CommandsKept
<1>4. AuditFits'
  <2>1. \A u \in Utts : utt[u].src \in Manual => utt'[u].src \in Manual
    BY <1>1 DEF UtteranceKept
  <2> QED BY <1>1, <2>1 DEF HostFits, AuditFits
<1>5. AuditChain'
  <2>1. ASSUME NEW u \in Utts PROVE ChainOf(audit, "speaker", u, [who |-> utt'[u].who, src |-> utt'[u].src])
    <3>1. ChainOf(audit, "speaker", u, Assigned(u))
      BY DEF HostFits, AuditChain
    <3>2. CASE \E i \in DOMAIN audit : About(audit[i], "speaker", u)
      <4>1. PICK i \in DOMAIN audit : About(audit[i], "speaker", u)
        BY <3>2
      <4>2. PICK x \in audit[i].items : x[1] = u
        BY <4>1 DEF About
      <4>3. utt[u].src \in Manual
        BY <4>1, <4>2 DEF HostFits, AuditFits, About
      <4>4. utt'[u] = utt[u]
        BY <1>1, <4>3 DEF UtteranceKept
      <4> QED BY <3>1, <4>4 DEF Assigned
    <3>3. CASE ~ \E i \in DOMAIN audit : About(audit[i], "speaker", u)
      BY <3>3, Zenon DEF ChainOf
    <3> QED BY <3>2, <3>3
  <2> QED BY <1>1, <2>1 DEF HostFits, AuditChain, Assigned
<1> QED BY <1>2, <1>3, <1>4, <1>5 DEF HostFits

-----------------------------------------------------------------------------
(* The host is shown a target.                                             *)

LEMMA ContentsOf ==
    ASSUME LogTypes, WorkersFit, NEW u \in Utts
    PROVE  /\ text[u].value \in Contents /\ Assigned(u) \in Contents
           /\ text[u].rev \in Nat /\ utt[u].rev \in Nat
<1>1. text[u] \in VersionedText /\ utt[u] \in SpeakerRow
  BY DEF LogTypes, WorkersFit, RowsFit, RowTypes
<1>2. text[u].value \in Texts /\ text[u].rev \in Nat
  BY <1>1 DEF VersionedText
<1>3. utt[u].who \in Participants \cup {Nobody} /\ utt[u].rev \in Nat
      /\ utt[u].src \in Manual \cup {"unassigned", "automatic_member", "automatic_cluster"}
  BY <1>1 DEF SpeakerRow
<1>4. Assigned(u) \in [who : Participants \cup {Nobody},
                       src : Manual \cup {"unassigned", "automatic_member", "automatic_cluster"}]
  BY <1>3 DEF Assigned
<1> QED BY <1>2, <1>3, <1>4 DEF Contents

LEMMA ShownFits ==
    ASSUME LogTypes, WorkersFit, NEW kind \in {"text", "speaker", "cluster", "resource"}, NEW t,
           kind \in {"text", "speaker"} => t \in Utts, kind = "cluster" => t \in DOMAIN clusters
    PROVE  /\ Shown(kind, t) \in ItemSets /\ Revision(kind, t) \in Nat
           /\ kind = "text" => Shown(kind, t) = {<<t, text[t].value>>}
           /\ kind = "speaker" => Shown(kind, t) = {<<t, Assigned(t)>>}
           /\ kind = "resource" => Shown(kind, t) = {<<None, resource.value>>}
           /\ kind = "cluster" => Shown(kind, t) = {<<u, Assigned(u)>> : u \in Rows(t)}
<1>1. CASE kind = "text"
  <2>1. Shown(kind, t) = {<<t, text[t].value>>}
    BY <1>1 DEF Shown, Scope, Content
  <2>2. Revision(kind, t) = text[t].rev
    BY <1>1 DEF Revision
  <2>3. text[t].value \in Contents /\ text[t].rev \in Nat
    BY <1>1, ContentsOf
  <2> QED BY <1>1, <2>1, <2>2, <2>3 DEF ItemSets
<1>2. CASE kind = "speaker"
  <2>1. Shown(kind, t) = {<<t, Assigned(t)>>}
    BY <1>2 DEF Shown, Scope, Content
  <2>2. Revision(kind, t) = utt[t].rev
    BY <1>2 DEF Revision
  <2>3. Assigned(t) \in Contents /\ utt[t].rev \in Nat
    BY <1>2, ContentsOf
  <2> QED BY <1>2, <2>1, <2>2, <2>3 DEF ItemSets
<1>3. CASE kind = "resource"
  <2>1. Shown(kind, t) = {<<None, resource.value>>}
    BY <1>3 DEF Shown, Scope
  <2>2. Revision(kind, t) = resource.rev
    BY <1>3 DEF Revision
  <2>3. resource.value \in Contents /\ resource.rev \in Nat
    BY DEF LogTypes, VersionedText, Contents
  <2> QED BY <1>3, <2>1, <2>2, <2>3 DEF ItemSets
<1>4. CASE kind = "cluster"
  <2>1. Shown(kind, t) = {<<u, Assigned(u)>> : u \in Rows(t)}
    BY <1>4 DEF Shown, Scope, Content
  <2>2. Revision(kind, t) = clusters[t].rev
    BY <1>4 DEF Revision
  <2>3. clusters[t] \in ClusterRow
    BY <1>4 DEF WorkersFit, RowsFit, RowTypes
  <2>4. clusters[t].rev \in Nat
    BY <2>3 DEF ClusterRow
  <2>5. \A u \in Rows(t) : <<u, Assigned(u)>> \in (Utts \cup {None}) \X Contents
    BY ContentsOf DEF Rows
  <2> QED BY <1>4, <2>1, <2>2, <2>4, <2>5 DEF ItemSets
<1> QED BY <1>1, <1>2, <1>3, <1>4

LEMMA OpenStep ==
    ASSUME HostFits, WorkersFit, NEW r \in Requests, Open(r)
    PROVE  HostFits'
<1>1. /\ LogTypes /\ UNCHANGED <<speakerVars, text, resource, audit>> /\ meeting = "ended" /\ commands[r] = NoCommand
      /\ commands \in [Requests -> CommandRow]
  BY DEF HostFits, LogTypes, Open
<1>a. PICK kind \in Kinds : \E t \in Targeted(kind), v \in Values(kind) :
         commands' = [commands EXCEPT ![r] = [NoCommand EXCEPT !.kind = kind, !.target = t, !.value = v,
                                              !.rev = Revision(kind, t), !.shown = Shown(kind, t)]]
  BY Zenon DEF Open
<1>2. PICK t \in Targeted(kind), v \in Values(kind) :
         commands' = [commands EXCEPT ![r] = [NoCommand EXCEPT !.kind = kind, !.target = t, !.value = v,
                                              !.rev = Revision(kind, t), !.shown = Shown(kind, t)]]
  BY <1>a, Zenon
<1>3. kind \in {"text", "speaker", "cluster", "resource"}
  BY CorrectionAssumption
<1>4. /\ kind \in {"text", "speaker"} => t \in Utts
      /\ kind = "cluster" => t \in DOMAIN clusters /\ Rows(t) # {}
      /\ kind = "resource" => t = None
  BY <1>3, CorrectionAssumption DEF Targeted
<1>5. /\ Shown(kind, t) \in ItemSets /\ Revision(kind, t) \in Nat
      /\ kind = "text" => Shown(kind, t) = {<<t, text[t].value>>}
      /\ kind = "speaker" => Shown(kind, t) = {<<t, Assigned(t)>>}
      /\ kind = "resource" => Shown(kind, t) = {<<None, resource.value>>}
      /\ kind = "cluster" => Shown(kind, t) = {<<u, Assigned(u)>> : u \in Rows(t)}
  BY <1>1, <1>3, <1>4, ShownFits
<1>6. /\ kind \in {"text", "resource"} => v \in Texts
      /\ kind \in {"speaker", "cluster"} => v \in Participants
      /\ v \in Texts \cup Participants
  BY <1>3 DEF Values
<1>7. t \in Nat
  <2>1. Len(clusters) \in Nat /\ DOMAIN clusters = 1..Len(clusters) /\ Finals \in Nat
    BY ClusterRows, SpeakerAssumption DEF WorkersFit, RowsFit
  <2> QED BY <1>3, <1>4, <2>1 DEF Utts, None
<1> DEFINE shown == Shown(kind, t)
           rev == Revision(kind, t)
           new == [NoCommand EXCEPT !.kind = kind, !.target = t, !.value = v, !.rev = rev, !.shown = shown]
<1>8. NoCommand \in CommandRow /\ NoCommand.saved = FALSE
  BY CorrectionAssumption DEF NoCommand, CommandRow, ItemSets, None
<1>9. /\ new \in CommandRow /\ new.kind = kind /\ new.target = t /\ new.value = v /\ new.rev = rev
      /\ new.shown = shown /\ new.saved = FALSE
  <2> HIDE DEF shown, rev
  <2>1. shown \in ItemSets /\ rev \in Nat
    BY <1>5 DEF shown, rev
  <2> QED BY <1>6, <1>7, <1>8, <2>1 DEF CommandRow
<1> HIDE DEF new
<1>10. commands' = [commands EXCEPT ![r] = new]
  BY <1>2 DEF new
<1>11. commands'[r] = new /\ \A q \in Requests : q # r => commands'[q] = commands[q]
  BY <1>1, <1>10
<1>12. LogTypes'
  BY <1>1, <1>9, <1>10 DEF LogTypes
<1>13. utt' = utt /\ clusters' = clusters /\ text' = text /\ resource' = resource /\ audit' = audit /\ meeting' = meeting
  BY <1>1 DEF speakerVars, speakerRows
<1>14. SavedStaysSaved' /\ AuditFits'
  BY <1>9, <1>11, <1>13 DEF HostFits, SavedStaysSaved, AuditFits
<1>15. AuditChain'
  BY <1>13 DEF HostFits, AuditChain, Assigned
<1>16. CommandsFit'
  <2> SUFFICES ASSUME NEW q \in Requests
               PROVE  /\ TextFits(commands[q])' /\ ResourceFits(commands[q])' /\ SpeakerFits(commands[q])'
                      /\ ClusterFits(commands[q])' /\ (commands'[q].kind # "none" => meeting' = "ended")
    BY DEF CommandsFit
  <2>1. CASE q # r
    BY <1>11, <1>13, <2>1 DEF HostFits, CommandsFit, TextFits, ResourceFits, SpeakerFits, ClusterFits, Rows
  <2>2. CASE q = r
    <3>1. TextFits(commands[q])'
      BY <1>1, <1>4, <1>5, <1>6, <1>9, <1>11, <1>13, <2>2 DEF TextFits, Revision, LogTypes, VersionedText
    <3>2. ResourceFits(commands[q])'
      BY <1>1, <1>4, <1>5, <1>6, <1>9, <1>11, <1>13, <2>2 DEF ResourceFits, Revision, LogTypes, VersionedText
    <3>3. SpeakerFits(commands[q])'
      <4> SUFFICES ASSUME kind = "speaker"
          PROVE  /\ v \in Participants /\ t \in Utts /\ rev <= utt[t].rev
                 /\ \A x \in shown : x[1] = t /\ (rev = utt[t].rev => utt[t].who = x[2].who)
        BY <1>9, <1>11, <1>13, <2>2 DEF SpeakerFits
      <4>1. rev = utt[t].rev
        BY DEF Revision
      <4>2. shown = {<<t, Assigned(t)>>}
        BY <1>5
      <4>3. utt[t].rev \in Nat
        BY <1>4, <1>1, ContentsOf
      <4> HIDE DEF rev, shown
      <4> QED BY <1>4, <1>6, <4>1, <4>2, <4>3 DEF Assigned
    <3>4. ClusterFits(commands[q])'
      <4> SUFFICES ASSUME kind = "cluster"
          PROVE  /\ v \in Participants /\ t \in DOMAIN clusters /\ rev <= clusters[t].rev
                 /\ Rows(t) \subseteq First(shown)
                 /\ shown # {} /\ First(shown) \subseteq Utts /\ SingleValued(shown)
        BY <1>9, <1>11, <1>13, <2>2 DEF ClusterFits, Rows, First, SingleValued
      <4>1. rev = clusters[t].rev
        BY DEF Revision
      <4>2. shown = {<<u, Assigned(u)>> : u \in Rows(t)}
        BY <1>5
      <4>3. Rows(t) \subseteq Utts
        BY DEF Rows
      <4>4. rev \in Nat
        BY <1>5
      <4> HIDE DEF rev, shown
      <4>5. First(shown) = Rows(t)
        <5>1. \A x \in shown : x[1] \in Rows(t)
          BY <4>2
        <5>2. ASSUME NEW u \in Rows(t) PROVE \E x \in shown : x[1] = u
          <6>1. <<u, Assigned(u)>> \in shown /\ <<u, Assigned(u)>>[1] = u
            BY <4>2
          <6> QED BY <6>1
        <5> QED BY <5>1, <5>2 DEF First
      <4>6. SingleValued(shown)
        BY <4>2 DEF SingleValued
      <4>7. shown # {}
        BY <1>4, <4>2
      <4> QED BY <1>4, <1>6, <4>1, <4>3, <4>4, <4>5, <4>6, <4>7
    <3> QED BY <1>1, <1>13, <3>1, <3>2, <3>3, <3>4
  <2> QED BY <2>1, <2>2
<1> QED BY <1>12, <1>14, <1>15, <1>16 DEF HostFits

-----------------------------------------------------------------------------
(* The host submits.                                                       *)

Touched(cmd) == IF cmd.kind \in {"speaker", "cluster"} THEN Scope(cmd.kind, cmd.target) ELSE {}
Saving == {"saved", "flush_failed"}

LEMMA Answered ==
    ASSUME commands \in [Requests -> CommandRow], NEW r \in Requests, commands[r].sent < 2,
           NEW a \in {"saved", "flush_failed", "duplicate", "noop", "revision"}, Answer(r, a)
    PROVE  /\ commands' \in [Requests -> CommandRow]
           /\ \A q \in Requests : q # r => commands'[q] = commands[q]
           /\ commands'[r].kind = commands[r].kind /\ commands'[r].target = commands[r].target
           /\ commands'[r].value = commands[r].value /\ commands'[r].rev = commands[r].rev
           /\ commands'[r].shown = commands[r].shown /\ commands'[r].answer = a
           /\ commands'[r].saved <=> commands[r].saved \/ a \in Saving
<1> DEFINE cmd == commands[r]
           saved == cmd.saved \/ a \in Saving
           row == [[[cmd EXCEPT !.sent = @ + 1] EXCEPT !.answer = a] EXCEPT !.saved = saved]
<1>1. cmd \in CommandRow
  OBVIOUS
<1>2. commands' = [commands EXCEPT ![r].sent = @ + 1, ![r].answer = a, ![r].saved = saved]
  BY DEF Answer, Saving
<1>3. saved \in BOOLEAN
  OBVIOUS
<1> HIDE DEF saved
<1>4. commands' = [commands EXCEPT ![r] = row]
  BY <1>2
<1> DEFINE r1 == [cmd EXCEPT !.sent = cmd.sent + 1]
           r2 == [r1 EXCEPT !.answer = a]
           r3 == [r2 EXCEPT !.saved = saved]
<1>5. row = r3
  OBVIOUS
<1>6. /\ r1 \in CommandRow /\ r1.kind = cmd.kind /\ r1.target = cmd.target /\ r1.value = cmd.value
      /\ r1.rev = cmd.rev /\ r1.shown = cmd.shown
  BY <1>1 DEF CommandRow
<1> HIDE DEF r1
<1>7. /\ r2 \in CommandRow /\ r2.kind = cmd.kind /\ r2.target = cmd.target /\ r2.value = cmd.value
      /\ r2.rev = cmd.rev /\ r2.shown = cmd.shown /\ r2.answer = a
  BY <1>6 DEF CommandRow
<1> HIDE DEF r2
<1>8. /\ r3 \in CommandRow /\ r3.kind = cmd.kind /\ r3.target = cmd.target /\ r3.value = cmd.value
      /\ r3.rev = cmd.rev /\ r3.shown = cmd.shown /\ r3.answer = a
  BY <1>3, <1>7 DEF CommandRow
<1>9. r3.saved = saved
  BY <1>3, <1>7 DEF CommandRow
<1> HIDE DEF r3, row
<1>10. commands'[r] = r3
  BY <1>4, <1>5
<1>11. commands' \in [Requests -> CommandRow] /\ \A q \in Requests : q # r => commands'[q] = commands[q]
  BY <1>4, <1>5, <1>8
<1> QED BY <1>8, <1>9, <1>10, <1>11 DEF saved

(* What a command that goes through does to the rows.                      *)
LEMMA Applied ==
    ASSUME LogTypes, WorkersFit, NEW cmd \in CommandRow, cmd.kind # "none",
           cmd.kind = "text" => cmd.target \in Utts,
           cmd.kind \in {"text", "resource"} => cmd.value \in Texts,
           cmd.kind \in {"speaker", "cluster"} => cmd.value \in Participants,
           cmd.kind = "cluster" => cmd.target \in DOMAIN clusters,
           UpdateText(cmd), UpdateSpeaker(cmd)
    PROVE  /\ text' \in [Utts -> VersionedText] /\ resource' \in VersionedText
           /\ utt' \in [Utts -> SpeakerRow] /\ clusters' \in Seq(ClusterRow) /\ Len(clusters') = Len(clusters)
           /\ \A u \in Utts : text'[u] = IF cmd.kind = "text" /\ u = cmd.target
                                         THEN [value |-> cmd.value, rev |-> text[u].rev + 1] ELSE text[u]
           /\ resource' = IF cmd.kind = "resource" THEN [value |-> cmd.value, rev |-> resource.rev + 1] ELSE resource
           /\ \A u \in Utts : IF u \in Touched(cmd)
                THEN /\ utt'[u].who = cmd.value /\ utt'[u].src = After(cmd).src /\ utt'[u].src \in Manual
                     /\ utt'[u].rev = utt[u].rev + 1 /\ utt'[u].cluster = utt[u].cluster
                ELSE utt'[u] = utt[u]
           /\ \A c \in DOMAIN clusters : /\ c \in DOMAIN clusters'
                /\ IF cmd.kind = "cluster" /\ c = cmd.target THEN clusters'[c].rev = clusters[c].rev + 1
                   ELSE clusters'[c] = clusters[c]
<1>1. /\ text \in [Utts -> VersionedText] /\ resource \in VersionedText /\ utt \in [Utts -> SpeakerRow]
      /\ clusters \in Seq(ClusterRow) /\ DOMAIN clusters = 1..Len(clusters) /\ Len(clusters) \in Nat
  BY DEF LogTypes, WorkersFit, RowsFit, RowTypes
<1>2. cmd.kind \in {"text", "speaker", "cluster", "resource"}
  BY CorrectionAssumption DEF CommandRow
<1>3. /\ text' \in [Utts -> VersionedText]
      /\ \A u \in Utts : text'[u] = IF cmd.kind = "text" /\ u = cmd.target
                                    THEN [value |-> cmd.value, rev |-> text[u].rev + 1] ELSE text[u]
  <2>1. CASE cmd.kind # "text"
    BY <1>1, <2>1 DEF UpdateText
  <2>2. CASE cmd.kind = "text"
    <3> DEFINE row == [value |-> cmd.value, rev |-> text[cmd.target].rev + 1]
    <3>1. row \in VersionedText
      BY <1>1, <2>2 DEF VersionedText
    <3>2. text' = [text EXCEPT ![cmd.target] = row]
      BY <2>2 DEF UpdateText
    <3> HIDE DEF row
    <3>3. text' \in [Utts -> VersionedText] /\ \A u \in Utts : text'[u] = IF u = cmd.target THEN row ELSE text[u]
      BY <1>1, <3>1, <3>2
    <3> QED BY <2>2, <3>3 DEF row
  <2> QED BY <2>1, <2>2
<1>4. /\ resource' \in VersionedText
      /\ resource' = IF cmd.kind = "resource" THEN [value |-> cmd.value, rev |-> resource.rev + 1] ELSE resource
  BY <1>1 DEF UpdateText, VersionedText
<1>5. /\ clusters' \in Seq(ClusterRow) /\ Len(clusters') = Len(clusters)
      /\ \A c \in DOMAIN clusters : /\ c \in DOMAIN clusters'
                /\ IF cmd.kind = "cluster" /\ c = cmd.target THEN clusters'[c].rev = clusters[c].rev + 1
                   ELSE clusters'[c] = clusters[c]
  <2>1. CASE cmd.kind # "cluster"
    BY <1>1, <2>1 DEF UpdateSpeaker
  <2>2. CASE cmd.kind = "cluster"
    <3> DEFINE row == [who |-> cmd.value, src |-> "manual", rev |-> clusters[cmd.target].rev + 1]
    <3>1. row \in ClusterRow /\ row.rev = clusters[cmd.target].rev + 1
      <4>1. clusters[cmd.target] \in ClusterRow
        BY <1>1, <2>2
      <4> QED BY <2>2, <4>1 DEF ClusterRow
    <3>2. clusters' = [clusters EXCEPT ![cmd.target] = row]
      BY <2>2 DEF UpdateSpeaker
    <3> HIDE DEF row
    <3> QED BY <1>1, <2>2, <3>1, <3>2
  <2> QED BY <2>1, <2>2
<1>6. /\ utt' \in [Utts -> SpeakerRow]
      /\ \A u \in Utts : IF u \in Touched(cmd)
                THEN /\ utt'[u].who = cmd.value /\ utt'[u].src = After(cmd).src /\ utt'[u].src \in Manual
                     /\ utt'[u].rev = utt[u].rev + 1 /\ utt'[u].cluster = utt[u].cluster
                ELSE utt'[u] = utt[u]
  <2> DEFINE src == After(cmd).src
             new(u) == [[[utt[u] EXCEPT !.who = cmd.value] EXCEPT !.src = src] EXCEPT !.rev = @ + 1]
             Fits(u) == /\ new(u).who = cmd.value /\ new(u).src = src /\ new(u).rev = utt[u].rev + 1
                        /\ new(u).cluster = utt[u].cluster /\ new(u) \in SpeakerRow
  <2>1. CASE cmd.kind \notin {"speaker", "cluster"}
    <3>1. utt' = [u \in Utts |-> utt[u]] /\ Touched(cmd) = {}
      BY <2>1 DEF UpdateSpeaker, Touched
    <3> QED BY <1>1, <3>1
  <2>2. CASE cmd.kind \in {"speaker", "cluster"}
    <3>1. src \in {"manual_single", "manual_cluster"} /\ src \in Manual
      BY <2>2 DEF After, Manual
    <3>2. utt' = [u \in Utts |-> IF u \in Touched(cmd) THEN new(u) ELSE utt[u]]
      BY <2>2 DEF UpdateSpeaker, Touched
    <3>3. \A u \in Utts : Fits(u)
      <4> HIDE DEF src
      <4> SUFFICES ASSUME NEW u \in Utts PROVE Fits(u)
        OBVIOUS
      <4> DEFINE a == utt[u]
                 b == [a EXCEPT !.who = cmd.value]
                 d == [b EXCEPT !.src = src]
                 e == [d EXCEPT !.rev = d.rev + 1]
      <4>1. a \in SpeakerRow /\ new(u) = e
        BY <1>1
      <4> HIDE DEF a
      <4>2. b \in SpeakerRow /\ b.who = cmd.value /\ b.rev = a.rev /\ b.cluster = a.cluster
        BY <2>2, <4>1 DEF SpeakerRow
      <4> HIDE DEF b
      <4>3. d \in SpeakerRow /\ d.who = cmd.value /\ d.src = src /\ d.rev = a.rev /\ d.cluster = a.cluster
        BY <3>1, <4>2 DEF SpeakerRow
      <4> HIDE DEF d
      <4>4. e \in SpeakerRow /\ e.who = cmd.value /\ e.src = src /\ e.rev = a.rev + 1 /\ e.cluster = a.cluster
        BY <4>3 DEF SpeakerRow
      <4> HIDE DEF e, new
      <4> QED BY <4>1, <4>4 DEF a
    <3> HIDE DEF new, src
    <3>4. utt' \in [Utts -> SpeakerRow] /\ \A u \in Utts : utt'[u] = IF u \in Touched(cmd) THEN new(u) ELSE utt[u]
      BY <1>1, <3>2, <3>3
    <3> QED BY <3>1, <3>3, <3>4 DEF src
  <2> QED BY <2>1, <2>2
<1> QED BY <1>3, <1>4, <1>5, <1>6

Refused(r) ==
    /\ \E a \in {"duplicate", "revision", "noop"} : Answer(r, a) /\ (a # "duplicate" => Recorded(r) = {})
    /\ UNCHANGED <<utt, clusters, text, resource, audit>>
GoesThrough(r) ==
    /\ Recorded(r) = {} /\ AsShown(commands[r])
    /\ UpdateText(commands[r]) /\ UpdateSpeaker(commands[r]) /\ CreateAudit(r, commands[r])
    /\ \E a \in Saving : Answer(r, a)

LEMMA SubmitParts ==
    ASSUME NEW r, Submit(r)
    PROVE  /\ commands[r].kind # "none" /\ commands[r].sent < 2 /\ meeting = "ended"
           /\ UNCHANGED <<meeting, observing, ev, tracks, pool, work, ready>>
           /\ Refused(r) \/ GoesThrough(r)
<1>1. /\ commands[r].kind # "none" /\ commands[r].sent < 2 /\ meeting = "ended"
      /\ UNCHANGED <<meeting, observing, ev, tracks, pool, work, ready>>
  BY DEF Submit
<1>2. CASE Recorded(r) # {}
  <2>1. Answer(r, "duplicate") /\ UNCHANGED <<utt, clusters, text, resource, audit>>
    BY <1>2 DEF Submit
  <2> QED BY <1>1, <2>1 DEF Refused
<1>3. CASE Recorded(r) = {} /\ ~ AsShown(commands[r])
  <2>1. Answer(r, "revision") /\ UNCHANGED <<utt, clusters, text, resource, audit>>
    BY <1>3 DEF Submit
  <2> QED BY <1>1, <1>3, <2>1 DEF Refused
<1>4. CASE Recorded(r) = {} /\ AsShown(commands[r]) /\ NoOp(commands[r])
  <2>1. Answer(r, "noop") /\ UNCHANGED <<utt, clusters, text, resource, audit>>
    BY <1>4 DEF Submit
  <2> QED BY <1>1, <1>4, <2>1 DEF Refused
<1>5. CASE Recorded(r) = {} /\ AsShown(commands[r]) /\ ~ NoOp(commands[r])
  <2>1. /\ UpdateText(commands[r]) /\ UpdateSpeaker(commands[r]) /\ CreateAudit(r, commands[r])
        /\ Answer(r, "saved") \/ Answer(r, "flush_failed")
    BY <1>5 DEF Submit
  <2> QED BY <1>1, <1>5, <2>1 DEF GoesThrough, Saving
<1> QED BY <1>2, <1>3, <1>4, <1>5

LEMMA NamesRow ==
    ASSUME HostFits, NEW r \in Requests
    PROVE  /\ commands[r] \in CommandRow
           /\ commands[r].kind = "text" => commands[r].target \in Utts
           /\ commands[r].kind \in {"text", "resource"} => commands[r].value \in Texts
           /\ commands[r].kind \in {"speaker", "cluster"} => commands[r].value \in Participants
           /\ commands[r].kind = "speaker" => commands[r].target \in Utts
           /\ commands[r].kind = "cluster" => commands[r].target \in DOMAIN clusters
  BY DEF HostFits, LogTypes, CommandsFit, TextFits, ResourceFits, SpeakerFits, ClusterFits

(* The workers have nothing to do with a submission: their invariant stays. *)
LEMMA SubmitWorkers ==
    ASSUME HostFits, WorkersFit, NEW r \in Requests, Submit(r)
    PROVE  WorkersFit'
<1>1. /\ commands[r].kind # "none"
      /\ UNCHANGED <<meeting, observing, ev, tracks, pool, work, ready>>
      /\ Refused(r) \/ GoesThrough(r)
  BY SubmitParts
<1>2. ControlFits /\ RowsFit /\ PoolOK /\ HandsFit
  BY DEF WorkersFit
<1>3. ControlFits' /\ PoolOK'
  BY <1>1, <1>2, ControlKept, PoolKept
<1>4. HandsFit'
  BY <1>1, <1>2 DEF HandsFit, WorkFits
<1>5. CASE Refused(r)
  <2>1. UNCHANGED speakerRows
    BY <1>1, <1>5 DEF Refused, speakerRows
  <2> QED BY <1>2, <1>3, <1>4, <2>1, RowsKept DEF WorkersFit
<1>6. CASE GoesThrough(r)
  <2> DEFINE cmd == commands[r]
  <2>1. /\ utt' \in [Utts -> SpeakerRow] /\ clusters' \in Seq(ClusterRow) /\ Len(clusters') = Len(clusters)
        /\ \A u \in Utts : utt'[u].src \in Manual \/ utt'[u] = utt[u]
    <3>1. LogTypes /\ UpdateText(cmd) /\ UpdateSpeaker(cmd)
      BY <1>6 DEF GoesThrough, HostFits
    <3> HIDE DEF cmd
    <3> QED BY <1>1, <3>1, NamesRow, Applied DEF cmd
  <2>2. ev' = ev /\ tracks' = tracks
    BY <1>1
  <2>3. RowTypes' /\ TracksFit' /\ EvidenceFits'
    BY <1>2, <2>1, <2>2 DEF RowsFit, RowTypes, TracksFit, EvidenceFits
  <2>4. NoneLeftBehind'
    <3>1. "unassigned" \notin Manual
      BY DEF Manual
    <3> QED BY <1>2, <2>1, <2>2, <3>1 DEF RowsFit, NoneLeftBehind
  <2> QED BY <1>3, <1>4, <2>3, <2>4 DEF WorkersFit, RowsFit
<1> QED BY <1>1, <1>5, <1>6

LEMMA RefusedStep ==
    ASSUME HostFits, WorkersFit, NEW r \in Requests, commands[r].sent < 2, Refused(r), UNCHANGED meeting, WorkersFit'
    PROVE  HostFits'
<1>1. UNCHANGED <<utt, clusters, text, resource, audit>> /\ meeting' = meeting
  BY DEF Refused
<1>2. PICK a \in {"duplicate", "revision", "noop"} : Answer(r, a) /\ (a # "duplicate" => Recorded(r) = {})
  BY DEF Refused
<1>3. commands \in [Requests -> CommandRow] /\ a \notin Saving
  BY DEF HostFits, LogTypes, Saving
<1>4. /\ commands' \in [Requests -> CommandRow]
      /\ \A q \in Requests : q # r => commands'[q] = commands[q]
      /\ SameCommand(r) /\ commands'[r].answer = a /\ (commands'[r].saved <=> commands[r].saved)
  BY <1>2, <1>3, Answered DEF SameCommand
<1>5. \A q \in Requests : SameCommand(q)
  BY <1>4 DEF SameCommand
<1>6. LogTypes'
  BY <1>1, <1>4 DEF HostFits, LogTypes
<1>7. RowTypes' /\ RevisionsTell
  <2>1. RowTypes
    BY DEF WorkersFit, RowsFit
  <2>2. RowTypes' /\ Effect
    BY <1>1, <2>1, EffectOfNone DEF WorkersFit, RowsFit
  <2>3. \A u \in Utts : text[u].rev \in Nat
    BY DEF HostFits, LogTypes, VersionedText
  <2>4. resource.rev \in Nat
    BY DEF HostFits, LogTypes, VersionedText
  <2> QED BY <1>1, <2>2, <2>3, <2>4 DEF RevisionsTell, Effect, UtteranceKept
<1>8. CommandsFit'
  BY <1>1, <1>5, <1>6, <1>7, CommandsKept
<1>9. AuditFits' /\ AuditChain'
  BY <1>1 DEF HostFits, AuditFits, AuditChain, Assigned
<1>10. SavedStaysSaved'
  <2> SUFFICES ASSUME NEW q \in Requests, commands'[q].saved
      PROVE Cardinality({i \in DOMAIN audit : audit[i].request = q}) = 1
            /\ commands'[q].answer \in {"saved", "flush_failed", "duplicate"}
    BY <1>1 DEF SavedStaysSaved
  <2>1. commands[q].saved
    BY <1>4
  <2>2. Cardinality({i \in DOMAIN audit : audit[i].request = q}) = 1
        /\ commands[q].answer \in {"saved", "flush_failed", "duplicate"}
    BY <2>1 DEF HostFits, SavedStaysSaved
  <2>3. CASE q # r
    BY <1>4, <2>2, <2>3
  <2>4. CASE q = r
    <3>1. Cardinality(Recorded(r)) = 1
      BY <2>2, <2>4 DEF Recorded
    <3>2. Recorded(r) # {}
      BY <3>1, FS_EmptySet
    <3> QED BY <1>2, <1>4, <2>2, <2>4, <3>2
  <2> QED BY <2>3, <2>4
<1> QED BY <1>6, <1>8, <1>9, <1>10 DEF HostFits

(* What a correction that goes through finds, as its items in the log say. *)
LEMMA ItemsAre ==
    ASSUME HostFits, WorkersFit, NEW r \in Requests, commands[r].kind # "none", GoesThrough(r)
    PROVE  LET cmd == commands[r]
               items == AuditItems(cmd)
           IN /\ cmd.kind = "text" => items = {<<cmd.target, text[cmd.target].value>>}
              /\ cmd.kind = "resource" => items = {<<None, resource.value>>}
              /\ cmd.kind \in {"speaker", "cluster"} => items = {<<u, Assigned(u)>> : u \in Touched(cmd)}
              /\ cmd.kind = "cluster" => Rows(cmd.target) = First(cmd.shown)
              /\ items \in ItemSets /\ items # {} /\ SingleValued(items)
              /\ Touched(cmd) \subseteq Utts
<1> DEFINE cmd == commands[r]
           items == AuditItems(cmd)
           t == cmd.target
<1>1. /\ cmd \in CommandRow /\ LogTypes /\ AsShown(cmd)
      /\ cmd.kind \in {"text", "speaker"} => t \in Utts
      /\ cmd.kind = "cluster" => t \in DOMAIN clusters
  BY NamesRow DEF HostFits, GoesThrough
<1>2. cmd.kind \in {"text", "speaker", "cluster", "resource"}
  BY <1>1, CorrectionAssumption DEF CommandRow
<1>3. ClusterFits(cmd)
  BY DEF HostFits, CommandsFit
<1>4. Rows(t) \subseteq Utts
  BY DEF Rows
<1> HIDE DEF cmd
<1>5. /\ Shown(cmd.kind, t) \in ItemSets
      /\ cmd.kind = "text" => Shown(cmd.kind, t) = {<<t, text[t].value>>}
      /\ cmd.kind = "speaker" => Shown(cmd.kind, t) = {<<t, Assigned(t)>>}
      /\ cmd.kind = "resource" => Shown(cmd.kind, t) = {<<None, resource.value>>}
      /\ cmd.kind = "cluster" => Shown(cmd.kind, t) = {<<u, Assigned(u)>> : u \in Rows(t)}
  BY <1>1, <1>2, ShownFits
<1>6. items = Shown(cmd.kind, t)
  BY <1>5 DEF AuditItems
<1>7. cmd.kind = "cluster" => Rows(t) = First(cmd.shown) /\ Rows(t) # {}
  <2> SUFFICES ASSUME cmd.kind = "cluster" PROVE Rows(t) = First(cmd.shown) /\ Rows(t) # {}
    OBVIOUS
  <2>1. /\ cmd.rev = clusters[t].rev /\ Cardinality(Rows(t)) = Cardinality(cmd.shown)
    BY <1>1 DEF AsShown, Revision
  <2>2. /\ Rows(t) \subseteq First(cmd.shown) /\ cmd.shown # {} /\ First(cmd.shown) \subseteq Utts
        /\ SingleValued(cmd.shown)
    BY <1>3, <2>1 DEF ClusterFits
  <2>3. Rows(t) = First(cmd.shown)
    BY <2>1, <2>2, SameRows
  <2> QED BY <2>2, <2>3 DEF First
<1>8. /\ cmd.kind = "speaker" => Touched(cmd) = {t}
      /\ cmd.kind = "cluster" => Touched(cmd) = Rows(t)
      /\ cmd.kind \notin {"speaker", "cluster"} => Touched(cmd) = {}
  BY DEF Touched, Scope
<1>9. Touched(cmd) \subseteq Utts
  BY <1>1, <1>4, <1>8
<1>10. cmd.kind \in {"speaker", "cluster"} => items = {<<u, Assigned(u)>> : u \in Touched(cmd)}
  BY <1>5, <1>6, <1>8
<1>11. items # {}
  <2>1. CASE cmd.kind = "cluster"
    <3>1. PICK u : u \in Touched(cmd)
      BY <1>7, <1>8, <2>1
    <3>2. <<u, Assigned(u)>> \in items
      BY <1>10, <2>1, <3>1
    <3> QED BY <3>2
  <2>2. CASE cmd.kind # "cluster"
    <3>1. \E x : Shown(cmd.kind, t) = {x}
      BY <1>2, <1>5, <2>2
    <3> QED BY <1>6, <3>1
  <2> QED BY <2>1, <2>2
<1>12. SingleValued(items)
  BY <1>2, <1>5, <1>6 DEF SingleValued
<1> HIDE DEF items
<1>13. /\ cmd.kind = "text" => items = {<<t, text[t].value>>}
       /\ cmd.kind = "resource" => items = {<<None, resource.value>>}
       /\ items \in ItemSets
  BY <1>5, <1>6
<1> QED BY <1>7, <1>9, <1>10, <1>11, <1>12, <1>13 DEF items, cmd

(* What goes through is one row more of the log, and of what is there, and *)
(* the log keeps to it.                                                    *)
LEMMA SavedStep ==
    ASSUME HostFits, WorkersFit, NEW r \in Requests, commands[r].kind # "none", commands[r].sent < 2,
           meeting = "ended", UNCHANGED meeting, GoesThrough(r), WorkersFit'
    PROVE  HostFits'
<1> DEFINE cmd == commands[r]
           items == AuditItems(cmd)
           row == [request |-> r, kind |-> cmd.kind, items |-> items, after |-> After(cmd)]
<1>1. /\ audit' = Append(audit, row) /\ Recorded(r) = {}
      /\ LogTypes /\ audit \in Seq(AuditRow) /\ commands \in [Requests -> CommandRow]
  BY DEF GoesThrough, CreateAudit, HostFits, LogTypes
<1>2. PICK a \in Saving : Answer(r, a)
  BY DEF GoesThrough
<1>3. /\ commands' \in [Requests -> CommandRow]
      /\ \A q \in Requests : q # r => commands'[q] = commands[q]
      /\ \A q \in Requests : SameCommand(q)
      /\ commands'[r].answer \in Saving
  <2>1. /\ commands' \in [Requests -> CommandRow]
        /\ \A q \in Requests : q # r => commands'[q] = commands[q]
        /\ SameCommand(r) /\ commands'[r].answer = a
    BY <1>1, <1>2, Answered DEF SameCommand, Saving
  <2> QED BY <2>1 DEF SameCommand
<1>4. /\ cmd \in CommandRow
      /\ cmd.kind = "text" => cmd.target \in Utts
      /\ cmd.kind \in {"text", "resource"} => cmd.value \in Texts
      /\ cmd.kind \in {"speaker", "cluster"} => cmd.value \in Participants
      /\ cmd.kind = "cluster" => cmd.target \in DOMAIN clusters
      /\ UpdateText(cmd) /\ UpdateSpeaker(cmd) /\ cmd.kind # "none"
  BY NamesRow DEF GoesThrough
<1>5. cmd.kind \in {"text", "speaker", "cluster", "resource"} /\ cmd.kind \in Kinds
  BY <1>4, CorrectionAssumption DEF CommandRow
<1>6. /\ cmd.kind = "text" => items = {<<cmd.target, text[cmd.target].value>>}
      /\ cmd.kind = "resource" => items = {<<None, resource.value>>}
      /\ cmd.kind \in {"speaker", "cluster"} => items = {<<u, Assigned(u)>> : u \in Touched(cmd)}
      /\ items \in ItemSets /\ items # {} /\ SingleValued(items)
      /\ Touched(cmd) \subseteq Utts
  BY ItemsAre
<1> HIDE DEF cmd, items
<1>7. /\ text' \in [Utts -> VersionedText] /\ resource' \in VersionedText
      /\ \A u \in Utts : text'[u] = IF cmd.kind = "text" /\ u = cmd.target
                                    THEN [value |-> cmd.value, rev |-> text[u].rev + 1] ELSE text[u]
      /\ resource' = IF cmd.kind = "resource" THEN [value |-> cmd.value, rev |-> resource.rev + 1] ELSE resource
      /\ \A u \in Utts : IF u \in Touched(cmd)
           THEN /\ utt'[u].who = cmd.value /\ utt'[u].src = After(cmd).src /\ utt'[u].src \in Manual
                /\ utt'[u].rev = utt[u].rev + 1 /\ utt'[u].cluster = utt[u].cluster
           ELSE utt'[u] = utt[u]
      /\ \A c \in DOMAIN clusters : /\ c \in DOMAIN clusters'
           /\ IF cmd.kind = "cluster" /\ c = cmd.target THEN clusters'[c].rev = clusters[c].rev + 1
              ELSE clusters'[c] = clusters[c]
  BY <1>1, <1>4, Applied
<1>8. /\ row.request = r /\ row.kind = cmd.kind /\ row.items = items /\ row.after = After(cmd)
  OBVIOUS
<1>9. /\ cmd.kind = "speaker" => After(cmd) = [who |-> cmd.value, src |-> "manual_single"]
      /\ cmd.kind = "cluster" => After(cmd) = [who |-> cmd.value, src |-> "manual_cluster"]
      /\ cmd.kind \in {"text", "resource"} => After(cmd) = cmd.value
      /\ cmd.kind \in {"speaker", "cluster"} => After(cmd).src \in Manual
      /\ After(cmd) \in Contents
  <2>1. cmd.kind = "speaker" => After(cmd) = [who |-> cmd.value, src |-> "manual_single"]
    BY DEF After
  <2>2. cmd.kind = "cluster" => After(cmd) = [who |-> cmd.value, src |-> "manual_cluster"]
    BY DEF After
  <2>3. cmd.kind \in {"text", "resource"} => After(cmd) = cmd.value
    BY DEF After
  <2>4. cmd.kind \in {"speaker", "cluster"} => After(cmd).src \in Manual /\ After(cmd) \in Contents
    BY <1>4, <2>1, <2>2 DEF Manual, Contents
  <2>5. cmd.kind \in {"text", "resource"} => After(cmd) \in Contents
    BY <1>4, <2>3 DEF Contents
  <2> QED BY <1>5, <2>1, <2>2, <2>3, <2>4, <2>5
<1>10. row \in AuditRow
  BY <1>5, <1>6, <1>9 DEF AuditRow
<1> HIDE DEF row
<1>11. LogTypes'
  BY <1>1, <1>3, <1>7, <1>10 DEF LogTypes
<1>12. Len(audit) \in Nat /\ DOMAIN audit = 1..Len(audit) /\ DOMAIN audit' = 1..(Len(audit) + 1)
       /\ audit'[Len(audit) + 1] = row /\ \A i \in 1..Len(audit) : audit'[i] = audit[i]
  <2>1. Len(audit) \in Nat /\ DOMAIN audit = 1..Len(audit)
    BY <1>1
  <2>2. audit' \in Seq(AuditRow) /\ Len(audit') = Len(audit) + 1
    BY <1>1, <1>10
  <2>3. DOMAIN audit' = 1..(Len(audit) + 1)
    BY <2>2
  <2>4. audit'[Len(audit) + 1] = row /\ \A i \in 1..Len(audit) : audit'[i] = audit[i]
    BY <1>1, <1>10, <2>1
  <2> QED BY <2>1, <2>3, <2>4
<1>13. CommandsFit'
  <2>1. RevisionsTell
    <3>1. \A u \in Utts : text[u].rev \in Nat /\ utt[u].rev \in Nat
      BY <1>1, ContentsOf
    <3>2. resource.rev \in Nat
      BY <1>1 DEF LogTypes, VersionedText
    <3>3. \A c \in DOMAIN clusters : clusters[c].rev \in Nat
      <4>1. \A c \in DOMAIN clusters : clusters[c] \in ClusterRow
        BY DEF WorkersFit, RowsFit, RowTypes
      <4> QED BY <4>1 DEF ClusterRow
    <3>4. \A u \in Utts : /\ text[u].rev <= text'[u].rev
                          /\ text[u].rev = text'[u].rev => text'[u] = text[u]
      BY <1>7, <3>1
    <3>5. \A u \in Utts : /\ utt[u].rev <= utt'[u].rev
                          /\ utt[u].rev = utt'[u].rev => utt'[u].who = utt[u].who
      BY <1>7, <3>1
    <3>6. resource.rev <= resource'.rev /\ (resource.rev = resource'.rev => resource' = resource)
      BY <1>7, <3>2
    <3>7. \A c \in DOMAIN clusters : ClusterKept(c)
      <4>1. \A u \in Utts : utt'[u].cluster = utt[u].cluster
        BY <1>7
      <4> QED BY <1>7, <3>3, <4>1 DEF ClusterKept
    <3> QED BY <3>4, <3>5, <3>6, <3>7 DEF RevisionsTell
  <2>2. RowTypes'
    BY DEF WorkersFit, RowsFit
  <2> QED BY <1>3, <1>11, <2>1, <2>2, CommandsKept
<1>14. AuditFits'
  <2>1. \A u \in Utts : utt[u].src \in Manual => utt'[u].src \in Manual
    BY <1>7
  <2>2. \A u \in Touched(cmd) : u \in Utts /\ utt'[u].src \in Manual
    BY <1>6, <1>7
  <2> SUFFICES ASSUME NEW i \in DOMAIN audit'
      PROVE /\ audit'[i].items # {} /\ SingleValued(audit'[i].items)
            /\ audit'[i].kind \in {"speaker", "cluster"} => \A x \in audit'[i].items :
                  x[1] \in Utts /\ audit'[i].after.src \in Manual /\ utt'[x[1]].src \in Manual
    BY DEF AuditFits, SingleValued
  <2>3. CASE i = Len(audit) + 1
    <3>1. audit'[i].items = items /\ audit'[i].kind = cmd.kind /\ audit'[i].after = After(cmd)
      BY <1>8, <1>12, <2>3
    <3>2. ASSUME cmd.kind \in {"speaker", "cluster"}
          PROVE  After(cmd).src \in Manual /\ \A x \in items : x[1] \in Utts /\ utt'[x[1]].src \in Manual
      <4>1. \A x \in items : x[1] \in Touched(cmd)
        BY <1>6, <3>2
      <4> QED BY <1>9, <2>2, <3>2, <4>1
    <3> QED BY <1>6, <3>1, <3>2
  <2>4. CASE i # Len(audit) + 1
    <3>1. i \in DOMAIN audit /\ audit'[i] = audit[i]
      BY <1>12, <2>4
    <3> QED BY <2>1, <3>1 DEF HostFits, AuditFits
  <2> QED BY <2>3, <2>4
<1>15. AuditChain'
  <2>1. ASSUME NEW u \in Utts
        PROVE  ChainOf(audit', "speaker", u, [who |-> utt'[u].who, src |-> utt'[u].src])
    <3> DEFINE then == [who |-> utt'[u].who, src |-> utt'[u].src]
    <3>1. About(row, "speaker", u) <=> u \in Touched(cmd)
      <4>1. CASE cmd.kind \in {"speaker", "cluster"}
        <5>1. (\E x \in items : x[1] = u) <=> u \in Touched(cmd)
          <6>1. ASSUME u \in Touched(cmd) PROVE \E x \in items : x[1] = u
            <7>1. <<u, Assigned(u)>> \in items /\ <<u, Assigned(u)>>[1] = u
              BY <1>6, <4>1, <6>1
            <7> QED BY <7>1
          <6>2. ASSUME NEW x \in items, x[1] = u PROVE u \in Touched(cmd)
            BY <1>6, <4>1, <6>2
          <6> QED BY <6>1, <6>2
        <5> QED BY <1>8, <4>1, <5>1 DEF About
      <4>2. CASE cmd.kind \notin {"speaker", "cluster"}
        BY <1>8, <4>2 DEF About, Touched
      <4> QED BY <4>1, <4>2
    <3>2. ASSUME u \in Touched(cmd) PROVE Before(row, u) = Assigned(u) /\ then = row.after
      <4>1. cmd.kind \in {"speaker", "cluster"}
        BY <3>2 DEF Touched
      <4>2. Before(row, u) = Assigned(u)
        <5> DEFINE x == <<u, Assigned(u)>>
        <5>1. x \in items /\ x[1] = u /\ x[2] = Assigned(u)
          BY <1>6, <3>2, <4>1
        <5> HIDE DEF x
        <5>2. Before(row, x[1]) = x[2]
          BY <1>6, <1>8, <5>1, BeforeIs
        <5> QED BY <5>1, <5>2
      <4>3. then = After(cmd)
        <5>1. utt'[u].who = cmd.value /\ utt'[u].src = After(cmd).src
          BY <1>7, <3>2
        <5> QED BY <1>9, <4>1, <5>1
      <4> QED BY <1>8, <4>2, <4>3
    <3>3. ASSUME u \notin Touched(cmd) PROVE then = Assigned(u)
      BY <1>7, <3>3 DEF Assigned
    <3>4. ChainOf(audit, "speaker", u, Assigned(u))
      BY DEF HostFits, AuditChain
    <3> HIDE DEF then
    <3>5. ChainOf(Append(audit, row), "speaker", u, then)
      BY <1>1, <3>1, <3>2, <3>3, <3>4, ChainAppend
    <3> QED BY <1>1, <3>5 DEF then
  <2>2. ASSUME NEW u \in Utts
        PROVE  ChainOf(audit', "text", u, text'[u].value)
    <3>1. About(row, "text", u) => cmd.kind = "text" /\ u = cmd.target
      BY <1>6, <1>8 DEF About
    <3>2. ASSUME cmd.kind = "text", u = cmd.target
          PROVE  /\ About(row, "text", u) /\ Before(row, u) = text[u].value /\ text'[u].value = row.after
      <4> DEFINE x == <<u, text[u].value>>
      <4>1. x \in items /\ x[1] = u /\ x[2] = text[u].value
        BY <1>6, <3>2
      <4> HIDE DEF x
      <4>2. Before(row, x[1]) = x[2]
        BY <1>6, <1>8, <4>1, BeforeIs
      <4>3. About(row, "text", u)
        BY <1>8, <3>2, <4>1 DEF About
      <4> QED BY <1>7, <1>8, <1>9, <3>2, <4>1, <4>2, <4>3
    <3>3. ASSUME ~ (cmd.kind = "text" /\ u = cmd.target) PROVE text'[u].value = text[u].value
      BY <1>7, <3>3
    <3>4. ChainOf(audit, "text", u, text[u].value)
      BY DEF HostFits, AuditChain
    <3>5. ChainOf(Append(audit, row), "text", u, text'[u].value)
      BY <1>1, <3>1, <3>2, <3>3, <3>4, ChainAppend
    <3> QED BY <1>1, <3>5
  <2>3. ChainOf(audit', "resource", None, resource'.value)
    <3>1. About(row, "resource", None) => cmd.kind = "resource"
      BY <1>8 DEF About
    <3>2. ASSUME cmd.kind = "resource"
          PROVE  /\ About(row, "resource", None) /\ Before(row, None) = resource.value /\ resource'.value = row.after
      <4> DEFINE x == <<None, resource.value>>
      <4>1. x \in items /\ x[1] = None /\ x[2] = resource.value
        BY <1>6, <3>2
      <4> HIDE DEF x
      <4>2. Before(row, x[1]) = x[2]
        BY <1>6, <1>8, <4>1, BeforeIs
      <4>3. About(row, "resource", None)
        BY <1>8, <3>2, <4>1 DEF About
      <4> QED BY <1>7, <1>8, <1>9, <3>2, <4>1, <4>2, <4>3
    <3>3. ASSUME cmd.kind # "resource" PROVE resource'.value = resource.value
      BY <1>7, <3>3
    <3>4. ChainOf(audit, "resource", None, resource.value)
      BY DEF HostFits, AuditChain
    <3>5. ChainOf(Append(audit, row), "resource", None, resource'.value)
      BY <1>1, <3>1, <3>2, <3>3, <3>4, ChainAppend
    <3> QED BY <1>1, <3>5
  <2> QED BY <2>1, <2>2, <2>3 DEF AuditChain, Assigned
<1>16. SavedStaysSaved'
  <2> SUFFICES ASSUME NEW q \in Requests, commands'[q].saved
      PROVE Cardinality({i \in DOMAIN audit' : audit'[i].request = q}) = 1
            /\ commands'[q].answer \in {"saved", "flush_failed", "duplicate"}
    BY DEF SavedStaysSaved
  <2> DEFINE entries == {i \in DOMAIN audit : audit[i].request = q}
             entries2 == {i \in DOMAIN audit' : audit'[i].request = q}
  <2>1. entries2 = entries \cup (IF row.request = q THEN {Len(audit) + 1} ELSE {})
    BY <1>1, EntriesAppend
  <2>2. CASE q # r
    <3>1. entries2 = entries /\ commands'[q] = commands[q]
      BY <1>3, <1>8, <2>1, <2>2
    <3>2. Cardinality(entries) = 1 /\ commands[q].answer \in {"saved", "flush_failed", "duplicate"}
      BY <3>1 DEF HostFits, SavedStaysSaved
    <3> HIDE DEF entries, entries2
    <3>3. Cardinality(entries2) = 1 /\ commands'[q].answer \in {"saved", "flush_failed", "duplicate"}
      BY <3>1, <3>2
    <3> QED BY <3>3 DEF entries2
  <2>3. CASE q = r
    <3>1. entries = {}
      BY <1>1, <2>3 DEF Recorded
    <3>2. entries2 = {Len(audit) + 1}
      BY <1>8, <2>1, <2>3, <3>1
    <3> HIDE DEF entries2
    <3>3. Cardinality(entries2) = 1
      BY <3>2, FS_Singleton
    <3>4. commands'[q].answer \in {"saved", "flush_failed", "duplicate"}
      BY <1>3, <2>3 DEF Saving
    <3> QED BY <3>3, <3>4 DEF entries2
  <2> QED BY <2>2, <2>3
<1> QED BY <1>11, <1>13, <1>14, <1>15, <1>16 DEF HostFits

-----------------------------------------------------------------------------
(* The theorems about the corrections.                                     *)

LEMMA StepKeeps == WorkersFit /\ HostFits /\ [Next]_vars => (WorkersFit /\ HostFits)'
<1> SUFFICES ASSUME WorkersFit, HostFits, [Next]_vars PROVE WorkersFit' /\ HostFits'
  OBVIOUS
<1>1. ASSUME SpeakerNext \/ HostDriven, UNCHANGED correctionVars PROVE WorkersFit' /\ HostFits'
  <2>1. WorkersFit' /\ Effect /\ (meeting = "ended" => meeting' = "ended")
    BY <1>1, WorkersStep, WorkersEffect
  <2>2. RowTypes'
    BY <2>1 DEF WorkersFit, RowsFit
  <2> QED BY <1>1, <2>1, <2>2, HostBesideWorkers
<1>2. ASSUME NEW r \in Requests, Open(r) PROVE WorkersFit' /\ HostFits'
  <2>1. UNCHANGED speakerVars
    BY <1>2 DEF Open
  <2> QED BY <1>2, <2>1, WorkersStutter, OpenStep
<1>3. ASSUME NEW r \in Requests, Submit(r) PROVE WorkersFit' /\ HostFits'
  <2>1. WorkersFit'
    BY <1>3, SubmitWorkers
  <2>2. /\ commands[r].kind # "none" /\ commands[r].sent < 2 /\ meeting = "ended" /\ UNCHANGED meeting
        /\ Refused(r) \/ GoesThrough(r)
    BY <1>3, SubmitParts
  <2> QED BY <2>1, <2>2, RefusedStep, SavedStep
<1>4. CASE UNCHANGED vars
  <2>1. UNCHANGED speakerVars /\ UNCHANGED correctionVars
    BY <1>4 DEF vars
  <2>2. WorkersFit' /\ RowTypes /\ RowTypes' /\ UNCHANGED <<utt, clusters>> /\ UNCHANGED meeting
    BY <2>1, WorkersStutter DEF WorkersFit, RowsFit, speakerVars, speakerRows
  <2> QED BY <2>1, <2>2, EffectOfNone, HostBesideWorkers
<1> QED BY <1>1, <1>2, <1>3, <1>4 DEF Next, Automatic, ByHost, Correcting

(* The decisions of the workers, what the host was shown, and the log of   *)
(* his corrections fit together, in whatever order they commit: a decision *)
(* reaches every row, a track is decided once, a command that was saved is *)
(* in the log once, and the log tells the whole story of each row that is  *)
(* assigned by hand (continuity_router.go, runner.go, correction/service.go). *)
THEOREM CorrectionHolds == Spec => []CorrectionInv
<1>1. Init => WorkersFit /\ HostFits
  BY WorkersStart, HostStart DEF Init
<1>2. WorkersFit /\ HostFits => CorrectionInv
  BY CorrectionParts
<1> QED BY <1>1, StepKeeps, <1>2, PTL DEF Spec

(* No worker takes back what was assigned by hand (projectMemberDecision,  *)
(* AssignTrackToCluster, inheritTrackProjection).                          *)
THEOREM ManualStays == Spec => ManualKept
<1> DEFINE Kept == \A u \in Utts : utt[u].src \in Manual /\ utt'[u] # utt[u] => audit' # audit
<1>1. ASSUME WorkersFit, HostFits, [Next]_vars PROVE [Kept]_vars
  <2>1. ASSUME SpeakerNext \/ HostDriven PROVE Kept
    BY <1>1, <2>1, WorkersEffect DEF Effect, UtteranceKept
  <2>2. ASSUME NEW r \in Requests, Open(r) PROVE Kept
    BY <2>2 DEF Open, speakerVars, speakerRows
  <2>3. ASSUME NEW r \in Requests, Submit(r) PROVE Kept
    <3>1. CASE Refused(r)
      BY <3>1 DEF Refused
    <3>2. CASE GoesThrough(r)
      <4>1. PICK row : audit' = Append(audit, row)
        BY <3>2 DEF GoesThrough, CreateAudit
      <4>2. audit \in Seq(AuditRow)
        BY <1>1 DEF HostFits, LogTypes
      <4>3. Len(audit') = Len(audit) + 1 /\ Len(audit) \in Nat
        BY <4>1, <4>2
      <4>4. audit' # audit
        BY <4>3
      <4> QED BY <4>4
    <3> QED BY <2>3, <3>1, <3>2, SubmitParts
  <2> QED BY <1>1, <2>1, <2>2, <2>3 DEF Next, Automatic, ByHost, Correcting
<1>2. Init => WorkersFit /\ HostFits
  BY WorkersStart, HostStart DEF Init
<1>3. WorkersFit /\ HostFits /\ [Next]_vars => [Kept]_vars
  BY <1>1
<1>4. Spec => [][Kept]_vars
  <2> HIDE DEF Kept
  <2> QED BY <1>2, StepKeeps, <1>3, PTL DEF Spec
<1> QED BY <1>4 DEF ManualKept

LEMMA SavedBySubmit ==
    ASSUME WorkersFit, HostFits, Next, NEW r \in Requests, ~ commands[r].saved, commands'[r].saved
    PROVE  commands[r].kind # "none" /\ GoesThrough(r)
<1>1. commands \in [Requests -> CommandRow]
  BY DEF HostFits, LogTypes
<1>2. ASSUME UNCHANGED correctionVars PROVE FALSE
  BY <1>2 DEF correctionVars
<1>3. ASSUME NEW q \in Requests, Open(q) PROVE FALSE
  <2>1. PICK kind \in Kinds : \E t \in Targeted(kind), v \in Values(kind) :
         commands' = [commands EXCEPT ![q] = [NoCommand EXCEPT !.kind = kind, !.target = t, !.value = v,
                                              !.rev = Revision(kind, t), !.shown = Shown(kind, t)]]
    BY <1>3, Zenon DEF Open
  <2>2. PICK t \in Targeted(kind), v \in Values(kind) :
         commands' = [commands EXCEPT ![q] = [NoCommand EXCEPT !.kind = kind, !.target = t, !.value = v,
                                              !.rev = Revision(kind, t), !.shown = Shown(kind, t)]]
    BY <2>1, Zenon
  <2> DEFINE new == [NoCommand EXCEPT !.kind = kind, !.target = t, !.value = v,
                                      !.rev = Revision(kind, t), !.shown = Shown(kind, t)]
  <2>3. new.saved = FALSE
    BY DEF NoCommand
  <2> HIDE DEF new
  <2>4. commands' = [commands EXCEPT ![q] = new]
    BY <2>2 DEF new
  <2> QED BY <1>1, <2>3, <2>4
<1>4. ASSUME NEW q \in Requests, Submit(q) PROVE commands[r].kind # "none" /\ GoesThrough(r)
  <2>1. commands[q].kind # "none" /\ commands[q].sent < 2 /\ (Refused(q) \/ GoesThrough(q))
    BY <1>4, SubmitParts
  <2>2. CASE Refused(q)
    <3>1. PICK a \in {"duplicate", "revision", "noop"} : Answer(q, a)
      BY <2>2 DEF Refused
    <3>2. /\ \A p \in Requests : p # q => commands'[p] = commands[p]
          /\ commands'[q].saved <=> commands[q].saved \/ a \in Saving
      BY <1>1, <2>1, <3>1, Answered
    <3>3. a \notin Saving
      BY DEF Saving
    <3> QED BY <3>2, <3>3
  <2>3. CASE GoesThrough(q)
    <3>1. PICK a \in Saving : Answer(q, a)
      BY <2>3 DEF GoesThrough
    <3>2. a \in {"saved", "flush_failed", "duplicate", "noop", "revision"}
      BY DEF Saving
    <3>3. \A p \in Requests : p # q => commands'[p] = commands[p]
      BY <1>1, <2>1, <3>1, <3>2, Answered
    <3>4. q = r
      BY <3>3
    <3> QED BY <2>1, <2>3, <3>4
  <2> QED BY <2>1, <2>2, <2>3
<1> QED BY <1>2, <1>3, <1>4 DEF Next, Automatic, ByHost, Correcting

(* A batch changes the utterances the host confirmed and no others: the    *)
(* revision of the cluster and the number of its rows tell whether the     *)
(* workers changed it meanwhile (CorrectCluster, AssignCluster).           *)
THEOREM BatchIsAsConfirmed == Spec => BatchAsConfirmed
<1> DEFINE As == \A r \in Requests : ~commands[r].saved /\ commands'[r].saved /\ commands[r].kind = "cluster"
                   => {u \in Utts : utt'[u] # utt[u]} = {x[1] : x \in commands[r].shown}
<1>1. ASSUME WorkersFit, HostFits, Next, NEW r \in Requests,
             ~commands[r].saved, commands'[r].saved, commands[r].kind = "cluster"
      PROVE  {u \in Utts : utt'[u] # utt[u]} = {x[1] : x \in commands[r].shown}
  <2> DEFINE cmd == commands[r]
  <2>1. cmd.kind # "none" /\ GoesThrough(r)
    BY <1>1, SavedBySubmit
  <2>2. Rows(cmd.target) = First(cmd.shown) /\ Touched(cmd) \subseteq Utts
    BY <1>1, <2>1, ItemsAre
  <2>3. LogTypes /\ UpdateText(cmd) /\ UpdateSpeaker(cmd)
    BY <1>1, <2>1 DEF HostFits, GoesThrough
  <2>4. \A u \in Utts : IF u \in Touched(cmd) THEN utt'[u].rev = utt[u].rev + 1 ELSE utt'[u] = utt[u]
    <3>1. /\ cmd \in CommandRow
          /\ cmd.kind = "text" => cmd.target \in Utts
          /\ cmd.kind \in {"text", "resource"} => cmd.value \in Texts
          /\ cmd.kind \in {"speaker", "cluster"} => cmd.value \in Participants
          /\ cmd.kind = "cluster" => cmd.target \in DOMAIN clusters
      BY <1>1, NamesRow
    <3> HIDE DEF cmd
    <3> QED BY <1>1, <2>1, <2>3, <3>1, Applied
  <2>5. \A u \in Utts : utt[u].rev \in Nat
    BY <1>1, <2>3, ContentsOf
  <2>6. {u \in Utts : utt'[u] # utt[u]} = Touched(cmd)
    BY <2>2, <2>4, <2>5
  <2>7. Touched(cmd) = Rows(cmd.target)
    BY <1>1 DEF Touched, Scope
  <2> QED BY <2>2, <2>6, <2>7 DEF First
<1>2. WorkersFit /\ HostFits /\ [Next]_vars => [As]_vars
  BY <1>1
<1>3. Init => WorkersFit /\ HostFits
  BY WorkersStart, HostStart DEF Init
<1>4. Spec => [][As]_vars
  <2> HIDE DEF As
  <2> QED BY <1>3, StepKeeps, <1>2, PTL DEF Spec
<1> QED BY <1>4 DEF BatchAsConfirmed

(* A text, a description or the member of one utterance is overwritten    *)
(* only as long as it is what the host was shown (buildTextChange,         *)
(* buildSpeakerChange, and the revision executeInTransaction compares).    *)
THEOREM EditsWhatIsThere == Spec => EditsWhatWasShown
<1> DEFINE Fine(r) ==
      IF commands[r].kind = "speaker" THEN \A x \in commands[r].shown : utt[x[1]].who = x[2].who
      ELSE commands[r].kind # "cluster" => Shown(commands[r].kind, commands[r].target) = commands[r].shown
<1> DEFINE Edits == \A r \in Requests : ~commands[r].saved /\ commands'[r].saved => Fine(r)
<1>1. ASSUME WorkersFit, HostFits, Next, NEW r \in Requests, ~commands[r].saved, commands'[r].saved
      PROVE  Fine(r)
  <2> DEFINE cmd == commands[r]
             t == cmd.target
  <2>1. cmd.kind # "none" /\ GoesThrough(r) /\ LogTypes
    BY <1>1, SavedBySubmit DEF HostFits
  <2>2. Revision(cmd.kind, t) = cmd.rev
    BY <2>1 DEF GoesThrough, AsShown
  <2>3. TextFits(cmd) /\ ResourceFits(cmd) /\ SpeakerFits(cmd)
    BY <1>1 DEF HostFits, CommandsFit
  <2>4. cmd.kind \in {"text", "speaker", "cluster", "resource"}
    BY <1>1, <2>1, NamesRow, CorrectionAssumption DEF CommandRow
  <2>5. /\ cmd.kind \in {"text", "speaker"} => t \in Utts
        /\ cmd.kind = "cluster" => t \in DOMAIN clusters
    BY <1>1, NamesRow
  <2> HIDE DEF cmd
  <2>6. /\ cmd.kind = "text" => Shown(cmd.kind, t) = {<<t, text[t].value>>}
        /\ cmd.kind = "resource" => Shown(cmd.kind, t) = {<<None, resource.value>>}
    BY <1>1, <2>1, <2>4, <2>5, ShownFits
  <2>7. cmd.kind = "text" => Shown(cmd.kind, t) = cmd.shown
    BY <2>2, <2>3, <2>6 DEF TextFits, Revision
  <2>8. cmd.kind = "resource" => Shown(cmd.kind, t) = cmd.shown
    BY <2>2, <2>3, <2>6 DEF ResourceFits, Revision
  <2>9. cmd.kind = "speaker" => \A x \in cmd.shown : utt[x[1]].who = x[2].who
    BY <2>2, <2>3 DEF SpeakerFits, Revision
  <2> QED BY <2>4, <2>7, <2>8, <2>9 DEF cmd
<1>2. WorkersFit /\ HostFits /\ [Next]_vars => [Edits]_vars
  <2> HIDE DEF Fine
  <2> QED BY <1>1
<1>3. Init => WorkersFit /\ HostFits
  BY WorkersStart, HostStart DEF Init
<1>4. Spec => [][Edits]_vars
  <2> HIDE DEF Edits
  <2> QED BY <1>3, StepKeeps, <1>2, PTL DEF Spec
<1> QED BY <1>4 DEF EditsWhatWasShown
=============================================================================
