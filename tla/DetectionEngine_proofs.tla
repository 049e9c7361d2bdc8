------------------------ MODULE DetectionEngine_proofs -------------------------
(***************************************************************************)
(* Proofs about deliveries, trainings, evaluations and findings, for any   *)
(* integrations, payloads, events, concurrent requests and bounds: what a  *)
(* delivery brought is held, the model saved last is the only active one,  *)
(* an event is flagged once for a model before it is marked as evaluated,  *)
(* and what an analyst wrote stays.                                        *)
(***************************************************************************)
EXTENDS DetectionEngine, FiniteSetTheorems, SequenceTheorems, WellFoundedInduction, TLAPS

-----------------------------------------------------------------------------
(* Numbers and finite sets.                                                *)

\* A set of numbers has a least element.
LEMMA LeastElement ==
  ASSUME NEW S \in SUBSET Nat, S # {}
  PROVE  \E n \in S : \A k \in S : n <= k
<1> DEFINE R == OpToRel(<, Nat)
<1>1. IsWellFoundedOn(R, Nat)
  BY NatLessThanWellFounded
<1>2. PICK n \in S : \A k \in S : ~(<<k, n>> \in R)
  <2> HIDE DEF R
  <2> QED
    BY <1>1, WFMin
<1>3. \A k \in S : ~(k < n)
  BY <1>2 DEF OpToRel
<1> QED
  BY <1>3

\* A finite set of numbers has a greatest element, which is its Max.
LEMMA MaxOfFinite ==
  ASSUME NEW S \in SUBSET Nat, S # {}, IsFiniteSet(S)
  PROVE  Max(S) \in S /\ \A k \in S : k <= Max(S)
<1> DEFINE Above(n) == {k \in S : k > n}
           C == {Cardinality(Above(n)) : n \in S}
<1>1. \A n \in S : IsFiniteSet(Above(n)) /\ Cardinality(Above(n)) \in Nat
  <2>1. ASSUME NEW n \in S
        PROVE  IsFiniteSet(Above(n)) /\ Cardinality(Above(n)) \in Nat
    BY FS_Subset, FS_CardinalityType
  <2> QED
    BY <2>1
<1>2. PICK c \in C : \A d \in C : c <= d
  <2>1. C \in SUBSET Nat /\ C # {}
    BY <1>1
  <2> HIDE DEF C
  <2> QED
    BY <2>1, LeastElement
<1>3. PICK n \in S : c = Cardinality(Above(n))
  BY <1>2
<1>4. \A k \in S : k <= n
  <2> SUFFICES ASSUME NEW m \in S, m > n PROVE FALSE
    OBVIOUS
  <2>1. Above(m) \in SUBSET Above(n) /\ m \in Above(n) /\ m \notin Above(m)
    <3>1. m \in Above(n) /\ m \notin Above(m)
      OBVIOUS
    <3>2. \A k \in S : n \in Nat /\ m \in Nat /\ k \in Nat
      OBVIOUS
    <3>3. \A k \in Above(m) : k \in Above(n)
      BY <3>2
    <3> QED
      BY <3>1, <3>3
  <2>2. Cardinality(Above(n)) <= Cardinality(Above(m))
    BY <1>2, <1>3
  <2>3. Cardinality(Above(m)) <= Cardinality(Above(n))
        /\ (Cardinality(Above(m)) = Cardinality(Above(n)) => Above(m) = Above(n))
    <3> HIDE DEF Above
    <3> QED
      BY <1>1, <2>1, FS_Subset
  <2>4. Cardinality(Above(m)) = Cardinality(Above(n))
    BY <1>1, <2>2, <2>3
  <2> QED
    BY <2>1, <2>3, <2>4
<1>5. \E x \in S : \A y \in S : x >= y
  BY <1>4
<1> QED
  BY <1>5 DEF Max

\* The greatest element is the Max.
LEMMA MaxIs ==
  ASSUME NEW S \in SUBSET Nat, NEW m \in S, \A k \in S : k <= m
  PROVE  Max(S) = m
<1>1. \E x \in S : \A y \in S : x >= y
  OBVIOUS
<1>2. Max(S) \in S /\ \A y \in S : Max(S) >= y
  BY <1>1 DEF Max
<1>3. Max(S) \in Nat /\ m \in Nat /\ Max(S) >= m /\ Max(S) <= m
  BY <1>2
<1> QED
  BY <1>3

\* What a sequence holds is finite.
LEMMA HeldIsFinite ==
  ASSUME NEW S, NEW s \in Seq(S)
  PROVE  IsFiniteSet(Range(s)) /\ Range(s) \subseteq S /\ Range(s) = {s[n] : n \in 1..Len(s)}
<1>1. s \in [1..Len(s) -> S] /\ Len(s) \in Nat
  BY LenProperties
<1>2. s \in Surjection(1..Len(s), Range(s))
  BY <1>1 DEF Surjection, Range
<1>3. IsFiniteSet(1..Len(s))
  BY <1>1, FS_Interval
<1>4. IsFiniteSet(Range(s))
  BY <1>2, <1>3, FS_Surjection
<1>5. Range(s) \subseteq S /\ Range(s) = {s[n] : n \in 1..Len(s)}
  BY <1>1 DEF Range
<1> QED
  BY <1>4, <1>5

\* The image of a finite set under a function is finite.
LEMMA ImageIsFinite ==
  ASSUME NEW S, IsFiniteSet(S), NEW f, S = DOMAIN f
  PROVE  IsFiniteSet({f[x] : x \in S})
<1> DEFINE T == {f[x] : x \in S}
           g == [x \in S |-> f[x]]
<1>1. g \in Surjection(S, T)
  BY DEF Surjection
<1> HIDE DEF T, g
<1>2. IsFiniteSet(T)
  BY <1>1, FS_Surjection
<1> QED
  BY <1>2 DEF T

-----------------------------------------------------------------------------
(* Scores.                                                                 *)

\* A share is at most 100 percent.
LEMMA PercentBounds ==
  ASSUME NEW n \in Int, NEW d \in Nat
  PROVE  Percent(n, d) \in 0..100
<1>1. CASE n <= 0 \/ n >= d
  BY <1>1 DEF Percent
<1>2. CASE n > 0 /\ n < d
  <2> DEFINE a == 200 * n + d
             b == 2 * d
             q == a \div b
  <2>1. a \in Nat /\ b \in Nat /\ b > 0 /\ a < 101 * b
    BY <1>2
  <2>2. q \in Int /\ b * q <= a /\ a < b * q + b
    <3> HIDE DEF a, b
    <3> QED
      BY <2>1
  <2>3. q >= 0
    <3> HIDE DEF a, b, q
    <3> SUFFICES ASSUME q <= 0 - 1 PROVE FALSE
      BY <2>2
    <3>1. b * q <= b * (0 - 1)
      BY <2>1, <2>2
    <3> QED
      BY <2>1, <2>2, <3>1
  <2>4. q <= 100
    <3> HIDE DEF a, b, q
    <3> SUFFICES ASSUME q >= 101 PROVE FALSE
      BY <2>2
    <3>1. b * q >= b * 101
      BY <2>1, <2>2
    <3> QED
      BY <2>1, <2>2, <3>1
  <2> QED
    BY <1>2, <2>2, <2>3, <2>4 DEF Percent
<1> QED
  BY <1>1, <1>2

\* The k-th smallest value of a function with k or more arguments exists.
LEMMA NthExists ==
  ASSUME NEW f, IsFiniteSet(DOMAIN f), \A x \in DOMAIN f : f[x] \in Nat,
         NEW k \in 1..Cardinality(DOMAIN f)
  PROVE  Nth(f, k) \in Nat
<1> DEFINE V == {f[x] : x \in DOMAIN f}
           Below(v) == {x \in DOMAIN f : f[x] < v}
           UpTo(v) == {x \in DOMAIN f : f[x] <= v}
           Enough == {v \in V : Cardinality(UpTo(v)) >= k}
<1>1. V \in SUBSET Nat /\ IsFiniteSet(V)
  BY ImageIsFinite
<1>2. Cardinality(DOMAIN f) \in Nat /\ DOMAIN f # {}
  BY FS_CardinalityType, FS_EmptySet
<1>3. Max(V) \in V /\ \A v \in V : v <= Max(V)
  <2>1. V # {}
    BY <1>2
  <2> HIDE DEF V
  <2> QED
    BY <1>1, <2>1, MaxOfFinite
<1>4. UpTo(Max(V)) = DOMAIN f
  BY <1>3
<1>5. Max(V) \in Enough
  <2>1. Cardinality(UpTo(Max(V))) >= k
    <3> HIDE DEF V, UpTo
    <3> QED
      BY <1>2, <1>4
  <2> HIDE DEF V, UpTo
  <2> QED
    BY <1>3, <2>1
<1>6. PICK v \in Enough : \A w \in Enough : v <= w
  <2>1. Enough \in SUBSET Nat /\ Enough # {}
    BY <1>1, <1>5
  <2> HIDE DEF Enough
  <2> QED
    BY <2>1, LeastElement
<1>7. v \in V /\ v \in Nat /\ Cardinality(UpTo(v)) >= k
  BY <1>1, <1>6
<1>8. Cardinality(Below(v)) < k
  <2> DEFINE W == {w \in V : w < v}
  <2>1. CASE W = {}
    <3>1. Below(v) = {}
      BY <2>1
    <3> QED
      BY <3>1, FS_EmptySet
  <2>2. CASE W # {}
    <3>1. W \in SUBSET Nat /\ W \in SUBSET V
      BY <1>1
    <3>2. IsFiniteSet(W)
      <4> HIDE DEF W, V
      <4> QED
        BY <1>1, <3>1, FS_Subset
    <3>3. Max(W) \in W /\ \A w \in W : w <= Max(W)
      <4> HIDE DEF W
      <4> QED
        BY <2>2, <3>1, <3>2, MaxOfFinite
    <3>4. Max(W) \in V /\ Max(W) < v /\ Max(W) \in Nat
      BY <3>1, <3>3
    <3>5. Below(v) = UpTo(Max(W))
      <4>1. \A x \in DOMAIN f : f[x] < v => f[x] <= Max(W)
        BY <3>3
      <4> HIDE DEF W
      <4> QED
        BY <1>7, <3>4, <4>1
    <3>6. Max(W) \notin Enough
      BY <1>6, <1>7, <3>4
    <3>7. ~(Cardinality(UpTo(Max(W))) >= k)
      BY <3>4, <3>6
    <3>8. Cardinality(UpTo(Max(W))) \in Nat
      <4> HIDE DEF W
      <4> QED
        BY FS_Subset, FS_CardinalityType
    <3> HIDE DEF W, Below, UpTo
    <3> QED
      BY <3>5, <3>7, <3>8
  <2> QED
    BY <2>1, <2>2
<1>9. \E w \in V : Cardinality(Below(w)) < k /\ Cardinality(UpTo(w)) >= k
  BY <1>7, <1>8
<1>10. Nth(f, k) \in V
  BY <1>9 DEF Nth
<1> QED
  BY <1>1, <1>10

\* A median of numbers is a number.
LEMMA MedianIsNumber ==
  ASSUME NEW f, IsFiniteSet(DOMAIN f), \A x \in DOMAIN f : f[x] \in Nat
  PROVE  TwiceMedian(f) \in Nat
<1> DEFINE n == Cardinality(DOMAIN f)
<1>1. n \in Nat
  BY FS_CardinalityType
<1> HIDE DEF n
<1>2. CASE n = 0
  BY <1>2 DEF TwiceMedian, n
<1>3. CASE n # 0 /\ n % 2 = 0
  <2>1. n \div 2 \in 1..n /\ (n \div 2) + 1 \in 1..n
    BY <1>1, <1>3
  <2>2. Nth(f, n \div 2) \in Nat /\ Nth(f, (n \div 2) + 1) \in Nat
    BY <2>1, NthExists DEF n
  <2> QED
    BY <1>3, <2>2 DEF TwiceMedian, n
<1>4. CASE n # 0 /\ n % 2 # 0
  <2>1. (n \div 2) + 1 \in 1..n
    BY <1>1, <1>4
  <2>2. Nth(f, (n \div 2) + 1) \in Nat
    BY <2>1, NthExists DEF n
  <2> QED
    BY <1>4, <2>2 DEF TwiceMedian, n
<1> QED
  BY <1>2, <1>3, <1>4

\* Counts of finite sets of events, and their medians, are numbers.
LEMMA VolumesAreNumbers ==
  ASSUME NEW events, IsFiniteSet(events)
  PROVE  /\ \A h \in {e.hour : e \in events} : HourlyCounts(events)[h] \in Nat
         /\ TwiceVolumeMedian(events) \in Nat
         /\ FourVolumeMads(events) \in Nat
<1> DEFINE volumes == HourlyCounts(events)
           H == {e.hour : e \in events}
<1>1. DOMAIN volumes = H /\ \A h \in H : volumes[h] = Cardinality({e \in events : e.hour = h})
  BY DEF HourlyCounts
<1>2. IsFiniteSet(H)
  <2> DEFINE g == [e \in events |-> e.hour]
  <2>1. g \in Surjection(events, H)
    BY DEF Surjection
  <2> HIDE DEF g, H
  <2> QED
    BY <2>1, FS_Surjection
<1>3. \A h \in H : volumes[h] \in Nat
  <2>1. ASSUME NEW h \in H PROVE volumes[h] \in Nat
    <3>1. Cardinality({e \in events : e.hour = h}) \in Nat
      BY FS_Subset, FS_CardinalityType
    <3> QED
      BY <1>1, <3>1
  <2> QED
    BY <2>1
<1>4. TwiceMedian(volumes) \in Nat
  <2> HIDE DEF volumes, H
  <2> QED
    BY <1>1, <1>2, <1>3, MedianIsNumber
<1>5. TwiceVolumeMedian(events) \in Nat
  BY <1>4 DEF TwiceVolumeMedian
<1> DEFINE D(h) == LET d == 2 * volumes[h] - TwiceMedian(volumes) IN IF d < 0 THEN -d ELSE d
           deviations == [h \in DOMAIN volumes |-> D(h)]
<1>6. \A h \in H : D(h) \in Nat
  <2> HIDE DEF volumes, H
  <2> QED
    BY <1>3, <1>4
<1>7. DOMAIN deviations = H /\ \A h \in H : deviations[h] \in Nat
  <2> HIDE DEF D, volumes, H
  <2> QED
    BY <1>1, <1>6
<1>8. TwiceMedian(deviations) \in Nat
  <2> HIDE DEF deviations, H
  <2> QED
    BY <1>2, <1>7, MedianIsNumber
<1>9. FourVolumeMads(events) = TwiceMedian(deviations)
  BY DEF FourVolumeMads
<1> QED
  BY <1>3, <1>5, <1>8, <1>9

\* The part of the score that the batch has no influence on.
Quiet(baseline, event) ==
  (35 * Rarity(baseline, event) + 25 * SeverityScore[event.severity]
     + 25 * Novelty(baseline, event) + 50) \div 100

\* A score is a percentage, and a large batch only adds to it.
LEMMA ScoreBounds ==
  ASSUME NEW baseline, IsFiniteSet(baseline), NEW batch, IsFiniteSet(batch), NEW event \in batch,
         event.severity \in Severities, IsFiniteSet(event.assets)
  PROVE  /\ AnomalyScore(baseline, batch, event) \in 0..100
         /\ Quiet(baseline, event) <= AnomalyScore(baseline, batch, event)
<1>1. Rarity(baseline, event) \in 0..100
  <2>1. /\ Cardinality({e \in baseline : e.eventType # event.eventType}) \in Int
        /\ Cardinality(baseline) \in Nat
    BY FS_Subset, FS_CardinalityType
  <2> QED
    BY <2>1, PercentBounds DEF Rarity
<1>2. Novelty(baseline, event) \in 0..100
  <2>1. /\ Cardinality(event.assets \ KnownAssets(baseline)) \in Int
        /\ Cardinality(event.assets) \in Nat
    BY FS_Subset, FS_CardinalityType
  <2> QED
    BY <2>1, PercentBounds DEF Novelty
<1>3. SeverityScore[event.severity] \in 0..100
  BY DEF SeverityScore, Severities
<1> DEFINE c == HourlyCounts(batch)[event.hour]
           m == 14826 * FourVolumeMads(baseline)
<1>4. VolumeDeviation(baseline, c) \in 0..100
  <2>1. c \in Nat /\ TwiceVolumeMedian(baseline) \in Nat /\ m \in Nat
    BY VolumesAreNumbers
  <2>2. Max({40000, m}) \in Nat
    <3>1. CASE m <= 40000
      BY <2>1, <3>1, MaxIs
    <3>2. CASE m > 40000
      BY <2>1, <3>2, MaxIs
    <3> QED
      BY <2>1, <3>1, <3>2
  <2>3. (2 * c - TwiceVolumeMedian(baseline)) * 5000 \in Int
    BY <2>1
  <2> QED
    BY <2>2, <2>3, PercentBounds DEF VolumeDeviation
<1> HIDE DEF c
<1>5. AnomalyScore(baseline, batch, event) =
        (35 * Rarity(baseline, event) + 25 * SeverityScore[event.severity]
           + 25 * Novelty(baseline, event) + 15 * VolumeDeviation(baseline, c) + 50) \div 100
  BY DEF AnomalyScore, c
<1>6. ASSUME NEW a \in 0..100, NEW b \in 0..100, NEW d \in 0..100, NEW v \in 0..100
      PROVE  /\ (35 * a + 25 * b + 25 * d + 15 * v + 50) \div 100 \in 0..100
             /\ (35 * a + 25 * b + 25 * d + 50) \div 100
                  <= (35 * a + 25 * b + 25 * d + 15 * v + 50) \div 100
  <2> DEFINE x == 35 * a + 25 * b + 25 * d + 50
             y == 35 * a + 25 * b + 25 * d + 15 * v + 50
  <2>1. x \in Nat /\ y \in Nat /\ x <= y /\ y <= 10050
    OBVIOUS
  <2> HIDE DEF x, y
  <2>2. /\ x \div 100 \in Int /\ 100 * (x \div 100) <= x /\ x < 100 * (x \div 100) + 100
        /\ y \div 100 \in Int /\ 100 * (y \div 100) <= y /\ y < 100 * (y \div 100) + 100
    BY <2>1
  <2>3. y \div 100 \in 0..100 /\ x \div 100 <= y \div 100
    BY <2>1, <2>2
  <2> QED
    BY <2>3 DEF x, y
<1>7. /\ AnomalyScore(baseline, batch, event) \in 0..100
      /\ (35 * Rarity(baseline, event) + 25 * SeverityScore[event.severity]
            + 25 * Novelty(baseline, event) + 50) \div 100 <= AnomalyScore(baseline, batch, event)
  <2>1. ASSUME NEW a \in 0..100, NEW b \in 0..100, NEW d \in 0..100, NEW v \in 0..100, NEW s,
               s = (35 * a + 25 * b + 25 * d + 15 * v + 50) \div 100
        PROVE  s \in 0..100 /\ (35 * a + 25 * b + 25 * d + 50) \div 100 <= s
    BY <1>6, <2>1
  <2> QED
    BY <1>1, <1>2, <1>3, <1>4, <1>5, <2>1
<1> QED
  BY <1>7 DEF Quiet

\* So is the part without the batch.
LEMMA QuietIsNumber ==
  ASSUME NEW baseline, IsFiniteSet(baseline), NEW event,
         event.severity \in Severities, IsFiniteSet(event.assets)
  PROVE  Quiet(baseline, event) \in Int
<1>1. /\ Cardinality({e \in baseline : e.eventType # event.eventType}) \in Int
      /\ Cardinality(baseline) \in Nat
      /\ Cardinality(event.assets \ KnownAssets(baseline)) \in Int
      /\ Cardinality(event.assets) \in Nat
  BY FS_Subset, FS_CardinalityType
<1>2. Rarity(baseline, event) \in 0..100 /\ Novelty(baseline, event) \in 0..100
  BY <1>1, PercentBounds DEF Rarity, Novelty
<1>3. SeverityScore[event.severity] \in 0..100
  BY DEF SeverityScore, Severities
<1>4. \A a, b, d \in 0..100 : (35 * a + 25 * b + 25 * d + 50) \div 100 \in Int
  <2>1. \A a, b, d \in 0..100 : 35 * a + 25 * b + 25 * d + 50 \in Nat
    OBVIOUS
  <2> QED
    BY <2>1
<1> QED
  BY <1>2, <1>3, <1>4 DEF Quiet

-----------------------------------------------------------------------------
(* The inductive invariant.                                                *)

IngestState == [pc : {"ingest"}, delivery : IntegrationDelivery]
EventsState == [pc : {"events"}, delivery : IntegrationDelivery, left : Seq(Events)]
TransactionState == [pc : {"transaction"}, delivery : IntegrationDelivery, at : Nat]
TrainState == [pc : {"train"}, trainedAt : Nat, findingThreshold : Thresholds]
VersionState ==
  [pc : {"version"}, trainedAt : Nat, findingThreshold : Thresholds, trainedOn : SUBSET Events]
SaveState == [pc : {"save"}, model : DetectionModel]
EvaluateState == [pc : {"evaluate"}, modelId : Nat]
CandidatesState == [pc : {"candidates"}, modelId : Nat, evaluated : SUBSET Events]
FindingsState == [pc : {"findings"}, modelId : Nat, batch : SUBSET Events, left : SUBSET Events]

\* In memory, the events of a delivery are held or still to be ingested.
DeliveryOK(q) ==
  \/ q \in IngestState
  \/ /\ q \in EventsState /\ dataStore = "memory"
     /\ Range(EventsIn[q.delivery.payload]) \subseteq Stored \cup Range(q.left)
  \/ q \in TransactionState /\ dataStore = "postgres" /\ q.at <= now

\* A training never chose a version above the next one.
TrainingOK(q) ==
  \/ q \in TrainState
  \/ q \in VersionState /\ q.trainedOn \subseteq Stored
  \/ /\ q \in SaveState /\ q.model.status = "active" /\ q.model.trainedOn \subseteq Stored
     /\ q.model.version <= Len(models) + 1

MustFlag(m, e) ==
  Quiet({EventOf[x] : x \in models[m].trainedOn}, EventOf[e]) >= models[m].findingThreshold

\* What must be flagged of a batch is flagged or left to be.
EvaluationOK(q) ==
  /\ q \in EvaluateState \cup CandidatesState \cup FindingsState
  /\ q.modelId \in DOMAIN models
  /\ q \in FindingsState =>
       /\ q.left \subseteq q.batch /\ q.batch \subseteq Stored
       /\ \A e \in q.batch \ q.left : MustFlag(q.modelId, e) => HasFinding(q.modelId, e)

RequestOK(q) == q = Idle \/ DeliveryOK(q) \/ TrainingOK(q) \/ EvaluationOK(q)

\* Of an indicator the newest version that was brought is held.
NewestInv ==
  \A x \in Indicators :
    /\ indicators[x] \in {0} \cup Versions(Brought, x)
    /\ \A v \in Versions(Brought, x) : v <= indicators[x]

DeliveriesInv ==
  /\ IngestTypeOK /\ IsFiniteSet(Stored)
  /\ OneDeliveryPerId /\ EventsAreHeld /\ NewestInv

ModelsInv ==
  /\ models \in Seq(DetectionModel)
  /\ \A m \in DOMAIN models :
       /\ models[m].version = m
       /\ models[m].status = "active" <=> m = Len(models)
       /\ models[m].trainedOn \subseteq Stored

\* The disposition of a finding is the one its last review gave.
ReviewedOK(f) == f.disposition = IF f.reviews = << >> THEN "new" ELSE Last(f.reviews)

FindingsInv ==
  /\ findings \in Seq(AnomalyFinding)
  /\ \A f \in DOMAIN findings : findings[f].model \in DOMAIN models /\ ReviewedOK(findings[f])
  /\ OneFinding

EvaluationsInv ==
  /\ evaluations \subseteq (DOMAIN models) \X Events
  /\ \A m \in DOMAIN models : \A e \in EvaluatedWith(m) : MustFlag(m, e) => HasFinding(m, e)

RequestsInv ==
  /\ request = [r \in Requests |-> request[r]]
  /\ \A r \in Requests : RequestOK(request[r])

IInv == DeliveriesInv /\ ModelsInv /\ FindingsInv /\ EvaluationsInv /\ RequestsInv

-----------------------------------------------------------------------------
(* What a step may do to requests.                                         *)

\* Which state a request is in tells what it holds.
LEMMA StateOf ==
  ASSUME NEW q, RequestOK(q)
  PROVE  /\ q.pc = "ingest" => q \in IngestState
         /\ q.pc = "events" => q \in EventsState /\ DeliveryOK(q)
         /\ q.pc = "transaction" => q \in TransactionState /\ DeliveryOK(q)
         /\ q.pc = "train" => q \in TrainState
         /\ q.pc = "version" => q \in VersionState /\ TrainingOK(q)
         /\ q.pc = "save" => q \in SaveState /\ TrainingOK(q)
         /\ q.pc = "evaluate" => q \in EvaluateState /\ EvaluationOK(q)
         /\ q.pc = "candidates" => q \in CandidatesState /\ EvaluationOK(q)
         /\ q.pc = "findings" => q \in FindingsState /\ EvaluationOK(q)
<1>1. q = Idle => q.pc = "idle"
  BY DEF Idle
<1>2. DeliveryOK(q) => \/ q.pc = "ingest" /\ q \in IngestState
                       \/ q.pc = "events" /\ q \in EventsState
                       \/ q.pc = "transaction" /\ q \in TransactionState
  BY DEF DeliveryOK, IngestState, EventsState, TransactionState
<1>3. TrainingOK(q) => \/ q.pc = "train" /\ q \in TrainState
                       \/ q.pc = "version" /\ q \in VersionState
                       \/ q.pc = "save" /\ q \in SaveState
  BY DEF TrainingOK, TrainState, VersionState, SaveState
<1>4. EvaluationOK(q) => \/ q.pc = "evaluate" /\ q \in EvaluateState
                         \/ q.pc = "candidates" /\ q \in CandidatesState
                         \/ q.pc = "findings" /\ q \in FindingsState
  BY DEF EvaluationOK, EvaluateState, CandidatesState, FindingsState
<1> QED
  BY <1>1, <1>2, <1>3, <1>4 DEF RequestOK

\* Time, the events held, the models and the findings only grow.
Grows ==
  /\ dataStore' = dataStore /\ now \in Nat /\ now' \in Nat /\ now <= now'
  /\ Stored \subseteq Stored'
  /\ Len(models) \in Nat /\ Len(models') \in Nat /\ Len(models) <= Len(models')
  /\ \A m \in DOMAIN models :
       /\ m \in DOMAIN models'
       /\ models'[m].trainedOn = models[m].trainedOn
       /\ models'[m].findingThreshold = models[m].findingThreshold
  /\ \A m, e : HasFinding(m, e) => HasFinding(m, e)'

\* What a request may hold it may hold later.
LEMMA RequestsStayOK ==
  ASSUME Grows
  PROVE  \A q : RequestOK(q) => RequestOK(q)'
<1> SUFFICES ASSUME NEW q, RequestOK(q) PROVE RequestOK(q)'
  OBVIOUS
<1>1. CASE DeliveryOK(q)
  <2>1. q \in TransactionState => q.at \in Nat
    BY DEF TransactionState
  <2> QED
    BY <1>1, <2>1 DEF DeliveryOK, Grows, RequestOK
<1>2. CASE TrainingOK(q)
  <2>1. q \in SaveState => q.model.version \in Nat
    BY DEF SaveState, DetectionModel
  <2> QED
    BY <1>2, <2>1 DEF TrainingOK, Grows, RequestOK
<1>3. CASE EvaluationOK(q)
  <2>1. \A e : MustFlag(q.modelId, e)' <=> MustFlag(q.modelId, e)
    BY <1>3 DEF MustFlag, Grows, EvaluationOK
  <2> QED
    BY <1>3, <2>1 DEF EvaluationOK, Grows, RequestOK
<1> QED
  BY <1>1, <1>2, <1>3 DEF RequestOK

\* A request moves on; the others only see what has grown.
LEMMA GotoOK ==
  ASSUME RequestsInv, Grows, NEW r \in Requests, NEW q, Goto(r, q), RequestOK(q)'
  PROVE  RequestsInv'
<1>1. request' = [request EXCEPT ![r] = q]
  BY DEF Goto
<1>2. /\ request' = [b \in Requests |-> request'[b]] /\ request'[r] = q
      /\ \A b \in Requests \ {r} : request'[b] = request[b]
  BY <1>1 DEF RequestsInv
<1>3. \A x : RequestOK(x) => RequestOK(x)'
  BY RequestsStayOK
<1>4. ASSUME NEW b \in Requests PROVE RequestOK(request[b])'
  <2>1. CASE b = r
    BY <1>2, <2>1
  <2>2. CASE b # r
    BY <1>2, <1>3, <2>2 DEF RequestsInv
  <2> QED
    BY <2>1, <2>2
<1> QED
  BY <1>2, <1>4 DEF RequestsInv

\* So do requests that do not move.
LEMMA RequestsKept ==
  ASSUME RequestsInv, Grows, request' = request
  PROVE  RequestsInv'
BY RequestsStayOK DEF RequestsInv

\* What was evaluated stays flagged.
LEMMA EvaluationsKept ==
  ASSUME EvaluationsInv, Grows, evaluations' = evaluations
  PROVE  EvaluationsInv'
<1>1. (evaluations \subseteq (DOMAIN models) \X Events)'
  BY DEF EvaluationsInv, Grows
<1>2. ASSUME NEW m \in DOMAIN models', NEW e \in EvaluatedWith(m)', MustFlag(m, e)'
      PROVE  HasFinding(m, e)'
  <2>1. m \in DOMAIN models /\ e \in EvaluatedWith(m)
    BY <1>2 DEF EvaluationsInv, EvaluatedWith
  <2>2. MustFlag(m, e)
    BY <1>2, <2>1 DEF MustFlag, Grows
  <2> QED
    BY <2>1, <2>2 DEF EvaluationsInv, Grows
<1> QED
  BY <1>1, <1>2 DEF EvaluationsInv

-----------------------------------------------------------------------------
(* Deliveries.                                                             *)

\* An appended element joins what a sequence holds.
LEMMA RangeOfAppend ==
  ASSUME NEW S, NEW s \in Seq(S), NEW x \in S
  PROVE  /\ Append(s, x) \in Seq(S) /\ Range(Append(s, x)) = Range(s) \cup {x}
         /\ Len(Append(s, x)) = Len(s) + 1 /\ Len(s) \in Nat
         /\ DOMAIN Append(s, x) = 1..(Len(s) + 1) /\ DOMAIN s = 1..Len(s)
         /\ \A n \in 1..Len(s) : Append(s, x)[n] = s[n] /\ s[n] \in S
         /\ Append(s, x)[Len(s) + 1] = x
<1>1. /\ Append(s, x) \in Seq(S) /\ Len(Append(s, x)) = Len(s) + 1 /\ Len(s) \in Nat
      /\ \A n \in 1..Len(s) : Append(s, x)[n] = s[n]
      /\ Append(s, x)[Len(s) + 1] = x
  BY AppendProperties, LenProperties
<1>2. DOMAIN Append(s, x) = 1..(Len(s) + 1) /\ DOMAIN s = 1..Len(s)
  BY <1>1, LenProperties
<1>3. \A n \in 1..Len(s) : s[n] \in S
  BY ElementOfSeq
<1>4. Range(Append(s, x)) = Range(s) \cup {x}
  <2>1. 1..(Len(s) + 1) = (1..Len(s)) \cup {Len(s) + 1}
    BY <1>1
  <2>2. Range(Append(s, x)) \subseteq Range(s) \cup {x}
    BY <1>1, <1>2, <2>1 DEF Range
  <2>3. Range(s) \cup {x} \subseteq Range(Append(s, x))
    BY <1>1, <1>2, <2>1 DEF Range
  <2> QED
    BY <2>2, <2>3
<1> QED
  BY <1>1, <1>2, <1>3, <1>4

\* Events that arrive join those held.
LEMMA EventsArrive ==
  ASSUME DeliveriesInv, NEW events \in SUBSET Events, IsFiniteSet(events), NEW at \in 0..now,
         ingestedAt' = WithEvents(events, at)
  PROVE  /\ ingestedAt' \in [Events -> {Never} \cup 0..now]
         /\ Stored' = Stored \cup events /\ IsFiniteSet(Stored')
<1>1. ingestedAt \in [Events -> {Never} \cup 0..now] /\ IsFiniteSet(Stored) /\ at # Never
  BY DEF DeliveriesInv, IngestTypeOK, Never
<1>2. \A e \in Events : ingestedAt'[e] = IF ingestedAt[e] = Never /\ e \in events THEN at ELSE ingestedAt[e]
  BY DEF WithEvents
<1>3. ingestedAt' \in [Events -> {Never} \cup 0..now]
  BY <1>1 DEF WithEvents
<1>4. Stored' = Stored \cup events
  BY <1>1, <1>2 DEF Stored
<1> QED
  BY <1>1, <1>3, <1>4, FS_Union

\* What a payload holds.
LEMMA PayloadTypes ==
  ASSUME NEW p \in Payloads
  PROVE  /\ EventsIn[p] \in Seq(Events) /\ Range(EventsIn[p]) \in SUBSET Events
         /\ IsFiniteSet(Range(EventsIn[p]))
         /\ Range(IndicatorsIn[p]) \in SUBSET ThreatIndicator /\ IsFiniteSet(Range(IndicatorsIn[p]))
<1>1. EventsIn[p] \in Seq(Events) /\ IndicatorsIn[p] \in Seq(ThreatIndicator)
  BY IngestAssumption
<1> QED
  BY <1>1, HeldIsFinite

\* The newest of the version that is held and those that are brought.
LEMMA NewestOf ==
  ASSUME NEW h \in Nat, NEW B \in SUBSET ThreatIndicator, IsFiniteSet(B), NEW x
  PROVE  LET M == {h} \cup Versions(B, x)
         IN  Max(M) \in M /\ M \subseteq Nat /\ \A v \in M : v <= Max(M)
<1> DEFINE Y == {y \in B : y[1] = x}
           g == [y \in Y |-> y[2]]
           M == {h} \cup Versions(B, x)
<1>1. IsFiniteSet(Y) /\ Y \subseteq ThreatIndicator
  BY FS_Subset
<1>2. Versions(B, x) = {g[y] : y \in Y} /\ DOMAIN g = Y
  BY DEF Versions
<1>3. Versions(B, x) \subseteq Nat
  BY DEF Versions, ThreatIndicator
<1>4. IsFiniteSet({g[y] : y \in Y})
  <2> HIDE DEF g, Y
  <2> QED
    BY <1>1, <1>2, ImageIsFinite
<1>5. IsFiniteSet({h} \cup Versions(B, x))
  <2> HIDE DEF g, Y
  <2>1. IsFiniteSet(Versions(B, x))
    BY <1>2, <1>4
  <2> QED
    BY <2>1, FS_Singleton, FS_Union
<1>6. M \in SUBSET Nat /\ M # {}
  BY <1>3
<1>7. IsFiniteSet(M)
  BY <1>5
<1> HIDE DEF M
<1>8. Max(M) \in M /\ \A v \in M : v <= Max(M)
  BY <1>6, <1>7, MaxOfFinite
<1> QED
  BY <1>6, <1>8 DEF M

\* A delivery is recorded with what it brings.
LEMMA RecordInv ==
  ASSUME DeliveriesInv, NEW d \in IntegrationDelivery, Record(d),
         Stored \subseteq Stored', Range(EventsIn[d.payload]) \subseteq Stored',
         dataStore' = dataStore, dataStore = "postgres" => Prior(d) = {}
  PROVE  /\ deliveries' \in Seq(IntegrationDelivery) /\ indicators' \in [Indicators -> Nat]
         /\ OneDeliveryPerId' /\ EventsAreHeld' /\ NewestInv'
<1> DEFINE B == Range(IndicatorsIn[d.payload])
           n == Len(deliveries)
<1>1. deliveries \in Seq(IntegrationDelivery) /\ indicators \in [Indicators -> Nat]
  BY DEF DeliveriesInv, IngestTypeOK
<1>2. deliveries' = Append(deliveries, d) /\ indicators' = Merge(IndicatorsIn[d.payload])
  BY DEF Record
<1>3. /\ deliveries' \in Seq(IntegrationDelivery) /\ Range(deliveries') = Range(deliveries) \cup {d}
      /\ n \in Nat /\ DOMAIN deliveries = 1..n /\ DOMAIN deliveries' = 1..(n + 1)
      /\ \A k \in 1..n : deliveries'[k] = deliveries[k] /\ deliveries'[n + 1] = d
  BY <1>1, <1>2, RangeOfAppend
<1>4. d.payload \in Payloads
  BY DEF IntegrationDelivery
<1>5. B \in SUBSET ThreatIndicator /\ IsFiniteSet(B)
  BY <1>4, PayloadTypes
<1> HIDE DEF B, n
<1>6. \A x \in Indicators :
        /\ indicators'[x] \in {indicators[x]} \cup Versions(B, x) /\ indicators'[x] \in Nat
        /\ \A v \in {indicators[x]} \cup Versions(B, x) : v \in Nat /\ v <= indicators'[x]
  <2>1. ASSUME NEW x \in Indicators
        PROVE  /\ indicators'[x] \in {indicators[x]} \cup Versions(B, x) /\ indicators'[x] \in Nat
               /\ \A v \in {indicators[x]} \cup Versions(B, x) : v \in Nat /\ v <= indicators'[x]
    <3>1. indicators'[x] = Max({indicators[x]} \cup Versions(B, x))
      BY <1>2 DEF Merge, B
    <3>2. indicators[x] \in Nat
      BY <1>1
    <3> QED
      BY <1>5, <3>1, <3>2, NewestOf
  <2> QED
    BY <2>1
<1>7. indicators' \in [Indicators -> Nat]
  <2>1. indicators' = [x \in Indicators |-> indicators'[x]]
    BY <1>2 DEF Merge
  <2> QED
    BY <1>6, <2>1
<1>8. Brought' = Brought \cup B
  BY <1>3 DEF Brought, B
<1>9. \A x : Versions(Brought', x) = Versions(Brought, x) \cup Versions(B, x)
  BY <1>8 DEF Versions
<1>10. NewestInv'
  <2>1. \A x \in Indicators : \A v \in Versions(Brought, x) : v \in Nat /\ v <= indicators[x]
    <3>1. Brought \subseteq ThreatIndicator
      <4>0. Range(deliveries) \subseteq IntegrationDelivery
        BY <1>1, HeldIsFinite
      <4>1. \A c \in Range(deliveries) : c.payload \in Payloads
        BY <4>0 DEF IntegrationDelivery
      <4> QED
        BY <4>1, PayloadTypes DEF Brought
    <3>2. \A x : Versions(Brought, x) \subseteq Nat
      BY <3>1 DEF Versions, ThreatIndicator
    <3> QED
      BY <3>2 DEF DeliveriesInv, NewestInv
  <2>2. ASSUME NEW x \in Indicators
        PROVE  /\ indicators'[x] \in {0} \cup Versions(Brought', x)
               /\ \A v \in Versions(Brought', x) : v <= indicators'[x]
    <3>1. indicators'[x] \in {0} \cup Versions(Brought', x)
      BY <1>6, <1>9 DEF DeliveriesInv, NewestInv
    <3>2. indicators[x] \in Nat /\ indicators'[x] \in Nat /\ indicators[x] <= indicators'[x]
      BY <1>1, <1>6
    <3>3. \A v \in Versions(Brought, x) : v <= indicators'[x]
      BY <2>1, <3>2
    <3> QED
      BY <1>6, <1>9, <3>1, <3>3
  <2> QED
    BY <2>2 DEF NewestInv
<1>11. EventsAreHeld'
  BY <1>3 DEF DeliveriesInv, EventsAreHeld
<1>12. OneDeliveryPerId'
  <2> SUFFICES ASSUME dataStore = "postgres", NEW j \in 1..(n + 1), NEW k \in 1..(n + 1),
                      deliveries'[j].integration = deliveries'[k].integration,
                      deliveries'[j].externalDeliveryId = deliveries'[k].externalDeliveryId
               PROVE  j = k
    BY <1>3 DEF OneDeliveryPerId, IsInjective
  <2>1. \A i, l \in 1..n : /\ deliveries[i].integration = deliveries[l].integration
                           /\ deliveries[i].externalDeliveryId = deliveries[l].externalDeliveryId
                           => i = l
    BY <1>3 DEF DeliveriesInv, OneDeliveryPerId, IsInjective
  <2>2. \A i \in 1..n : ~(/\ deliveries[i].integration = d.integration
                          /\ deliveries[i].externalDeliveryId = d.externalDeliveryId)
    BY <1>3 DEF Prior, Range
  <2> QED
    BY <1>3, <2>1, <2>2
<1> QED
  BY <1>3, <1>7, <1>10, <1>11, <1>12

\* Models, findings and evaluations do not notice deliveries.
LEMMA DetectionApart ==
  ASSUME IInv, UNCHANGED detectionVars, dataStore' = dataStore, now' \in Nat, now <= now',
         Stored \subseteq Stored'
  PROVE  Grows /\ ModelsInv' /\ FindingsInv' /\ EvaluationsInv'
<1> USE DEF detectionVars, IInv
<1>1. now \in Nat
  BY DEF DeliveriesInv, IngestTypeOK
<1>2. Len(models) \in Nat
  BY LenProperties DEF ModelsInv
<1>3. \A m, e : HasFinding(m, e) => HasFinding(m, e)'
  BY DEF HasFinding
<1>4. Grows
  BY <1>1, <1>2, <1>3 DEF Grows
<1>5. ModelsInv'
  BY DEF ModelsInv
<1>6. FindingsInv'
  BY DEF FindingsInv, OneFinding
<1> QED
  BY <1>4, <1>5, <1>6, EvaluationsKept

\* Integrations are administered; only their own state changes.
LEMMA AdministrationInv ==
  ASSUME IInv, UNCHANGED detectionVars, NEW i \in Integrations,
         \/ CreateIntegration(i) \/ RotateIntegrationSecret(i)
         \/ \E status \in {"active", "disabled"} : UpdateIntegrationStatus(i, status)
  PROVE  IInv'
<1> USE DEF IInv
<1>1. UNCHANGED <<dataStore, now, deliveries, ingestedAt, indicators, request>>
  BY DEF CreateIntegration, RotateIntegrationSecret, UpdateIntegrationStatus, Administer
<1>2. /\ integration \in [Integrations -> Integration \cup {NoIntegration}]
      /\ administration \in 0..MaxAdministration /\ MaxAdministration \in Nat
  BY IngestBoundsAssumption DEF DeliveriesInv, IngestTypeOK
<1>3. /\ integration' \in [Integrations -> Integration \cup {NoIntegration}]
      /\ administration' \in 0..MaxAdministration
  <2>1. CASE CreateIntegration(i)
    <3>1. [status |-> "active", secretVersion |-> 1] \in Integration
      BY DEF Integration
    <3> QED
      BY <1>2, <2>1, <3>1 DEF CreateIntegration
  <2>2. ASSUME NEW v \in Integration, Administer(i, v)
        PROVE  /\ integration' \in [Integrations -> Integration \cup {NoIntegration}]
               /\ administration' \in 0..MaxAdministration
    BY <1>2, <2>2 DEF Administer
  <2>3. CASE RotateIntegrationSecret(i)
    <3>1. integration[i] \in Integration
      BY <1>2, <2>3 DEF RotateIntegrationSecret, Administer
    <3>2. [integration[i] EXCEPT !.secretVersion = @ + 1] \in Integration
      BY <3>1 DEF Integration
    <3> QED
      BY <2>2, <2>3, <3>2 DEF RotateIntegrationSecret
  <2>4. ASSUME NEW status \in {"active", "disabled"}, UpdateIntegrationStatus(i, status)
        PROVE  /\ integration' \in [Integrations -> Integration \cup {NoIntegration}]
               /\ administration' \in 0..MaxAdministration
    <3>1. integration[i] \in Integration
      BY <1>2, <2>4 DEF UpdateIntegrationStatus, Administer
    <3>2. [integration[i] EXCEPT !.status = status] \in Integration
      BY <3>1 DEF Integration
    <3> QED
      BY <2>2, <2>4, <3>2 DEF UpdateIntegrationStatus
  <2> QED
    BY <2>1, <2>3, <2>4
<1>4. DeliveriesInv'
  <2>1. Stored' = Stored /\ Brought' = Brought
    BY <1>1 DEF Stored, Brought
  <2> QED
    BY <1>1, <1>3, <2>1
       DEF DeliveriesInv, IngestTypeOK, OneDeliveryPerId, EventsAreHeld, NewestInv
<1>5. Grows /\ ModelsInv' /\ FindingsInv' /\ EvaluationsInv'
  <2>1. Stored' = Stored /\ now \in Nat
    BY <1>1 DEF Stored, DeliveriesInv, IngestTypeOK
  <2> QED
    BY <1>1, <2>1, DetectionApart
<1> QED
  BY <1>1, <1>4, <1>5, RequestsKept

\* Requests and the clock move; nothing is recorded.
LEMMA DeliveriesKept ==
  ASSUME DeliveriesInv, now' \in 0..MaxTime, now <= now',
         UNCHANGED <<dataStore, integration, deliveries, ingestedAt, indicators, administration>>
  PROVE  DeliveriesInv' /\ Stored' = Stored
<1>1. Stored' = Stored /\ Brought' = Brought
  BY DEF Stored, Brought
<1>2. now \in 0..MaxTime /\ ingestedAt \in [Events -> {Never} \cup 0..now] /\ MaxTime \in Nat
  BY IngestBoundsAssumption DEF DeliveriesInv, IngestTypeOK
<1>3. 0..now \subseteq 0..now'
  BY <1>2
<1>4. ingestedAt' \in [Events -> {Never} \cup 0..now']
  BY <1>2, <1>3
<1>5. IngestTypeOK'
  BY <1>4 DEF DeliveriesInv, IngestTypeOK
<1> QED
  BY <1>1, <1>5 DEF DeliveriesInv, OneDeliveryPerId, EventsAreHeld, NewestInv

\* A request begins, waits for the lock or ends without a record.
LEMMA WaitingInv ==
  ASSUME IInv, UNCHANGED detectionVars, NEW r \in Requests,
         \/ \E d \in IntegrationDelivery : IngestSignedWebhook(r, d)
         \/ RefuseDelivery(r) \/ BeginDelivery(r) \/ Fail(r)
  PROVE  IInv'
<1> USE DEF IInv
<1>1. UNCHANGED <<dataStore, now, integration, deliveries, ingestedAt, indicators, administration>>
  BY DEF IngestSignedWebhook, RefuseDelivery, BeginDelivery, Fail
<1>2. now \in Nat /\ now \in 0..MaxTime
  BY DEF DeliveriesInv, IngestTypeOK
<1>3. DeliveriesInv' /\ Stored' = Stored
  BY <1>1, <1>2, DeliveriesKept
<1>4. Grows /\ ModelsInv' /\ FindingsInv' /\ EvaluationsInv'
  BY <1>1, <1>2, <1>3, DetectionApart
<1>5. CASE RefuseDelivery(r) \/ Fail(r)
  <2>1. Goto(r, Idle) /\ RequestOK(Idle)'
    BY <1>5 DEF RefuseDelivery, Fail, RequestOK
  <2> QED
    BY <1>3, <1>4, <2>1, GotoOK
<1>6. ASSUME NEW d \in IntegrationDelivery, IngestSignedWebhook(r, d)
      PROVE  IInv'
  <2>1. Goto(r, [pc |-> "ingest", delivery |-> d])
    BY <1>6 DEF IngestSignedWebhook
  <2>2. RequestOK([pc |-> "ingest", delivery |-> d])'
    BY DEF RequestOK, DeliveryOK, IngestState
  <2> QED
    BY <1>3, <1>4, <2>1, <2>2, GotoOK
<1>7. CASE BeginDelivery(r)
  <2>0. PICK q : q = [pc |-> "transaction", delivery |-> request[r].delivery, at |-> now]
    OBVIOUS
  <2>1. Goto(r, q) /\ dataStore = "postgres" /\ request[r].pc = "ingest"
    BY <1>7, <2>0 DEF BeginDelivery
  <2>2. request[r].delivery \in IntegrationDelivery
    BY <2>1, StateOf DEF RequestsInv, IngestState
  <2>3. q \in TransactionState /\ q.at = now
    BY <1>2, <2>0, <2>2 DEF TransactionState
  <2>4. RequestOK(q)'
    BY <1>1, <1>2, <2>1, <2>3 DEF RequestOK, DeliveryOK
  <2> QED
    BY <1>3, <1>4, <2>1, <2>4, GotoOK
<1> QED
  BY <1>5, <1>6, <1>7

\* The next event of a delivery is held, or the delivery is recorded.
LEMMA MemoryInv ==
  ASSUME IInv, UNCHANGED detectionVars, NEW r \in Requests, IngestInMemory(r)
  PROVE  IInv'
<1> USE DEF IInv
<1>1. /\ UNCHANGED <<dataStore, now, integration, administration>> /\ dataStore = "memory"
      /\ now \in Nat
  BY DEF IngestInMemory, DeliveriesInv, IngestTypeOK
<1>2. PICK d : d = request[r].delivery
  OBVIOUS
<1>3. PICK left : /\ IngestFrom(r, left)
                  /\ \/ request[r].pc = "ingest" /\ left = EventsIn[d.payload]
                     \/ request[r].pc = "events" /\ left = request[r].left
  BY <1>2 DEF IngestInMemory
<1>4. /\ d \in IntegrationDelivery /\ d.payload \in Payloads /\ left \in Seq(Events)
      /\ Range(EventsIn[d.payload]) \subseteq Stored \cup Range(left)
  <2>1. CASE request[r].pc = "ingest"
    <3>1. request[r] \in IngestState
      BY <2>1, StateOf DEF RequestsInv
    <3>2. d \in IntegrationDelivery /\ d.payload \in Payloads
      BY <1>2, <3>1 DEF IngestState, IntegrationDelivery
    <3> QED
      BY <1>3, <2>1, <3>2, PayloadTypes
  <2>2. CASE request[r].pc = "events"
    <3>1. request[r] \in EventsState /\ DeliveryOK(request[r])
      BY <2>2, StateOf DEF RequestsInv
    <3>2. d \in IntegrationDelivery /\ d.payload \in Payloads /\ left \in Seq(Events)
      BY <1>2, <1>3, <2>2, <3>1 DEF EventsState, IntegrationDelivery
    <3>3. Range(EventsIn[d.payload]) \subseteq Stored \cup Range(left)
      BY <1>2, <1>3, <2>2, <3>1 DEF DeliveryOK, IngestState, EventsState, TransactionState
    <3> QED
      BY <3>2, <3>3
  <2> QED
    BY <1>3, <2>1, <2>2
<1>5. CASE left = << >>
  <2>1. Record(d) /\ Goto(r, Idle) /\ ingestedAt' = ingestedAt
    BY <1>2, <1>3, <1>5 DEF IngestFrom
  <2>2. Range(left) = {}
    BY <1>5 DEF Range
  <2>3. Stored' = Stored
    BY <2>1 DEF Stored
  <2>4. /\ deliveries' \in Seq(IntegrationDelivery) /\ indicators' \in [Indicators -> Nat]
        /\ OneDeliveryPerId' /\ EventsAreHeld' /\ NewestInv'
    BY <1>1, <1>4, <2>1, <2>2, <2>3, RecordInv
  <2>5. DeliveriesInv'
    BY <1>1, <2>1, <2>3, <2>4 DEF DeliveriesInv, IngestTypeOK
  <2>6. Grows /\ ModelsInv' /\ FindingsInv' /\ EvaluationsInv'
    BY <1>1, <2>3, DetectionApart
  <2>7. RequestOK(Idle)'
    BY DEF RequestOK
  <2> QED
    BY <2>1, <2>5, <2>6, <2>7, GotoOK
<1>6. CASE left # << >>
  <2>0. PICK q : q = [pc |-> "events", delivery |-> d, left |-> Tail(left)]
    OBVIOUS
  <2>1. /\ ingestedAt' = WithEvents({Head(left)}, now) /\ Goto(r, q)
        /\ UNCHANGED <<deliveries, indicators>>
    BY <1>2, <1>3, <1>6, <2>0 DEF IngestFrom
  <2>2. Head(left) \in Events /\ Tail(left) \in Seq(Events) /\ Range(left) = {Head(left)} \cup Range(Tail(left))
    <3>1. /\ Head(left) \in Events /\ Tail(left) \in Seq(Events) /\ Len(Tail(left)) = Len(left) - 1
          /\ Head(left) = left[1] /\ Len(left) \in Nat \ {0}
          /\ \A n \in 1..Len(Tail(left)) : Tail(left)[n] = left[n + 1]
      BY <1>4, <1>6, HeadTailProperties, EmptySeq
    <3>2. /\ Range(left) = {left[n] : n \in 1..Len(left)}
          /\ Range(Tail(left)) = {Tail(left)[n] : n \in 1..Len(Tail(left))}
      BY <1>4, <3>1, HeldIsFinite
    <3>3. ASSUME NEW n \in 1..Len(left), n # 1
          PROVE  n - 1 \in 1..Len(Tail(left)) /\ left[n] = Tail(left)[n - 1]
      <4>1. n - 1 \in 1..Len(Tail(left)) /\ (n - 1) + 1 = n
        BY <3>1, <3>3
      <4>2. Tail(left)[n - 1] = left[(n - 1) + 1]
        BY <3>1, <4>1
      <4> QED
        BY <4>1, <4>2
    <3>4. \A n \in 1..Len(Tail(left)) : n + 1 \in 1..Len(left)
      BY <3>1
    <3>5. Range(left) \subseteq {Head(left)} \cup Range(Tail(left))
      BY <3>1, <3>2, <3>3
    <3>6. {Head(left)} \cup Range(Tail(left)) \subseteq Range(left)
      BY <3>1, <3>2, <3>4
    <3> QED
      BY <3>1, <3>5, <3>6
  <2>3. /\ ingestedAt' \in [Events -> {Never} \cup 0..now]
        /\ Stored' = Stored \cup {Head(left)} /\ IsFiniteSet(Stored')
    <3>1. IsFiniteSet({Head(left)})
      BY FS_Singleton
    <3>2. {Head(left)} \in SUBSET Events /\ now \in 0..now
      BY <1>1, <2>2
    <3> QED
      BY <2>1, <3>1, <3>2, EventsArrive
  <2>4. DeliveriesInv'
    <3>1. IngestTypeOK'
      BY <1>1, <2>1, <2>3 DEF DeliveriesInv, IngestTypeOK
    <3>2. OneDeliveryPerId' /\ EventsAreHeld'
      BY <1>1, <2>1, <2>3 DEF DeliveriesInv, OneDeliveryPerId, EventsAreHeld
    <3>3. NewestInv'
      BY <2>1 DEF DeliveriesInv, NewestInv, Brought
    <3> QED
      BY <2>3, <3>1, <3>2, <3>3 DEF DeliveriesInv
  <2>5. Grows /\ ModelsInv' /\ FindingsInv' /\ EvaluationsInv'
    BY <1>1, <2>3, DetectionApart
  <2>6. RequestOK(q)'
    <3>1. q \in EventsState /\ q.delivery = d /\ q.left = Tail(left)
      BY <1>4, <2>0, <2>2 DEF EventsState
    <3>2. Range(EventsIn[q.delivery.payload]) \subseteq Stored' \cup Range(q.left)
      BY <1>4, <2>2, <2>3, <3>1
    <3> QED
      BY <1>1, <3>1, <3>2 DEF RequestOK, DeliveryOK
  <2> QED
    BY <2>1, <2>4, <2>5, <2>6, GotoOK
<1> QED
  BY <1>5, <1>6

\* A delivery is committed whole, unless its id was used.
LEMMA CommitInv ==
  ASSUME IInv, UNCHANGED detectionVars, NEW r \in Requests, CommitDelivery(r)
  PROVE  IInv'
<1> USE DEF IInv
<1>1. /\ UNCHANGED <<dataStore, now, integration, administration>> /\ dataStore = "postgres"
      /\ now \in Nat /\ request[r].pc = "transaction"
  BY DEF CommitDelivery, DeliveriesInv, IngestTypeOK
<1>2. PICK d : d = request[r].delivery
  OBVIOUS
<1>3. d \in IntegrationDelivery /\ d.payload \in Payloads /\ request[r].at \in 0..now
  <2>1. request[r] \in TransactionState /\ DeliveryOK(request[r])
    BY <1>1, StateOf DEF RequestsInv
  <2>2. d \in IntegrationDelivery /\ d.payload \in Payloads /\ request[r].at \in Nat
    BY <1>2, <2>1 DEF TransactionState, IntegrationDelivery
  <2>3. request[r].at <= now
    BY <1>1, <2>1 DEF DeliveryOK, IngestState, EventsState, TransactionState
  <2> QED
    BY <1>1, <2>2, <2>3
<1>4. /\ Prior(d) = {} /\ Record(d) /\ Goto(r, Idle)
      /\ ingestedAt' = WithEvents(Range(EventsIn[d.payload]), request[r].at)
  BY <1>2 DEF CommitDelivery
<1>5. Range(EventsIn[d.payload]) \in SUBSET Events /\ IsFiniteSet(Range(EventsIn[d.payload]))
  BY <1>3, PayloadTypes
<1>6. /\ ingestedAt' \in [Events -> {Never} \cup 0..now]
      /\ Stored' = Stored \cup Range(EventsIn[d.payload]) /\ IsFiniteSet(Stored')
  BY <1>3, <1>4, <1>5, EventsArrive
<1>7. /\ deliveries' \in Seq(IntegrationDelivery) /\ indicators' \in [Indicators -> Nat]
      /\ OneDeliveryPerId' /\ EventsAreHeld' /\ NewestInv'
  BY <1>1, <1>3, <1>4, <1>6, RecordInv
<1>8. DeliveriesInv'
  BY <1>1, <1>6, <1>7 DEF DeliveriesInv, IngestTypeOK
<1>9. Grows /\ ModelsInv' /\ FindingsInv' /\ EvaluationsInv'
  BY <1>1, <1>6, DetectionApart
<1>10. RequestOK(Idle)'
  BY DEF RequestOK
<1> QED
  BY <1>4, <1>8, <1>9, <1>10, GotoOK

\* An event is ingested by itself.
LEMMA EventInv ==
  ASSUME IInv, UNCHANGED detectionVars, NEW e \in Events, IngestSecurityEvent(e)
  PROVE  IInv'
<1> USE DEF IInv
<1>1. /\ UNCHANGED <<dataStore, now, integration, deliveries, indicators, request, administration>>
      /\ ingestedAt' = WithEvents({e}, now) /\ now \in Nat
  BY DEF IngestSecurityEvent, DeliveriesInv, IngestTypeOK
<1>2. /\ ingestedAt' \in [Events -> {Never} \cup 0..now]
      /\ Stored' = Stored \cup {e} /\ IsFiniteSet(Stored')
  <2>1. IsFiniteSet({e})
    BY FS_Singleton
  <2>2. {e} \in SUBSET Events /\ now \in 0..now
    BY <1>1
  <2> QED
    BY <1>1, <2>1, <2>2, EventsArrive
<1>3. DeliveriesInv'
  <2>1. IngestTypeOK'
    BY <1>1, <1>2 DEF DeliveriesInv, IngestTypeOK
  <2>2. OneDeliveryPerId' /\ EventsAreHeld'
    BY <1>1, <1>2 DEF DeliveriesInv, OneDeliveryPerId, EventsAreHeld
  <2>3. NewestInv'
    BY <1>1 DEF DeliveriesInv, NewestInv, Brought
  <2> QED
    BY <1>2, <2>1, <2>2, <2>3 DEF DeliveriesInv
<1>4. Grows /\ ModelsInv' /\ FindingsInv' /\ EvaluationsInv'
  BY <1>1, <1>2, DetectionApart
<1> QED
  BY <1>1, <1>3, <1>4, RequestsKept

\* Webhooks, administration and the clock keep the invariant.
LEMMA IngestNextInv ==
  ASSUME IInv, IngestNext, UNCHANGED detectionVars
  PROVE  IInv'
<1>1. CASE Tick
  <2>1. /\ UNCHANGED <<dataStore, integration, deliveries, ingestedAt, indicators, administration>>
        /\ request' = request /\ now' = now + 1 /\ now < MaxTime
    BY <1>1 DEF Tick
  <2>2. now \in Nat /\ now' \in 0..MaxTime /\ now <= now'
    BY <2>1, IngestBoundsAssumption DEF IInv, DeliveriesInv, IngestTypeOK
  <2>3. DeliveriesInv' /\ Stored' = Stored
    BY <2>1, <2>2, DeliveriesKept DEF IInv
  <2>4. Grows /\ ModelsInv' /\ FindingsInv' /\ EvaluationsInv'
    BY <2>1, <2>2, <2>3, DetectionApart
  <2> QED
    BY <2>1, <2>3, <2>4, RequestsKept DEF IInv
<1>2. ASSUME NEW i \in Integrations,
             \/ \E status \in {"active", "disabled"} : UpdateIntegrationStatus(i, status)
             \/ CreateIntegration(i) \/ RotateIntegrationSecret(i)
      PROVE  IInv'
  BY <1>2, AdministrationInv
<1>3. ASSUME NEW r \in Requests,
             \/ \E delivery \in IntegrationDelivery : IngestSignedWebhook(r, delivery)
             \/ RefuseDelivery(r) \/ IngestInMemory(r) \/ BeginDelivery(r) \/ CommitDelivery(r)
             \/ Fail(r)
      PROVE  IInv'
  BY <1>3, WaitingInv, MemoryInv, CommitInv
<1> QED
  BY <1>1, <1>2, <1>3, EventInv DEF IngestNext

-----------------------------------------------------------------------------
(* Trainings.                                                              *)

\* What detection does leaves deliveries alone.
LEMMA DeliveriesApart ==
  ASSUME IInv, UNCHANGED deliveryVars
  PROVE  /\ DeliveriesInv' /\ Stored' = Stored /\ now \in Nat /\ now' = now
         /\ dataStore' = dataStore
<1>1. /\ now \in 0..MaxTime /\ now' = now /\ dataStore' = dataStore
      /\ UNCHANGED <<integration, deliveries, ingestedAt, indicators, administration>>
  BY DEF deliveryVars, IInv, DeliveriesInv, IngestTypeOK
<1>2. now \in Nat
  BY <1>1
<1>3. DeliveriesInv' /\ Stored' = Stored
  BY <1>1, <1>2, DeliveriesKept DEF IInv
<1> QED
  BY <1>1, <1>2, <1>3

\* A request reads, and moves on with what it read.
LEMMA ReadInv ==
  ASSUME IInv, UNCHANGED <<deliveryVars, detectionVars>>, NEW r \in Requests, NEW q,
         Goto(r, q), RequestOK(q)
  PROVE  IInv'
<1>1. DeliveriesInv' /\ Stored' = Stored /\ now \in Nat /\ now' = now /\ dataStore' = dataStore
  BY DeliveriesApart
<1>2. Grows /\ ModelsInv' /\ FindingsInv' /\ EvaluationsInv'
  BY <1>1, DetectionApart
<1>3. RequestOK(q)'
  BY <1>2, RequestsStayOK
<1>4. RequestsInv'
  BY <1>2, <1>3, GotoOK DEF IInv
<1> QED
  BY <1>1, <1>2, <1>4 DEF IInv

\* The states a request is left in when it ends, and the models it may use.
LEMMA RequestFacts ==
  ASSUME IInv, NEW r \in Requests
  PROVE  RequestOK(request[r]) /\ RequestOK(Idle)
BY DEF IInv, RequestsInv, RequestOK

\* A training starts and reads the telemetry up to then.
LEMMA TrainInv ==
  ASSUME IInv, NEW r \in Requests,
         (\E threshold \in Thresholds : StartTraining(r, threshold)) \/ ReadTelemetry(r)
  PROVE  IInv'
<1>1. UNCHANGED <<deliveryVars, detectionVars>>
  BY DEF StartTraining, ReadTelemetry
<1>2. ASSUME NEW threshold \in Thresholds, StartTraining(r, threshold)
      PROVE  IInv'
  <2>0. PICK q : q = [pc |-> "train", trainedAt |-> now, findingThreshold |-> threshold]
    OBVIOUS
  <2>1. Goto(r, q) /\ q \in TrainState
    BY <1>2, <2>0 DEF StartTraining, TrainState, IInv, DeliveriesInv, IngestTypeOK
  <2>2. RequestOK(q)
    BY <2>1 DEF RequestOK, TrainingOK
  <2> QED
    BY <1>1, <2>1, <2>2, ReadInv
<1>3. CASE ReadTelemetry(r)
  <2>1. PICK events \in SUBSET Stored :
          \/ Goto(r, Idle)
          \/ Goto(r, [pc |-> "version", trainedAt |-> request[r].trainedAt,
                      findingThreshold |-> request[r].findingThreshold, trainedOn |-> events])
    <3>1. {e \in Stored : EventOf[e].observedAt <= request[r].trainedAt} \in SUBSET Stored
      OBVIOUS
    <3> QED
      BY <1>3, <3>1, Zenon DEF ReadTelemetry
  <2>2. request[r] \in TrainState
    BY <1>3, RequestFacts, StateOf DEF ReadTelemetry
  <2>3. PICK q : q = [pc |-> "version", trainedAt |-> request[r].trainedAt,
                      findingThreshold |-> request[r].findingThreshold, trainedOn |-> events]
    OBVIOUS
  <2>4. q \in VersionState /\ q.trainedOn \subseteq Stored
    BY <2>1, <2>2, <2>3 DEF TrainState, VersionState, Stored
  <2>5. RequestOK(q)
    BY <2>4 DEF RequestOK, TrainingOK
  <2> QED
    BY <1>1, <2>1, <2>3, <2>5, RequestFacts, ReadInv
<1> QED
  BY <1>2, <1>3

\* The version a training chooses is the next one.
LEMMA NextVersionInv ==
  ASSUME IInv, NEW r \in Requests, NextVersion(r)
  PROVE  IInv'
<1>1. UNCHANGED <<deliveryVars, detectionVars>> /\ request[r].pc = "version"
  BY DEF NextVersion
<1>2. request[r] \in VersionState /\ TrainingOK(request[r])
  BY <1>1, RequestFacts, StateOf
<1>3. request[r].trainedOn \subseteq Stored
  BY <1>2 DEF TrainingOK, TrainState, VersionState, SaveState
<1> DEFINE V == {0} \cup {m.version : m \in Range(models)}
           n == Len(models)
<1>4. Max(V) = n /\ n \in Nat
  <2>1. /\ n \in Nat /\ DOMAIN models = 1..n /\ \A k \in 1..n : models[k].version = k
        /\ Range(models) = {models[k] : k \in 1..n}
    BY LenProperties, HeldIsFinite DEF IInv, ModelsInv
  <2>2. V \subseteq 0..n
    BY <2>1
  <2>3. n \in V
    <3>1. CASE n = 0
      BY <3>1
    <3>2. CASE n # 0
      <4>1. models[n] \in Range(models) /\ models[n].version = n
        BY <2>1, <3>2
      <4> QED
        BY <4>1
    <3> QED
      BY <3>1, <3>2
  <2>4. V \in SUBSET Nat /\ \A k \in V : k <= n
    BY <2>1, <2>2
  <2> HIDE DEF V, n
  <2> QED
    BY <2>1, <2>3, <2>4, MaxIs
<1>5. PICK model : model = [version |-> Max(V) + 1, status |-> "active",
                            trainedAt |-> request[r].trainedAt,
                            findingThreshold |-> request[r].findingThreshold,
                            trainedOn |-> request[r].trainedOn]
  OBVIOUS
<1>6. Goto(r, [pc |-> "save", model |-> model])
  BY <1>5 DEF NextVersion
<1> HIDE DEF V, n
<1>7. /\ model \in DetectionModel /\ model.version = n + 1 /\ model.status = "active"
      /\ model.trainedOn = request[r].trainedOn
  BY <1>2, <1>4, <1>5 DEF VersionState, DetectionModel
<1>8. RequestOK([pc |-> "save", model |-> model])
  BY <1>3, <1>4, <1>7 DEF RequestOK, TrainingOK, SaveState, n
<1> QED
  BY <1>1, <1>6, <1>8, ReadInv

\* A model is saved if its version is still the next, and is then the only
\* active one.
LEMMA SaveModelInv ==
  ASSUME IInv, NEW r \in Requests, SaveDetectionModel(r)
  PROVE  IInv'
<1>1. /\ UNCHANGED <<deliveryVars, findings, evaluations>> /\ request[r].pc = "save"
      /\ Goto(r, Idle)
  BY DEF SaveDetectionModel
<1>2. PICK model : model = request[r].model
  OBVIOUS
<1>3. /\ model \in DetectionModel /\ model.status = "active" /\ model.trainedOn \subseteq Stored
      /\ model.version <= Len(models) + 1
  <2>1. request[r] \in SaveState /\ TrainingOK(request[r])
    BY <1>1, RequestFacts, StateOf
  <2> QED
    BY <1>2, <2>1 DEF TrainingOK, TrainState, VersionState, SaveState
<1>4. CASE models' = models
  <2>1. UNCHANGED detectionVars
    BY <1>1, <1>4 DEF detectionVars
  <2> QED
    BY <1>1, <2>1, ReadInv, RequestFacts
<1>5. CASE ~VersionIsTaken(model) /\ models' = Append(Retired(models), model)
  <2> DEFINE n == Len(models)
  <2>1. /\ models \in Seq(DetectionModel) /\ n \in Nat /\ DOMAIN models = 1..n
        /\ \A k \in 1..n : models[k] \in DetectionModel /\ models[k].version = k
                           /\ models[k].trainedOn \subseteq Stored
    BY LenProperties, ElementOfSeq DEF IInv, ModelsInv
  <2>2. model.version = n + 1
    <3>1. \A k \in 1..n : models[k].version # model.version
      BY <1>5, <2>1 DEF VersionIsTaken, Range
    <3>2. model.version \in Nat \ {0}
      BY <1>3 DEF DetectionModel
    <3> QED
      BY <1>3, <2>1, <3>1, <3>2
  <2> HIDE DEF n
  <2>3. \A k \in 1..n : /\ Retired(models)[k] \in DetectionModel /\ Retired(models)[k].version = k
                        /\ Retired(models)[k].status = "retired"
                        /\ Retired(models)[k].trainedOn = models[k].trainedOn
                        /\ Retired(models)[k].findingThreshold = models[k].findingThreshold
    <3>1. ASSUME NEW k \in 1..n
          PROVE  /\ Retired(models)[k] \in DetectionModel /\ Retired(models)[k].version = k
                 /\ Retired(models)[k].status = "retired"
                 /\ Retired(models)[k].trainedOn = models[k].trainedOn
                 /\ Retired(models)[k].findingThreshold = models[k].findingThreshold
      <4>1. Retired(models)[k] = [models[k] EXCEPT !.status = "retired"]
        BY <2>1 DEF Retired
      <4> QED
        BY <2>1, <4>1 DEF DetectionModel
    <3> QED
      BY <3>1
  <2>4. Retired(models) \in Seq(DetectionModel) /\ Len(Retired(models)) = n
    <3>1. Retired(models) \in [1..n -> DetectionModel]
      <4>1. Retired(models) = [k \in 1..n |-> Retired(models)[k]]
        BY <2>1 DEF Retired
      <4> QED
        BY <2>3, <4>1
    <3> QED
      BY <2>1, <3>1, SeqDef, LenProperties
  <2>5. /\ models' \in Seq(DetectionModel) /\ Len(models') = n + 1 /\ DOMAIN models' = 1..(n + 1)
        /\ \A k \in 1..n : models'[k] = Retired(models)[k]
        /\ models'[n + 1] = model
    BY <1>3, <1>5, <2>4, RangeOfAppend
  <2>6. DeliveriesInv' /\ Stored' = Stored /\ now \in Nat /\ now' = now /\ dataStore' = dataStore
    BY <1>1, DeliveriesApart
  <2>7. ModelsInv'
    <3>1. ASSUME NEW k \in 1..(n + 1)
          PROVE  /\ models'[k].version = k
                 /\ models'[k].status = "active" <=> k = n + 1
                 /\ models'[k].trainedOn \subseteq Stored
      <4>1. CASE k = n + 1
        BY <1>3, <2>2, <2>5, <4>1
      <4>2. CASE k \in 1..n
        BY <2>1, <2>3, <2>5, <4>2
      <4> QED
        BY <2>1, <4>1, <4>2
    <3> QED
      BY <2>5, <2>6, <3>1 DEF ModelsInv
  <2>8. Grows
    <3>1. \A m, e : HasFinding(m, e) => HasFinding(m, e)'
      BY <1>1 DEF HasFinding
    <3>2. \A m \in DOMAIN models : /\ m \in DOMAIN models'
                                   /\ models'[m].trainedOn = models[m].trainedOn
                                   /\ models'[m].findingThreshold = models[m].findingThreshold
      BY <2>1, <2>3, <2>5
    <3>3. Len(models) \in Nat /\ Len(models') \in Nat /\ Len(models) <= Len(models')
      BY <2>1, <2>5 DEF n
    <3> QED
      BY <2>6, <3>1, <3>2, <3>3 DEF Grows
  <2>9. FindingsInv'
    BY <1>1, <2>8 DEF IInv, FindingsInv, OneFinding, Grows
  <2>10. EvaluationsInv'
    BY <1>1, <2>8, EvaluationsKept DEF IInv
  <2>11. RequestOK(Idle)'
    BY DEF RequestOK
  <2> QED
    BY <1>1, <2>6, <2>7, <2>8, <2>9, <2>10, <2>11, GotoOK DEF IInv
<1> QED
  BY <1>2, <1>4, <1>5 DEF SaveDetectionModel

-----------------------------------------------------------------------------
(* Evaluations.                                                            *)

\* A score is a percentage, whatever the batch, and at least what it has of
\* the event alone.
LEMMA ScoreOK ==
  ASSUME IInv, NEW m \in DOMAIN models, NEW batch \in SUBSET Stored, NEW e \in batch
  PROVE  /\ Score(m, batch, e) \in 0..100
         /\ Quiet({EventOf[x] : x \in models[m].trainedOn}, EventOf[e]) <= Score(m, batch, e)
         /\ models[m].findingThreshold \in 0..100
         /\ Quiet({EventOf[x] : x \in models[m].trainedOn}, EventOf[e]) \in Int
<1>1. /\ models[m] \in DetectionModel /\ models[m].trainedOn \in SUBSET Stored
      /\ IsFiniteSet(Stored) /\ Stored \subseteq Events
  BY LenProperties, ElementOfSeq DEF IInv, ModelsInv, DeliveriesInv, Stored
<1>2. \A S \in SUBSET Stored : IsFiniteSet({EventOf[x] : x \in S})
  <2>1. ASSUME NEW S \in SUBSET Stored PROVE IsFiniteSet({EventOf[x] : x \in S})
    <3> DEFINE f == [x \in S |-> EventOf[x]]
    <3>1. IsFiniteSet(S) /\ S = DOMAIN f
      BY <1>1, FS_Subset
    <3>2. {EventOf[x] : x \in S} = {f[x] : x \in S}
      OBVIOUS
    <3> HIDE DEF f
    <3>3. IsFiniteSet({f[x] : x \in S})
      BY <3>1, ImageIsFinite
    <3> QED
      BY <3>2, <3>3
  <2> QED
    BY <2>1
<1>3. EventOf[e].severity \in Severities /\ IsFiniteSet(EventOf[e].assets)
  BY <1>1, DetectionAssumption DEF SecurityEvent
<1> DEFINE baseline == {EventOf[x] : x \in models[m].trainedOn}
           events == {EventOf[x] : x \in batch}
<1>4. IsFiniteSet(baseline) /\ IsFiniteSet(events) /\ EventOf[e] \in events
  BY <1>1, <1>2
<1>5. Score(m, batch, e) = AnomalyScore(baseline, events, EventOf[e])
  BY DEF Score
<1> HIDE DEF baseline, events
<1>6. Score(m, batch, e) \in 0..100 /\ Quiet(baseline, EventOf[e]) <= Score(m, batch, e)
  BY <1>3, <1>4, <1>5, ScoreBounds
<1>7. models[m].findingThreshold \in 0..100
  <2>1. models[m].findingThreshold \in Thresholds
    BY <1>1 DEF DetectionModel
  <2>2. PICK t \in Thresholds : t = models[m].findingThreshold
    BY <2>1
  <2>3. t \in 40..95
    BY <2>2, DetectionAssumption, Zenon
  <2>4. \A x \in 40..95 : x \in 0..100
    OBVIOUS
  <2> QED
    BY <2>2, <2>3, <2>4, Zenon
<1>8. Quiet(baseline, EventOf[e]) \in Int
  BY <1>3, <1>4, QuietIsNumber
<1> QED
  BY <1>6, <1>7, <1>8 DEF baseline

\* An evaluation takes the active model and the events it has to look at.
LEMMA LookInv ==
  ASSUME IInv, NEW r \in Requests, GetActiveDetectionModel(r) \/ ListEvaluatedEventIds(r)
  PROVE  IInv'
<1>1. UNCHANGED <<deliveryVars, detectionVars>>
  BY DEF GetActiveDetectionModel, ListEvaluatedEventIds
<1>2. CASE GetActiveDetectionModel(r)
  <2>1. PICK m \in Active : Goto(r, [pc |-> "evaluate", modelId |-> m])
    BY <1>2 DEF GetActiveDetectionModel
  <2>2. m \in DOMAIN models /\ m \in Nat
    BY <2>1, LenProperties DEF Active, IInv, ModelsInv
  <2>3. RequestOK([pc |-> "evaluate", modelId |-> m])
    BY <2>2 DEF RequestOK, EvaluationOK, EvaluateState, FindingsState
  <2> QED
    BY <1>1, <2>1, <2>3, ReadInv
<1>3. CASE ListEvaluatedEventIds(r)
  <2>1. request[r] \in EvaluateState /\ EvaluationOK(request[r])
    BY <1>3, RequestFacts, StateOf DEF ListEvaluatedEventIds
  <2>2. PICK q : q = [pc |-> "candidates", modelId |-> request[r].modelId,
                      evaluated |-> EvaluatedWith(request[r].modelId)]
    OBVIOUS
  <2>3. q \in CandidatesState /\ q.modelId \in DOMAIN models /\ q.pc = "candidates"
    BY <2>1, <2>2 DEF EvaluateState, CandidatesState, EvaluationOK, EvaluatedWith
  <2>4. RequestOK(q)
    BY <2>3 DEF RequestOK, EvaluationOK, FindingsState
  <2> QED
    BY <1>1, <1>3, <2>2, <2>4, ReadInv DEF ListEvaluatedEventIds
<1> QED
  BY <1>2, <1>3

\* What must be flagged of the candidates is left to be saved.
LEMMA CandidatesInv ==
  ASSUME IInv, NEW r \in Requests, ReadCandidates(r)
  PROVE  IInv'
<1>1. UNCHANGED <<deliveryVars, detectionVars>> /\ request[r].pc = "candidates"
  BY DEF ReadCandidates
<1>2. request[r] \in CandidatesState /\ EvaluationOK(request[r])
  BY <1>1, RequestFacts, StateOf
<1>3. PICK m : m = request[r].modelId
  OBVIOUS
<1>4. m \in DOMAIN models /\ m \in Nat
  BY <1>2, <1>3 DEF EvaluationOK, CandidatesState
<1>5. PICK batch : batch = Candidates(m, request[r].evaluated)
  OBVIOUS
<1>6. batch \in SUBSET Stored
  BY <1>5 DEF Candidates
<1>7. PICK q : q = [pc |-> "findings", modelId |-> m, batch |-> batch,
                    left |-> {e \in batch : Score(m, batch, e) >= models[m].findingThreshold}]
  OBVIOUS
<1>8. Goto(r, Idle) \/ Goto(r, q)
  BY <1>3, <1>5, <1>7 DEF ReadCandidates
<1>9. RequestOK(q)
  <2>1. /\ q \in FindingsState /\ q.modelId = m /\ q.batch = batch
        /\ q.left = {e \in batch : Score(m, batch, e) >= models[m].findingThreshold}
    BY <1>4, <1>6, <1>7 DEF FindingsState, Stored
  <2>2. \A e \in batch \ q.left : ~MustFlag(m, e)
    <3>1. ASSUME NEW e \in batch, e \notin q.left, MustFlag(m, e)
          PROVE  FALSE
      <4>1. /\ Score(m, batch, e) \in 0..100 /\ models[m].findingThreshold \in 0..100
            /\ Quiet({EventOf[x] : x \in models[m].trainedOn}, EventOf[e]) <= Score(m, batch, e)
            /\ Quiet({EventOf[x] : x \in models[m].trainedOn}, EventOf[e]) \in Int
        BY <1>4, <1>6, ScoreOK
      <4>2. ~(Score(m, batch, e) >= models[m].findingThreshold)
        BY <2>1, <3>1
      <4>3. Quiet({EventOf[x] : x \in models[m].trainedOn}, EventOf[e]) >= models[m].findingThreshold
        BY <3>1 DEF MustFlag
      <4> QED
        BY <4>1, <4>2, <4>3
    <3> QED
      BY <3>1
  <2> QED
    BY <1>4, <1>6, <2>1, <2>2 DEF RequestOK, EvaluationOK
<1> QED
  BY <1>1, <1>8, <1>9, RequestFacts, ReadInv

\* A finding that is saved was one of those left, and is the only one of its
\* model and event.
LEMMA SaveFindingInv ==
  ASSUME IInv, NEW r \in Requests, NEW e \in Events, SaveAnomalyFinding(r, e)
  PROVE  IInv'
<1>1. /\ UNCHANGED <<deliveryVars, models, evaluations>> /\ request[r].pc = "findings"
      /\ e \in request[r].left
  BY DEF SaveAnomalyFinding
<1>2. request[r] \in FindingsState /\ EvaluationOK(request[r])
  BY <1>1, RequestFacts, StateOf
<1>3. PICK m : m = request[r].modelId
  OBVIOUS
<1>4. PICK batch : batch = request[r].batch
  OBVIOUS
<1>5. /\ m \in DOMAIN models /\ m \in Nat \ {0} /\ batch \in SUBSET Stored /\ e \in batch
      /\ request[r].left \subseteq batch
      /\ \A x \in batch \ request[r].left : MustFlag(m, x) => HasFinding(m, x)
  BY <1>1, <1>2, <1>3, <1>4, LenProperties DEF EvaluationOK, FindingsState, IInv, ModelsInv
<1>6. findings \in Seq(AnomalyFinding)
  BY DEF IInv, FindingsInv
<1>7. PICK f : f = NewFinding(m, batch, e)
  OBVIOUS
<1>8. f \in AnomalyFinding /\ f.model = m /\ f.event = e /\ ReviewedOK(f)
  <2>1. Score(m, batch, e) \in 0..100
    BY <1>5, ScoreOK
  <2>2. f = [model |-> m, event |-> e, anomalyScore |-> Score(m, batch, e),
             level |-> FindingLevel(Score(m, batch, e)), disposition |-> "new", reviews |-> << >>]
    BY <1>7 DEF NewFinding
  <2>3. FindingLevel(Score(m, batch, e)) \in {"low", "medium", "high", "critical"}
    BY DEF FindingLevel
  <2>4. << >> \in Seq(Dispositions)
    BY EmptySeq
  <2> QED
    BY <1>5, <2>1, <2>2, <2>3, <2>4 DEF AnomalyFinding, ReviewedOK
<1>9. findings' = IF HasFinding(m, e) THEN findings ELSE Append(findings, f)
  BY <1>3, <1>4, <1>7 DEF SaveAnomalyFinding
<1>10. /\ findings' \in Seq(AnomalyFinding) /\ Range(findings) \subseteq Range(findings')
       /\ HasFinding(m, e)' /\ FindingsInv'
  <2>1. CASE HasFinding(m, e)
    <3>1. findings' = findings
      BY <1>9, <2>1
    <3> QED
      BY <1>1, <1>6, <2>1, <3>1 DEF HasFinding, IInv, FindingsInv, OneFinding
  <2>2. CASE ~HasFinding(m, e)
    <3> DEFINE n == Len(findings)
    <3>1. findings' = Append(findings, f)
      BY <1>9, <2>2
    <3>2. /\ findings' \in Seq(AnomalyFinding) /\ Range(findings') = Range(findings) \cup {f}
          /\ n \in Nat /\ DOMAIN findings' = 1..(n + 1) /\ DOMAIN findings = 1..n
          /\ \A k \in 1..n : findings'[k] = findings[k] /\ findings'[n + 1] = f
      BY <1>6, <1>8, <3>1, RangeOfAppend
    <3>3. findings'[n + 1] = f
      BY <1>6, <1>8, <3>1, RangeOfAppend
    <3> HIDE DEF n
    <3>4. HasFinding(m, e)'
      BY <1>8, <3>2 DEF HasFinding
    <3>5. ASSUME NEW k \in 1..(n + 1)
          PROVE  findings'[k].model \in DOMAIN models' /\ ReviewedOK(findings'[k])
      <4>1. CASE k = n + 1
        BY <1>1, <1>5, <1>8, <3>3, <4>1
      <4>2. CASE k \in 1..n
        BY <1>1, <3>2, <4>2 DEF IInv, FindingsInv
      <4> QED
        BY <3>2, <4>1, <4>2
    <3>6. OneFinding'
      <4> SUFFICES ASSUME NEW j \in 1..(n + 1), NEW k \in 1..(n + 1),
                          findings'[j].model = findings'[k].model,
                          findings'[j].event = findings'[k].event
                   PROVE  j = k
        BY <3>2 DEF OneFinding, IsInjective
      <4>1. \A i, l \in 1..n : findings[i].model = findings[l].model
                               /\ findings[i].event = findings[l].event => i = l
        BY <3>2 DEF IInv, FindingsInv, OneFinding, IsInjective
      <4>2. \A i \in 1..n : ~(findings[i].model = m /\ findings[i].event = e)
        BY <2>2, <3>2 DEF HasFinding, Range
      <4> QED
        BY <1>8, <3>2, <3>3, <4>1, <4>2
    <3> QED
      BY <3>2, <3>4, <3>5, <3>6 DEF FindingsInv, ReviewedOK
  <2> QED
    BY <2>1, <2>2
<1>11. DeliveriesInv' /\ Stored' = Stored /\ now \in Nat /\ now' = now /\ dataStore' = dataStore
  BY <1>1, DeliveriesApart
<1>12. models' = models /\ Len(models) \in Nat
  BY <1>1, LenProperties DEF IInv, ModelsInv
<1>13. Grows
  <2>1. \A k, x : HasFinding(k, x) => HasFinding(k, x)'
    BY <1>10 DEF HasFinding
  <2> QED
    BY <1>11, <1>12, <2>1 DEF Grows
<1>14. ModelsInv'
  BY <1>11, <1>12 DEF IInv, ModelsInv
<1>15. EvaluationsInv'
  BY <1>1, <1>13, EvaluationsKept DEF IInv
<1>16. PICK q : q = [request[r] EXCEPT !.left = @ \ {e}]
  OBVIOUS
<1>17. /\ q \in FindingsState /\ q.left = request[r].left \ {e} /\ q.batch = batch
       /\ q.modelId = m
  BY <1>2, <1>3, <1>4, <1>16 DEF FindingsState
<1>18. RequestOK(q)'
  <2>1. \A x \in batch \ q.left : MustFlag(m, x)' => HasFinding(m, x)'
    <3>1. ASSUME NEW x \in batch \ q.left, MustFlag(m, x)'
          PROVE  HasFinding(m, x)'
      <4>1. CASE x = e
        BY <1>10, <4>1
      <4>2. CASE x # e
        <5>1. MustFlag(m, x)
          BY <1>12, <3>1 DEF MustFlag
        <5> QED
          BY <1>5, <1>13, <1>17, <4>2, <5>1 DEF Grows
      <4> QED
        BY <4>1, <4>2
    <3> QED
      BY <3>1
  <2> QED
    BY <1>5, <1>11, <1>12, <1>17, <2>1 DEF RequestOK, EvaluationOK
<1>19. Goto(r, q)
  BY <1>16 DEF SaveAnomalyFinding
<1>20. RequestsInv'
  BY <1>13, <1>18, <1>19, GotoOK DEF IInv
<1> QED
  BY <1>10, <1>11, <1>14, <1>15, <1>20 DEF IInv

\* Events are marked when nothing of the batch is left to be saved.
LEMMA MarkInv ==
  ASSUME IInv, NEW r \in Requests, MarkEventsEvaluated(r)
  PROVE  IInv'
<1>1. /\ UNCHANGED <<deliveryVars, models, findings>> /\ request[r].pc = "findings"
      /\ request[r].left = {}
  BY DEF MarkEventsEvaluated, FindingsAreSaved
<1>2. request[r] \in FindingsState /\ EvaluationOK(request[r])
  BY <1>1, RequestFacts, StateOf
<1>3. PICK m : m = request[r].modelId
  OBVIOUS
<1>4. PICK batch : batch = request[r].batch
  OBVIOUS
<1>5. /\ m \in DOMAIN models /\ batch \in SUBSET Stored /\ Stored \subseteq Events
      /\ \A x \in batch : MustFlag(m, x) => HasFinding(m, x)
  BY <1>1, <1>2, <1>3, <1>4 DEF EvaluationOK, Stored
<1>6. PICK marked \in SUBSET batch :
        /\ evaluations' = evaluations \cup {<<m, x>> : x \in marked}
        /\ Goto(r, Idle) \/ Goto(r, [request[r] EXCEPT !.batch = @ \ marked])
  <2>1. PICK marked \in IF dataStore = "memory" THEN {batch} ELSE {{x} : x \in batch} :
          /\ evaluations' = evaluations \cup {<<m, x>> : x \in marked}
          /\ IF marked = batch THEN Goto(r, Idle)
             ELSE Goto(r, [request[r] EXCEPT !.batch = @ \ marked])
    BY <1>3, <1>4 DEF MarkEventsEvaluated
  <2>2. marked \in SUBSET batch
    BY <2>1
  <2> QED
    BY <2>1, <2>2
<1>7. DeliveriesInv' /\ Stored' = Stored /\ now \in Nat /\ now' = now /\ dataStore' = dataStore
  BY <1>1, DeliveriesApart
<1>8. models' = models /\ Len(models) \in Nat /\ findings' = findings
  BY <1>1, LenProperties DEF IInv, ModelsInv
<1>9. \A k, x : (HasFinding(k, x) <=> HasFinding(k, x)') /\ (MustFlag(k, x) <=> MustFlag(k, x)')
  BY <1>8 DEF HasFinding, MustFlag
<1>10. Grows
  BY <1>7, <1>8, <1>9 DEF Grows
<1>11. ModelsInv'
  BY <1>7, <1>8 DEF IInv, ModelsInv
<1>12. FindingsInv'
  BY <1>8 DEF IInv, FindingsInv, OneFinding
<1>13. EvaluationsInv'
  <2>1. (evaluations \subseteq (DOMAIN models) \X Events)'
    BY <1>5, <1>6, <1>8 DEF IInv, EvaluationsInv
  <2>2. ASSUME NEW k \in DOMAIN models, NEW x \in EvaluatedWith(k)', MustFlag(k, x)
        PROVE  HasFinding(k, x)
    <3>1. x \in Events /\ <<k, x>> \in evaluations'
      BY <2>2 DEF EvaluatedWith
    <3>2. CASE <<k, x>> \in evaluations
      <4>1. x \in EvaluatedWith(k)
        BY <3>1, <3>2 DEF EvaluatedWith
      <4> QED
        BY <2>2, <4>1 DEF IInv, EvaluationsInv
    <3>3. CASE k = m /\ x \in marked
      BY <1>5, <1>6, <2>2, <3>3
    <3> QED
      BY <1>6, <3>1, <3>2, <3>3
  <2> QED
    BY <1>8, <1>9, <2>1, <2>2 DEF EvaluationsInv
<1>14. PICK q : q = [request[r] EXCEPT !.batch = @ \ marked]
  OBVIOUS
<1>15. /\ q \in FindingsState /\ q.left = {} /\ q.batch = batch \ marked /\ q.modelId = m
  BY <1>1, <1>2, <1>3, <1>4, <1>14 DEF FindingsState
<1>16. RequestOK(q)' /\ RequestOK(Idle)'
  <2>1. EvaluationOK(q)
    BY <1>5, <1>15 DEF EvaluationOK
  <2>2. RequestOK(q)
    BY <2>1 DEF RequestOK
  <2> QED
    BY <1>10, <2>2, RequestFacts, RequestsStayOK
<1>17. RequestsInv'
  BY <1>6, <1>10, <1>14, <1>16, GotoOK DEF IInv
<1> QED
  BY <1>7, <1>11, <1>12, <1>13, <1>17 DEF IInv

\* A review adds to a finding, and to no other.
LEMMA ReviewInv ==
  ASSUME IInv, NEW f \in DOMAIN findings, NEW d \in Dispositions, ReviewAnomalyFinding(f, d)
  PROVE  /\ IInv'
         /\ findings' = [findings EXCEPT ![f] = findings'[f]]
         /\ findings'[f].reviews = Append(findings[f].reviews, d)
<1>1. UNCHANGED <<ingestVars, models, evaluations>>
  BY DEF ReviewAnomalyFinding
<1>2. PICK g : g = [findings[f] EXCEPT !.disposition = d, !.reviews = Append(@, d)]
  OBVIOUS
<1>3. findings' = [findings EXCEPT ![f] = g]
  BY <1>2 DEF ReviewAnomalyFinding
<1>4. /\ findings \in Seq(AnomalyFinding) /\ DOMAIN findings = 1..Len(findings)
      /\ findings[f] \in AnomalyFinding
  BY LenProperties, ElementOfSeq DEF IInv, FindingsInv
<1>5. PICK reviews \in Seq(Dispositions) : reviews = findings[f].reviews
  BY <1>4 DEF AnomalyFinding
<1>6. /\ Append(reviews, d) \in Seq(Dispositions) /\ Append(reviews, d) # << >>
      /\ Last(Append(reviews, d)) = d
  <2>1. /\ Append(reviews, d) \in Seq(Dispositions) /\ Len(Append(reviews, d)) = Len(reviews) + 1
        /\ Append(reviews, d)[Len(reviews) + 1] = d /\ Len(reviews) \in Nat
    BY AppendProperties, LenProperties
  <2>2. Len(Append(reviews, d)) # 0
    BY <2>1
  <2> QED
    BY <2>1, <2>2, EmptySeq DEF Last
<1>7. /\ g.model = findings[f].model /\ g.event = findings[f].event
      /\ g.disposition = d /\ g.reviews = Append(reviews, d)
  BY <1>2, <1>4, <1>5 DEF AnomalyFinding
<1>8. g \in AnomalyFinding
  <2>1. g = [model |-> findings[f].model, event |-> findings[f].event,
             anomalyScore |-> findings[f].anomalyScore, level |-> findings[f].level,
             disposition |-> d, reviews |-> Append(reviews, d)]
    BY <1>2, <1>4, <1>5 DEF AnomalyFinding
  <2>2. d \in {"new"} \cup Dispositions
    OBVIOUS
  <2> QED
    BY <1>4, <1>6, <2>1, <2>2 DEF AnomalyFinding
<1>9. /\ findings' \in Seq(AnomalyFinding) /\ DOMAIN findings' = DOMAIN findings
      /\ findings'[f] = g /\ \A k \in DOMAIN findings \ {f} : findings'[k] = findings[k]
  BY <1>3, <1>4, <1>8, ExceptSeq
<1>10. \A k \in DOMAIN findings : /\ findings'[k].model = findings[k].model
                                  /\ findings'[k].event = findings[k].event
  BY <1>7, <1>9
<1>11. \A m, e : HasFinding(m, e) <=> HasFinding(m, e)'
  <2>1. \A m, e : HasFinding(m, e) <=>
          \E k \in DOMAIN findings : findings[k].model = m /\ findings[k].event = e
    BY DEF HasFinding, Range
  <2>2. \A m, e : HasFinding(m, e)' <=>
          \E k \in DOMAIN findings' : findings'[k].model = m /\ findings'[k].event = e
    BY DEF HasFinding, Range
  <2> QED
    BY <1>9, <1>10, <2>1, <2>2
<1>12. FindingsInv'
  <2>1. \A k \in DOMAIN findings' : findings'[k].model \in DOMAIN models'
    BY <1>1, <1>9, <1>10 DEF IInv, FindingsInv
  <2>2. \A k \in DOMAIN findings' : ReviewedOK(findings'[k])
    BY <1>6, <1>7, <1>9 DEF IInv, FindingsInv, ReviewedOK
  <2>3. OneFinding'
    <3> SUFFICES ASSUME NEW j \in DOMAIN findings, NEW k \in DOMAIN findings,
                        findings'[j].model = findings'[k].model,
                        findings'[j].event = findings'[k].event
                 PROVE  j = k
      BY <1>9 DEF OneFinding, IsInjective
    <3>1. findings[j].model = findings[k].model /\ findings[j].event = findings[k].event
      BY <1>10
    <3> QED
      BY <3>1 DEF IInv, FindingsInv, OneFinding, IsInjective
  <2> QED
    BY <1>9, <2>1, <2>2, <2>3 DEF FindingsInv, ReviewedOK
<1>13. UNCHANGED deliveryVars /\ request' = request /\ models' = models /\ evaluations' = evaluations
  BY <1>1 DEF ingestVars, deliveryVars
<1>14. DeliveriesInv' /\ Stored' = Stored /\ now \in Nat /\ now' = now /\ dataStore' = dataStore
  BY <1>13, DeliveriesApart
<1>15. Len(models) \in Nat
  BY LenProperties DEF IInv, ModelsInv
<1>16. Grows
  BY <1>11, <1>13, <1>14, <1>15 DEF Grows
<1>17. ModelsInv'
  BY <1>13, <1>14 DEF IInv, ModelsInv
<1>18. EvaluationsInv' /\ RequestsInv'
  BY <1>13, <1>16, EvaluationsKept, RequestsKept DEF IInv
<1>19. IInv'
  BY <1>12, <1>14, <1>17, <1>18 DEF IInv
<1> QED
  BY <1>3, <1>5, <1>7, <1>9, <1>19

-----------------------------------------------------------------------------
(* The invariant.                                                          *)

\* At first nothing is held, recorded or in progress.
LEMMA InitInv == Init => IInv
<1> SUFFICES ASSUME Init PROVE IInv
  OBVIOUS
<1>1. /\ dataStore \in DataStores /\ now = 0 /\ administration = 0 /\ deliveries = << >>
      /\ integration = [i \in Integrations |-> NoIntegration]
      /\ ingestedAt = [e \in Events |-> Never] /\ indicators = [x \in Indicators |-> 0]
      /\ request = [r \in Requests |-> Idle]
      /\ models = << >> /\ findings = << >> /\ evaluations = {}
  BY DEF Init, IngestInit
<1>2. /\ \A S : << >> \in Seq(S)
      /\ Len(<< >>) = 0 /\ DOMAIN << >> = {} /\ Range(<< >>) = {}
  BY EmptySeq, LenProperties DEF Range
<1>3. Stored = {} /\ Brought = {}
  BY <1>1, <1>2 DEF Stored, Brought
<1>4. IngestTypeOK
  BY <1>1, <1>2, IngestBoundsAssumption DEF IngestTypeOK, NoIntegration
<1>5. DeliveriesInv
  <2>1. IsFiniteSet(Stored)
    BY <1>3, FS_EmptySet
  <2>2. OneDeliveryPerId /\ EventsAreHeld
    BY <1>1, <1>2 DEF OneDeliveryPerId, EventsAreHeld, IsInjective
  <2>3. NewestInv
    BY <1>1, <1>3 DEF NewestInv, Versions
  <2> QED
    BY <1>4, <2>1, <2>2, <2>3 DEF DeliveriesInv
<1>6. ModelsInv /\ FindingsInv /\ EvaluationsInv
  BY <1>1, <1>2 DEF ModelsInv, FindingsInv, OneFinding, IsInjective, EvaluationsInv, EvaluatedWith
<1>7. RequestsInv
  BY <1>1 DEF RequestsInv, RequestOK
<1> QED
  BY <1>5, <1>6, <1>7 DEF IInv

\* Every step keeps the invariant.
LEMMA NextInv == IInv /\ [Next]_vars => IInv'
<1> SUFFICES ASSUME IInv, [Next]_vars PROVE IInv'
  OBVIOUS
<1>1. CASE IngestNext /\ UNCHANGED detectionVars
  BY <1>1, IngestNextInv
<1>2. ASSUME NEW r \in Requests,
             \/ \E threshold \in Thresholds : StartTraining(r, threshold)
             \/ ReadTelemetry(r) \/ NextVersion(r) \/ SaveDetectionModel(r)
      PROVE  IInv'
  BY <1>2, TrainInv, NextVersionInv, SaveModelInv
<1>3. ASSUME NEW r \in Requests,
             \/ GetActiveDetectionModel(r) \/ ListEvaluatedEventIds(r) \/ ReadCandidates(r)
             \/ \E e \in Events : SaveAnomalyFinding(r, e)
             \/ MarkEventsEvaluated(r)
      PROVE  IInv'
  BY <1>3, LookInv, CandidatesInv, SaveFindingInv, MarkInv
<1>4. ASSUME NEW f \in DOMAIN findings, NEW d \in Dispositions, ReviewAnomalyFinding(f, d)
      PROVE  IInv'
  BY <1>4, ReviewInv
<1>5. CASE UNCHANGED vars
  <2>1. UNCHANGED deliveryVars /\ UNCHANGED detectionVars /\ request' = request
    BY <1>5 DEF vars, ingestVars, deliveryVars, detectionVars
  <2>2. DeliveriesInv' /\ Stored' = Stored /\ now \in Nat /\ now' = now /\ dataStore' = dataStore
    BY <2>1, DeliveriesApart
  <2>3. Grows /\ ModelsInv' /\ FindingsInv' /\ EvaluationsInv'
    BY <2>1, <2>2, DetectionApart
  <2>4. RequestsInv'
    BY <2>1, <2>3, RequestsKept DEF IInv
  <2> QED
    BY <2>2, <2>3, <2>4 DEF IInv
<1> QED
  BY <1>1, <1>2, <1>3, <1>4, <1>5 DEF Next

\* The invariant holds in every state of every behaviour.
THEOREM Invariant == Spec => []IInv
BY InitInv, NextInv, PTL DEF Spec

-----------------------------------------------------------------------------
(* The theorems.                                                           *)

\* A delivery is recorded once and whole, for every interleaving of copies
\* of a request: ingestIntegrationDelivery holds all its events and the
\* newest version of every indicator.
THEOREM DeliveriesHeld == Spec => []DeliveriesAreHeld
<1>1. IInv => DeliveriesAreHeld
  <2> SUFFICES ASSUME IInv PROVE NewestAreHeld
    BY DEF DeliveriesAreHeld, IInv, DeliveriesInv
  <2>1. Brought \subseteq ThreatIndicator
    <3>1. ASSUME NEW d \in Range(deliveries) PROVE Range(IndicatorsIn[d.payload]) \subseteq ThreatIndicator
      <4>1. d \in IntegrationDelivery
        BY HeldIsFinite DEF IInv, DeliveriesInv, IngestTypeOK
      <4> QED
        BY <4>1, PayloadTypes DEF IntegrationDelivery
    <3> QED
      BY <3>1 DEF Brought
  <2>2. ASSUME NEW x \in Indicators
        PROVE  indicators[x] = Max({0} \cup Versions(Brought, x))
    <3> DEFINE S == {0} \cup Versions(Brought, x)
    <3>1. S \in SUBSET Nat
      BY <2>1 DEF Versions, ThreatIndicator
    <3>2. indicators[x] \in S /\ indicators[x] \in Nat
      BY DEF IInv, DeliveriesInv, NewestInv, IngestTypeOK
    <3>3. \A v \in S : v <= indicators[x]
      BY <3>2 DEF IInv, DeliveriesInv, NewestInv
    <3> HIDE DEF S
    <3>4. Max(S) = indicators[x]
      BY <3>1, <3>2, <3>3, MaxIs
    <3> QED
      BY <3>4 DEF S
  <2> QED
    BY <2>2 DEF NewestAreHeld
<1> QED
  BY <1>1, Invariant, PTL

\* However trainings overlap, saveDetectionModel leaves versions without
\* gap or repetition, and the last one active.
THEOREM LastModelActive == Spec => []LastModelIsActive
<1>1. IInv => LastModelIsActive
  <2> SUFFICES ASSUME IInv PROVE LastModelIsActive
    OBVIOUS
  <2>1. \A f \in Range(findings) : f.model \in DOMAIN models
    BY DEF IInv, FindingsInv, Range
  <2>2. TypeOK
    BY <2>1 DEF TypeOK, IInv, ModelsInv, FindingsInv, EvaluationsInv
  <2>3. /\ Len(models) \in Nat /\ DOMAIN models = 1..Len(models)
        /\ \A m \in DOMAIN models : models[m].version = m
        /\ \A m \in DOMAIN models : models[m].status = "active" <=> m = Len(models)
    BY LenProperties DEF IInv, ModelsInv
  <2>4. Active = {Len(models)} \ {0}
    BY <2>3 DEF Active
  <2> QED
    BY <2>2, <2>3, <2>4 DEF LastModelIsActive
<1> QED
  BY <1>1, Invariant, PTL

\* However evaluations overlap or repeat, saveAnomalyFinding leaves one
\* finding of an event and a model.
THEOREM OneFindingEach == Spec => []OneFinding
<1>1. IInv => OneFinding
  BY DEF IInv, FindingsInv
<1> QED
  BY <1>1, Invariant, PTL

\* Wherever an evaluation fails, no event that it had to flag is marked as
\* evaluated without its finding.
THEOREM EvaluatedFlagged == Spec => []EvaluatedMeansFlagged
<1>1. IInv => EvaluatedMeansFlagged
  BY DEF IInv, EvaluationsInv, EvaluatedMeansFlagged, MustFlag, Quiet
<1> QED
  BY <1>1, Invariant, PTL

\* A sequence is a prefix of itself and of what is appended to it.
LEMMA PrefixOfAppend ==
  ASSUME NEW S, NEW s \in Seq(S), NEW x \in S
  PROVE  IsPrefix(s, s) /\ IsPrefix(s, Append(s, x))
<1> DEFINE n == Len(s)
           t == Append(s, x)
<1>1. n \in Nat /\ Len(t) = n + 1 /\ \A i \in 1..n : t[i] = s[i] /\ s[i] \in S
  BY AppendProperties, LenProperties, ElementOfSeq
<1>2. SubSeq(s, 1, n) = s
  BY SubSeqFull
<1> HIDE DEF n, t
<1>3. /\ SubSeq(t, 1, n) \in Seq(S) /\ Len(SubSeq(t, 1, n)) = n
      /\ \A i \in 1..n : SubSeq(t, 1, n)[i] = t[i]
  <2>1. \A i \in 1..n : t[i] \in S
    BY <1>1
  <2>2. /\ SubSeq(t, 1, n) \in Seq(S)
        /\ Len(SubSeq(t, 1, n)) = IF 1 <= n THEN n - 1 + 1 ELSE 0
        /\ \A i \in 1..(n - 1 + 1) : SubSeq(t, 1, n)[i] = t[1 + i - 1]
    BY <1>1, <2>1, SubSeqProperties
  <2> QED
    BY <1>1, <2>2
<1>4. SubSeq(t, 1, n) = s
  <2>1. Len(s) = n
    BY DEF n
  <2> QED
    BY <1>1, <1>3, <2>1, SeqEqual
<1> QED
  BY <1>1, <1>2, <1>4 DEF IsPrefix, n, t

\* A step leaves every finding as it is, but for a review that is added.
LEMMA FindingsGrow ==
  ASSUME IInv, [Next]_vars, NEW f \in DOMAIN findings
  PROVE  /\ f \in DOMAIN findings'
         /\ \/ findings'[f].reviews = findings[f].reviews
            \/ \E d \in Dispositions : findings'[f].reviews = Append(findings[f].reviews, d)
<1>1. CASE findings' = findings
  BY <1>1
<1>2. ASSUME NEW r \in Requests, NEW e \in Events, SaveAnomalyFinding(r, e), findings' # findings
      PROVE  f \in DOMAIN findings' /\ findings'[f].reviews = findings[f].reviews
  <2>1. PICK g : findings' = Append(findings, g)
    BY <1>2 DEF SaveAnomalyFinding
  <2>2. findings \in Seq(AnomalyFinding)
    BY DEF IInv, FindingsInv
  <2>3. findings \in Seq(AnomalyFinding \cup {g})
    BY <2>2
  <2>4. /\ DOMAIN findings' = 1..(Len(findings) + 1) /\ DOMAIN findings = 1..Len(findings)
        /\ Len(findings) \in Nat
        /\ \A k \in 1..Len(findings) : findings'[k] = findings[k]
    BY <2>1, <2>3, RangeOfAppend
  <2> QED
    BY <2>4
<1>3. ASSUME NEW k \in DOMAIN findings, NEW d \in Dispositions, ReviewAnomalyFinding(k, d)
      PROVE  /\ f \in DOMAIN findings'
             /\ \/ findings'[f].reviews = findings[f].reviews
                \/ \E x \in Dispositions : findings'[f].reviews = Append(findings[f].reviews, x)
  BY <1>3, ReviewInv
<1>4. \/ findings' = findings
      \/ \E r \in Requests, e \in Events : SaveAnomalyFinding(r, e)
      \/ \E k \in DOMAIN findings, d \in Dispositions : ReviewAnomalyFinding(k, d)
  BY DEF Next, vars, detectionVars, StartTraining, ReadTelemetry, NextVersion,
         SaveDetectionModel, GetActiveDetectionModel, ListEvaluatedEventIds, ReadCandidates,
         MarkEventsEvaluated
<1> QED
  BY <1>1, <1>2, <1>3, <1>4

\* No step takes a review or the disposition it gave from a finding:
\* saveAnomalyFinding never writes over one that was reviewed.
THEOREM ReviewsKept == Spec => ReviewsSurvive
<1> DEFINE Survive ==
      \A f \in DOMAIN findings :
        /\ f \in DOMAIN findings'
        /\ IsPrefix(findings[f].reviews, findings'[f].reviews)
        /\ findings'[f].disposition =
             IF findings'[f].reviews = << >> THEN "new" ELSE Last(findings'[f].reviews)
<1>1. IInv /\ [Next]_vars => [Survive]_vars
  <2> SUFFICES ASSUME IInv, [Next]_vars, NEW f \in DOMAIN findings
               PROVE  /\ f \in DOMAIN findings'
                      /\ IsPrefix(findings[f].reviews, findings'[f].reviews)
                      /\ findings'[f].disposition =
                           IF findings'[f].reviews = << >> THEN "new" ELSE Last(findings'[f].reviews)
    OBVIOUS
  <2>1. /\ f \in DOMAIN findings'
        /\ \/ findings'[f].reviews = findings[f].reviews
           \/ \E d \in Dispositions : findings'[f].reviews = Append(findings[f].reviews, d)
    BY FindingsGrow
  <2>2. findings[f].reviews \in Seq(Dispositions)
    <3>1. findings[f] \in AnomalyFinding
      BY LenProperties, ElementOfSeq DEF IInv, FindingsInv
    <3> QED
      BY <3>1 DEF AnomalyFinding
  <2>3. IsPrefix(findings[f].reviews, findings'[f].reviews)
    <3>1. CASE findings'[f].reviews = findings[f].reviews
      <4>1. IsPrefix(findings[f].reviews, findings[f].reviews)
        BY <2>2 DEF IsPrefix
      <4> QED
        BY <3>1, <4>1
    <3>2. ASSUME NEW d \in Dispositions, findings'[f].reviews = Append(findings[f].reviews, d)
          PROVE  IsPrefix(findings[f].reviews, findings'[f].reviews)
      BY <2>2, <3>2, PrefixOfAppend
    <3> QED
      BY <2>1, <3>1, <3>2
  <2>4. ReviewedOK(findings'[f])
    BY <2>1, NextInv DEF IInv, FindingsInv, ReviewedOK
  <2> QED
    BY <2>1, <2>3, <2>4 DEF ReviewedOK
<1> QED
  BY <1>1, Invariant, PTL DEF Spec, ReviewsSurvive
=============================================================================
