----------------------------- MODULE AnomalyScore -----------------------------
(***************************************************************************)
(* explainable_frequency_baseline_v1: the score a security event gets from *)
(* a baseline of earlier events.  A baseline is the set of the events a    *)
(* model was trained on, its features are functions of that set.  Medians  *)
(* are kept in halves and quarters, and the factors in whole points, so    *)
(* that every rounding of the code is one of integers; a half rounds up,   *)
(* as Math.round does.                                                     *)
(***************************************************************************)
EXTENDS Integers, FiniteSets, FiniteSetsExt

\* The part of a normalized security event that a model looks at.
Severities == {"informational", "low", "medium", "high", "critical"}
SecurityEvent(Types, Assets, Hours) ==
  [source : {"siem", "edr"}, eventType : Types, severity : Severities,
   assets : SUBSET Assets, observedAt : Nat, hour : Hours]

SeverityScore == [informational |-> 5, low |-> 15, medium |-> 35, high |-> 70, critical |-> 100]

\* 100 n / d, rounded and clamped to 0 .. 100.
Percent(n, d) == IF n <= 0 THEN 0 ELSE IF n >= d THEN 100 ELSE (200 * n + d) \div (2 * d)

-----------------------------------------------------------------------------
(* Features.                                                               *)

\* How many of the events fall in each hour that has one.
HourlyCounts(events) ==
  [h \in {e.hour : e \in events} |-> Cardinality({e \in events : e.hour = h})]

\* The k-th smallest value of a function, counting repetitions.
Nth(f, k) ==
  CHOOSE v \in {f[x] : x \in DOMAIN f} :
    /\ Cardinality({x \in DOMAIN f : f[x] < v}) < k
    /\ Cardinality({x \in DOMAIN f : f[x] <= v}) >= k

\* Twice the median of the values of a function; 0 for no values.
TwiceMedian(f) ==
  LET n == Cardinality(DOMAIN f)
  IN  IF n = 0 THEN 0
      ELSE IF n % 2 = 0 THEN Nth(f, n \div 2) + Nth(f, n \div 2 + 1)
      ELSE 2 * Nth(f, n \div 2 + 1)

TwiceVolumeMedian(baseline) == TwiceMedian(HourlyCounts(baseline))

\* Four times the median absolute deviation of the hourly volume.
FourVolumeMads(baseline) ==
  LET volumes == HourlyCounts(baseline)
      Deviation(h) == LET d == 2 * volumes[h] - TwiceMedian(volumes) IN IF d < 0 THEN -d ELSE d
  IN  TwiceMedian([h \in DOMAIN volumes |-> Deviation(h)])

KnownAssets(baseline) == UNION {e.assets : e \in baseline}

-----------------------------------------------------------------------------
(* Factors.                                                                *)

Rarity(baseline, event) ==
  Percent(Cardinality({e \in baseline : e.eventType # event.eventType}), Cardinality(baseline))

Novelty(baseline, event) ==
  IF event.assets = {} THEN 0
  ELSE Percent(Cardinality(event.assets \ KnownAssets(baseline)), Cardinality(event.assets))

\* The volume of the event's hour above the median, in four dispersions of
\* 1.4826 deviations, of at least one event.
VolumeDeviation(baseline, hourCount) ==
  Percent((2 * hourCount - TwiceVolumeMedian(baseline)) * 5000,
          Max({40000, 14826 * FourVolumeMads(baseline)}))

\* The batch is the candidates evaluated together: it sets the volume.
AnomalyScore(baseline, batch, event) ==
  (35 * Rarity(baseline, event) + 25 * SeverityScore[event.severity]
     + 25 * Novelty(baseline, event)
     + 15 * VolumeDeviation(baseline, HourlyCounts(batch)[event.hour]) + 50) \div 100

FindingLevel(score) ==
  IF score >= 90 THEN "critical" ELSE IF score >= 75 THEN "high"
  ELSE IF score >= 60 THEN "medium" ELSE "low"
=============================================================================
