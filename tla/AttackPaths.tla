------------------------------ MODULE AttackPaths ------------------------------
(***************************************************************************)
(* The risk engine as operators: the attack paths from entry assets to the *)
(* assets of critical services, their scores, and the blast radius.        *)
(*                                                                         *)
(* An inventory inv is what an analysis reads:                             *)
(*   assets           criticality, by asset                                *)
(*   dependencies     a sequence of [source, target, relationship,         *)
(*                    critical]                                            *)
(*   vulnerabilities  a set of [asset, cvss, exploit, status], the CVSS    *)
(*                    score in tenths                                      *)
(*   services         a set of [name, criticality, downtime, assets], the  *)
(*                    tolerable downtime in minutes                        *)
(*   events           a set of [type, severity, assets]                    *)
(***************************************************************************)
EXTENDS Integers, Sequences, FiniteSets, SequencesExt

CONSTANTS
  PathLimit,     \* service-reaching paths: 100
  ExamineLimit   \* examined paths: 10,000

ASSUME LimitAssumption == PathLimit \in Nat \ {0} /\ ExamineLimit \in Nat \ {0}

criticalityScore == [low |-> 25, medium |-> 50, high |-> 75, critical |-> 100]
eventSeverityScore == [informational |-> 0, low |-> 5, medium |-> 12, high |-> 20, critical |-> 25]
exploitScore == [none_known |-> 0, proof_of_concept |-> 10, active_exploitation |-> 25]

mitreMappings ==
  [T0886 |-> {"lateral_movement", "remote_services"},
   T0866 |-> {"remote_service_exploit", "exploitation_of_remote_services"},
   T0863 |-> {"user_execution", "phishing"},
   T0822 |-> {"external_remote_access", "external_remote_services"},
   T0814 |-> {"denial_of_service"}, T1692_001 |-> {"unauthorized_command"}]

\* Math.round(x * n / 100), Math.max(0, ...values) and Math.min(100, x).
Share(x, n) == (x * n + 50) \div 100
Highest(values) == Max({0} \cup values)
AtMost100(x) == Min({100, x})

-----------------------------------------------------------------------------
(* Traversal.                                                              *)

\* The elements of a sequence that are of a set, in order.
Only(seq, S) == FlattenSeq([k \in DOMAIN seq |-> IF seq[k] \in S THEN <<seq[k]>> ELSE << >>])

\* From the end of a path the dependencies lead on to assets that are not on it.
Onward(inv, path) ==
  {d \in Range(inv.dependencies) : d.source = Last(path.assetIds) /\ d.target \notin Range(path.assetIds)}

Along(path, d) ==
  [assetIds |-> Append(path.assetIds, d.target), dependencies |-> Append(path.dependencies, d)]

\* The paths that a path is extended to, in the order of the dependencies.
Extensions(inv, path) ==
  LET out == Only(inv.dependencies, Onward(inv, path))
  IN  [k \in DOMAIN out |-> Along(path, out[k])]

\* The queue of an entry asset is first in, first out: it yields the paths of
\* no dependency, then those of one, and so on up to maxDepth.
Level(inv, entry, depth) ==
  LET level[n \in 0 .. depth] ==
        IF n = 0 THEN <<[assetIds |-> <<entry>>, dependencies |-> << >>]>>
        ELSE LET paths == level[n - 1]
             IN  FlattenSeq([k \in DOMAIN paths |-> Extensions(inv, paths[k])])
  IN  level[depth]

\* Slip: an asset some path has visited is not visited again.
Queue_VisitsOnce(inv, entry, maxDepth) ==
  LET all == FlattenSeq([n \in 1 .. maxDepth + 1 |-> Level(inv, entry, n - 1)])
      first == {k \in DOMAIN all : \A i \in 1 .. k - 1 : Last(all[i].assetIds) # Last(all[k].assetIds)}
  IN  [k \in 1 .. Cardinality(first) |-> all[SetToSortSeq(first, <)[k]]]

Queue(inv, entry, maxDepth) ==
  FlattenSeq([n \in 1 .. maxDepth + 1 |-> Level(inv, entry, n - 1)])

ServicesAt(inv, a) == {s \in inv.services : a \in s.assets}
ReachesService(inv, path) == ServicesAt(inv, Last(path.assetIds)) # {}

\* The entries one after the other, until either limit is reached.
Examined(inv, entryAssetIds, maxDepth) ==
  LET order == FlattenSeq([k \in DOMAIN entryAssetIds |-> Queue(inv, entryAssetIds[k], maxDepth)])
      Traversed(k) == Cardinality({i \in 1 .. k : ReachesService(inv, order[i])})
      last == Max({0} \cup {k \in DOMAIN order : k <= ExamineLimit /\ Traversed(k - 1) < PathLimit})
  IN  SubSeq(order, 1, last)

-----------------------------------------------------------------------------
(* Scores.                                                                 *)

OpenVulnerabilities(inv, path) ==
  {v \in inv.vulnerabilities : v.status = "open" /\ v.asset \in Range(path.assetIds)}

\* Slip: the average of the scores.
VulnerabilityContribution_Average(open) ==
  IF open = {} THEN 0 ELSE Share(FoldSet(LAMBDA v, sum : v.cvss + sum, 0, open) \div Cardinality(open), 35)

VulnerabilityContribution(open) == Share(Highest({v.cvss : v \in open}), 35)

\* Events name assets that need not be in the inventory.
LikelihoodSum(inv, path) ==
  LET open == OpenVulnerabilities(inv, path)
      relevant == {e \in inv.events :
                     e.assets \cap Range(path.assetIds) \cap DOMAIN inv.assets # {}}
  IN  15 + VulnerabilityContribution(open)
        + Highest({exploitScore[v.exploit] : v \in open})
        + Highest({eventSeverityScore[e.severity] : e \in relevant})
        + (IF \E d \in Range(path.dependencies) : d.critical THEN 10 ELSE 0)

LikelihoodScore(inv, path) == AtMost100(LikelihoodSum(inv, path))

ImpactScore(inv, path) ==
  LET target == ServicesAt(inv, Last(path.assetIds))
      known == Range(path.assetIds) \cap DOMAIN inv.assets
      downtime == {s.downtime : s \in target}
  IN  AtMost100(Share(Highest({criticalityScore[s.criticality] : s \in target}), 65)
                + Share(Highest({criticalityScore[inv.assets[a]] : a \in known}), 25)
                + (IF \E m \in downtime : m <= 60 THEN 10
                   ELSE IF \E m \in downtime : m <= 240 THEN 5 ELSE 0))

RiskScore(inv, path) == Share(LikelihoodScore(inv, path), ImpactScore(inv, path))

RiskLevel(riskScore) ==
  IF riskScore >= 75 THEN "critical" ELSE IF riskScore >= 50 THEN "high"
  ELSE IF riskScore >= 25 THEN "medium" ELSE "low"

ScorePath(inv, path) ==
  LET riskScore == RiskScore(inv, path)
  IN  [assetIds |-> path.assetIds, dependencies |-> path.dependencies,
       targetServiceIds |-> {s.name : s \in ServicesAt(inv, Last(path.assetIds))},
       likelihoodScore |-> LikelihoodScore(inv, path), impactScore |-> ImpactScore(inv, path),
       riskScore |-> riskScore, riskLevel |-> RiskLevel(riskScore)]

-----------------------------------------------------------------------------
(* The analysis.                                                           *)

\* The highest risk first, then the shortest path, then in the order found.
Sorted(paths) ==
  LET Before(i, j) == \/ paths[i].riskScore > paths[j].riskScore
                      \/ /\ paths[i].riskScore = paths[j].riskScore
                         /\ \/ Len(paths[i].assetIds) < Len(paths[j].assetIds)
                            \/ Len(paths[i].assetIds) = Len(paths[j].assetIds) /\ i < j
      ahead(i) == {j \in DOMAIN paths : Before(j, i)}
  IN  [k \in DOMAIN paths |-> paths[CHOOSE i \in DOMAIN paths : Cardinality(ahead(i)) = k - 1]]

countCriticality(inv, reachable) ==
  [c \in DOMAIN criticalityScore |->
     Cardinality({a \in reachable \cap DOMAIN inv.assets : inv.assets[a] = c})]

mapMitre(inv, reachable) ==
  {t \in DOMAIN mitreMappings : \E e \in inv.events :
     /\ e.type \in mitreMappings[t]
     /\ e.assets \cap reachable \cap DOMAIN inv.assets # {}}

analyzeAttackPaths(inv, entryAssetIds, maxDepth) ==
  LET examined == Examined(inv, entryAssetIds, maxDepth)
      traversed == Only(examined, {path \in Range(examined) : ReachesService(inv, path)})
      reachable == {Last(path.assetIds) : path \in Range(examined)}
  IN  [entryAssetIds |-> entryAssetIds, maxDepth |-> maxDepth,
       paths |-> Sorted([k \in DOMAIN traversed |-> ScorePath(inv, traversed[k])]),
       reachableAssetIds |-> reachable,
       criticalServiceIds |-> {s.name : s \in {s \in inv.services : s.assets \cap reachable # {}}},
       assetsByCriticality |-> countCriticality(inv, reachable),
       mitreTechniques |-> mapMitre(inv, reachable),
       incomplete |-> Len(examined) >= ExamineLimit]

-----------------------------------------------------------------------------
(* What the traversal is to find, said without it.                         *)

\* The assets at most depth dependencies away from the entries.
Within(dependencies, entries, depth) ==
  LET near[n \in 0 .. depth] ==
        IF n = 0 THEN entries
        ELSE near[n - 1] \cup {d.target : d \in {d \in Range(dependencies) : d.source \in near[n - 1]}}
  IN  near[depth]

\* The way from an entry along some dependencies.
Route(entry, along) ==
  [assetIds |-> <<entry>> \o [k \in DOMAIN along |-> along[k].target], dependencies |-> along]

\* The routes along dependencies that each start where the one before ended, past
\* different assets, from an entry to an asset of a service.
AttackPathsIn(inv, entries, maxDepth) ==
  LET chains == UNION {[1 .. n -> Range(inv.dependencies)] : n \in 0 .. maxDepth}
  IN  {p \in {Route(entry, along) : entry \in entries, along \in chains} :
         /\ IsInjective(p.assetIds)
         /\ \A k \in DOMAIN p.dependencies : p.dependencies[k].source = p.assetIds[k]
         /\ ServicesAt(inv, Last(p.assetIds)) # {}}
=============================================================================
