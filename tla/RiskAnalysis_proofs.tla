-------------------------- MODULE RiskAnalysis_proofs --------------------------
(****************************************************************************)
(* Proofs about the inventory and the risk engine, for any assets, stores,  *)
(* requests, files and limits: the inventory stays a proper one, an asset   *)
(* keeps the criticality last entered, no score is above 100, more or worse *)
(* threats never lower a risk, an analysis has exactly the attack paths of  *)
(* what it read, and its blast radius is real however its reads fall        *)
(* between the writes of others.                                            *)
(****************************************************************************)
EXTENDS RiskAnalysis, SequenceTheorems, FiniteSetTheorems, WellFoundedInduction, TLAPS

-----------------------------------------------------------------------------
(* The inductive invariant.                                                *)

\* What an enrichment writes back is what was last entered unless the asset was
\* written under it, or had been overtaken when it was read.
EnrichmentOK(q) ==
  /\ q \in [op : {"enrich"}, asset : Assets, lifecycle : Lifecycles,
            criticality : DOMAIN criticalityScore, overlapped : BOOLEAN]
  /\ q.asset \in DOMAIN assets
  /\ q.overlapped \/ q.criticality = written[q.asset] \/ q.asset \in overtaken

\* In memory one request at most is on its way, and nothing overlaps it.
AloneOK ==
  dataStore = "memory" =>
    /\ overtaken = {}
    /\ \A r, s \in Requests : requests[r] # Idle /\ requests[s] # Idle => r = s
    /\ \A r \in Requests : requests[r].op = "enrich" => ~requests[r].overlapped

\* What the scores are computed from: of each list, whatever the others are.
Scored(inv) ==
  /\ \A a \in DOMAIN inv.assets : inv.assets[a] \in DOMAIN criticalityScore
  /\ \A v \in inv.vulnerabilities : Assessed(v)
  /\ \A s \in inv.services : s.criticality \in DOMAIN criticalityScore
  /\ \A e \in inv.events : e.severity \in DOMAIN eventSeverityScore

\* An analysis has read of each list nothing or what was stored at some time.
AnalysisOK(q) ==
  /\ {"op", "unread", "inventory"} \subseteq DOMAIN q
  /\ DOMAIN q.inventory = Lists
  /\ Scored(q.inventory)

RequestsOK ==
  /\ requests = [r \in Requests |-> requests[r]]
  /\ \A r \in Requests : requests[r].op = "enrich" => EnrichmentOK(requests[r])
  /\ \A r \in Requests : requests[r].op = "analyze" => AnalysisOK(requests[r])

WrittenOK ==
  /\ DOMAIN written = DOMAIN assets
  /\ \A a \in DOMAIN assets : assets[a].criticality = written[a] \/ a \in overtaken

IInv == RiskTypeOK /\ RequestsOK /\ WrittenOK /\ AloneOK

-----------------------------------------------------------------------------
(* Numbers and recursion.                                                  *)

\* A set of numbers has a least element.
LEMMA LeastElement ==
  ASSUME NEW S \in SUBSET Nat, S # {}
  PROVE  \E n \in S : \A k \in S : n <= k
<1> DEFINE R == OpToRel(<, Nat)
<1>1. PICK n \in S : \A k \in S : ~(<<k, n>> \in R)
  <2> HIDE DEF R
  <2> QED BY NatLessThanWellFounded, WFMin DEF R
<1>2. \A k \in S : ~(k < n)
  BY <1>1 DEF OpToRel
<1> QED BY <1>2

\* What holds of 0 and, with a number, of the next holds of every number.
LEMMA EveryNumber ==
  ASSUME NEW T \in SUBSET Nat, 0 \in T, \A n \in T : n + 1 \in T
  PROVE  T = Nat
<1> SUFFICES ASSUME Nat \ T # {} PROVE FALSE
  OBVIOUS
<1>1. PICK n \in Nat \ T : \A k \in Nat \ T : n <= k
  BY LeastElement
<1>2. n - 1 \in Nat
  OBVIOUS
<1>3. n - 1 \in T
  BY <1>1, <1>2
<1> QED BY <1>3

\* A set of numbers with a bound has a greatest one, its Max.
LEMMA MaxIs ==
  ASSUME NEW b \in Nat, NEW K \in SUBSET (0 .. b), K # {}
  PROVE  Max(K) \in K /\ \A k \in K : k <= Max(K)
<1>1. PICK T : T = {b - k : k \in K}
  OBVIOUS
<1>0. T \in SUBSET Nat /\ T # {}
  <2>1. \A k \in K : b - k \in Nat
    OBVIOUS
  <2> QED BY <1>1, <2>1
<1>2. PICK t \in T : \A u \in T : t <= u
  BY <1>0, LeastElement
<1>3. PICK m \in K : t = b - m
  BY <1>1, <1>2
<1>4. \A k \in K : m >= k
  BY <1>1, <1>2, <1>3
<1>5. Max(K) \in K /\ \A k \in K : Max(K) >= k
  BY <1>4 DEF Max
<1> QED BY <1>5

\* A function on numbers is determined by its first value and by the step from
\* one value to the next, and there is one.
Follows(f, base, step) == f[0] = base /\ \A k \in Nat : f[k + 1] = step[<<k + 1, f[k]>>]
Iterates(g, n, base, step) == g[0] = base /\ \A k \in 1 .. n : g[k] = step[<<k, g[k - 1]>>]

\* Two such functions agree as far as both go.
LEMMA IterationUnique ==
  ASSUME NEW n \in Nat, NEW m \in Nat, n <= m, NEW base, NEW step, NEW g, NEW h,
         Iterates(g, n, base, step), Iterates(h, m, base, step)
  PROVE  \A k \in 0 .. n : g[k] = h[k]
<1> DEFINE T == {k \in Nat : k <= n => g[k] = h[k]}
<1>1. 0 \in T
  BY DEF Iterates
<1>2. ASSUME NEW k \in T PROVE k + 1 \in T
  <2> SUFFICES ASSUME k + 1 <= n PROVE g[k + 1] = h[k + 1]
    OBVIOUS
  <2>1. k + 1 \in 1 .. n /\ k + 1 \in 1 .. m /\ (k + 1) - 1 = k /\ k <= n
    OBVIOUS
  <2>2. g[k] = h[k]
    BY <2>1
  <2>3. g[k + 1] = step[<<k + 1, g[k]>>] /\ h[k + 1] = step[<<k + 1, h[k]>>]
    BY <2>1 DEF Iterates
  <2> QED BY <2>2, <2>3
<1>3. T = Nat
  <2>1. T \in SUBSET Nat
    OBVIOUS
  <2> HIDE DEF T
  <2> QED BY <1>1, <1>2, <2>1, EveryNumber
<1> QED BY <1>3

\* It takes its values where the step does.
LEMMA Iteration ==
  ASSUME NEW S, NEW base \in S, NEW step \in [(Nat \X S) -> S]
  PROVE  \E f \in [Nat -> S] : Follows(f, base, step)
<1> DEFINE Of(n) == {g \in [0 .. n -> S] : Iterates(g, n, base, step)}
           T == {n \in Nat : Of(n) # {}}
<1>1. 0 \in T
  <2> [i \in 0 .. 0 |-> base] \in Of(0)
    BY DEF Iterates
  <2> QED OBVIOUS
<1>2. ASSUME NEW n \in T PROVE n + 1 \in T
  <2>1. PICK g \in [0 .. n -> S] : Iterates(g, n, base, step)
    OBVIOUS
  <2>2. PICK h : h = [i \in 0 .. (n + 1) |-> IF i <= n THEN g[i] ELSE step[<<n + 1, g[n]>>]]
    OBVIOUS
  <2>3. g[n] \in S /\ <<n + 1, g[n]>> \in Nat \X S
    BY <2>1
  <2>4. h \in [0 .. (n + 1) -> S]
    <3>1. \A i \in 0 .. (n + 1) : h[i] \in S
      BY <2>1, <2>2, <2>3
    <3> QED BY <2>2, <3>1
  <2>5. Iterates(h, n + 1, base, step)
    <3>1. h[0] = base
      BY <2>1, <2>2 DEF Iterates
    <3>2. ASSUME NEW k \in 1 .. (n + 1) PROVE h[k] = step[<<k, h[k - 1]>>]
      <4>1. h[k - 1] = g[k - 1]
        BY <2>2
      <4>2. CASE k <= n
        BY <2>1, <2>2, <4>1, <4>2 DEF Iterates
      <4>3. CASE k = n + 1
        <5>1. k - 1 = n
          BY <4>3
        <5>2. n + 1 \in 0 .. (n + 1) /\ ~(n + 1 <= n)
          OBVIOUS
        <5>3. h[n + 1] = step[<<n + 1, g[n]>>]
          BY <2>2, <5>2
        <5>4. h[k - 1] = g[n]
          BY <4>1, <5>1
        <5> QED BY <4>3, <5>3, <5>4
      <4> QED BY <4>2, <4>3
    <3> QED BY <3>1, <3>2 DEF Iterates
  <2>6. h \in Of(n + 1)
    BY <2>4, <2>5
  <2> QED BY <2>6
<1>3. T = Nat
  <2>1. T \in SUBSET Nat
    OBVIOUS
  <2> HIDE DEF T
  <2> QED BY <1>1, <1>2, <2>1, EveryNumber
<1> DEFINE c == [n \in Nat |-> CHOOSE g \in [0 .. n -> S] : Iterates(g, n, base, step)]
           f == [n \in Nat |-> c[n][n]]
<1>4. \A n \in Nat : c[n] \in [0 .. n -> S] /\ Iterates(c[n], n, base, step)
  BY <1>3
<1> HIDE DEF c
<1>5. f \in [Nat -> S]
  BY <1>4
<1>6. f[0] = base
  BY <1>4 DEF Iterates
<1>7. ASSUME NEW k \in Nat PROVE f[k + 1] = step[<<k + 1, f[k]>>]
  <2>1. \A i \in 0 .. k : c[k][i] = c[k + 1][i]
    <3>1. k <= k + 1 /\ k + 1 \in Nat
      OBVIOUS
    <3> QED BY <1>4, <3>1, IterationUnique
  <2>2. c[k + 1][k + 1] = step[<<k + 1, c[k + 1][k]>>]
    BY <1>4 DEF Iterates
  <2> QED BY <2>1, <2>2
<1> HIDE DEF f
<1> QED BY <1>5, <1>6, <1>7 DEF Follows

-----------------------------------------------------------------------------
(* Scores.                                                                 *)

\* The highest of values between 0 and 100 is one of them, or 0 if there is none.
LEMMA HighestIs ==
  ASSUME NEW V \in SUBSET (0 .. 100)
  PROVE  /\ Highest(V) \in 0 .. 100
         /\ \A x \in V : x <= Highest(V)
         /\ Highest(V) \in {0} \cup V
<1>1. PICK S : S = {0} \cup V
  OBVIOUS
<1>2. Max(S) \in S /\ \A x \in S : x <= Max(S)
  <2>1. S \in SUBSET (0 .. 100) /\ S # {}
    BY <1>1
  <2>2. PICK b \in Nat : b = 100
    OBVIOUS
  <2> QED BY <2>1, <2>2, MaxIs
<1>3. Highest(V) = Max(S)
  BY <1>1 DEF Highest
<1>4. S \subseteq 0 .. 100
  BY <1>1
<1> QED BY <1>1, <1>2, <1>3, <1>4

\* If each value is exceeded or met, so is the highest.
LEMMA HighestGrows ==
  ASSUME NEW V \in SUBSET (0 .. 100), NEW W \in SUBSET (0 .. 100), \A x \in V : \E y \in W : x <= y
  PROVE  Highest(V) <= Highest(W)
<1>1. /\ Highest(V) \in {0} \cup V /\ Highest(V) \in 0 .. 100
      /\ Highest(W) \in 0 .. 100 /\ \A y \in W : y <= Highest(W)
  BY HighestIs
<1>2. CASE Highest(V) = 0
  BY <1>1, <1>2
<1>3. CASE Highest(V) \in V
  <2>1. PICK y \in W : Highest(V) <= y
    BY <1>3
  <2> QED BY <1>1, <2>1
<1> QED BY <1>1, <1>2, <1>3

\* A share of a percentage is one.
LEMMA ShareIs ==
  ASSUME NEW x \in 0 .. 100, NEW n \in 0 .. 100
  PROVE  Share(x, n) \in 0 .. 100
<1>1. x * n \in 0 .. 10000
  OBVIOUS
<1>2. PICK a \in 0 .. 10000 : a = x * n
  BY <1>1
<1>3. (a + 50) \div 100 \in Nat
  OBVIOUS
<1>4. (a + 50) \div 100 <= 100
  OBVIOUS
<1>5. (a + 50) \div 100 \in 0 .. 100
  BY <1>3, <1>4
<1> QED BY <1>2, <1>5 DEF Share

\* A share of more is no less.
LEMMA ShareGrows ==
  ASSUME NEW x \in 0 .. 100, NEW y \in 0 .. 100, NEW n \in 0 .. 100, x <= y
  PROVE  Share(x, n) <= Share(y, n)
<1>1. x * n \in 0 .. 10000 /\ y * n \in 0 .. 10000 /\ x * n <= y * n
  OBVIOUS
<1>2. PICK a \in 0 .. 10000 : a = x * n
  BY <1>1
<1>3. PICK b \in 0 .. 10000 : b = y * n
  BY <1>1
<1>4. a <= b
  BY <1>1, <1>2, <1>3
<1>5. (a + 50) \div 100 <= (b + 50) \div 100
  BY <1>4
<1> QED BY <1>2, <1>3, <1>5 DEF Share

\* The cap of a score, and that it keeps the order.
LEMMA CapGrows ==
  ASSUME NEW x \in Nat, NEW y \in Nat
  PROVE  AtMost100(x) \in 0 .. 100 /\ (x <= y => AtMost100(x) <= AtMost100(y))
<1>1. \A z \in Nat : AtMost100(z) = IF z <= 100 THEN z ELSE 100
  <2> SUFFICES ASSUME NEW z \in Nat PROVE AtMost100(z) = IF z <= 100 THEN z ELSE 100
    OBVIOUS
  <2>1. \E m \in {100, z} : \A u \in {100, z} : m <= u
    OBVIOUS
  <2>2. Min({100, z}) \in {100, z} /\ \A u \in {100, z} : Min({100, z}) <= u
    BY <2>1 DEF Min
  <2> QED BY <2>2 DEF AtMost100
<1> QED BY <1>1

\* The likelihood is a sum of four parts that each have a highest value.
LEMMA LikelihoodParts ==
  ASSUME NEW inv, Scored(inv), NEW path
  PROVE  /\ {v.cvss : v \in OpenVulnerabilities(inv, path)} \in SUBSET (0 .. 100)
         /\ {exploitScore[v.exploit] : v \in OpenVulnerabilities(inv, path)} \in SUBSET (0 .. 100)
         /\ {eventSeverityScore[e.severity] :
              e \in {e \in inv.events : e.assets \cap Range(path.assetIds) \cap DOMAIN inv.assets # {}}} \in SUBSET (0 .. 100)
         /\ VulnerabilityContribution(OpenVulnerabilities(inv, path)) \in 0 .. 100
         /\ LikelihoodSum(inv, path) \in Nat
<1> DEFINE open == OpenVulnerabilities(inv, path)
           relevant == {e \in inv.events : e.assets \cap Range(path.assetIds) \cap DOMAIN inv.assets # {}}
<1>1. \A v \in open : v.cvss \in 0 .. 100 /\ exploitScore[v.exploit] \in 0 .. 100
  BY DEF Scored, Assessed, OpenVulnerabilities, exploitScore
<1>2. \A e \in relevant : eventSeverityScore[e.severity] \in 0 .. 100
  BY DEF Scored, eventSeverityScore
<1>3. /\ {v.cvss : v \in open} \in SUBSET (0 .. 100)
      /\ {exploitScore[v.exploit] : v \in open} \in SUBSET (0 .. 100)
      /\ {eventSeverityScore[e.severity] : e \in relevant} \in SUBSET (0 .. 100)
  BY <1>1, <1>2
<1>4. Highest({v.cvss : v \in open}) \in 0 .. 100
  BY <1>3, HighestIs
<1>5. VulnerabilityContribution(open) \in 0 .. 100
  <2>1. VulnerabilityContribution(open) = Share(Highest({v.cvss : v \in open}), 35)
    BY DEF VulnerabilityContribution
  <2>2. PICK n \in 0 .. 100 : n = 35
    OBVIOUS
  <2>3. \A h \in 0 .. 100 : Share(h, n) \in 0 .. 100
    BY ShareIs
  <2> QED BY <1>4, <2>1, <2>2, <2>3
<1>6. Highest({exploitScore[v.exploit] : v \in open}) \in 0 .. 100
  BY <1>3, HighestIs
<1>7. Highest({eventSeverityScore[e.severity] : e \in relevant}) \in 0 .. 100
  BY <1>3, HighestIs
<1>8. LikelihoodSum(inv, path) =
        15 + VulnerabilityContribution(open) + Highest({exploitScore[v.exploit] : v \in open})
           + Highest({eventSeverityScore[e.severity] : e \in relevant})
           + (IF \E d \in Range(path.dependencies) : d.critical THEN 10 ELSE 0)
  BY DEF LikelihoodSum
<1> HIDE DEF open, relevant
<1>9. PICK b \in Nat : b = IF \E d \in Range(path.dependencies) : d.critical THEN 10 ELSE 0
  OBVIOUS
<1>10. LikelihoodSum(inv, path) \in Nat
  <2>1. \A w, x, y \in 0 .. 100 : 15 + w + x + y + b \in Nat
    BY <1>9
  <2> QED BY <1>5, <1>6, <1>7, <1>8, <1>9, <2>1
<1> QED BY <1>3, <1>5, <1>10 DEF open, relevant

\* Whatever the inventory was when each of its lists was read, no score of a
\* path leaves the range the contract of the API states.
LEMMA Percentages ==
  ASSUME NEW inv, Scored(inv), NEW path
  PROVE  /\ LikelihoodScore(inv, path) \in 0 .. 100
         /\ ImpactScore(inv, path) \in 0 .. 100
         /\ RiskScore(inv, path) \in 0 .. 100
<1>1. LikelihoodScore(inv, path) \in 0 .. 100
  BY LikelihoodParts, CapGrows DEF LikelihoodScore
<1>2. ImpactScore(inv, path) \in 0 .. 100
  <2> DEFINE target == ServicesAt(inv, Last(path.assetIds))
             known == Range(path.assetIds) \cap DOMAIN inv.assets
             downtime == {s.downtime : s \in target}
             A == {criticalityScore[s.criticality] : s \in target}
             B == {criticalityScore[inv.assets[a]] : a \in known}
             bonus == IF \E m \in downtime : m <= 60 THEN 10 ELSE IF \E m \in downtime : m <= 240 THEN 5 ELSE 0
  <2>1. A \in SUBSET (0 .. 100) /\ B \in SUBSET (0 .. 100)
    BY DEF Scored, criticalityScore, ServicesAt
  <2>2. bonus \in Nat
    OBVIOUS
  <2>3. ImpactScore(inv, path) = AtMost100(Share(Highest(A), 65) + Share(Highest(B), 25) + bonus)
    BY DEF ImpactScore
  <2> HIDE DEF A, B, bonus
  <2>4. Share(Highest(A), 65) \in 0 .. 100 /\ Share(Highest(B), 25) \in 0 .. 100
    <3>1. Highest(A) \in 0 .. 100 /\ Highest(B) \in 0 .. 100
      BY <2>1, HighestIs
    <3>2. \A h, n \in 0 .. 100 : Share(h, n) \in 0 .. 100
      BY ShareIs
    <3>3. 65 \in 0 .. 100 /\ 25 \in 0 .. 100
      OBVIOUS
    <3> QED BY <3>1, <3>2, <3>3
  <2>5. Share(Highest(A), 65) + Share(Highest(B), 25) + bonus \in Nat
    BY <2>2, <2>4
  <2> QED BY <2>3, <2>5, CapGrows
<1> QED BY <1>1, <1>2, ShareIs DEF RiskScore

-----------------------------------------------------------------------------
(* The inventory.                                                          *)

\* What an inventory is, list by list.
InventoryOK(as, deps, vulns, servs, evs) ==
  /\ \A a \in DOMAIN as : a \in Assets /\ as[a] \in Asset
  /\ deps \in Seq(Dependency)
  /\ \A k \in DOMAIN deps : deps[k].source # deps[k].target /\ {deps[k].source, deps[k].target} \subseteq DOMAIN as
  /\ \A j, k \in DOMAIN deps : SameRelationship(deps[j], deps[k]) => j = k
  /\ \A v \in vulns : Assessed(v) /\ v.asset \in DOMAIN as
  /\ \A v, u \in vulns : v.id = u.id /\ v.asset = u.asset => v = u
  /\ \A s \in servs : s.criticality \in DOMAIN criticalityScore /\ s.assets \subseteq DOMAIN as
  /\ \A s, t \in servs : s.name = t.name => s = t
  /\ \A e \in evs : e.severity \in DOMAIN eventSeverityScore
  /\ \A e, f \in evs : e.id = f.id => e = f

\* It is the same, said of what the stores hold.
LEMMA ProperParts ==
  ASSUME NEW as, NEW deps, NEW vulns, NEW servs, NEW evs
  PROVE  (/\ \A a \in DOMAIN as : as[a] \in Asset
          /\ Proper([assets |-> [a \in DOMAIN as |-> as[a].criticality], dependencies |-> deps,
                     services |-> servs, vulnerabilities |-> vulns, events |-> evs]))
            <=> InventoryOK(as, deps, vulns, servs, evs)
<1> DEFINE inv == [assets |-> [a \in DOMAIN as |-> as[a].criticality], dependencies |-> deps,
                   services |-> servs, vulnerabilities |-> vulns, events |-> evs]
<1>1. /\ inv.dependencies = deps /\ inv.vulnerabilities = vulns
      /\ inv.services = servs /\ inv.events = evs
      /\ DOMAIN inv.assets = DOMAIN as
      /\ \A a \in DOMAIN as : inv.assets[a] = as[a].criticality
  OBVIOUS
<1>2. \A a \in DOMAIN as : as[a] \in Asset => as[a].criticality \in DOMAIN criticalityScore
  BY DEF Asset
<1> HIDE DEF inv
<1>3. (\A d \in Range(inv.dependencies) : d.source # d.target /\ {d.source, d.target} \subseteq DOMAIN inv.assets)
        <=> \A k \in DOMAIN deps : deps[k].source # deps[k].target /\ {deps[k].source, deps[k].target} \subseteq DOMAIN as
  BY <1>1 DEF Range
<1>4. (\A a \in DOMAIN as : as[a] \in Asset) /\ Proper(inv) <=> InventoryOK(as, deps, vulns, servs, evs)
  BY <1>1, <1>2, <1>3 DEF Proper, InventoryOK
<1> QED BY <1>4 DEF inv

\* So it is before and after a step.
LEMMA InventoryIs ==
  /\ RiskTypeOK <=> InventoryOK(assets, dependencies, vulnerabilities, services, events)
  /\ RiskTypeOK' <=> InventoryOK(assets', dependencies', vulnerabilities', services', events')
<1>1. RiskTypeOK <=> InventoryOK(assets, dependencies, vulnerabilities, services, events)
  BY ProperParts DEF RiskTypeOK, Inventory, Criticalities
<1>2. RiskTypeOK' <=> InventoryOK(assets', dependencies', vulnerabilities', services', events')
  BY ProperParts DEF RiskTypeOK, Inventory, Criticalities
<1> QED BY <1>1, <1>2

\* An asset that is entered makes the inventory no less proper, and what was
\* entered last is what it has.
LEMMA EnterOK ==
  ASSUME RiskTypeOK, WrittenOK, NEW a \in Assets, NEW c \in DOMAIN criticalityScore, Enter(a, c)
  PROVE  /\ RiskTypeOK' /\ WrittenOK'
         /\ DOMAIN assets \subseteq DOMAIN assets'
         /\ \A b \in DOMAIN assets : b # a => written'[b] = written[b]
<1>0. PICK row : row = [criticality |-> c, lifecycle |-> "unset"]
  OBVIOUS
<1>1. row \in Asset /\ row.criticality = c
  BY <1>0 DEF Asset
<1>2. /\ DOMAIN assets' = DOMAIN assets \cup {a}
      /\ assets'[a] = row
      /\ \A b \in DOMAIN assets : b # a => assets'[b] = assets[b]
  <2>1. assets' = With(assets, a, row)
    BY <1>0 DEF Enter, upsertAsset
  <2> QED BY <2>1 DEF With
<1>3. /\ DOMAIN written' = DOMAIN written \cup {a}
      /\ written'[a] = c
      /\ \A b \in DOMAIN written : b # a => written'[b] = written[b]
  <2>1. written' = With(written, a, c)
    BY DEF Enter
  <2> QED BY <2>1 DEF With
<1>4. UNCHANGED <<dependencies, vulnerabilities, services, events, overtaken>>
  BY DEF Enter
<1>5. RiskTypeOK'
  BY <1>1, <1>2, <1>4, InventoryIs DEF InventoryOK
<1>6. WrittenOK'
  BY <1>1, <1>2, <1>3, <1>4 DEF WrittenOK
<1> QED BY <1>2, <1>3, <1>5, <1>6 DEF WrittenOK

\* A relationship of two assets is recorded once.
LEMMA DependencyOK ==
  ASSUME RiskTypeOK, NEW d \in Dependencies, createDependency(d)
  PROVE  RiskTypeOK'
<1>1. d \in Dependency
  BY RequestsAssumption
<1>2. /\ dependencies \in Seq(Dependency) /\ DOMAIN dependencies = 1 .. Len(dependencies) /\ Len(dependencies) \in Nat
      /\ \A k \in DOMAIN dependencies : dependencies[k] \in Dependency
      /\ \A j, k \in DOMAIN dependencies : SameRelationship(dependencies[j], dependencies[k]) => j = k
      /\ \A k \in DOMAIN dependencies : /\ dependencies[k].source # dependencies[k].target
                                        /\ {dependencies[k].source, dependencies[k].target} \subseteq DOMAIN assets
  BY InventoryIs, LenProperties, ElementOfSeq DEF InventoryOK
<1>3. /\ d.source # d.target /\ {d.source, d.target} \subseteq DOMAIN assets
      /\ UNCHANGED <<assets, vulnerabilities, services, events>>
  BY DEF createDependency
<1>4. CASE \E e \in Range(dependencies) : SameRelationship(d, e)
  <2>1. dependencies' = [k \in DOMAIN dependencies |->
               IF dataStore = "postgres" /\ SameRelationship(d, dependencies[k]) THEN d ELSE dependencies[k]]
    BY <1>4 DEF createDependency
  <2>2. /\ DOMAIN dependencies' = DOMAIN dependencies
        /\ \A k \in DOMAIN dependencies : /\ dependencies'[k] \in Dependency
                                          /\ SameRelationship(dependencies'[k], dependencies[k])
    BY <1>1, <1>2, <2>1 DEF SameRelationship
  <2>3. dependencies' \in Seq(Dependency)
    <3>1. dependencies' \in [1 .. Len(dependencies) -> Dependency]
      BY <1>2, <2>1, <2>2
    <3> QED BY <1>2, <3>1, SeqDef
  <2>4. /\ \A j, k \in DOMAIN dependencies' : SameRelationship(dependencies'[j], dependencies'[k]) => j = k
        /\ \A k \in DOMAIN dependencies' : /\ dependencies'[k].source # dependencies'[k].target
                                           /\ {dependencies'[k].source, dependencies'[k].target} \subseteq DOMAIN assets
    BY <1>2, <2>2 DEF SameRelationship
  <2> QED BY <1>3, <2>3, <2>4, InventoryIs DEF InventoryOK
<1>5. CASE ~ \E e \in Range(dependencies) : SameRelationship(d, e)
  <2>1. dependencies' = Append(dependencies, d)
    BY <1>5 DEF createDependency
  <2>2. \A k \in DOMAIN dependencies : ~SameRelationship(d, dependencies[k])
    BY <1>5 DEF Range
  <2>3. /\ dependencies' \in Seq(Dependency)
        /\ DOMAIN dependencies' = 1 .. (Len(dependencies) + 1)
        /\ \A k \in 1 .. Len(dependencies) : dependencies'[k] = dependencies[k]
        /\ dependencies'[Len(dependencies) + 1] = d
    BY <1>1, <1>2, <2>1, AppendProperties, LenProperties
  <2>4. PICK n \in DOMAIN dependencies' :
          /\ \A k \in DOMAIN dependencies' : k = n \/ (k \in DOMAIN dependencies /\ dependencies'[k] = dependencies[k])
          /\ dependencies'[n] = d
    BY <1>2, <2>3
  <2>5. \A j, k \in DOMAIN dependencies' : SameRelationship(dependencies'[j], dependencies'[k]) => j = k
    BY <1>2, <2>2, <2>4 DEF SameRelationship
  <2>6. \A k \in DOMAIN dependencies' : /\ dependencies'[k].source # dependencies'[k].target
                                        /\ {dependencies'[k].source, dependencies'[k].target} \subseteq DOMAIN assets
    BY <1>2, <1>3, <2>4
  <2> QED BY <1>3, <2>3, <2>5, <2>6, InventoryIs DEF InventoryOK
<1> QED BY <1>4, <1>5

\* Vulnerabilities, services and events are of known assets and of one key.
LEMMA RecordsOK ==
  ASSUME RiskTypeOK,
         \/ \E v \in Vulnerabilities : upsertVulnerability(v)
         \/ \E s \in Services : upsertCriticalService(s)
         \/ \E e \in Events : ingestSecurityEvent(e)
  PROVE  RiskTypeOK'
<1>1. ASSUME NEW v \in Vulnerabilities, upsertVulnerability(v) PROVE RiskTypeOK'
  <2>1. /\ Assessed(v) /\ v.asset \in DOMAIN assets
        /\ vulnerabilities' = {u \in vulnerabilities : u.id # v.id \/ u.asset # v.asset} \cup {v}
        /\ UNCHANGED <<assets, dependencies, services, events>>
    BY <1>1, RequestsAssumption DEF upsertVulnerability
  <2> QED BY <2>1, InventoryIs DEF InventoryOK
<1>2. ASSUME NEW s \in Services, upsertCriticalService(s) PROVE RiskTypeOK'
  <2>1. /\ s.criticality \in DOMAIN criticalityScore /\ s.assets \subseteq DOMAIN assets
        /\ services' = {t \in services : t.name # s.name} \cup {s}
        /\ UNCHANGED <<assets, dependencies, vulnerabilities, events>>
    BY <1>2, RequestsAssumption DEF upsertCriticalService
  <2> QED BY <2>1, InventoryIs DEF InventoryOK
<1>3. ASSUME NEW e \in Events, ingestSecurityEvent(e) PROVE RiskTypeOK'
  <2>1. /\ e.severity \in DOMAIN eventSeverityScore /\ e.id \notin {f.id : f \in events}
        /\ events' = events \cup {e}
        /\ UNCHANGED <<assets, dependencies, vulnerabilities, services>>
    BY <1>3, RequestsAssumption DEF ingestSecurityEvent
  <2> QED BY <2>1, InventoryIs DEF InventoryOK
<1> QED BY <1>1, <1>2, <1>3

-----------------------------------------------------------------------------
(* The requests.                                                           *)

\* A request that starts, reads, fails or ends leaves what is stored alone.
LEMMA RequestMoves ==
  ASSUME IInv, NEW r \in Requests, NEW q, requests' = [requests EXCEPT ![r] = q],
         UNCHANGED <<dataStore, stored, written, overtaken>>,
         q.op = "enrich" => EnrichmentOK(q) /\ ~q.overlapped,
         q.op = "analyze" => AnalysisOK(q),
         q = Idle \/ requests[r] # Idle \/ Undisturbed
  PROVE  IInv'
<1>1. UNCHANGED <<assets, dependencies, vulnerabilities, services, events>>
  BY DEF stored
<1>2. \A s \in Requests : requests'[s] = IF s = r THEN q ELSE requests[s]
  BY DEF IInv, RequestsOK
<1>3. RiskTypeOK' /\ WrittenOK'
  BY <1>1 DEF IInv, RiskTypeOK, Inventory, Criticalities, WrittenOK
<1>4. RequestsOK'
  <2>1. requests' = [s \in Requests |-> requests'[s]]
    BY DEF IInv, RequestsOK
  <2>2. \A s \in Requests : requests'[s].op = "enrich" => EnrichmentOK(requests'[s])
    BY <1>2 DEF IInv, RequestsOK
  <2>3. \A s \in Requests : requests'[s].op = "analyze" => AnalysisOK(requests'[s])
    BY <1>2 DEF IInv, RequestsOK
  <2>4. \A p : EnrichmentOK(p) => EnrichmentOK(p)'
    BY <1>1 DEF EnrichmentOK
  <2>5. \A s \in Requests : (requests[s].op = "enrich" => EnrichmentOK(requests[s]))'
    BY <1>1, <2>2 DEF EnrichmentOK
  <2>6. \A s \in Requests : (requests[s].op = "analyze" => AnalysisOK(requests[s]))'
    BY <2>3 DEF AnalysisOK, Scored
  <2> QED BY <2>1, <2>5, <2>6 DEF RequestsOK
<1>5. AloneOK'
  <2> SUFFICES ASSUME dataStore = "memory" PROVE AloneOK'
    BY DEF AloneOK
  <2>1. /\ overtaken = {}
        /\ \A s, t \in Requests : requests[s] # Idle /\ requests[t] # Idle => s = t
        /\ \A s \in Requests : requests[s].op = "enrich" => ~requests[s].overlapped
    BY DEF IInv, AloneOK
  <2>2. \A s, t \in Requests : requests'[s] # Idle /\ requests'[t] # Idle => s = t
    <3>1. CASE q = Idle \/ requests[r] # Idle
      BY <1>2, <2>1, <3>1
    <3>2. CASE Undisturbed
      BY <1>2, <3>2 DEF Undisturbed
    <3> QED BY <3>1, <3>2
  <2>3. \A s \in Requests : requests'[s].op = "enrich" => ~requests'[s].overlapped
    BY <1>2, <2>1
  <2>4. overtaken' = {} /\ Idle' = Idle
    BY <2>1 DEF Idle
  <2> QED BY <2>2, <2>3, <2>4 DEF AloneOK
<1> QED BY <1>3, <1>4, <1>5 DEF IInv

\* Writing what the assets depend on, suffer from and serve leaves the assets
\* and the requests alone.
LEMMA WriteOK ==
  ASSUME IInv, RiskTypeOK', UNCHANGED <<dataStore, assets, requests, written, overtaken>>
  PROVE  IInv'
<1>1. RequestsOK'
  BY DEF IInv, RequestsOK, EnrichmentOK, AnalysisOK, Scored
<1>2. WrittenOK' /\ AloneOK'
  BY DEF IInv, WrittenOK, AloneOK, Idle
<1> QED BY <1>1, <1>2 DEF IInv

\* An asset is entered, at once or by an import: the enrichments that read it
\* before are marked.
LEMMA EnterStep ==
  ASSUME IInv, NEW a \in Assets, NEW c \in DOMAIN criticalityScore, Enter(a, c),
         requests' = [s \in Requests |-> requests'[s]],
         \A s \in Requests : \/ requests'[s] = Overlapped(a)[s]
                             \/ requests'[s].op = "import" /\ requests[s].op = "import"
                             \/ requests'[s] = Idle,
         Undisturbed \/ \E s \in Requests : requests[s].op = "import"
  PROVE  IInv'
<1>1. /\ RiskTypeOK' /\ WrittenOK' /\ DOMAIN assets \subseteq DOMAIN assets'
      /\ \A b \in DOMAIN assets : b # a => written'[b] = written[b]
      /\ UNCHANGED <<dataStore, overtaken>>
  BY EnterOK DEF IInv, Enter
<1>2. \A s \in Requests : requests[s].op = "enrich" => EnrichmentOK(requests[s])
  BY DEF IInv, RequestsOK
<1>3. \A s \in Requests : Overlapped(a)[s] =
        IF requests[s].op = "enrich" /\ requests[s].asset = a
        THEN [requests[s] EXCEPT !.overlapped = TRUE] ELSE requests[s]
  BY DEF Overlapped
<1>4. Idle.op = "none"
  BY DEF Idle
<1>5. ASSUME NEW s \in Requests, requests[s].op = "enrich", requests[s].asset = a
      PROVE  LET q == [requests[s] EXCEPT !.overlapped = TRUE] IN
             /\ q.op = "enrich" /\ q.overlapped /\ q.asset = a
             /\ q \in [op : {"enrich"}, asset : Assets, lifecycle : Lifecycles,
                       criticality : DOMAIN criticalityScore, overlapped : BOOLEAN]
  BY <1>2, <1>5 DEF EnrichmentOK
<1>6. ASSUME NEW s \in Requests, requests'[s].op = "enrich" PROVE EnrichmentOK(requests[s])'
  <2>1. requests'[s] = Overlapped(a)[s]
    BY <1>4, <1>6
  <2>2. CASE requests[s].op = "enrich" /\ requests[s].asset = a
    <3>1. EnrichmentOK(requests[s])
      BY <1>2, <2>2
    <3>2. requests'[s] = [requests[s] EXCEPT !.overlapped = TRUE]
      BY <1>3, <2>1, <2>2
    <3> QED BY <1>1, <1>5, <2>2, <3>1, <3>2 DEF EnrichmentOK
  <2>3. CASE ~(requests[s].op = "enrich" /\ requests[s].asset = a)
    <3>1. requests'[s] = requests[s]
      BY <1>3, <2>1, <2>3
    <3>2. EnrichmentOK(requests[s]) /\ requests[s].asset # a
      BY <1>2, <1>6, <2>3, <3>1
    <3> QED BY <1>1, <3>1, <3>2 DEF EnrichmentOK
  <2> QED BY <2>2, <2>3
<1>7. ASSUME NEW s \in Requests, requests'[s].op = "analyze" PROVE AnalysisOK(requests[s])'
  <2>1. requests'[s] = Overlapped(a)[s]
    BY <1>4, <1>7
  <2>2. requests'[s] = requests[s]
    BY <1>3, <1>5, <1>7, <2>1
  <2>3. AnalysisOK(requests[s])
    BY <1>7, <2>2 DEF IInv, RequestsOK
  <2> QED BY <2>2, <2>3 DEF AnalysisOK, Scored
<1>8. RequestsOK'
  BY <1>6, <1>7 DEF RequestsOK
<1>9. AloneOK'
  <2> SUFFICES ASSUME dataStore = "memory" PROVE AloneOK'
    BY <1>1 DEF AloneOK
  <2>1. /\ overtaken = {}
        /\ \A s, t \in Requests : requests[s] # Idle /\ requests[t] # Idle => s = t
    BY DEF IInv, AloneOK
  <2>2. \A s \in Requests : requests[s].op # "enrich"
    <3>1. CASE Undisturbed
      BY <1>4, <3>1 DEF Undisturbed
    <3>2. ASSUME NEW s \in Requests, requests[s].op = "import", NEW t \in Requests, requests[t].op = "enrich" PROVE FALSE
      BY <1>4, <2>1, <3>2
    <3> QED BY <3>1, <3>2
  <2>3. \A s \in Requests : Overlapped(a)[s] = requests[s]
    BY <1>3, <2>2
  <2>4. \A s \in Requests : requests'[s] # Idle => requests[s] # Idle
    BY <1>4, <2>3
  <2>5. \A s \in Requests : requests'[s].op # "enrich"
    BY <1>4, <2>2, <2>3
  <2> QED BY <1>1, <2>1, <2>4, <2>5 DEF AloneOK, Idle
<1> QED BY <1>1, <1>8, <1>9 DEF IInv

\* An enrichment is saved: what it read of the asset is what was last entered,
\* or the asset is overtaken.
LEMMA SaveEnrichmentStep ==
  ASSUME IInv, NEW r \in Requests, SaveEnrichment(r)
  PROVE  IInv'
<1>1. PICK q : q = requests[r]
  OBVIOUS
<1>2. q.op = "enrich" /\ EnrichmentOK(q) /\ (dataStore = "memory" => ~q.overlapped /\ overtaken = {})
  BY <1>1 DEF SaveEnrichment, IInv, RequestsOK, AloneOK
<1>3. PICK row : row = [criticality |-> q.criticality, lifecycle |-> q.lifecycle]
  OBVIOUS
<1>4. row \in Asset /\ row.criticality = q.criticality
  BY <1>2, <1>3 DEF EnrichmentOK, Asset
<1>5. /\ assets' = With(assets, q.asset, row)
      /\ overtaken' = IF q.overlapped THEN overtaken \cup {q.asset} ELSE overtaken
      /\ requests' = [requests EXCEPT ![r] = Idle]
      /\ UNCHANGED <<dataStore, dependencies, vulnerabilities, services, events, written>>
  BY <1>1, <1>3 DEF SaveEnrichment, upsertAsset
<1>6. /\ DOMAIN assets' = DOMAIN assets
      /\ \A b \in DOMAIN assets : assets'[b] = IF b = q.asset THEN row ELSE assets[b]
  BY <1>2, <1>5 DEF With, EnrichmentOK
<1>7. \A s \in Requests : requests'[s] = IF s = r THEN Idle ELSE requests[s]
  BY <1>5 DEF IInv, RequestsOK
<1>8. RiskTypeOK'
  BY <1>4, <1>5, <1>6, InventoryIs DEF IInv, InventoryOK
<1>9. WrittenOK'
  BY <1>2, <1>4, <1>5, <1>6 DEF IInv, WrittenOK, EnrichmentOK
<1>10. RequestsOK'
  <2>1. Idle.op = "none"
    BY DEF Idle
  <2>2. ASSUME NEW s \in Requests, requests'[s].op = "enrich" PROVE EnrichmentOK(requests[s])'
    <3>1. requests'[s] = requests[s] /\ EnrichmentOK(requests[s])
      BY <1>7, <2>1, <2>2 DEF IInv, RequestsOK
    <3> QED BY <1>5, <1>6, <3>1 DEF EnrichmentOK
  <2>3. ASSUME NEW s \in Requests, requests'[s].op = "analyze" PROVE AnalysisOK(requests[s])'
    <3>1. requests'[s] = requests[s] /\ AnalysisOK(requests[s])
      BY <1>7, <2>1, <2>3 DEF IInv, RequestsOK
    <3> QED BY <3>1 DEF AnalysisOK, Scored
  <2>4. requests' = [s \in Requests |-> requests'[s]]
    BY <1>5 DEF IInv, RequestsOK
  <2> QED BY <2>2, <2>3, <2>4 DEF RequestsOK
<1>11. AloneOK'
  <2>1. Idle.op = "none"
    BY DEF Idle
  <2> QED BY <1>2, <1>5, <1>7, <2>1 DEF IInv, AloneOK, Idle
<1> QED BY <1>8, <1>9, <1>10, <1>11 DEF IInv

\* Every step of a request keeps the invariant.
LEMMA StepIInv ==
  ASSUME IInv, NEW r \in Requests, Step(r)
  PROVE  IInv'
<1>1. Idle.op = "none"
  BY DEF Idle
<1>2. ASSUME NEW file \in Files, StartImport(r, file) PROVE IInv'
  <2>1. PICK q : q = [op |-> "import", rows |-> [k \in DOMAIN file.rows |-> Candidate(file, file.rows[k])]]
    OBVIOUS
  <2>2. q.op = "import" /\ requests' = [requests EXCEPT ![r] = q]
    BY <1>2, <2>1 DEF StartImport
  <2>3. Undisturbed /\ UNCHANGED <<dataStore, stored, written, overtaken>>
    BY <1>2 DEF StartImport, Free
  <2> QED BY <2>2, <2>3, RequestMoves
<1>3. CASE ImportRow(r)
  <2>1. PICK next : next = IF Len(requests[r].rows) = 1 THEN Idle
                           ELSE [op |-> "import", rows |-> Tail(requests[r].rows)]
    OBVIOUS
  <2>2. next = Idle \/ next.op = "import"
    BY <2>1
  <2>3. PICK row : row = Head(requests[r].rows)
    OBVIOUS
  <2>4. requests[r].op = "import" /\ requests[r] # Idle
    BY <1>1, <1>3 DEF ImportRow
  <2>5. CASE Valid(row)
    <3>1. Enter(row.asset, row.criticality) /\ requests' = [Overlapped(row.asset) EXCEPT ![r] = next]
      BY <1>3, <2>1, <2>3, <2>5 DEF ImportRow
    <3>2. row.asset \in Assets /\ row.criticality \in DOMAIN criticalityScore
      BY <2>5 DEF Valid
    <3>3. /\ requests' = [s \in Requests |-> requests'[s]]
          /\ \A s \in Requests : requests'[s] = IF s = r THEN next ELSE Overlapped(row.asset)[s]
      BY <3>1 DEF Overlapped
    <3>4. \A s \in Requests : \/ requests'[s] = Overlapped(row.asset)[s]
                              \/ requests'[s].op = "import" /\ requests[s].op = "import"
                              \/ requests'[s] = Idle
      BY <2>2, <2>4, <3>3
    <3> QED BY <2>4, <3>1, <3>2, <3>3, <3>4, EnterStep
  <2>6. CASE ~Valid(row)
    <3>1. requests' = [requests EXCEPT ![r] = next] /\ UNCHANGED <<dataStore, stored, written, overtaken>>
      BY <1>3, <2>1, <2>3, <2>6 DEF ImportRow
    <3> QED BY <1>1, <2>2, <2>4, <3>1, RequestMoves
  <2> QED BY <2>5, <2>6
<1>4. ASSUME NEW e \in Enrichments, StartEnrichment(r, e) PROVE IInv'
  <2>1. PICK q : q = [op |-> "enrich", asset |-> e.asset, lifecycle |-> e.lifecycle,
                      criticality |-> assets[e.asset].criticality, overlapped |-> FALSE]
    OBVIOUS
  <2>2. requests' = [requests EXCEPT ![r] = q]
    BY <1>4, <2>1 DEF StartEnrichment
  <2>3. /\ Undisturbed /\ UNCHANGED <<dataStore, stored, written, overtaken>> /\ e.asset \in DOMAIN assets
        /\ e.lifecycle \in Lifecycles
    BY <1>4, RequestsAssumption DEF StartEnrichment, Free
  <2>4. e.asset \in Assets /\ assets[e.asset] \in Asset
    BY <2>3, InventoryIs DEF IInv, InventoryOK
  <2>5. assets[e.asset].criticality \in DOMAIN criticalityScore
    BY <2>4 DEF Asset
  <2>6. assets[e.asset].criticality = written[e.asset] \/ e.asset \in overtaken
    BY <2>3 DEF IInv, WrittenOK
  <2>7. q.op = "enrich" /\ EnrichmentOK(q) /\ ~q.overlapped
    BY <2>1, <2>3, <2>4, <2>5, <2>6 DEF EnrichmentOK
  <2> QED BY <2>2, <2>3, <2>7, RequestMoves
<1>5. CASE SaveEnrichment(r)
  BY <1>5, SaveEnrichmentStep
<1>6. ASSUME NEW query \in Analyses, StartAnalysis(r, query) PROVE IInv'
  <2>1. PICK q : q = [op |-> "analyze", entryAssetIds |-> query.entryAssetIds, maxDepth |-> query.maxDepth,
                      unread |-> Lists, inventory |-> Unread, known |-> DOMAIN assets,
                      reach |-> Within(dependencies, Range(query.entryAssetIds), query.maxDepth)]
    OBVIOUS
  <2>2. requests' = [requests EXCEPT ![r] = q]
    BY <1>6, <2>1 DEF StartAnalysis
  <2>3. Undisturbed /\ UNCHANGED <<dataStore, stored, written, overtaken>>
    BY <1>6 DEF StartAnalysis, Free
  <2>4. DOMAIN Unread = Lists /\ Scored(Unread)
    BY DEF Unread, Lists, Scored
  <2>5. q.op = "analyze" /\ AnalysisOK(q)
    BY <2>1, <2>4 DEF AnalysisOK
  <2> QED BY <2>2, <2>3, <2>5, RequestMoves
<1>7. ASSUME NEW list \in Lists, ReadList(r, list) PROVE IInv'
  <2>1. PICK p : p = requests[r]
    OBVIOUS
  <2>2. p.op = "analyze" /\ p # Idle /\ AnalysisOK(p)
    BY <1>1, <1>7, <2>1 DEF ReadList, IInv, RequestsOK
  <2>3. PICK unread : unread = p.unread \ {list}
    OBVIOUS
  <2>4. PICK inventory : inventory = [p.inventory EXCEPT ![list] = Inventory[list]]
    OBVIOUS
  <2>5. PICK q : q = [p EXCEPT !.unread = unread, !.inventory = inventory]
    OBVIOUS
  <2>6. requests' = [requests EXCEPT ![r] = q] /\ UNCHANGED <<dataStore, stored, written, overtaken>>
    BY <1>7, <2>1, <2>3, <2>4, <2>5 DEF ReadList
  <2>7. /\ DOMAIN q = DOMAIN p /\ q.op = "analyze" /\ q.inventory = inventory
    <3>1. PICK m : m = [p EXCEPT !.unread = unread]
      OBVIOUS
    <3>2. DOMAIN m = DOMAIN p /\ m.op = "analyze" /\ {"op", "inventory"} \subseteq DOMAIN m
      BY <2>2, <3>1 DEF AnalysisOK
    <3>3. q = [m EXCEPT !.inventory = inventory]
      BY <2>5, <3>1
    <3> QED BY <3>2, <3>3
  <2>8. DOMAIN inventory = Lists /\ \A l \in Lists : inventory[l] = IF l = list THEN Inventory[l] ELSE p.inventory[l]
    BY <2>2, <2>4 DEF AnalysisOK
  <2>9. Scored(Inventory)
    BY DEF IInv, RiskTypeOK, Proper, Scored
  <2>10. Scored(inventory)
    <3>1. {"assets", "vulnerabilities", "services", "events"} \subseteq Lists
      BY DEF Lists
    <3>2. Scored(p.inventory)
      BY <2>2 DEF AnalysisOK
    <3> QED BY <2>8, <2>9, <3>1, <3>2 DEF Scored
  <2>11. AnalysisOK(q)
    BY <2>2, <2>7, <2>8, <2>10 DEF AnalysisOK
  <2> QED BY <2>1, <2>2, <2>6, <2>7, <2>11, RequestMoves
<1>8. CASE SaveRiskAnalysis(r) \/ Fail(r)
  <2>1. requests' = [requests EXCEPT ![r] = Idle] /\ UNCHANGED <<dataStore, stored, written, overtaken>>
    BY <1>8 DEF SaveRiskAnalysis, Fail
  <2> QED BY <1>1, <2>1, RequestMoves
<1> QED BY <1>2, <1>3, <1>4, <1>5, <1>6, <1>7, <1>8 DEF Step

\* Every step keeps the invariant.
LEMMA NextIInv == IInv /\ [RiskNext]_vars => IInv'
<1> SUFFICES ASSUME IInv, [RiskNext]_vars PROVE IInv'
  OBVIOUS
<1>1. ASSUME NEW row \in Rows, CreateAsset(row) PROVE IInv'
  <2>1. /\ Enter(row.asset, row.criticality) /\ requests' = Overlapped(row.asset) /\ Undisturbed
        /\ row.asset \in Assets /\ row.criticality \in DOMAIN criticalityScore
    BY <1>1, RequestsAssumption DEF CreateAsset, Change
  <2>2. requests' = [s \in Requests |-> requests'[s]]
    BY <2>1 DEF Overlapped
  <2> QED BY <2>1, <2>2, EnterStep
<1>2. ASSUME NEW d \in Dependencies, createDependency(d) PROVE IInv'
  <2>1. RiskTypeOK'
    BY <1>2, DependencyOK DEF IInv
  <2> QED BY <1>2, <2>1, WriteOK DEF createDependency
<1>3. CASE \/ \E v \in Vulnerabilities : upsertVulnerability(v)
           \/ \E s \in Services : upsertCriticalService(s)
           \/ \E e \in Events : ingestSecurityEvent(e)
  <2>1. RiskTypeOK'
    BY <1>3, RecordsOK DEF IInv
  <2>2. UNCHANGED <<dataStore, assets, requests, written, overtaken>>
    BY <1>3 DEF upsertVulnerability, upsertCriticalService, ingestSecurityEvent
  <2> QED BY <2>1, <2>2, WriteOK
<1>4. ASSUME NEW r \in Requests, Step(r) PROVE IInv'
  BY <1>4, StepIInv
<1>5. CASE UNCHANGED vars
  <2>1. RiskTypeOK'
    BY <1>5 DEF vars, stored, IInv, RiskTypeOK, Inventory, Criticalities
  <2> QED BY <1>5, <2>1, WriteOK DEF vars, stored
<1> QED BY <1>1, <1>2, <1>3, <1>4, <1>5 DEF RiskNext, Write

\* A proper inventory, no request and nothing overtaken.
LEMMA InitIInv == RiskInit => IInv
<1> SUFFICES ASSUME RiskInit PROVE IInv
  OBVIOUS
<1>1. PICK inv \in Inventories :
       /\ assets = [a \in DOMAIN inv.assets |-> [criticality |-> inv.assets[a], lifecycle |-> "unset"]]
       /\ dependencies = inv.dependencies
       /\ vulnerabilities = inv.vulnerabilities
       /\ services = inv.services
       /\ events = inv.events
       /\ written = inv.assets
  BY DEF RiskInit
<1>2. Proper(inv)
  BY InventoriesAssumption
<1>3. /\ DOMAIN assets = DOMAIN inv.assets
      /\ \A a \in DOMAIN assets : assets[a] \in Asset /\ assets[a].criticality = inv.assets[a]
  BY <1>1, <1>2 DEF Proper, Asset
<1>4. RiskTypeOK
  <2>1. /\ Inventory.dependencies = inv.dependencies /\ Inventory.vulnerabilities = inv.vulnerabilities
        /\ Inventory.services = inv.services /\ Inventory.events = inv.events
        /\ DOMAIN Inventory.assets = DOMAIN inv.assets
        /\ \A a \in DOMAIN inv.assets : Inventory.assets[a] = inv.assets[a]
    BY <1>1, <1>3 DEF Inventory, Criticalities
  <2>2. Proper(Inventory)
    BY <1>2, <2>1 DEF Proper
  <2> QED BY <1>3, <2>2 DEF RiskTypeOK
<1>5. WrittenOK
  BY <1>1, <1>3 DEF WrittenOK
<1>6. \A r \in Requests : requests[r] = Idle
  BY DEF RiskInit
<1>7. Idle.op = "none"
  BY DEF Idle
<1>8. RequestsOK
  <2>1. requests = [r \in Requests |-> requests[r]]
    BY DEF RiskInit
  <2> QED BY <1>6, <1>7, <2>1 DEF RequestsOK
<1>9. AloneOK
  BY <1>6, <1>7 DEF AloneOK, RiskInit
<1> QED BY <1>4, <1>5, <1>8, <1>9 DEF IInv

\* What holds of every reachable state.
LEMMA RiskInvariant == RiskSpec => []IInv
<1> QED BY InitIInv, NextIInv, PTL DEF RiskSpec

-----------------------------------------------------------------------------
(* Sequences of sequences.                                                 *)

\* What a concatenation holds, and when it holds it once.
LEMMA ConcatIs ==
  ASSUME NEW S, NEW s \in Seq(S), NEW t \in Seq(S)
  PROVE  /\ s \o t \in Seq(S)
         /\ Range(s \o t) = Range(s) \cup Range(t)
         /\ IsInjective(s) /\ IsInjective(t) /\ Range(s) \cap Range(t) = {} => IsInjective(s \o t)
<1> DEFINE u == s \o t
<1>1. /\ Len(s) \in Nat /\ Len(t) \in Nat /\ DOMAIN s = 1 .. Len(s) /\ DOMAIN t = 1 .. Len(t)
      /\ u \in Seq(S) /\ Len(u) = Len(s) + Len(t) /\ DOMAIN u = 1 .. Len(u)
      /\ \A i \in 1 .. Len(s) + Len(t) : u[i] = IF i <= Len(s) THEN s[i] ELSE t[i - Len(s)]
  BY ConcatProperties, LenProperties
<1> HIDE DEF u
<1>2. \A i \in DOMAIN u : \/ i \in DOMAIN s /\ u[i] = s[i]
                          \/ i - Len(s) \in DOMAIN t /\ u[i] = t[i - Len(s)]
  BY <1>1
<1>3. /\ \A i \in DOMAIN s : i \in DOMAIN u /\ u[i] = s[i]
      /\ \A i \in DOMAIN t : Len(s) + i \in DOMAIN u /\ u[Len(s) + i] = t[i]
  <2>1. \A i \in DOMAIN t : Len(s) + i \in DOMAIN u /\ ~(Len(s) + i <= Len(s)) /\ (Len(s) + i) - Len(s) = i
    BY <1>1
  <2> QED BY <1>1, <2>1
<1>4. Range(u) = Range(s) \cup Range(t)
  <2>1. \A x \in Range(u) : x \in Range(s) \cup Range(t)
    BY <1>2 DEF Range
  <2>2. \A x \in Range(s) \cup Range(t) : x \in Range(u)
    BY <1>3 DEF Range
  <2> QED BY <2>1, <2>2
<1>5. ASSUME IsInjective(s), IsInjective(t), Range(s) \cap Range(t) = {}, NEW i \in DOMAIN u, NEW j \in DOMAIN u, u[i] = u[j]
      PROVE  i = j
  <2>1. \A k \in DOMAIN s, l \in DOMAIN t : s[k] # t[l]
    BY <1>5 DEF Range
  <2>2. \/ i \in DOMAIN s /\ j \in DOMAIN s /\ s[i] = s[j]
        \/ i - Len(s) \in DOMAIN t /\ j - Len(s) \in DOMAIN t /\ t[i - Len(s)] = t[j - Len(s)]
    BY <1>2, <1>5, <2>1
  <2>3. i = j \/ i - Len(s) = j - Len(s)
    BY <1>5, <2>2 DEF IsInjective
  <2> QED BY <1>1, <1>5, <2>3
<1> QED BY <1>1, <1>4, <1>5 DEF u, IsInjective

\* What a sequence of sequences holds when they are put one after the other,
\* and when it holds it once.
LEMMA FlattenIs ==
  ASSUME NEW S, NEW seqs \in Seq(Seq(S))
  PROVE  /\ FlattenSeq(seqs) \in Seq(S)
         /\ Range(FlattenSeq(seqs)) = UNION {Range(seqs[k]) : k \in DOMAIN seqs}
         /\ (/\ \A k \in DOMAIN seqs : IsInjective(seqs[k])
             /\ \A j, k \in DOMAIN seqs : j # k => Range(seqs[j]) \cap Range(seqs[k]) = {})
              => IsInjective(FlattenSeq(seqs))
<1>0. PICK n : n = Len(seqs)
  OBVIOUS
<1>1. n \in Nat /\ DOMAIN seqs = 1 .. n /\ \A k \in 1 .. n : seqs[k] \in Seq(S)
  BY <1>0, LenProperties, ElementOfSeq
<1>2. CASE n = 0
  <2>1. FlattenSeq(seqs) = seqs
    BY <1>0, <1>2 DEF FlattenSeq
  <2>2. seqs = << >> /\ DOMAIN seqs = {}
    BY <1>0, <1>1, <1>2, EmptySeq
  <2>3. FlattenSeq(seqs) \in Seq(S)
    BY <2>1, <2>2, EmptySeq
  <2> QED BY <2>1, <2>2, <2>3 DEF Range, IsInjective
<1>3. CASE n # 0
  <2> DEFINE F(g) == g = [i \in 1 .. Len(seqs) |-> IF i = 1 THEN seqs[i] ELSE g[i - 1] \o seqs[i]]
             flatten == CHOOSE g : F(g)
  <2>1. FlattenSeq(seqs) = flatten[n]
    BY <1>0, <1>3 DEF FlattenSeq
  <2>2. PICK step : step = [p \in Nat \X Seq(S) |-> IF p[1] \in 1 .. n THEN p[2] \o seqs[p[1]] ELSE p[2]]
    OBVIOUS
  <2>3. step \in [(Nat \X Seq(S)) -> Seq(S)]
    <3>1. ASSUME NEW p \in Nat \X Seq(S), p[1] \in 1 .. n PROVE p[2] \o seqs[p[1]] \in Seq(S)
      BY <1>1, <3>1, ConcatIs
    <3> QED BY <2>2, <3>1
  <2>4. PICK f \in [Nat -> Seq(S)] : f[0] = << >> /\ \A k \in Nat : f[k + 1] = step[<<k + 1, f[k]>>]
    <3>1. PICK Q : Q = Seq(S)
      OBVIOUS
    <3>2. PICK none : none = << >>
      OBVIOUS
    <3>3. none \in Q /\ step \in [(Nat \X Q) -> Q]
      BY <2>3, <3>1, <3>2
    <3>4. PICK f \in [Nat -> Q] : Follows(f, none, step)
      BY <3>3, Iteration
    <3> QED BY <3>1, <3>2, <3>4 DEF Follows
  <2>5. \A k \in 1 .. n : k - 1 \in Nat /\ f[k] = f[k - 1] \o seqs[k]
    <3> SUFFICES ASSUME NEW k \in 1 .. n PROVE k - 1 \in Nat /\ f[k] = f[k - 1] \o seqs[k]
      OBVIOUS
    <3>1. k - 1 \in Nat /\ (k - 1) + 1 = k
      BY <1>1
    <3>2. f[k] = step[<<k, f[k - 1]>>]
      BY <2>4, <3>1
    <3>3. <<k, f[k - 1]>> \in Nat \X Seq(S)
      <4>1. f[k - 1] \in Seq(S) /\ k \in Nat
        BY <1>1, <3>1
      <4> QED BY <4>1
    <3>4. step[<<k, f[k - 1]>>] = f[k - 1] \o seqs[k]
      BY <2>2, <3>3
    <3> QED BY <3>1, <3>2, <3>4
  <2> DEFINE g == [i \in 1 .. n |-> f[i]]
  <2>6. F(g)
    <3>1. f[1] = seqs[1]
      <4>1. 1 \in 1 .. n /\ 1 - 1 = 0
        BY <1>1, <1>3
      <4>2. f[1] = << >> \o seqs[1] /\ seqs[1] \in Seq(S)
        BY <1>1, <2>4, <2>5, <4>1
      <4> QED BY <4>2, ConcatEmptySeq
    <3>2. ASSUME NEW i \in 1 .. n, i # 1 PROVE f[i] = f[i - 1] \o seqs[i] /\ g[i - 1] = f[i - 1]
      <4>1. i - 1 \in 1 .. n
        BY <1>1, <3>2
      <4> QED BY <2>5, <4>1
    <3>3. \A i \in 1 .. n : f[i] = IF i = 1 THEN seqs[i] ELSE g[i - 1] \o seqs[i]
      BY <3>1, <3>2
    <3> HIDE DEF g
    <3>4. g = [i \in 1 .. n |-> IF i = 1 THEN seqs[i] ELSE g[i - 1] \o seqs[i]]
      BY <3>3 DEF g
    <3> QED BY <1>0, <3>4
  <2>7. F(flatten)
    <3> HIDE DEF F
    <3> QED BY <2>6
  <2> HIDE DEF flatten
  <2>8. \A i \in 1 .. n : flatten[i] = IF i = 1 THEN seqs[i] ELSE flatten[i - 1] \o seqs[i]
    BY <1>0, <2>7
  <2> HIDE DEF F, g
  <2>9. flatten[n] = f[n]
    <3> DEFINE T == {k \in Nat : k + 1 \in 1 .. n => flatten[k + 1] = f[k + 1]}
    <3>1. 0 \in T
      <4>1. 1 \in 1 .. n
        BY <1>1, <1>3
      <4>2. flatten[1] = seqs[1] /\ f[1] = f[0] \o seqs[1] /\ seqs[1] \in Seq(S)
        <5>1. 1 - 1 = 0
          OBVIOUS
        <5> QED BY <1>1, <2>5, <2>8, <4>1, <5>1
      <4>3. f[1] = seqs[1]
        BY <2>4, <4>2, ConcatEmptySeq
      <4> QED BY <4>2, <4>3
    <3>2. ASSUME NEW k \in T PROVE k + 1 \in T
      <4> SUFFICES ASSUME (k + 1) + 1 \in 1 .. n PROVE flatten[(k + 1) + 1] = f[(k + 1) + 1]
        OBVIOUS
      <4>1. k \in Nat
        OBVIOUS
      <4>2. PICK m : m = (k + 1) + 1
        OBVIOUS
      <4>3. k + 1 \in 1 .. n /\ m \in 1 .. n /\ m # 1 /\ m - 1 = k + 1
        BY <1>1, <4>1, <4>2
      <4>4. flatten[k + 1] = f[k + 1]
        BY <4>3
      <4>5. flatten[m] = flatten[m - 1] \o seqs[m] /\ f[m] = f[m - 1] \o seqs[m]
        BY <2>5, <2>8, <4>3
      <4> QED BY <4>2, <4>3, <4>4, <4>5
    <3>3. T = Nat
      <4>1. T \in SUBSET Nat
        OBVIOUS
      <4> HIDE DEF T
      <4> QED BY <3>1, <3>2, <4>1, EveryNumber
    <3>4. n - 1 \in Nat /\ (n - 1) + 1 = n /\ n \in 1 .. n
      BY <1>1, <1>3
    <3> QED BY <3>3, <3>4
  <2> DEFINE Before(k) == UNION {Range(seqs[i]) : i \in 1 .. k}
             Distinct == /\ \A k \in DOMAIN seqs : IsInjective(seqs[k])
                         /\ \A j, k \in DOMAIN seqs : j # k => Range(seqs[j]) \cap Range(seqs[k]) = {}
             P(k) == k <= n => Range(f[k]) = Before(k) /\ (Distinct => IsInjective(f[k]))
  <2>10. P(0)
    <3>1. Range(f[0]) = {} /\ IsInjective(f[0])
      BY <2>4 DEF Range, IsInjective
    <3>2. Before(0) = {}
      OBVIOUS
    <3> QED BY <3>1, <3>2
  <2>11. ASSUME NEW k \in Nat, P(k) PROVE P(k + 1)
    <3> SUFFICES ASSUME k + 1 <= n PROVE P(k + 1)
      OBVIOUS
    <3>1. k + 1 \in 1 .. n /\ (k + 1) - 1 = k /\ k <= n
      BY <1>1
    <3>2. Range(f[k]) = Before(k) /\ (Distinct => IsInjective(f[k]))
      BY <2>11, <3>1
    <3>3. f[k + 1] = f[k] \o seqs[k + 1] /\ seqs[k + 1] \in Seq(S)
      BY <1>1, <2>5, <3>1
    <3>4. Before(k + 1) = Before(k) \cup Range(seqs[k + 1])
      <4>1. \A i \in 1 .. (k + 1) : i \in 1 .. k \/ i = k + 1
        OBVIOUS
      <4>2. k + 1 \in 1 .. (k + 1) /\ \A i \in 1 .. k : i \in 1 .. (k + 1)
        OBVIOUS
      <4> QED BY <4>1, <4>2
    <3>5. ASSUME Distinct PROVE Before(k) \cap Range(seqs[k + 1]) = {}
      <4>1. \A i \in 1 .. k : i \in DOMAIN seqs /\ k + 1 \in DOMAIN seqs /\ i # k + 1
        BY <1>1, <3>1
      <4> QED BY <3>5, <4>1
    <3>6. Distinct => IsInjective(seqs[k + 1])
      BY <1>1, <3>1
    <3> HIDE DEF Before, Distinct
    <3>7. /\ Range(f[k + 1]) = Range(f[k]) \cup Range(seqs[k + 1])
          /\ IsInjective(f[k]) /\ IsInjective(seqs[k + 1]) /\ Range(f[k]) \cap Range(seqs[k + 1]) = {}
               => IsInjective(f[k + 1])
      <4>1. PICK s \in Seq(S) : s = f[k]
        OBVIOUS
      <4>2. PICK t \in Seq(S) : t = seqs[k + 1]
        BY <3>3
      <4>3. /\ Range(s \o t) = Range(s) \cup Range(t)
            /\ IsInjective(s) /\ IsInjective(t) /\ Range(s) \cap Range(t) = {} => IsInjective(s \o t)
        BY ConcatIs
      <4> QED BY <3>3, <4>1, <4>2, <4>3
    <3> QED BY <3>2, <3>4, <3>5, <3>6, <3>7
  <2> HIDE DEF P
  <2>12. {k \in Nat : P(k)} = Nat
    <3>1. PICK T : T = {k \in Nat : P(k)}
      OBVIOUS
    <3>2. T \in SUBSET Nat /\ 0 \in T
      BY <2>10, <3>1
    <3>3. \A k \in T : k + 1 \in T
      <4>1. \A k \in Nat : P(k) => P(k + 1) /\ k + 1 \in Nat
        BY <2>11
      <4> QED BY <3>1, <4>1
    <3> QED BY <3>1, <3>2, <3>3, EveryNumber
  <2>13. Range(f[n]) = Before(n) /\ (Distinct => IsInjective(f[n]))
    <3>1. n \in {k \in Nat : P(k)}
      BY <1>1, <2>12
    <3>2. P(n) /\ n <= n
      BY <1>1, <3>1
    <3> QED BY <3>2 DEF P
  <2> QED BY <1>1, <2>1, <2>4, <2>9, <2>13
<1> QED BY <1>2, <1>3

\* The elements of a set are picked out of a sequence, each as often as it is
\* there.
LEMMA OnlyIs ==
  ASSUME NEW T, NEW seq \in Seq(T), NEW S
  PROVE  /\ Only(seq, S) \in Seq(T)
         /\ Range(Only(seq, S)) = Range(seq) \cap S
         /\ IsInjective(seq) => IsInjective(Only(seq, S))
<1>1. PICK seqs : seqs = [k \in DOMAIN seq |-> IF seq[k] \in S THEN <<seq[k]>> ELSE << >>]
  OBVIOUS
<1>2. Only(seq, S) = FlattenSeq(seqs)
  BY <1>1 DEF Only
<1>3. /\ Len(seq) \in Nat /\ DOMAIN seq = 1 .. Len(seq) /\ DOMAIN seqs = DOMAIN seq
      /\ \A k \in DOMAIN seq : seq[k] \in T
  BY <1>1, LenProperties, ElementOfSeq
<1>4. \A k \in DOMAIN seq : /\ seqs[k] \in Seq(T)
                             /\ Range(seqs[k]) = {seq[k]} \cap S
                             /\ IsInjective(seqs[k])
  <2> SUFFICES ASSUME NEW k \in DOMAIN seq
               PROVE  seqs[k] \in Seq(T) /\ Range(seqs[k]) = {seq[k]} \cap S /\ IsInjective(seqs[k])
    OBVIOUS
  <2>1. PICK x \in T : x = seq[k]
    BY <1>3
  <2>2. /\ <<x>> \in Seq(T) /\ << >> \in Seq(T)
        /\ Range(<<x>>) = {x} /\ IsInjective(<<x>>)
        /\ Range(<< >>) = {} /\ IsInjective(<< >>)
    BY DEF Range, IsInjective
  <2>3. seqs[k] = IF x \in S THEN <<x>> ELSE << >>
    BY <1>1, <2>1
  <2> QED BY <2>1, <2>2, <2>3
<1>5. seqs \in Seq(Seq(T))
  <2>1. seqs \in [1 .. Len(seq) -> Seq(T)]
    BY <1>1, <1>3, <1>4
  <2> QED BY <1>3, <2>1, SeqDef
<1>6. Range(FlattenSeq(seqs)) = Range(seq) \cap S
  <2>1. Range(FlattenSeq(seqs)) = UNION {Range(seqs[k]) : k \in DOMAIN seqs}
    BY <1>5, FlattenIs
  <2>2. UNION {Range(seqs[k]) : k \in DOMAIN seqs} = Range(seq) \cap S
    BY <1>3, <1>4 DEF Range
  <2> QED BY <2>1, <2>2
<1>7. ASSUME IsInjective(seq) PROVE IsInjective(FlattenSeq(seqs))
  <2>1. \A j, k \in DOMAIN seqs : j # k => Range(seqs[j]) \cap Range(seqs[k]) = {}
    BY <1>3, <1>4, <1>7 DEF IsInjective
  <2> QED BY <1>3, <1>4, <1>5, <2>1, FlattenIs
<1>8. FlattenSeq(seqs) \in Seq(T)
  BY <1>5, FlattenIs
<1> QED BY <1>2, <1>6, <1>7, <1>8

-----------------------------------------------------------------------------
(* The traversal.                                                          *)

Paths == [assetIds : Seq(Assets), dependencies : Seq(Dependency)]

\* The dependencies an analysis has read: of known form and each
\* relationship of two assets once.
Graph(deps) ==
  /\ deps \in Seq(Dependency)
  /\ \A j, k \in DOMAIN deps : SameRelationship(deps[j], deps[k]) => j = k

\* A path leads over n dependencies from an entry, to no asset twice.
Leads(p, deps, n) ==
  /\ Len(p.assetIds) = n + 1 /\ Len(p.dependencies) = n
  /\ IsInjective(p.assetIds)
  /\ \A k \in 1 .. n : /\ p.dependencies[k] \in Range(deps)
                        /\ p.dependencies[k].source = p.assetIds[k]
                        /\ p.dependencies[k].target = p.assetIds[k + 1]

From(deps, entry, n) == {p \in Paths : Leads(p, deps, n) /\ p.assetIds[1] = entry}

\* A path begins with a shorter one.
Continues(p, path, n) ==
  /\ \A k \in 1 .. n + 1 : p.assetIds[k] = path.assetIds[k]
  /\ \A k \in 1 .. n : p.dependencies[k] = path.dependencies[k]

\* Paths are the same if their assets and dependencies are.
LEMMA PathIs ==
  ASSUME NEW p \in Paths
  PROVE  /\ p = [assetIds |-> p.assetIds, dependencies |-> p.dependencies]
         /\ p.assetIds \in Seq(Assets) /\ p.dependencies \in Seq(Dependency)
         /\ Len(p.assetIds) \in Nat /\ DOMAIN p.assetIds = 1 .. Len(p.assetIds)
         /\ Len(p.dependencies) \in Nat /\ DOMAIN p.dependencies = 1 .. Len(p.dependencies)
         /\ \A k \in DOMAIN p.assetIds : p.assetIds[k] \in Assets
         /\ \A k \in DOMAIN p.dependencies : p.dependencies[k] \in Dependency
<1>1. /\ p = [assetIds |-> p.assetIds, dependencies |-> p.dependencies]
      /\ p.assetIds \in Seq(Assets) /\ p.dependencies \in Seq(Dependency)
  BY DEF Paths
<1>2. PICK a \in Seq(Assets) : a = p.assetIds
  BY <1>1
<1>3. PICK d \in Seq(Dependency) : d = p.dependencies
  BY <1>1
<1>4. /\ Len(a) \in Nat /\ DOMAIN a = 1 .. Len(a) /\ \A k \in DOMAIN a : a[k] \in Assets
      /\ Len(d) \in Nat /\ DOMAIN d = 1 .. Len(d) /\ \A k \in DOMAIN d : d[k] \in Dependency
  BY LenProperties, ElementOfSeq
<1> QED BY <1>1, <1>2, <1>3, <1>4

\* A path is extended by each dependency that leads on from it.
LEMMA ExtensionIs ==
  ASSUME NEW inv, inv.dependencies \in Seq(Dependency), NEW path \in Paths
  PROVE  LET out == Only(inv.dependencies, Onward(inv, path)) IN
           /\ out \in Seq(Dependency)
           /\ Range(out) = Onward(inv, path)
           /\ IsInjective(inv.dependencies) => IsInjective(out)
           /\ Extensions(inv, path) \in Seq(Paths)
           /\ DOMAIN Extensions(inv, path) = DOMAIN out
           /\ \A k \in DOMAIN out : Extensions(inv, path)[k] = Along(path, out[k])
<1>1. PICK S : S = Onward(inv, path)
  OBVIOUS
<1>2. PICK out : out = Only(inv.dependencies, S)
  OBVIOUS
<1>3. PICK deps \in Seq(Dependency) : deps = inv.dependencies
  OBVIOUS
<1>4. /\ out \in Seq(Dependency) /\ Range(out) = Range(inv.dependencies) \cap S
      /\ IsInjective(inv.dependencies) => IsInjective(out)
  BY <1>2, <1>3, OnlyIs
<1>5. Range(out) = S
  BY <1>1, <1>4 DEF Onward
<1>6. PICK e : e = [k \in DOMAIN out |-> Along(path, out[k])]
  OBVIOUS
<1>7. Extensions(inv, path) = e
  BY <1>1, <1>2, <1>6 DEF Extensions
<1>8. Len(out) \in Nat /\ DOMAIN out = 1 .. Len(out) /\ \A k \in DOMAIN out : out[k] \in Dependency
  BY <1>4, LenProperties, ElementOfSeq
<1>9. \A k \in DOMAIN out : e[k] \in Paths
  <2> SUFFICES ASSUME NEW k \in DOMAIN out PROVE e[k] \in Paths
    OBVIOUS
  <2>1. PICK d \in Dependency : d = out[k]
    BY <1>8
  <2>2. PICK a \in Seq(Assets) : a = path.assetIds
    BY PathIs
  <2>3. PICK ds \in Seq(Dependency) : ds = path.dependencies
    BY PathIs
  <2>4. PICK t \in Assets : t = d.target
    BY DEF Dependency
  <2>5. Append(a, t) \in Seq(Assets) /\ Append(ds, d) \in Seq(Dependency)
    BY AppendProperties
  <2>6. e[k] = [assetIds |-> Append(a, t), dependencies |-> Append(ds, d)]
    BY <1>6, <2>1, <2>2, <2>3, <2>4 DEF Along
  <2> QED BY <2>5, <2>6 DEF Paths
<1>10. e \in Seq(Paths)
  <2>1. e \in [1 .. Len(out) -> Paths]
    BY <1>6, <1>8, <1>9
  <2> QED BY <1>8, <2>1, SeqDef
<1> QED BY <1>1, <1>2, <1>4, <1>5, <1>6, <1>7, <1>10

\* A path and one dependency more make a path.
LEMMA AppendedPath ==
  ASSUME NEW deps \in Seq(Dependency), NEW n \in Nat, NEW entry, NEW path \in From(deps, entry, n),
         NEW d \in Range(deps), d.source = Last(path.assetIds), d.target \notin Range(path.assetIds)
  PROVE  /\ Along(path, d) \in From(deps, entry, n + 1)
         /\ Continues(Along(path, d), path, n)
         /\ Along(path, d).dependencies[n + 1] = d
         /\ Last(Along(path, d).assetIds) = d.target
<1>1. path \in Paths /\ Leads(path, deps, n) /\ path.assetIds[1] = entry
  BY DEF From
<1>2. PICK a \in Seq(Assets) : a = path.assetIds
  BY <1>1, PathIs
<1>3. PICK ds \in Seq(Dependency) : ds = path.dependencies
  BY <1>1, PathIs
<1>4. /\ Len(a) = n + 1 /\ DOMAIN a = 1 .. (n + 1) /\ \A k \in 1 .. (n + 1) : a[k] \in Assets
      /\ Len(ds) = n /\ DOMAIN ds = 1 .. n
      /\ a[1] = entry
      /\ \A j, k \in 1 .. (n + 1) : a[j] = a[k] => j = k
      /\ \A k \in 1 .. n : ds[k] \in Range(deps) /\ ds[k].source = a[k] /\ ds[k].target = a[k + 1]
  BY <1>1, <1>2, <1>3, PathIs DEF Leads, IsInjective
<1>5. d \in Dependency /\ d.target \in Assets
  <2>1. d \in Dependency
    BY LenProperties, ElementOfSeq DEF Range
  <2> QED BY <2>1 DEF Dependency
<1>6. PICK t \in Assets : t = d.target
  BY <1>5
<1>7. PICK b : b = Append(a, t)
  OBVIOUS
<1>8. PICK es : es = Append(ds, d)
  OBVIOUS
<1>9. /\ b \in Seq(Assets) /\ Len(b) = n + 2 /\ DOMAIN b = 1 .. (n + 2)
      /\ \A k \in 1 .. (n + 1) : b[k] = a[k]
      /\ b[n + 2] = t
  <2>1. (n + 1) + 1 = n + 2
    OBVIOUS
  <2> QED BY <1>4, <1>7, <2>1, AppendProperties, LenProperties
<1>10. /\ es \in Seq(Dependency) /\ Len(es) = n + 1
       /\ \A k \in 1 .. n : es[k] = ds[k]
       /\ es[n + 1] = d
  BY <1>4, <1>5, <1>8, AppendProperties
<1>11. d.source = a[n + 1] /\ \A k \in 1 .. (n + 1) : a[k] # t
  BY <1>2, <1>4, <1>6 DEF Last, Range
<1>12. \A j, k \in 1 .. (n + 2) : b[j] = b[k] => j = k
  <2>1. \A k \in 1 .. (n + 2) : k \in 1 .. (n + 1) \/ k = n + 2
    OBVIOUS
  <2> QED BY <1>4, <1>9, <1>11, <2>1
<1>13. \A k \in 1 .. (n + 1) : es[k] \in Range(deps) /\ es[k].source = b[k] /\ es[k].target = b[k + 1]
  <2> SUFFICES ASSUME NEW k \in 1 .. (n + 1)
               PROVE  es[k] \in Range(deps) /\ es[k].source = b[k] /\ es[k].target = b[k + 1]
    OBVIOUS
  <2>1. CASE k \in 1 .. n
    <3>1. k + 1 \in 1 .. (n + 1)
      BY <2>1
    <3> QED BY <1>4, <1>9, <1>10, <2>1, <3>1
  <2>2. CASE k = n + 1
    <3>1. k + 1 = n + 2
      BY <2>2
    <3> QED BY <1>6, <1>9, <1>10, <1>11, <2>2, <3>1
  <2> QED BY <2>1, <2>2
<1>14. PICK p : p = [assetIds |-> b, dependencies |-> es]
  OBVIOUS
<1>15. p \in Paths /\ p.assetIds = b /\ p.dependencies = es
  BY <1>9, <1>10, <1>14 DEF Paths
<1>16. Leads(p, deps, n + 1)
  <2>1. (n + 1) + 1 = n + 2
    OBVIOUS
  <2> QED BY <1>9, <1>10, <1>12, <1>13, <1>15, <2>1 DEF Leads, IsInjective
<1>17. p \in From(deps, entry, n + 1)
  <2>1. 1 \in 1 .. (n + 1)
    OBVIOUS
  <2> QED BY <1>4, <1>9, <1>15, <1>16, <2>1 DEF From
<1>18. Continues(p, path, n)
  BY <1>2, <1>3, <1>9, <1>10, <1>15 DEF Continues
<1>19. Last(p.assetIds) = d.target
  BY <1>6, <1>9, <1>15 DEF Last
<1>20. Along(path, d) = p
  BY <1>2, <1>3, <1>6, <1>7, <1>8, <1>14 DEF Along
<1> QED BY <1>10, <1>15, <1>17, <1>18, <1>19, <1>20

\* The extensions of a path are the paths that continue it by one dependency,
\* each once.
LEMMA ExtensionsAre ==
  ASSUME NEW inv, Graph(inv.dependencies), NEW n \in Nat, NEW entry, NEW path \in From(inv.dependencies, entry, n)
  PROVE  /\ Extensions(inv, path) \in Seq(Paths)
         /\ IsInjective(Extensions(inv, path))
         /\ Range(Extensions(inv, path)) =
              {p \in From(inv.dependencies, entry, n + 1) : Continues(p, path, n)}
<1>1. PICK deps \in Seq(Dependency) : deps = inv.dependencies
  BY DEF Graph
<1>2. path \in Paths /\ Leads(path, deps, n)
  BY <1>1 DEF From
<1>3. IsInjective(deps)
  BY <1>1 DEF Graph, IsInjective, SameRelationship
<1>4. PICK out : /\ out \in Seq(Dependency)
                 /\ Range(out) = Onward(inv, path)
                 /\ IsInjective(out)
                 /\ Extensions(inv, path) \in Seq(Paths)
                 /\ DOMAIN Extensions(inv, path) = DOMAIN out
                 /\ \A k \in DOMAIN out : Extensions(inv, path)[k] = Along(path, out[k])
  BY <1>1, <1>2, <1>3, ExtensionIs
<1>5. PICK e : e = Extensions(inv, path)
  OBVIOUS
<1>6. \A k \in DOMAIN e : /\ e[k] \in From(deps, entry, n + 1)
                          /\ Continues(e[k], path, n)
                          /\ e[k].dependencies[n + 1] = out[k]
  <2> SUFFICES ASSUME NEW k \in DOMAIN e
               PROVE  /\ e[k] \in From(deps, entry, n + 1)
                      /\ Continues(e[k], path, n)
                      /\ e[k].dependencies[n + 1] = out[k]
    OBVIOUS
  <2>1. PICK d \in Range(deps) : /\ d = out[k] /\ d.source = Last(path.assetIds)
                                 /\ d.target \notin Range(path.assetIds)
    BY <1>1, <1>4, <1>5 DEF Range, Onward
  <2>2. e[k] = Along(path, d)
    BY <1>4, <1>5, <2>1
  <2>3. path \in From(deps, entry, n)
    BY <1>1
  <2> QED BY <2>1, <2>2, <2>3, AppendedPath
<1>7. IsInjective(e)
  BY <1>4, <1>5, <1>6 DEF IsInjective
<1>8. ASSUME NEW p \in From(deps, entry, n + 1), Continues(p, path, n) PROVE p \in Range(e)
  <2>1. p \in Paths /\ Leads(p, deps, n + 1)
    BY DEF From
  <2>2. PICK d : d = p.dependencies[n + 1]
    OBVIOUS
  <2>3. n + 1 \in 1 .. (n + 1) /\ (n + 1) + 1 = n + 2
    OBVIOUS
  <2>4. /\ d \in Range(deps) /\ d.source = p.assetIds[n + 1] /\ d.target = p.assetIds[n + 2]
        /\ Len(p.assetIds) = n + 2 /\ Len(p.dependencies) = n + 1
    BY <2>1, <2>2, <2>3 DEF Leads
  <2>5. p.assetIds[n + 1] = Last(path.assetIds)
    BY <1>2, <1>8, <2>3 DEF Continues, Leads, Last
  <2>6. d.target \notin Range(path.assetIds)
    <3>1. DOMAIN path.assetIds = 1 .. (n + 1) /\ DOMAIN p.assetIds = 1 .. (n + 2)
      BY <1>2, <2>1, <2>4, PathIs DEF Leads
    <3>2. ASSUME NEW k \in 1 .. (n + 1), d.target = path.assetIds[k] PROVE FALSE
      <4>1. p.assetIds[k] = p.assetIds[n + 2]
        BY <1>8, <2>4, <3>2 DEF Continues
      <4>2. k \in DOMAIN p.assetIds /\ n + 2 \in DOMAIN p.assetIds /\ k # n + 2
        BY <3>1
      <4> QED BY <2>1, <4>1, <4>2 DEF Leads, IsInjective
    <3> QED BY <3>1, <3>2 DEF Range
  <2>7. PICK k \in DOMAIN out : out[k] = d
    BY <1>1, <1>4, <2>4, <2>5, <2>6 DEF Range, Onward
  <2>8. PICK q : q = e[k]
    OBVIOUS
  <2>9. q \in From(deps, entry, n + 1) /\ Continues(q, path, n) /\ q.dependencies[n + 1] = d /\ k \in DOMAIN e
    BY <1>4, <1>5, <1>6, <2>7, <2>8
  <2>10. q \in Paths /\ Leads(q, deps, n + 1)
    BY <2>9 DEF From
  <2>11. q.assetIds[n + 2] = d.target
    BY <2>3, <2>9, <2>10 DEF Leads
  <2>12. p.assetIds = q.assetIds
    <3>1. Len(q.assetIds) = n + 2 /\ p.assetIds \in Seq(Assets) /\ q.assetIds \in Seq(Assets)
      BY <2>1, <2>3, <2>10, PathIs DEF Leads
    <3>2. \A i \in 1 .. (n + 2) : p.assetIds[i] = q.assetIds[i]
      <4>1. \A i \in 1 .. (n + 2) : i \in 1 .. (n + 1) \/ i = n + 2
        OBVIOUS
      <4>2. \A i \in 1 .. (n + 1) : p.assetIds[i] = q.assetIds[i]
        BY <1>8, <2>9 DEF Continues
      <4> QED BY <2>4, <2>11, <4>1, <4>2
    <3> QED BY <2>4, <3>1, <3>2, SeqEqual
  <2>13. p.dependencies = q.dependencies
    <3>1. Len(q.dependencies) = n + 1 /\ p.dependencies \in Seq(Dependency) /\ q.dependencies \in Seq(Dependency)
      BY <2>1, <2>10, PathIs DEF Leads
    <3>2. \A i \in 1 .. (n + 1) : p.dependencies[i] = q.dependencies[i]
      <4>1. \A i \in 1 .. (n + 1) : i \in 1 .. n \/ i = n + 1
        OBVIOUS
      <4>2. \A i \in 1 .. n : p.dependencies[i] = q.dependencies[i]
        BY <1>8, <2>9 DEF Continues
      <4> QED BY <2>2, <2>9, <4>1, <4>2
    <3> QED BY <2>4, <3>1, <3>2, SeqEqual
  <2>14. p = q
    <3>1. p = [assetIds |-> p.assetIds, dependencies |-> p.dependencies]
      BY <2>1, PathIs
    <3>2. q = [assetIds |-> q.assetIds, dependencies |-> q.dependencies]
      BY <2>10, PathIs
    <3> QED BY <2>12, <2>13, <3>1, <3>2
  <2> QED BY <2>8, <2>9, <2>14 DEF Range
<1>9. \A p \in Range(e) : p \in From(deps, entry, n + 1) /\ Continues(p, path, n)
  BY <1>6 DEF Range
<1>10. Range(e) = {p \in From(deps, entry, n + 1) : Continues(p, path, n)}
  BY <1>8, <1>9
<1> QED BY <1>1, <1>4, <1>5, <1>7, <1>10

\* The next level holds the extensions of each path of a level.
Deepened(inv, paths) == FlattenSeq([k \in DOMAIN paths |-> Extensions(inv, paths[k])])

Start(entry) == [assetIds |-> <<entry>>, dependencies |-> << >>]

LevelsAre(f, inv, entry) ==
  /\ f \in [Nat -> Seq(Paths)]
  /\ f[0] = <<Start(entry)>>
  /\ \A n \in Nat : f[n + 1] = Deepened(inv, f[n])
  /\ \A n \in Nat : Level(inv, entry, n) = f[n]

\* Deepening keeps paths paths.
LEMMA DeepenedIs ==
  ASSUME NEW inv, inv.dependencies \in Seq(Dependency), NEW paths \in Seq(Paths)
  PROVE  /\ [k \in DOMAIN paths |-> Extensions(inv, paths[k])] \in Seq(Seq(Paths))
         /\ Deepened(inv, paths) \in Seq(Paths)
<1>1. Len(paths) \in Nat /\ DOMAIN paths = 1 .. Len(paths) /\ \A k \in DOMAIN paths : paths[k] \in Paths
  BY LenProperties, ElementOfSeq
<1>2. PICK seqs : seqs = [k \in DOMAIN paths |-> Extensions(inv, paths[k])]
  OBVIOUS
<1>3. \A k \in DOMAIN paths : Extensions(inv, paths[k]) \in Seq(Paths)
  BY <1>1, ExtensionIs
<1>4. seqs \in Seq(Seq(Paths))
  <2>1. seqs \in [1 .. Len(paths) -> Seq(Paths)]
    BY <1>1, <1>2, <1>3
  <2> QED BY <1>1, <2>1, SeqDef
<1>5. FlattenSeq(seqs) \in Seq(Paths)
  BY <1>4, FlattenIs
<1> QED BY <1>2, <1>4, <1>5 DEF Deepened

\* The levels follow one from the other, whichever of them is computed.
LEMMA LevelSteps ==
  ASSUME NEW inv, inv.dependencies \in Seq(Dependency), NEW entry \in Assets
  PROVE  \E f : LevelsAre(f, inv, entry)
<1>1. PICK Q : Q = Seq(Paths)
  OBVIOUS
<1>2. PICK base : base = <<Start(entry)>>
  OBVIOUS
<1>3. base \in Q
  <2>1. Start(entry) \in Paths
    BY DEF Start, Paths
  <2> QED BY <1>1, <1>2, <2>1
<1>4. PICK step : step = [p \in Nat \X Q |-> Deepened(inv, p[2])]
  OBVIOUS
<1>5. \A paths \in Q : Deepened(inv, paths) \in Q
  BY <1>1, DeepenedIs
<1>6. step \in [(Nat \X Q) -> Q]
  BY <1>4, <1>5
<1>7. PICK f \in [Nat -> Q] : Follows(f, base, step)
  BY <1>3, <1>6, Iteration
<1>8. f[0] = base /\ \A n \in Nat : f[n + 1] = Deepened(inv, f[n])
  <2>1. ASSUME NEW n \in Nat PROVE f[n + 1] = Deepened(inv, f[n])
    <3>1. f[n + 1] = step[<<n + 1, f[n]>>]
      BY <1>7 DEF Follows
    <3>2. <<n + 1, f[n]>> \in Nat \X Q
      OBVIOUS
    <3> QED BY <1>4, <3>1, <3>2
  <2> QED BY <1>7, <2>1 DEF Follows
<1>9. ASSUME NEW depth \in Nat PROVE Level(inv, entry, depth) = f[depth]
  <2> DEFINE F(g) == g = [n \in 0 .. depth |->
                           IF n = 0 THEN <<[assetIds |-> <<entry>>, dependencies |-> << >>]>>
                           ELSE FlattenSeq([k \in DOMAIN g[n - 1] |-> Extensions(inv, g[n - 1][k])])]
             level == CHOOSE g : F(g)
             fs == [n \in 0 .. depth |-> f[n]]
  <2>1. Level(inv, entry, depth) = level[depth]
    BY DEF Level
  <2>2. \A g : F(g) <=> g = [n \in 0 .. depth |-> IF n = 0 THEN base ELSE Deepened(inv, g[n - 1])]
    BY <1>2 DEF Start, Deepened
  <2>3. fs = [n \in 0 .. depth |-> IF n = 0 THEN base ELSE Deepened(inv, fs[n - 1])]
    <3>1. ASSUME NEW n \in 0 .. depth, n # 0 PROVE f[n] = Deepened(inv, f[n - 1]) /\ fs[n - 1] = f[n - 1]
      <4>1. n - 1 \in Nat /\ n - 1 \in 0 .. depth /\ (n - 1) + 1 = n
        BY <3>1
      <4> QED BY <1>8, <4>1
    <3>2. \A n \in 0 .. depth : f[n] = IF n = 0 THEN base ELSE Deepened(inv, fs[n - 1])
      BY <1>8, <3>1
    <3> HIDE DEF fs
    <3> QED BY <3>2 DEF fs
  <2> HIDE DEF F
  <2>4. F(level)
    BY <2>2, <2>3
  <2> HIDE DEF level
  <2>5. \A n \in 0 .. depth : level[n] = IF n = 0 THEN base ELSE Deepened(inv, level[n - 1])
    BY <2>2, <2>4
  <2>6. PICK T : T = {n \in Nat : n <= depth => level[n] = f[n]}
    OBVIOUS
  <2>7. 0 \in T
    BY <1>8, <2>5, <2>6
  <2>8. ASSUME NEW n \in T PROVE n + 1 \in T
    <3>1. n \in Nat /\ (n <= depth => level[n] = f[n])
      BY <2>6, <2>8
    <3>2. ASSUME n + 1 <= depth PROVE level[n + 1] = f[n + 1]
      <4>1. n + 1 \in 0 .. depth /\ n + 1 # 0 /\ (n + 1) - 1 = n /\ n <= depth
        BY <3>1, <3>2
      <4> QED BY <1>8, <2>5, <3>1, <4>1
    <3> QED BY <2>6, <3>1, <3>2
  <2>9. T = Nat
    <3>1. T \in SUBSET Nat
      BY <2>6
    <3> QED BY <2>7, <2>8, <3>1, EveryNumber
  <2> QED BY <2>1, <2>6, <2>9
<1> QED BY <1>1, <1>2, <1>7, <1>8, <1>9 DEF LevelsAre

\* The only path of no dependency.
LEMMA FirstLevel ==
  ASSUME NEW deps, NEW entry \in Assets
  PROVE  /\ From(deps, entry, 0) = {Start(entry)}
         /\ Start(entry) \in Paths
<1>1. PICK p : p = Start(entry)
  OBVIOUS
<1>2. p \in Paths /\ p.assetIds = <<entry>> /\ p.dependencies = << >>
  BY <1>1 DEF Start, Paths
<1>3. p \in From(deps, entry, 0)
  <2>1. Leads(p, deps, 0)
    BY <1>2 DEF Leads, IsInjective
  <2> QED BY <1>2, <2>1 DEF From
<1>4. ASSUME NEW q \in From(deps, entry, 0) PROVE q = p
  <2>1. /\ q \in Paths /\ Len(q.assetIds) = 1 /\ Len(q.dependencies) = 0
        /\ q.assetIds[1] = entry
    BY DEF From, Leads
  <2>2. PICK a \in Seq(Assets) : a = q.assetIds
    BY <2>1, PathIs
  <2>3. PICK d \in Seq(Dependency) : d = q.dependencies
    BY <2>1, PathIs
  <2>4. a = <<entry>>
    <3>1. <<entry>> \in Seq(Assets) /\ Len(<<entry>>) = 1 /\ <<entry>>[1] = entry
      OBVIOUS
    <3> QED BY <2>1, <2>2, <3>1, SeqEqual
  <2>5. d = << >>
    BY <2>1, <2>3, EmptySeq
  <2> QED BY <1>2, <2>1, <2>2, <2>3, <2>4, <2>5, PathIs
<1> QED BY <1>1, <1>2, <1>3, <1>4

\* Two paths of one length, one of which continues the other, are the same.
LEMMA SamePath ==
  ASSUME NEW n \in Nat, NEW deps, NEW p \in Paths, NEW q \in Paths,
         Leads(p, deps, n), Leads(q, deps, n), Continues(p, q, n)
  PROVE  p = q
<1>1. PICK a \in Seq(Assets) : a = p.assetIds
  BY PathIs
<1>2. PICK b \in Seq(Assets) : b = q.assetIds
  BY PathIs
<1>3. a = b
  BY <1>1, <1>2, SeqEqual DEF Leads, Continues
<1>4. PICK d \in Seq(Dependency) : d = p.dependencies
  BY PathIs
<1>5. PICK e \in Seq(Dependency) : e = q.dependencies
  BY PathIs
<1>6. d = e
  BY <1>4, <1>5, SeqEqual DEF Leads, Continues
<1> QED BY <1>1, <1>2, <1>3, <1>4, <1>5, <1>6, PathIs

Prefix(p, m) == [assetIds |-> SubSeq(p.assetIds, 1, m + 1), dependencies |-> SubSeq(p.dependencies, 1, m)]

\* The beginning of a path is a path.
LEMMA PrefixIs ==
  ASSUME NEW deps, NEW entry, NEW n \in Nat, NEW p \in From(deps, entry, n), NEW m \in 0 .. n
  PROVE  /\ Prefix(p, m) \in From(deps, entry, m)
         /\ Continues(p, Prefix(p, m), m)
         /\ Last(Prefix(p, m).assetIds) = p.assetIds[m + 1]
<1>1. p \in Paths /\ Leads(p, deps, n) /\ p.assetIds[1] = entry
  BY DEF From
<1>2. PICK a \in Seq(Assets) : a = p.assetIds
  BY <1>1, PathIs
<1>3. PICK d \in Seq(Dependency) : d = p.dependencies
  BY <1>1, PathIs
<1>4. /\ Len(a) = n + 1 /\ Len(d) = n /\ a[1] = entry /\ IsInjective(a) /\ DOMAIN a = 1 .. (n + 1)
      /\ \A k \in 1 .. (n + 1) : a[k] \in Assets
      /\ \A k \in 1 .. n : d[k] \in Dependency /\ d[k] \in Range(deps) /\ d[k].source = a[k] /\ d[k].target = a[k + 1]
  BY <1>1, <1>2, <1>3, PathIs DEF Leads
<1>5. /\ m \in Nat /\ m + 1 \in Int /\ m <= n /\ 1 .. (m + 1) \subseteq 1 .. (n + 1) /\ 1 .. m \subseteq 1 .. n
      /\ (m + 1) - 1 + 1 = m + 1 /\ 1 <= m + 1
  OBVIOUS
<1>6. PICK b : b = SubSeq(a, 1, m + 1)
  OBVIOUS
<1>7. /\ b \in Seq(Assets) /\ Len(b) = m + 1
      /\ \A k \in 1 .. (m + 1) : b[k] = a[k]
  <2>1. \A k \in 1 .. (m + 1) : a[k] \in Assets
    BY <1>4, <1>5
  <2>2. /\ b \in Seq(Assets)
        /\ Len(b) = IF 1 <= m + 1 THEN (m + 1) - 1 + 1 ELSE 0
        /\ \A k \in 1 .. (m + 1) - 1 + 1 : b[k] = a[1 + k - 1]
    BY <1>5, <1>6, <2>1, SubSeqProperties
  <2>3. \A k \in 1 .. (m + 1) : 1 + k - 1 = k
    OBVIOUS
  <2> QED BY <1>5, <2>2, <2>3
<1>8. PICK e : e = SubSeq(d, 1, m)
  OBVIOUS
<1>9. /\ e \in Seq(Dependency) /\ Len(e) = m
      /\ \A k \in 1 .. m : e[k] = d[k]
  <2>1. \A k \in 1 .. m : d[k] \in Dependency
    BY <1>4, <1>5
  <2>2. /\ e \in Seq(Dependency)
        /\ Len(e) = IF 1 <= m THEN m - 1 + 1 ELSE 0
        /\ \A k \in 1 .. m - 1 + 1 : e[k] = d[1 + k - 1]
    BY <1>5, <1>8, <2>1, SubSeqProperties
  <2>3. m - 1 + 1 = m /\ (~(1 <= m) => m = 0) /\ \A k \in 1 .. m : 1 + k - 1 = k
    OBVIOUS
  <2> QED BY <2>2, <2>3
<1>10. PICK q : q = [assetIds |-> b, dependencies |-> e]
  OBVIOUS
<1>11. q \in Paths /\ q.assetIds = b /\ q.dependencies = e
  BY <1>7, <1>9, <1>10 DEF Paths
<1>12. Prefix(p, m) = q
  BY <1>2, <1>3, <1>6, <1>8, <1>10 DEF Prefix
<1>13. DOMAIN b = 1 .. (m + 1)
  BY <1>7, LenProperties
<1>14. IsInjective(b)
  BY <1>4, <1>5, <1>7, <1>13 DEF IsInjective
<1>15. \A k \in 1 .. m : e[k] \in Range(deps) /\ e[k].source = b[k] /\ e[k].target = b[k + 1]
  <2>1. \A k \in 1 .. m : k \in 1 .. n /\ k \in 1 .. (m + 1) /\ k + 1 \in 1 .. (m + 1)
    BY <1>5
  <2> QED BY <1>4, <1>7, <1>9, <2>1
<1>16. Leads(q, deps, m)
  BY <1>7, <1>9, <1>11, <1>14, <1>15 DEF Leads
<1>17. q \in From(deps, entry, m)
  <2>1. 1 \in 1 .. (m + 1)
    BY <1>5
  <2> QED BY <1>4, <1>7, <1>11, <1>16, <2>1 DEF From
<1>18. Continues(p, q, m)
  BY <1>2, <1>3, <1>7, <1>9, <1>11 DEF Continues
<1>19. Last(q.assetIds) = p.assetIds[m + 1]
  <2>1. m + 1 \in 1 .. (m + 1)
    BY <1>5
  <2> QED BY <1>2, <1>7, <1>11, <2>1 DEF Last
<1> QED BY <1>12, <1>17, <1>18, <1>19

\* A level holds the paths of its depth, each once.
LEMMA LevelIs ==
  ASSUME NEW inv, Graph(inv.dependencies), NEW entry \in Assets, NEW depth \in Nat
  PROVE  /\ Level(inv, entry, depth) \in Seq(Paths)
         /\ IsInjective(Level(inv, entry, depth))
         /\ Range(Level(inv, entry, depth)) = From(inv.dependencies, entry, depth)
<1>1. PICK deps : deps = inv.dependencies
  OBVIOUS
<1>2. deps \in Seq(Dependency) /\ inv.dependencies \in Seq(Dependency)
  BY <1>1 DEF Graph
<1>3. PICK f : LevelsAre(f, inv, entry)
  BY <1>2, LevelSteps
<1>4. \A n \in Nat : f[n] \in Seq(Paths) /\ f[n + 1] = Deepened(inv, f[n]) /\ Level(inv, entry, n) = f[n]
  BY <1>3 DEF LevelsAre
<1>5. PICK T : T = {n \in Nat : IsInjective(f[n]) /\ Range(f[n]) = From(deps, entry, n)}
  OBVIOUS
<1>6. 0 \in T
  <2>1. f[0] = <<Start(entry)>>
    BY <1>3 DEF LevelsAre
  <2>2. IsInjective(f[0]) /\ Range(f[0]) = {Start(entry)}
    BY <2>1 DEF IsInjective, Range
  <2>3. From(deps, entry, 0) = {Start(entry)}
    BY FirstLevel
  <2> QED BY <1>5, <2>2, <2>3
<1>7. ASSUME NEW n \in T PROVE n + 1 \in T
  <2>1. n \in Nat /\ IsInjective(f[n]) /\ Range(f[n]) = From(deps, entry, n) /\ f[n] \in Seq(Paths)
    BY <1>4, <1>5
  <2>2. PICK s \in Seq(Paths) : s = f[n]
    BY <2>1
  <2>3. PICK seqs : seqs = [k \in DOMAIN s |-> Extensions(inv, s[k])]
    OBVIOUS
  <2>4. f[n + 1] = FlattenSeq(seqs) /\ seqs \in Seq(Seq(Paths)) /\ DOMAIN seqs = DOMAIN s
    BY <1>2, <1>4, <2>1, <2>2, <2>3, DeepenedIs DEF Deepened
  <2>5. \A k \in DOMAIN s : s[k] \in From(deps, entry, n)
    BY <2>1, <2>2 DEF Range
  <2>6. \A k \in DOMAIN s : /\ IsInjective(seqs[k])
                           /\ Range(seqs[k]) = {p \in From(deps, entry, n + 1) : Continues(p, s[k], n)}
    <3> SUFFICES ASSUME NEW k \in DOMAIN s
                 PROVE  /\ IsInjective(seqs[k])
                        /\ Range(seqs[k]) = {p \in From(deps, entry, n + 1) : Continues(p, s[k], n)}
      OBVIOUS
    <3>1. PICK x : x = s[k]
      OBVIOUS
    <3>2. x \in From(inv.dependencies, entry, n)
      BY <1>1, <2>5, <3>1
    <3>3. /\ IsInjective(Extensions(inv, x))
          /\ Range(Extensions(inv, x)) = {p \in From(inv.dependencies, entry, n + 1) : Continues(p, x, n)}
      BY <2>1, <3>2, ExtensionsAre
    <3>4. seqs[k] = Extensions(inv, x)
      BY <2>3, <3>1
    <3> QED BY <1>1, <3>1, <3>3, <3>4
  <2>7. ASSUME NEW j \in DOMAIN s, NEW k \in DOMAIN s, NEW p, Continues(p, s[j], n), Continues(p, s[k], n)
        PROVE  j = k
    <3>1. PICK x : x = s[j]
      OBVIOUS
    <3>2. PICK y : y = s[k]
      OBVIOUS
    <3>3. x \in Paths /\ Leads(x, deps, n) /\ y \in Paths /\ Leads(y, deps, n)
      BY <2>5, <3>1, <3>2 DEF From
    <3>4. Continues(x, y, n)
      BY <2>7, <3>1, <3>2 DEF Continues
    <3>5. x = y
      BY <2>1, <3>3, <3>4, SamePath
    <3> QED BY <2>1, <2>2, <3>1, <3>2, <3>5 DEF IsInjective
  <2>8. \A j, k \in DOMAIN seqs : j # k => Range(seqs[j]) \cap Range(seqs[k]) = {}
    BY <2>4, <2>6, <2>7
  <2>9. IsInjective(FlattenSeq(seqs)) /\ Range(FlattenSeq(seqs)) = UNION {Range(seqs[k]) : k \in DOMAIN seqs}
    BY <2>4, <2>6, <2>8, FlattenIs
  <2>10. \A p \in From(deps, entry, n + 1) : \E k \in DOMAIN seqs : p \in Range(seqs[k])
    <3> SUFFICES ASSUME NEW p \in From(deps, entry, n + 1) PROVE \E k \in DOMAIN seqs : p \in Range(seqs[k])
      OBVIOUS
    <3>1. n + 1 \in Nat /\ n \in 0 .. (n + 1)
      BY <2>1
    <3>2. Prefix(p, n) \in From(deps, entry, n) /\ Continues(p, Prefix(p, n), n)
      BY <3>1, PrefixIs
    <3>3. PICK k \in DOMAIN s : s[k] = Prefix(p, n)
      BY <2>1, <2>2, <3>2 DEF Range
    <3> QED BY <2>4, <2>6, <3>2, <3>3
  <2>11. Range(FlattenSeq(seqs)) = From(deps, entry, n + 1)
    BY <2>4, <2>6, <2>9, <2>10
  <2> QED BY <1>5, <2>1, <2>4, <2>9, <2>11
<1>8. T = Nat
  <2>1. T \in SUBSET Nat
    BY <1>5
  <2> QED BY <1>6, <1>7, <2>1, EveryNumber
<1> QED BY <1>1, <1>4, <1>5, <1>8

\* The paths over at most maxDepth dependencies from an entry, from all entries.
FromEntry(deps, entry, maxDepth) == UNION {From(deps, entry, n) : n \in 0 .. maxDepth}
AllPaths(deps, entries, maxDepth) == UNION {FromEntry(deps, e, maxDepth) : e \in entries}

\* The queue of an entry yields its paths, each once.
LEMMA QueueIs ==
  ASSUME NEW inv, Graph(inv.dependencies), NEW entry \in Assets, NEW maxDepth \in Nat
  PROVE  /\ Queue(inv, entry, maxDepth) \in Seq(Paths)
         /\ IsInjective(Queue(inv, entry, maxDepth))
         /\ Range(Queue(inv, entry, maxDepth)) = FromEntry(inv.dependencies, entry, maxDepth)
<1>1. PICK deps : deps = inv.dependencies
  OBVIOUS
<1>2. PICK seqs : seqs = [n \in 1 .. maxDepth + 1 |-> Level(inv, entry, n - 1)]
  OBVIOUS
<1>3. Queue(inv, entry, maxDepth) = FlattenSeq(seqs) /\ DOMAIN seqs = 1 .. (maxDepth + 1)
  BY <1>2 DEF Queue
<1>4. \A n \in 1 .. (maxDepth + 1) : /\ seqs[n] \in Seq(Paths)
                                     /\ IsInjective(seqs[n])
                                     /\ Range(seqs[n]) = From(deps, entry, n - 1)
  <2> SUFFICES ASSUME NEW n \in 1 .. (maxDepth + 1)
               PROVE  /\ seqs[n] \in Seq(Paths) /\ IsInjective(seqs[n])
                      /\ Range(seqs[n]) = From(deps, entry, n - 1)
    OBVIOUS
  <2>1. PICK m \in Nat : m = n - 1
    OBVIOUS
  <2>2. seqs[n] = Level(inv, entry, m)
    BY <1>2, <2>1
  <2> QED BY <1>1, <2>1, <2>2, LevelIs
<1>5. seqs \in Seq(Seq(Paths))
  <2>1. seqs \in [1 .. (maxDepth + 1) -> Seq(Paths)]
    BY <1>2, <1>4
  <2>2. maxDepth + 1 \in Nat
    OBVIOUS
  <2> QED BY <2>1, <2>2, SeqDef
<1>6. ASSUME NEW j \in DOMAIN seqs, NEW k \in DOMAIN seqs, NEW p \in Range(seqs[j]), p \in Range(seqs[k])
      PROVE  j = k
  <2>1. p \in From(deps, entry, j - 1) /\ p \in From(deps, entry, k - 1)
    BY <1>3, <1>4, <1>6
  <2>2. Len(p.assetIds) = (j - 1) + 1 /\ Len(p.assetIds) = (k - 1) + 1
    BY <2>1 DEF From, Leads
  <2>3. j \in Int /\ k \in Int
    BY <1>3
  <2> QED BY <2>2, <2>3
<1>7. /\ FlattenSeq(seqs) \in Seq(Paths)
      /\ IsInjective(FlattenSeq(seqs))
      /\ Range(FlattenSeq(seqs)) = UNION {Range(seqs[k]) : k \in DOMAIN seqs}
  <2>1. \A j, k \in DOMAIN seqs : j # k => Range(seqs[j]) \cap Range(seqs[k]) = {}
    BY <1>6
  <2> QED BY <1>3, <1>4, <1>5, <2>1, FlattenIs
<1>8. UNION {Range(seqs[k]) : k \in DOMAIN seqs} = FromEntry(deps, entry, maxDepth)
  <2>1. ASSUME NEW k \in DOMAIN seqs, NEW p \in Range(seqs[k]) PROVE p \in FromEntry(deps, entry, maxDepth)
    <3>1. p \in From(deps, entry, k - 1) /\ k - 1 \in 0 .. maxDepth
      BY <1>3, <1>4, <2>1
    <3> QED BY <3>1 DEF FromEntry
  <2>2. ASSUME NEW n \in 0 .. maxDepth, NEW p \in From(deps, entry, n)
        PROVE  \E k \in DOMAIN seqs : p \in Range(seqs[k])
    <3>1. n + 1 \in DOMAIN seqs /\ (n + 1) - 1 = n
      BY <1>3
    <3> QED BY <1>3, <1>4, <3>1
  <2> QED BY <2>1, <2>2 DEF FromEntry
<1> QED BY <1>1, <1>3, <1>7, <1>8

\* What the traversal would examine without limits.
Order(inv, entryAssetIds, maxDepth) ==
  FlattenSeq([k \in DOMAIN entryAssetIds |-> Queue(inv, entryAssetIds[k], maxDepth)])

\* It is every path from an entry, once.
LEMMA OrderIs ==
  ASSUME NEW inv, Graph(inv.dependencies), NEW entryAssetIds \in Seq(Assets), IsInjective(entryAssetIds),
         NEW maxDepth \in Nat
  PROVE  /\ Order(inv, entryAssetIds, maxDepth) \in Seq(Paths)
         /\ IsInjective(Order(inv, entryAssetIds, maxDepth))
         /\ Range(Order(inv, entryAssetIds, maxDepth)) =
              AllPaths(inv.dependencies, Range(entryAssetIds), maxDepth)
<1>1. PICK deps : deps = inv.dependencies
  OBVIOUS
<1>2. PICK seqs : seqs = [k \in DOMAIN entryAssetIds |-> Queue(inv, entryAssetIds[k], maxDepth)]
  OBVIOUS
<1>3. /\ Order(inv, entryAssetIds, maxDepth) = FlattenSeq(seqs)
      /\ Len(entryAssetIds) \in Nat /\ DOMAIN entryAssetIds = 1 .. Len(entryAssetIds)
      /\ DOMAIN seqs = DOMAIN entryAssetIds
      /\ \A k \in DOMAIN seqs : entryAssetIds[k] \in Assets
  BY <1>2, LenProperties, ElementOfSeq DEF Order
<1>4. \A k \in DOMAIN seqs : /\ seqs[k] \in Seq(Paths)
                             /\ IsInjective(seqs[k])
                             /\ Range(seqs[k]) = FromEntry(deps, entryAssetIds[k], maxDepth)
  BY <1>1, <1>2, <1>3, QueueIs
<1>5. seqs \in Seq(Seq(Paths))
  <2>1. seqs \in [1 .. Len(entryAssetIds) -> Seq(Paths)]
    BY <1>2, <1>3, <1>4
  <2> QED BY <1>3, <2>1, SeqDef
<1>6. ASSUME NEW j \in DOMAIN seqs, NEW k \in DOMAIN seqs, NEW p \in Range(seqs[j]), p \in Range(seqs[k])
      PROVE  j = k
  <2>1. p \in FromEntry(deps, entryAssetIds[j], maxDepth) /\ p \in FromEntry(deps, entryAssetIds[k], maxDepth)
    BY <1>4, <1>6
  <2>2. p.assetIds[1] = entryAssetIds[j] /\ p.assetIds[1] = entryAssetIds[k]
    BY <2>1 DEF FromEntry, From
  <2> QED BY <1>3, <2>2 DEF IsInjective
<1>7. /\ FlattenSeq(seqs) \in Seq(Paths)
      /\ IsInjective(FlattenSeq(seqs))
      /\ Range(FlattenSeq(seqs)) = UNION {Range(seqs[k]) : k \in DOMAIN seqs}
  <2>1. \A j, k \in DOMAIN seqs : j # k => Range(seqs[j]) \cap Range(seqs[k]) = {}
    BY <1>6
  <2> QED BY <1>4, <1>5, <2>1, FlattenIs
<1>8. UNION {Range(seqs[k]) : k \in DOMAIN seqs} = AllPaths(deps, Range(entryAssetIds), maxDepth)
  <2>1. ASSUME NEW k \in DOMAIN seqs, NEW p \in Range(seqs[k])
        PROVE  p \in AllPaths(deps, Range(entryAssetIds), maxDepth)
    <3>1. entryAssetIds[k] \in Range(entryAssetIds) /\ p \in FromEntry(deps, entryAssetIds[k], maxDepth)
      BY <1>3, <1>4 DEF Range
    <3> QED BY <3>1 DEF AllPaths
  <2>2. ASSUME NEW e \in Range(entryAssetIds), NEW p \in FromEntry(deps, e, maxDepth)
        PROVE  \E k \in DOMAIN seqs : p \in Range(seqs[k])
    <3>1. PICK k \in DOMAIN seqs : entryAssetIds[k] = e
      BY <1>3 DEF Range
    <3> QED BY <1>4, <3>1
  <2> QED BY <2>1, <2>2 DEF AllPaths
<1> QED BY <1>1, <1>3, <1>7, <1>8

\* A sequence that holds what it holds once is as long as that is many.
LEMMA CountIs ==
  ASSUME NEW T, NEW seq \in Seq(T), IsInjective(seq)
  PROVE  IsFiniteSet(Range(seq)) /\ Cardinality(Range(seq)) = Len(seq)
<1>1. Len(seq) \in Nat /\ DOMAIN seq = 1 .. Len(seq) /\ seq \in [1 .. Len(seq) -> T]
  BY LenProperties
<1>2. seq \in [1 .. Len(seq) -> Range(seq)]
  BY <1>1 DEF Range
<1>3. seq \in Bijection(1 .. Len(seq), Range(seq))
  BY <1>1, <1>2 DEF Bijection, Injection, Surjection, Range
<1>4. ExistsBijection(1 .. Len(seq), Range(seq))
  BY <1>3 DEF ExistsBijection
<1>5. Cardinality(Range(seq)) = Len(seq)
  BY <1>1, <1>4, FS_CountingElements
<1>6. IsFiniteSet(Range(seq))
  BY <1>1, <1>4, FS_NatBijection
<1> QED BY <1>5, <1>6

\* The first n elements of a sequence, and how many of them are of a set.
FirstOnes(first, T, seq, n, S) ==
  /\ first \in Seq(T) /\ Len(first) = n /\ IsInjective(first)
  /\ \A i \in 1 .. n : first[i] = seq[i]
  /\ Range(first) \subseteq Range(seq)
  /\ n = Len(seq) => Range(first) = Range(seq)
  /\ Cardinality({i \in 1 .. n : seq[i] \in S}) = Len(Only(first, S))

\* So many of a set are among the first of a sequence.
LEMMA CountFirst ==
  ASSUME NEW T, NEW seq \in Seq(T), IsInjective(seq), NEW n \in 0 .. Len(seq), NEW S,
         NEW first, first = SubSeq(seq, 1, n)
  PROVE  FirstOnes(first, T, seq, n, S)
<1>1. /\ Len(seq) \in Nat /\ DOMAIN seq = 1 .. Len(seq) /\ \A i \in 1 .. Len(seq) : seq[i] \in T
      /\ n \in Nat /\ n <= Len(seq) /\ 1 .. n \subseteq 1 .. Len(seq)
  <2>1. Len(seq) \in Nat /\ DOMAIN seq = 1 .. Len(seq) /\ \A i \in 1 .. Len(seq) : seq[i] \in T
    BY LenProperties, ElementOfSeq
  <2>2. n \in Nat /\ n <= Len(seq)
    BY <2>1
  <2>3. 1 .. n \subseteq 1 .. Len(seq)
    BY <2>1, <2>2
  <2> QED BY <2>1, <2>2, <2>3
<1>3. first \in Seq(T) /\ Len(first) = n /\ DOMAIN first = 1 .. n /\ \A i \in 1 .. n : first[i] = seq[i]
  <2>1. \A i \in 1 .. n : seq[i] \in T
    BY <1>1
  <2>2. /\ first \in Seq(T)
        /\ Len(first) = IF 1 <= n THEN n - 1 + 1 ELSE 0
        /\ \A i \in 1 .. n - 1 + 1 : first[i] = seq[1 + i - 1]
    BY <1>1, <2>1, SubSeqProperties
  <2>3. n - 1 + 1 = n /\ (~(1 <= n) => n = 0) /\ \A i \in 1 .. n : 1 + i - 1 = i
    BY <1>1
  <2>4. Len(first) = n
    BY <2>2, <2>3
  <2>5. DOMAIN first = 1 .. n
    BY <2>2, <2>4, LenProperties
  <2> QED BY <2>2, <2>3, <2>4, <2>5
<1>4. IsInjective(first)
  BY <1>1, <1>3 DEF IsInjective
<1>5. Range(first) \subseteq Range(seq) /\ (n = Len(seq) => Range(first) = Range(seq))
  BY <1>1, <1>3 DEF Range
<1>6. PICK out : out = Only(first, S)
  OBVIOUS
<1>7. out \in Seq(T) /\ Range(out) = Range(first) \cap S /\ IsInjective(out)
  BY <1>3, <1>4, <1>6, OnlyIs
<1>8. PICK K : K = {i \in 1 .. n : seq[i] \in S}
  OBVIOUS
<1>9. PICK f : f = [i \in K |-> seq[i]]
  OBVIOUS
<1>10. f \in Bijection(K, Range(out))
  <2>1. f \in [K -> Range(out)] /\ \A i \in K : f[i] = first[i] /\ i \in DOMAIN first
    BY <1>3, <1>7, <1>8, <1>9 DEF Range
  <2>2. IsInjective(f)
    BY <1>4, <1>9, <2>1 DEF IsInjective
  <2>3. \A x \in Range(out) : \E i \in K : f[i] = x
    <3> SUFFICES ASSUME NEW x \in Range(first), x \in S PROVE \E i \in K : f[i] = x
      BY <1>7
    <3>1. PICK i \in 1 .. n : first[i] = x
      BY <1>3 DEF Range
    <3>2. seq[i] = x /\ i \in K
      BY <1>3, <1>8, <3>1
    <3> QED BY <1>9, <3>2
  <2> QED BY <2>1, <2>2, <2>3 DEF Bijection, Injection, Surjection
<1>11. IsFiniteSet(K)
  <2>1. IsFiniteSet(1 .. n)
    BY <1>1, FS_Interval
  <2> QED BY <1>8, <2>1, FS_Subset
<1>12. Cardinality(K) = Cardinality(Range(out))
  BY <1>10, <1>11, FS_Bijection DEF ExistsBijection
<1>13. Cardinality(Range(out)) = Len(out)
  BY <1>7, CountIs
<1> QED BY <1>3, <1>4, <1>5, <1>6, <1>8, <1>12, <1>13 DEF FirstOnes

Reached(inv, paths) == Only(paths, {path \in Range(paths) : ReachesService(inv, path)})

\* The traversal examines paths from the entries, each once, not more than the
\* limit reach a service, and short of both limits it examines all.
LEMMA ExaminedIs ==
  ASSUME NEW inv, Graph(inv.dependencies), NEW entryAssetIds \in Seq(Assets), IsInjective(entryAssetIds),
         NEW maxDepth \in Nat
  PROVE  LET examined == Examined(inv, entryAssetIds, maxDepth)
             all == AllPaths(inv.dependencies, Range(entryAssetIds), maxDepth)
         IN  /\ examined \in Seq(Paths) /\ IsInjective(examined) /\ Range(examined) \subseteq all
             /\ Len(Reached(inv, examined)) <= PathLimit
             /\ Len(examined) < ExamineLimit /\ Len(Reached(inv, examined)) < PathLimit => Range(examined) = all
<1>1. PICK order : order = Order(inv, entryAssetIds, maxDepth)
  OBVIOUS
<1>2. /\ order \in Seq(Paths) /\ IsInjective(order)
      /\ Range(order) = AllPaths(inv.dependencies, Range(entryAssetIds), maxDepth)
  BY <1>1, OrderIs
<1>3. Len(order) \in Nat /\ DOMAIN order = 1 .. Len(order) /\ ExamineLimit \in Nat \ {0} /\ PathLimit \in Nat \ {0}
  BY <1>2, LenProperties, LimitAssumption
<1> DEFINE Traversed(k) == Cardinality({i \in 1 .. k : ReachesService(inv, order[i])})
<1>16. PICK K : K = {k \in DOMAIN order : k <= ExamineLimit /\ Traversed(k - 1) < PathLimit}
  OBVIOUS
<1>17. PICK last : last = Max({0} \cup K)
  OBVIOUS
<1>4. Examined(inv, entryAssetIds, maxDepth) = SubSeq(order, 1, last)
  BY <1>1, <1>16, <1>17 DEF Examined, Order
<1>5. last \in {0} \cup K /\ \A k \in K : k <= last
  <2>1. {0} \cup K \in SUBSET (0 .. Len(order)) /\ {0} \cup K # {}
    BY <1>3, <1>16
  <2> QED BY <1>3, <1>17, <2>1, MaxIs
<1>6. last \in 0 .. Len(order) /\ last <= ExamineLimit
  BY <1>3, <1>5, <1>16
<1>7. PICK examined : examined = SubSeq(order, 1, last)
  OBVIOUS
<1>8. PICK S : S = {path \in Range(order) : ReachesService(inv, path)}
  OBVIOUS
<1>9. /\ examined \in Seq(Paths) /\ Len(examined) = last /\ IsInjective(examined)
      /\ Range(examined) \subseteq Range(order)
      /\ last = Len(order) => Range(examined) = Range(order)
      /\ Cardinality({i \in 1 .. last : order[i] \in S}) = Len(Only(examined, S))
  <2>1. FirstOnes(examined, Paths, order, last, S)
    BY <1>2, <1>6, <1>7, CountFirst
  <2> QED BY <2>1 DEF FirstOnes
<1>10. \A k \in 0 .. Len(order) : {i \in 1 .. k : order[i] \in S} = {i \in 1 .. k : ReachesService(inv, order[i])}
  <2> SUFFICES ASSUME NEW k \in 0 .. Len(order), NEW i \in 1 .. k
               PROVE  order[i] \in S <=> ReachesService(inv, order[i])
    OBVIOUS
  <2>1. i \in DOMAIN order
    BY <1>3
  <2> QED BY <1>8, <2>1 DEF Range
<1>11. Only(examined, S) = Reached(inv, examined)
  <2>1. \A k \in DOMAIN examined : examined[k] \in S <=> examined[k] \in {path \in Range(examined) : ReachesService(inv, path)}
    BY <1>8, <1>9 DEF Range
  <2> QED BY <2>1 DEF Only, Reached
<1>12. Len(Reached(inv, examined)) = Traversed(last)
  BY <1>6, <1>9, <1>10, <1>11
<1>13. \A k \in 0 .. Len(order) : IsFiniteSet({i \in 1 .. k : ReachesService(inv, order[i])}) /\ Traversed(k) \in Nat
  <2> SUFFICES ASSUME NEW k \in 0 .. Len(order)
               PROVE  IsFiniteSet({i \in 1 .. k : ReachesService(inv, order[i])}) /\ Traversed(k) \in Nat
    OBVIOUS
  <2>1. IsFiniteSet(1 .. k)
    BY FS_Interval
  <2>2. IsFiniteSet({i \in 1 .. k : ReachesService(inv, order[i])})
    BY <2>1, FS_Subset
  <2> QED BY <2>2, FS_CardinalityType
<1>14. Traversed(last) <= PathLimit
  <2>1. CASE last = 0
    <3>1. {i \in 1 .. 0 : ReachesService(inv, order[i])} = {}
      OBVIOUS
    <3>2. Traversed(0) = 0
      BY <3>1, FS_EmptySet
    <3>3. 0 <= PathLimit
      BY <1>3
    <3> QED BY <2>1, <3>2, <3>3
  <2>2. CASE last \in K
    <3>1. PICK l \in 1 .. Len(order) : l = last
      BY <1>3, <1>16, <2>2
    <3>2. Traversed(l - 1) < PathLimit /\ l - 1 \in 0 .. Len(order) /\ l \in 0 .. Len(order)
      BY <1>3, <1>16, <2>2, <3>1
    <3>3. PICK A : A = {i \in 1 .. (l - 1) : ReachesService(inv, order[i])}
      OBVIOUS
    <3>4. IsFiniteSet(A) /\ Cardinality(A) = Traversed(l - 1) /\ Cardinality(A) \in Nat
      BY <1>13, <3>2, <3>3
    <3>5. {i \in 1 .. l : ReachesService(inv, order[i])} \subseteq A \cup {l}
      BY <1>3, <3>3
    <3>6. IsFiniteSet(A \cup {l}) /\ Cardinality(A \cup {l}) <= Cardinality(A) + 1 /\ Cardinality(A \cup {l}) \in Nat
      <4>1. PICK c \in Nat : c = Cardinality(A)
        BY <3>4
      <4>2. IsFiniteSet(A \cup {l}) /\ Cardinality(A \cup {l}) \in {c, c + 1}
        BY <3>4, <4>1, FS_AddElement
      <4> QED BY <4>1, <4>2
    <3>7. Traversed(l) <= Cardinality(A \cup {l})
      BY <3>5, <3>6, FS_Subset
    <3>8. Traversed(l) \in Nat
      BY <1>13, <3>2
    <3> HIDE DEF Traversed
    <3>9. Traversed(l) <= PathLimit
      BY <1>3, <3>2, <3>4, <3>6, <3>7, <3>8
    <3> QED BY <3>1, <3>9
  <2> QED BY <1>5, <2>1, <2>2
<1>15. ASSUME last < ExamineLimit, Traversed(last) < PathLimit PROVE last = Len(order)
  <2> SUFFICES ASSUME last # Len(order) PROVE FALSE
    OBVIOUS
  <2>0. PICK b \in Nat : b = Len(order)
    BY <1>3
  <2>1. PICK l \in 0 .. b : l = last /\ l < ExamineLimit /\ l # b
    BY <1>6, <1>15, <2>0
  <2>2. l + 1 \in DOMAIN order /\ l + 1 <= ExamineLimit /\ (l + 1) - 1 = l
    <3>1. PICK e \in Nat : e = ExamineLimit
      BY <1>3
    <3>2. l + 1 \in 1 .. b /\ l + 1 <= e /\ (l + 1) - 1 = l
      BY <2>1, <3>1
    <3> QED BY <1>3, <2>0, <3>1, <3>2
  <2>3. Traversed((l + 1) - 1) < PathLimit
    BY <1>15, <2>1, <2>2
  <2>4. l + 1 \in K
    BY <1>16, <2>2, <2>3
  <2>5. l + 1 <= l
    BY <1>5, <2>1, <2>4
  <2> QED BY <2>5
<1> HIDE DEF Traversed
<1> QED BY <1>2, <1>4, <1>7, <1>9, <1>12, <1>14, <1>15

-----------------------------------------------------------------------------
(* What can be reached.                                                    *)

\* One dependency further.
Spread(deps, near) == near \cup {d.target : d \in {d \in Range(deps) : d.source \in near}}

Nears(f, deps, entries) ==
  /\ f[0] = entries
  /\ \A n \in Nat : f[n + 1] = Spread(deps, f[n])
  /\ \A n \in Nat : Within(deps, entries, n) = f[n]
  /\ \A n \in Nat : f[n] \subseteq entries \cup {d.target : d \in Range(deps)}

\* What is within a distance follows from what is within the one before,
\* whichever distance is computed.
LEMMA NearSteps ==
  ASSUME NEW deps, NEW entries
  PROVE  \E f : Nears(f, deps, entries)
<1>1. PICK Q : Q = SUBSET (entries \cup {d.target : d \in Range(deps)})
  OBVIOUS
<1>2. entries \in Q
  BY <1>1
<1>3. PICK step : step = [p \in Nat \X Q |-> Spread(deps, p[2])]
  OBVIOUS
<1>4. \A near \in Q : Spread(deps, near) \in Q
  BY <1>1 DEF Spread
<1>5. step \in [(Nat \X Q) -> Q]
  BY <1>3, <1>4
<1>6. PICK f \in [Nat -> Q] : Follows(f, entries, step)
  BY <1>2, <1>5, Iteration
<1>7. f[0] = entries /\ \A n \in Nat : f[n + 1] = Spread(deps, f[n])
  <2>1. ASSUME NEW n \in Nat PROVE f[n + 1] = Spread(deps, f[n])
    <3>1. f[n + 1] = step[<<n + 1, f[n]>>]
      BY <1>6 DEF Follows
    <3>2. <<n + 1, f[n]>> \in Nat \X Q
      OBVIOUS
    <3> QED BY <1>3, <3>1, <3>2
  <2> QED BY <1>6, <2>1 DEF Follows
<1>8. ASSUME NEW depth \in Nat PROVE Within(deps, entries, depth) = f[depth]
  <2> DEFINE F(g) == g = [n \in 0 .. depth |->
                           IF n = 0 THEN entries
                           ELSE g[n - 1] \cup {d.target : d \in {d \in Range(deps) : d.source \in g[n - 1]}}]
             near == CHOOSE g : F(g)
             fs == [n \in 0 .. depth |-> f[n]]
  <2>1. Within(deps, entries, depth) = near[depth]
    BY DEF Within
  <2>2. \A g : F(g) <=> g = [n \in 0 .. depth |-> IF n = 0 THEN entries ELSE Spread(deps, g[n - 1])]
    BY DEF Spread
  <2>3. fs = [n \in 0 .. depth |-> IF n = 0 THEN entries ELSE Spread(deps, fs[n - 1])]
    <3>1. ASSUME NEW n \in 0 .. depth, n # 0 PROVE f[n] = Spread(deps, f[n - 1]) /\ fs[n - 1] = f[n - 1]
      <4>1. n - 1 \in Nat /\ n - 1 \in 0 .. depth /\ (n - 1) + 1 = n
        BY <3>1
      <4> QED BY <1>7, <4>1
    <3>2. \A n \in 0 .. depth : f[n] = IF n = 0 THEN entries ELSE Spread(deps, fs[n - 1])
      BY <1>7, <3>1
    <3> HIDE DEF fs
    <3> QED BY <3>2 DEF fs
  <2> HIDE DEF F
  <2>4. F(near)
    BY <2>2, <2>3
  <2> HIDE DEF near
  <2>5. \A n \in 0 .. depth : near[n] = IF n = 0 THEN entries ELSE Spread(deps, near[n - 1])
    BY <2>2, <2>4
  <2>6. PICK T : T = {n \in Nat : n <= depth => near[n] = f[n]}
    OBVIOUS
  <2>7. 0 \in T
    BY <1>7, <2>5, <2>6
  <2>8. ASSUME NEW n \in T PROVE n + 1 \in T
    <3>1. n \in Nat /\ (n <= depth => near[n] = f[n])
      BY <2>6, <2>8
    <3>2. ASSUME n + 1 <= depth PROVE near[n + 1] = f[n + 1]
      <4>1. n + 1 \in 0 .. depth /\ n + 1 # 0 /\ (n + 1) - 1 = n /\ n <= depth
        BY <3>1, <3>2
      <4> QED BY <1>7, <2>5, <3>1, <4>1
    <3> QED BY <2>6, <3>1, <3>2
  <2>9. T = Nat
    <3>1. T \in SUBSET Nat
      BY <2>6
    <3> QED BY <2>7, <2>8, <3>1, EveryNumber
  <2> QED BY <2>1, <2>6, <2>9
<1>9. \A n \in Nat : f[n] \subseteq entries \cup {d.target : d \in Range(deps)}
  BY <1>1
<1> QED BY <1>7, <1>8, <1>9 DEF Nears

\* No dependency further the entries, and with each one those it leads to.
LEMMA WithinIs ==
  ASSUME NEW deps, NEW entries, NEW n \in Nat
  PROVE  /\ Within(deps, entries, 0) = entries
         /\ Within(deps, entries, n + 1) = Spread(deps, Within(deps, entries, n))
         /\ Within(deps, entries, n) \subseteq entries \cup {d.target : d \in Range(deps)}
<1>1. PICK f : Nears(f, deps, entries)
  BY NearSteps
<1>2. n + 1 \in Nat /\ 0 \in Nat
  OBVIOUS
<1> QED BY <1>1, <1>2 DEF Nears

Ends(deps) == {<<d.source, d.target>> : d \in Range(deps)}

\* With more dependencies no less is within a distance.
LEMMA WithinGrows ==
  ASSUME NEW a, NEW b, Ends(a) \subseteq Ends(b), NEW entries, NEW n \in Nat
  PROVE  Within(a, entries, n) \subseteq Within(b, entries, n)
<1>1. \A d \in Range(a) : \E e \in Range(b) : e.source = d.source /\ e.target = d.target
  <2> SUFFICES ASSUME NEW d \in Range(a) PROVE \E e \in Range(b) : e.source = d.source /\ e.target = d.target
    OBVIOUS
  <2>1. <<d.source, d.target>> \in Ends(b)
    BY DEF Ends
  <2>2. PICK e \in Range(b) : <<d.source, d.target>> = <<e.source, e.target>>
    BY <2>1 DEF Ends
  <2> QED BY <2>2
<1>2. PICK T : T = {k \in Nat : Within(a, entries, k) \subseteq Within(b, entries, k)}
  OBVIOUS
<1>3. 0 \in T
  BY <1>2, WithinIs
<1>4. ASSUME NEW k \in T PROVE k + 1 \in T
  <2>1. k \in Nat /\ k + 1 \in Nat /\ Within(a, entries, k) \subseteq Within(b, entries, k)
    BY <1>2
  <2>2. /\ Within(a, entries, k + 1) = Spread(a, Within(a, entries, k))
        /\ Within(b, entries, k + 1) = Spread(b, Within(b, entries, k))
    BY <2>1, WithinIs
  <2>3. Spread(a, Within(a, entries, k)) \subseteq Spread(b, Within(b, entries, k))
    BY <1>1, <2>1 DEF Spread
  <2> QED BY <1>2, <2>1, <2>2, <2>3
<1>5. T \in SUBSET Nat
  BY <1>2
<1>6. T = Nat
  BY <1>3, <1>4, <1>5, EveryNumber
<1> QED BY <1>2, <1>6

\* The assets where the paths from the entries end.
Ending(deps, entries, maxDepth) == {Last(p.assetIds) : p \in AllPaths(deps, entries, maxDepth)}

\* A path of some length is one of at most a greater length.
LEMMA InAllPaths ==
  ASSUME NEW deps, NEW entries, NEW e \in entries, NEW n \in Nat, NEW m \in Nat, m <= n, NEW p \in From(deps, e, m)
  PROVE  p \in AllPaths(deps, entries, n) /\ Last(p.assetIds) \in Ending(deps, entries, n)
<1>1. m \in 0 .. n
  OBVIOUS
<1>2. p \in AllPaths(deps, entries, n)
  BY <1>1 DEF AllPaths, FromEntry
<1> QED BY <1>2 DEF Ending

\* The paths from the entries end at what is within their length, and no path
\* that visits an asset once is too short to reach it.
LEMMA EndingIs ==
  ASSUME NEW deps \in Seq(Dependency), NEW entries \in SUBSET Assets, NEW maxDepth \in Nat
  PROVE  Ending(deps, entries, maxDepth) = Within(deps, entries, maxDepth)
<1> DEFINE near(n) == Within(deps, entries, n)
<1>1. near(0) = entries /\ \A n \in Nat : near(n + 1) = Spread(deps, near(n)) /\ near(n) \subseteq near(n + 1)
  <2>1. near(0) = entries /\ \A n \in Nat : near(n + 1) = Spread(deps, near(n))
    BY WithinIs
  <2> QED BY <2>1 DEF Spread
<1> HIDE DEF near
<1>2. ASSUME NEW e \in entries, NEW n \in Nat, NEW p \in From(deps, e, n) PROVE Last(p.assetIds) \in near(n)
  <2>1. PICK T : T = {k \in Nat : k <= n => p.assetIds[k + 1] \in near(k)}
    OBVIOUS
  <2>2. p \in Paths /\ Leads(p, deps, n) /\ p.assetIds[1] = e
    BY DEF From
  <2>3. 0 \in T
    <3>1. p.assetIds[0 + 1] = e /\ e \in near(0)
      BY <1>1, <2>2
    <3> QED BY <2>1, <3>1
  <2>4. ASSUME NEW k \in T PROVE k + 1 \in T
    <3>1. k \in Nat /\ (k <= n => p.assetIds[k + 1] \in near(k))
      BY <2>1, <2>4
    <3>2. ASSUME k + 1 <= n PROVE p.assetIds[(k + 1) + 1] \in near(k + 1)
      <4>1. PICK j \in 1 .. n : j = k + 1 /\ k <= n
        BY <3>1, <3>2
      <4>2. /\ p.dependencies[j] \in Range(deps) /\ p.dependencies[j].source = p.assetIds[j]
            /\ p.dependencies[j].target = p.assetIds[j + 1]
        BY <2>2, <4>1 DEF Leads
      <4>3. p.assetIds[j + 1] \in Spread(deps, near(k))
        BY <3>1, <4>1, <4>2 DEF Spread
      <4> QED BY <1>1, <3>1, <4>1, <4>3
    <3> QED BY <2>1, <3>1, <3>2
  <2>5. T \in SUBSET Nat
    BY <2>1
  <2>6. T = Nat
    BY <2>3, <2>4, <2>5, EveryNumber
  <2>7. Last(p.assetIds) = p.assetIds[n + 1]
    BY <2>2 DEF Leads, Last
  <2>8. n <= n
    OBVIOUS
  <2> QED BY <2>1, <2>6, <2>7, <2>8
<1>3. PICK U : U = {n \in Nat : (\A m \in 0 .. n : near(m) \subseteq near(n)) /\ near(n) \subseteq Ending(deps, entries, n)}
  OBVIOUS
<1>4. 0 \in U
  <2>1. \A e \in entries : Start(e) \in From(deps, e, 0) /\ Last(Start(e).assetIds) = e
    BY FirstLevel DEF Start, Last
  <2>2. \A e \in entries : e \in Ending(deps, entries, 0)
    <3> SUFFICES ASSUME NEW e \in entries PROVE e \in Ending(deps, entries, 0)
      OBVIOUS
    <3>1. PICK p \in From(deps, e, 0) : Last(p.assetIds) = e
      BY <2>1
    <3>2. PICK n \in Nat : n = 0 /\ n <= n
      OBVIOUS
    <3>3. p \in From(deps, e, n)
      BY <3>2
    <3>4. Last(p.assetIds) \in Ending(deps, entries, n)
      BY <3>2, <3>3, InAllPaths
    <3> QED BY <3>1, <3>2, <3>4
  <2>3. \A m \in 0 .. 0 : m = 0
    OBVIOUS
  <2> QED BY <1>1, <1>3, <2>2, <2>3
<1>5. ASSUME NEW n \in U PROVE n + 1 \in U
  <2>1. n \in Nat /\ n + 1 \in Nat /\ (\A m \in 0 .. n : near(m) \subseteq near(n)) /\ near(n) \subseteq Ending(deps, entries, n)
    BY <1>3, <1>5
  <2>2. \A m \in 0 .. (n + 1) : near(m) \subseteq near(n + 1)
    <3>1. \A m \in 0 .. (n + 1) : m \in 0 .. n \/ m = n + 1
      BY <2>1
    <3> QED BY <1>1, <2>1, <3>1
  <2>3. \A a \in near(n) : \E m \in 0 .. n, e \in entries : \E p \in From(deps, e, m) : Last(p.assetIds) = a
    BY <2>1 DEF Ending, AllPaths, FromEntry
  <2>4. \A a \in near(n) : a \in Ending(deps, entries, n + 1)
    <3> SUFFICES ASSUME NEW a \in near(n) PROVE a \in Ending(deps, entries, n + 1)
      OBVIOUS
    <3>1. PICK m \in 0 .. n, e \in entries : \E p \in From(deps, e, m) : Last(p.assetIds) = a
      BY <2>3
    <3>2. PICK p \in From(deps, e, m) : Last(p.assetIds) = a
      BY <3>1
    <3>3. m \in Nat /\ m <= n + 1
      BY <2>1
    <3> QED BY <2>1, <3>2, <3>3, InAllPaths
  <2>5. ASSUME NEW d \in Range(deps), d.source \in near(n) PROVE d.target \in Ending(deps, entries, n + 1)
    <3>1. PICK m \in 0 .. n, e \in entries : \E p \in From(deps, e, m) : Last(p.assetIds) = d.source
      BY <2>3, <2>5
    <3>2. PICK p \in From(deps, e, m) : Last(p.assetIds) = d.source
      BY <3>1
    <3>3. m \in Nat /\ m + 1 \in Nat /\ m + 1 <= n + 1
      BY <2>1
    <3>4. CASE d.target \notin Range(p.assetIds)
      <4>1. Along(p, d) \in From(deps, e, m + 1) /\ Last(Along(p, d).assetIds) = d.target
        BY <3>2, <3>3, <3>4, AppendedPath
      <4> QED BY <2>1, <3>3, <4>1, InAllPaths
    <3>5. CASE d.target \in Range(p.assetIds)
      <4>1. p \in Paths /\ Leads(p, deps, m)
        BY DEF From
      <4>2. DOMAIN p.assetIds = 1 .. (m + 1)
        BY <4>1, PathIs DEF Leads
      <4>3. PICK j \in 1 .. (m + 1) : p.assetIds[j] = d.target
        BY <3>5, <4>2 DEF Range
      <4>4. PICK i \in 0 .. m : i + 1 = j
        <5>1. j - 1 \in 0 .. m /\ (j - 1) + 1 = j
          BY <3>3
        <5> QED BY <5>1
      <4>5. Prefix(p, i) \in From(deps, e, i) /\ Last(Prefix(p, i).assetIds) = d.target
        BY <3>3, <4>3, <4>4, PrefixIs
      <4>6. i \in Nat /\ i <= n + 1
        BY <2>1, <3>3
      <4> QED BY <2>1, <4>5, <4>6, InAllPaths
    <3> QED BY <3>4, <3>5
  <2>6. near(n + 1) \subseteq Ending(deps, entries, n + 1)
    BY <1>1, <2>1, <2>4, <2>5 DEF Spread
  <2> QED BY <1>3, <2>1, <2>2, <2>6
<1>6. U = Nat
  <2>1. U \in SUBSET Nat
    BY <1>3
  <2> QED BY <1>4, <1>5, <2>1, EveryNumber
<1>7. near(maxDepth) \subseteq Ending(deps, entries, maxDepth) /\ \A m \in 0 .. maxDepth : near(m) \subseteq near(maxDepth)
  BY <1>3, <1>6
<1>8. \A p \in AllPaths(deps, entries, maxDepth) : Last(p.assetIds) \in near(maxDepth)
  <2> SUFFICES ASSUME NEW e \in entries, NEW n \in 0 .. maxDepth, NEW p \in From(deps, e, n)
               PROVE  Last(p.assetIds) \in near(maxDepth)
    BY DEF AllPaths, FromEntry
  <2>1. n \in Nat
    OBVIOUS
  <2>2. Last(p.assetIds) \in near(n)
    BY <1>2, <2>1
  <2> QED BY <1>7, <2>2
<1> QED BY <1>7, <1>8 DEF Ending, near

-----------------------------------------------------------------------------
(* The order of the paths.                                                 *)

Precedes(paths, i, j) ==
  \/ paths[i].riskScore > paths[j].riskScore
  \/ /\ paths[i].riskScore = paths[j].riskScore
     /\ \/ Len(paths[i].assetIds) < Len(paths[j].assetIds)
        \/ Len(paths[i].assetIds) = Len(paths[j].assetIds) /\ i < j

Rank(paths, i) == Cardinality({j \in DOMAIN paths : Precedes(paths, j, i)})

\* A path has the rank that as many paths precede it: each rank one path.
LEMMA RanksAre ==
  ASSUME NEW n \in Nat, NEW paths, DOMAIN paths = 1 .. n,
         \A i \in 1 .. n : paths[i].riskScore \in Nat /\ Len(paths[i].assetIds) \in Nat
  PROVE  /\ \A i, j \in 1 .. n : Rank(paths, i) = Rank(paths, j) => i = j
         /\ \A i, j \in 1 .. n : Rank(paths, i) < Rank(paths, j) => ~Precedes(paths, j, i)
         /\ \A i \in 1 .. n : Rank(paths, i) \in 0 .. n - 1
         /\ \A k \in 1 .. n : \E i \in 1 .. n : Rank(paths, i) = k - 1
<1>1. PICK score : score = [i \in 1 .. n |-> paths[i].riskScore]
  OBVIOUS
<1>2. PICK length : length = [i \in 1 .. n |-> Len(paths[i].assetIds)]
  OBVIOUS
<1>3. \A i \in 1 .. n : score[i] \in Nat /\ length[i] \in Nat
  BY <1>1, <1>2
<1>4. \A i, j \in 1 .. n : Precedes(paths, i, j) <=>
        \/ score[i] > score[j]
        \/ score[i] = score[j] /\ (length[i] < length[j] \/ (length[i] = length[j] /\ i < j))
  BY <1>1, <1>2 DEF Precedes
<1>5. \A i \in 1 .. n : ~Precedes(paths, i, i)
  BY <1>3, <1>4
<1>6. \A i, j \in 1 .. n : i # j => Precedes(paths, i, j) \/ Precedes(paths, j, i)
  BY <1>3, <1>4
<1>7. \A h, i, j \in 1 .. n : Precedes(paths, h, i) /\ Precedes(paths, i, j) => Precedes(paths, h, j)
  <2> SUFFICES ASSUME NEW h \in 1 .. n, NEW i \in 1 .. n, NEW j \in 1 .. n,
                      Precedes(paths, h, i), Precedes(paths, i, j)
               PROVE  Precedes(paths, h, j)
    OBVIOUS
  <2>1. PICK a \in Nat, b \in Nat, c \in Nat : a = score[h] /\ b = score[i] /\ c = score[j]
    BY <1>3
  <2>2. PICK u \in Nat, v \in Nat, w \in Nat : u = length[h] /\ v = length[i] /\ w = length[j]
    BY <1>3
  <2>3. a > b \/ (a = b /\ (u < v \/ (u = v /\ h < i)))
    BY <1>4, <2>1, <2>2
  <2>4. b > c \/ (b = c /\ (v < w \/ (v = w /\ i < j)))
    BY <1>4, <2>1, <2>2
  <2>5. a > c \/ (a = c /\ (u < w \/ (u = w /\ h < j)))
    BY <2>3, <2>4
  <2> QED BY <1>4, <2>1, <2>2, <2>5
<1> DEFINE ahead(i) == {j \in 1 .. n : Precedes(paths, j, i)}
<1>8. \A i \in 1 .. n : Rank(paths, i) = Cardinality(ahead(i))
  BY DEF Rank
<1>9. IsFiniteSet(1 .. n) /\ Cardinality(1 .. n) = n
  BY FS_Interval
<1>10. \A i \in 1 .. n : IsFiniteSet(ahead(i)) /\ Cardinality(ahead(i)) \in Nat
  <2> SUFFICES ASSUME NEW i \in 1 .. n PROVE IsFiniteSet(ahead(i)) /\ Cardinality(ahead(i)) \in Nat
    OBVIOUS
  <2>1. IsFiniteSet(ahead(i))
    BY <1>9, FS_Subset
  <2> QED BY <2>1, FS_CardinalityType
<1>17. PICK rank \in [1 .. n -> Nat] : \A i \in 1 .. n : rank[i] = Rank(paths, i)
  <2> HIDE DEF ahead
  <2>1. [i \in 1 .. n |-> Rank(paths, i)] \in [1 .. n -> Nat]
    BY <1>8, <1>10
  <2> QED BY <2>1
<1>11. ASSUME NEW i \in 1 .. n PROVE rank[i] < n
  <2>1. PICK A : A = ahead(i)
    OBVIOUS
  <2>2. A \in SUBSET (1 .. n) /\ A # 1 .. n
    BY <1>5, <2>1
  <2>3. Cardinality(A) <= Cardinality(1 .. n) /\ Cardinality(1 .. n) # Cardinality(A)
    BY <1>9, <2>2, FS_Subset
  <2>4. Cardinality(A) = rank[i]
    BY <1>8, <1>17, <2>1
  <2>5. rank[i] <= n /\ n # rank[i]
    BY <1>9, <2>3, <2>4
  <2> QED BY <2>5
<1>12. ASSUME NEW i \in 1 .. n, NEW j \in 1 .. n, Precedes(paths, i, j) PROVE rank[i] < rank[j]
  <2>1. PICK A : A = ahead(i)
    OBVIOUS
  <2>2. PICK B : B = ahead(j)
    OBVIOUS
  <2>3. A \in SUBSET B /\ i \in B /\ i \notin A
    BY <1>5, <1>7, <1>12, <2>1, <2>2
  <2>4. Cardinality(A) <= Cardinality(B) /\ Cardinality(B) # Cardinality(A)
    BY <1>10, <2>2, <2>3, FS_Subset
  <2>5. Cardinality(A) = rank[i] /\ Cardinality(B) = rank[j]
    BY <1>8, <1>17, <2>1, <2>2
  <2>6. rank[i] <= rank[j] /\ rank[j] # rank[i]
    BY <2>4, <2>5
  <2> QED BY <2>6
<1> HIDE DEF ahead
<1>13. \A i, j \in 1 .. n : rank[i] = rank[j] => i = j
  <2> SUFFICES ASSUME NEW i \in 1 .. n, NEW j \in 1 .. n, rank[i] = rank[j], i # j PROVE FALSE
    OBVIOUS
  <2>1. rank[i] < rank[j] \/ rank[j] < rank[i]
    BY <1>6, <1>12
  <2> QED BY <2>1
<1>14. \A i, j \in 1 .. n : rank[i] < rank[j] => ~Precedes(paths, j, i)
  <2> SUFFICES ASSUME NEW i \in 1 .. n, NEW j \in 1 .. n, rank[i] < rank[j], Precedes(paths, j, i) PROVE FALSE
    OBVIOUS
  <2>1. rank[j] < rank[i]
    BY <1>12
  <2> QED BY <2>1
<1>15. \A k \in 1 .. n : \E i \in 1 .. n : rank[i] = k - 1
  <2>1. PICK f : f = [i \in 1 .. n |-> rank[i] + 1]
    OBVIOUS
  <2>2. \A i \in 1 .. n : f[i] \in 1 .. n
    BY <1>11, <2>1
  <2>3. f \in Injection(1 .. n, 1 .. n)
    <3>1. \A i, j \in 1 .. n : f[i] = f[j] => i = j
      BY <1>13, <2>1
    <3>2. f \in [1 .. n -> 1 .. n]
      BY <2>1, <2>2
    <3> QED BY <3>1, <3>2 DEF Injection, IsInjective
  <2>4. f \in Surjection(1 .. n, 1 .. n)
    BY <1>9, <2>3, FS_Injection
  <2>5. \A k \in 1 .. n : \E i \in 1 .. n : f[i] = k
    BY <2>4 DEF Surjection
  <2>6. \A i \in 1 .. n : f[i] - 1 = rank[i]
    BY <2>1
  <2> SUFFICES ASSUME NEW k \in 1 .. n PROVE \E i \in 1 .. n : rank[i] = k - 1
    OBVIOUS
  <2>7. PICK i \in 1 .. n : f[i] = k
    BY <2>5
  <2> QED BY <2>6, <2>7
<1>16. \A i \in 1 .. n : rank[i] \in 0 .. n - 1
  BY <1>11
<1> QED BY <1>13, <1>14, <1>15, <1>16, <1>17

\* Sorting loses no path and adds none, and puts the highest risk first.
LEMMA SortedIs ==
  ASSUME NEW n \in Nat, NEW paths, DOMAIN paths = 1 .. n,
         \A i \in 1 .. n : paths[i].riskScore \in Nat /\ Len(paths[i].assetIds) \in Nat
  PROVE  /\ DOMAIN Sorted(paths) = 1 .. n
         /\ Len(Sorted(paths)) = n
         /\ Range(Sorted(paths)) = Range(paths)
         /\ \A i, j \in 1 .. n : i < j => Sorted(paths)[i].riskScore >= Sorted(paths)[j].riskScore
<1>1. PICK at : at = [k \in 1 .. n |-> CHOOSE i \in 1 .. n : Rank(paths, i) = k - 1]
  OBVIOUS
<1>2. PICK s : s = [k \in 1 .. n |-> paths[at[k]]]
  OBVIOUS
<1>3. Sorted(paths) = s
  <2>1. Sorted(paths) = [k \in 1 .. n |-> paths[CHOOSE i \in 1 .. n : Rank(paths, i) = k - 1]]
    BY DEF Sorted, Rank, Precedes
  <2> QED BY <1>1, <1>2, <2>1
<1>4. /\ \A i, j \in 1 .. n : Rank(paths, i) = Rank(paths, j) => i = j
      /\ \A i, j \in 1 .. n : Rank(paths, i) < Rank(paths, j) => ~Precedes(paths, j, i)
      /\ \A i \in 1 .. n : Rank(paths, i) \in 0 .. n - 1
      /\ \A k \in 1 .. n : \E i \in 1 .. n : Rank(paths, i) = k - 1
  BY RanksAre
<1>5. \A k \in 1 .. n : at[k] \in 1 .. n /\ Rank(paths, at[k]) = k - 1
  BY <1>1, <1>4
<1>6. \A i \in 1 .. n : Rank(paths, i) + 1 \in 1 .. n /\ at[Rank(paths, i) + 1] = i
  <2> SUFFICES ASSUME NEW i \in 1 .. n PROVE Rank(paths, i) + 1 \in 1 .. n /\ at[Rank(paths, i) + 1] = i
    OBVIOUS
  <2>0. PICK m \in 0 .. n - 1 : m = Rank(paths, i)
    BY <1>4
  <2>1. m + 1 \in 1 .. n /\ (m + 1) - 1 = m
    OBVIOUS
  <2> QED BY <1>4, <1>5, <2>0, <2>1
<1>7. DOMAIN s = 1 .. n
  BY <1>2
<1>8. Range(s) = Range(paths)
  <2>1. \A k \in 1 .. n : s[k] = paths[at[k]] /\ at[k] \in DOMAIN paths
    BY <1>2, <1>5
  <2>2. \A i \in 1 .. n : Rank(paths, i) + 1 \in DOMAIN s /\ s[Rank(paths, i) + 1] = paths[i]
    BY <1>2, <1>6, <1>7
  <2>3. Range(s) \subseteq Range(paths)
    BY <1>7, <2>1 DEF Range
  <2>4. Range(paths) \subseteq Range(s)
    BY <2>2 DEF Range
  <2> QED BY <2>3, <2>4
<1>9. Len(s) = n
  <2>1. s \in [1 .. n -> Range(s)]
    BY <1>2, <1>7 DEF Range
  <2>2. s \in Seq(Range(s))
    BY <2>1, SeqDef
  <2> QED BY <1>7, <2>2, LenProperties
<1>10. ASSUME NEW i \in 1 .. n, NEW j \in 1 .. n, i < j PROVE s[i].riskScore >= s[j].riskScore
  <2>1. PICK a \in 1 .. n : a = at[i]
    BY <1>5
  <2>2. PICK b \in 1 .. n : b = at[j]
    BY <1>5
  <2>3. Rank(paths, a) = i - 1 /\ Rank(paths, b) = j - 1
    BY <1>5, <2>1, <2>2
  <2>4. ~Precedes(paths, b, a)
    BY <1>4, <1>10, <2>3
  <2>5. ~(paths[b].riskScore > paths[a].riskScore)
    BY <2>4 DEF Precedes
  <2> QED BY <1>2, <2>1, <2>2, <2>5
<1> QED BY <1>3, <1>7, <1>8, <1>9, <1>10

-----------------------------------------------------------------------------
(* The paths without the traversal.                                        *)

\* A path that passes an entry and then the ends of n dependencies.
Passes(p, S, entry, along, n) ==
  \E a \in Seq(S) : /\ p = [assetIds |-> a, dependencies |-> along]
                    /\ Len(a) = n + 1 /\ a[1] = entry
                    /\ \A k \in 1 .. n : a[k + 1] = along[k].target

\* A route passes its entry and the ends of its dependencies.
LEMMA RouteIs ==
  ASSUME NEW S, NEW T, \A d \in T : d.target \in S, NEW entry \in S, NEW n \in Nat, NEW along \in [1 .. n -> T]
  PROVE  Len(along) = n /\ Passes(Route(entry, along), S, entry, along, n)
<1>1. PICK ends : ends = [k \in 1 .. n |-> along[k].target]
  OBVIOUS
<1>2. DOMAIN along = 1 .. n /\ \A k \in 1 .. n : along[k] \in T
  OBVIOUS
<1>3. /\ along \in Seq(T) /\ Len(along) = n
      /\ ends \in Seq(S) /\ Len(ends) = n
  <2>1. ends \in [1 .. n -> S]
    BY <1>1, <1>2
  <2>2. along \in Seq(T) /\ ends \in Seq(S)
    BY <2>1, SeqDef
  <2>3. DOMAIN ends = 1 .. n
    BY <2>1
  <2> QED BY <1>2, <2>2, <2>3, LenProperties
<1>4. PICK a : a = <<entry>> \o ends
  OBVIOUS
<1>5. Route(entry, along) = [assetIds |-> a, dependencies |-> along]
  BY <1>1, <1>2, <1>4 DEF Route
<1>6. <<entry>> \in Seq(S) /\ Len(<<entry>>) = 1 /\ <<entry>>[1] = entry
  OBVIOUS
<1>7. a \in Seq(S) /\ Len(a) = n + 1
  BY <1>3, <1>4, <1>6, ConcatProperties
<1>8. a[1] = entry
  BY <1>3, <1>4, <1>6, ConcatProperties
<1>9. ASSUME NEW k \in 1 .. n PROVE a[k + 1] = along[k].target
  <2>1. k + 1 \in 1 .. (1 + n) /\ ~(k + 1 <= 1) /\ (k + 1) - 1 = k
    OBVIOUS
  <2>2. a[k + 1] = ends[k]
    BY <1>3, <1>4, <1>6, <2>1, ConcatProperties
  <2> QED BY <1>1, <2>2
<1> QED BY <1>3, <1>5, <1>7, <1>8, <1>9 DEF Passes

\* The paths whose end is of a service are the attack paths, whichever way one
\* says it.
LEMMA AttackPathsAre ==
  ASSUME NEW inv, Graph(inv.dependencies), NEW entries \in SUBSET Assets, NEW maxDepth \in Nat
  PROVE  AttackPathsIn(inv, entries, maxDepth) =
           {p \in AllPaths(inv.dependencies, entries, maxDepth) : ReachesService(inv, p)}
<1>1. PICK deps \in Seq(Dependency) : deps = inv.dependencies
  BY DEF Graph
<1>2. \A d \in Range(deps) : d \in Dependency /\ d.target \in Assets
  <2>1. \A d \in Range(deps) : d \in Dependency
    BY LenProperties, ElementOfSeq DEF Range
  <2> QED BY <2>1 DEF Dependency
<1>3. PICK chains : chains = UNION {[1 .. n -> Range(deps)] : n \in 0 .. maxDepth}
  OBVIOUS
<1>4. AttackPathsIn(inv, entries, maxDepth) =
        {p \in {Route(entry, along) : entry \in entries, along \in chains} :
           /\ IsInjective(p.assetIds)
           /\ \A k \in DOMAIN p.dependencies : p.dependencies[k].source = p.assetIds[k]
           /\ ServicesAt(inv, Last(p.assetIds)) # {}}
  BY <1>1, <1>3 DEF AttackPathsIn
<1>5. ASSUME NEW p \in AllPaths(deps, entries, maxDepth), ReachesService(inv, p)
      PROVE  p \in AttackPathsIn(inv, entries, maxDepth)
  <2>1. PICK entry \in entries, n \in 0 .. maxDepth : p \in From(deps, entry, n)
    BY DEF AllPaths, FromEntry
  <2>2. p \in Paths /\ Leads(p, deps, n) /\ p.assetIds[1] = entry
    BY <2>1 DEF From
  <2>3. PICK a \in Seq(Assets) : a = p.assetIds
    BY <2>2, PathIs
  <2>4. PICK ds \in Seq(Dependency) : ds = p.dependencies
    BY <2>2, PathIs
  <2>5. p = [assetIds |-> a, dependencies |-> ds]
    BY <2>2, <2>3, <2>4, PathIs
  <2>6. /\ Len(a) = n + 1 /\ Len(ds) = n /\ a[1] = entry /\ IsInjective(a)
        /\ \A k \in 1 .. n : ds[k] \in Range(deps) /\ ds[k].source = a[k] /\ ds[k].target = a[k + 1]
    BY <2>2, <2>3, <2>4 DEF Leads
  <2>7. n \in Nat /\ ds \in [1 .. n -> Range(deps)] /\ DOMAIN ds = 1 .. n
    <3>1. ds \in [1 .. n -> Dependency]
      BY <2>6, LenProperties
    <3> QED BY <2>6, <3>1
  <2>8. ds \in chains
    BY <1>3, <2>7
  <2>9. PICK T : T = Range(deps)
    OBVIOUS
  <2>10. PICK b \in Seq(Assets) : /\ Route(entry, ds) = [assetIds |-> b, dependencies |-> ds]
                                  /\ Len(b) = n + 1 /\ b[1] = entry
                                  /\ \A k \in 1 .. n : b[k + 1] = ds[k].target
    <3>1. entry \in Assets /\ n \in Nat /\ ds \in [1 .. n -> T] /\ \A d \in T : d.target \in Assets
      BY <1>2, <2>7, <2>9
    <3>2. Passes(Route(entry, ds), Assets, entry, ds, n)
      BY <3>1, RouteIs
    <3> QED BY <3>2 DEF Passes
  <2>11. a = b
    <3>1. ASSUME NEW k \in 1 .. (n + 1) PROVE a[k] = b[k]
      <4>1. CASE k = 1
        BY <2>6, <2>10, <4>1
      <4>2. CASE k # 1
        <5>1. PICK i \in 1 .. n : k = i + 1
          <6>1. k - 1 \in 1 .. n /\ k = (k - 1) + 1
            BY <4>2
          <6> QED BY <6>1
        <5> QED BY <2>6, <2>10, <5>1
      <4> QED BY <4>1, <4>2
    <3> QED BY <2>6, <2>10, <3>1, SeqEqual
  <2>12. p = Route(entry, ds)
    BY <2>5, <2>10, <2>11
  <2>13. \A k \in DOMAIN p.dependencies : p.dependencies[k].source = p.assetIds[k]
    BY <2>3, <2>4, <2>6, <2>7
  <2>14. IsInjective(p.assetIds) /\ ServicesAt(inv, Last(p.assetIds)) # {}
    BY <1>5, <2>3, <2>6 DEF ReachesService
  <2> QED BY <1>4, <2>8, <2>12, <2>13, <2>14
<1>6. ASSUME NEW p \in AttackPathsIn(inv, entries, maxDepth)
      PROVE  p \in AllPaths(deps, entries, maxDepth) /\ ReachesService(inv, p)
  <2>1. PICK entry \in entries, along \in chains : p = Route(entry, along)
    BY <1>4
  <2>2. /\ IsInjective(p.assetIds) /\ ServicesAt(inv, Last(p.assetIds)) # {}
        /\ \A k \in DOMAIN p.dependencies : p.dependencies[k].source = p.assetIds[k]
    BY <1>4
  <2>3. PICK n \in 0 .. maxDepth : along \in [1 .. n -> Range(deps)]
    BY <1>3
  <2>4. PICK T : T = Range(deps)
    OBVIOUS
  <2>5. Len(along) = n /\ Passes(p, Assets, entry, along, n)
    <3>1. entry \in Assets /\ n \in Nat /\ along \in [1 .. n -> T] /\ \A d \in T : d.target \in Assets
      BY <1>2, <2>3, <2>4
    <3>2. Len(along) = n /\ Passes(Route(entry, along), Assets, entry, along, n)
      BY <3>1, RouteIs
    <3> QED BY <2>1, <3>2
  <2>6. PICK a \in Seq(Assets) : /\ p = [assetIds |-> a, dependencies |-> along]
                                 /\ Len(a) = n + 1 /\ a[1] = entry
                                 /\ \A k \in 1 .. n : a[k + 1] = along[k].target
    BY <2>5 DEF Passes
  <2>7. p \in Paths
    <3>1. along \in [1 .. n -> Dependency] /\ n \in Nat
      BY <1>2, <2>3
    <3>2. along \in Seq(Dependency)
      BY <3>1, SeqDef
    <3> QED BY <2>6, <3>2 DEF Paths
  <2>8. Leads(p, deps, n)
    <3>1. p.assetIds = a /\ p.dependencies = along
      BY <2>6
    <3>2. \A k \in 1 .. n : along[k] \in Range(deps) /\ along[k].source = a[k] /\ along[k].target = a[k + 1]
      BY <2>2, <2>3, <2>6, <3>1
    <3> QED BY <2>2, <2>5, <2>6, <3>1, <3>2 DEF Leads
  <2>9. p \in From(deps, entry, n)
    BY <2>6, <2>7, <2>8 DEF From
  <2> QED BY <2>2, <2>9 DEF AllPaths, FromEntry, ReachesService
<1> QED BY <1>1, <1>5, <1>6

-----------------------------------------------------------------------------
(* The analysis.                                                           *)

\* What AnalysesAreExact says of an analysis of an inventory.
ExactOf(x, inv) ==
  LET found == {[assetIds |-> p.assetIds, dependencies |-> p.dependencies] : p \in Range(x.paths)}
      exact == AttackPathsIn(inv, Range(x.entryAssetIds), x.maxDepth)
  IN  /\ found \subseteq exact
      /\ ~Truncated(x) => found = exact
      /\ Cardinality(found) = Len(x.paths) /\ Len(x.paths) <= PathLimit
      /\ \A p \in Range(x.paths) : {p.likelihoodScore, p.impactScore, p.riskScore} \subseteq 0 .. 100
      /\ \A i, j \in DOMAIN x.paths : i < j => x.paths[i].riskScore >= x.paths[j].riskScore

\* What BlastRadiusIsReal says of the analysis of a request.
RealOf(x, q, store, deps) ==
  LET counted == x.assetsByCriticality.low + x.assetsByCriticality.medium
                   + x.assetsByCriticality.high + x.assetsByCriticality.critical
  IN  /\ ~Truncated(x) => q.reach \subseteq x.reachableAssetIds
      /\ x.reachableAssetIds \subseteq Within(deps, Range(x.entryAssetIds), x.maxDepth)
      /\ counted >= Cardinality(x.reachableAssetIds \cap q.known)
      /\ store = "memory" => counted = Cardinality(x.reachableAssetIds)

\* Short of the limits the paths are all the attack paths, each once, scored in
\* percent and sorted by risk.
LEMMA AnalysisIsExact ==
  ASSUME NEW inv, Graph(inv.dependencies), Scored(inv), NEW ids \in Seq(Assets), IsInjective(ids),
         NEW maxDepth \in Nat
  PROVE  ExactOf(analyzeAttackPaths(inv, ids, maxDepth), inv)
<1>1. PICK examined : examined = Examined(inv, ids, maxDepth)
  OBVIOUS
<1>2. PICK traversed : traversed = Reached(inv, examined)
  OBVIOUS
<1>3. PICK all : all = AllPaths(inv.dependencies, Range(ids), maxDepth)
  OBVIOUS
<1>4. /\ examined \in Seq(Paths) /\ IsInjective(examined) /\ Range(examined) \subseteq all
      /\ Len(traversed) <= PathLimit
      /\ Len(examined) < ExamineLimit /\ Len(traversed) < PathLimit => Range(examined) = all
  BY <1>1, <1>2, <1>3, ExaminedIs
<1>5. /\ traversed \in Seq(Paths) /\ IsInjective(traversed)
      /\ Range(traversed) = {path \in Range(examined) : ReachesService(inv, path)}
  <2>1. PICK S : S = {path \in Range(examined) : ReachesService(inv, path)}
    OBVIOUS
  <2>2. traversed = Only(examined, S)
    BY <1>2, <2>1 DEF Reached
  <2>3. /\ Only(examined, S) \in Seq(Paths) /\ Range(Only(examined, S)) = Range(examined) \cap S
        /\ IsInjective(Only(examined, S))
    BY <1>4, OnlyIs
  <2> QED BY <2>1, <2>2, <2>3
<1>6. PICK n \in Nat : n = Len(traversed) /\ DOMAIN traversed = 1 .. n
  BY <1>5, LenProperties
<1>7. \A k \in 1 .. n : traversed[k] \in Range(traversed) /\ traversed[k] \in Paths /\ traversed[k] \in all
  <2>1. \A k \in 1 .. n : traversed[k] \in Range(traversed) /\ traversed[k] \in Paths
    BY <1>5, <1>6, ElementOfSeq DEF Range
  <2> QED BY <1>4, <1>5, <2>1
<1>8. PICK scored : scored = [k \in 1 .. n |-> ScorePath(inv, traversed[k])]
  OBVIOUS
<1>9. PICK x : x = analyzeAttackPaths(inv, ids, maxDepth)
  OBVIOUS
<1>10. /\ x.entryAssetIds = ids /\ x.maxDepth = maxDepth
       /\ x.paths = Sorted(scored)
       /\ x.incomplete = (Len(examined) >= ExamineLimit)
  BY <1>1, <1>2, <1>6, <1>8, <1>9 DEF analyzeAttackPaths, Reached
<1>11. \A k \in 1 .. n : /\ scored[k].assetIds = traversed[k].assetIds
                         /\ scored[k].dependencies = traversed[k].dependencies
                         /\ scored[k].riskScore \in 0 .. 100
                         /\ scored[k].likelihoodScore \in 0 .. 100
                         /\ scored[k].impactScore \in 0 .. 100
  <2> SUFFICES ASSUME NEW k \in 1 .. n
               PROVE  /\ scored[k].assetIds = traversed[k].assetIds
                      /\ scored[k].dependencies = traversed[k].dependencies
                      /\ scored[k].riskScore \in 0 .. 100
                      /\ scored[k].likelihoodScore \in 0 .. 100
                      /\ scored[k].impactScore \in 0 .. 100
    OBVIOUS
  <2>1. PICK p : p = traversed[k]
    OBVIOUS
  <2>2. scored[k] = ScorePath(inv, p)
    BY <1>8, <2>1
  <2>3. /\ LikelihoodScore(inv, p) \in 0 .. 100
        /\ ImpactScore(inv, p) \in 0 .. 100
        /\ RiskScore(inv, p) \in 0 .. 100
    BY Percentages
  <2>4. /\ ScorePath(inv, p).assetIds = p.assetIds
        /\ ScorePath(inv, p).dependencies = p.dependencies
        /\ ScorePath(inv, p).riskScore = RiskScore(inv, p)
        /\ ScorePath(inv, p).likelihoodScore = LikelihoodScore(inv, p)
        /\ ScorePath(inv, p).impactScore = ImpactScore(inv, p)
    BY DEF ScorePath
  <2> QED BY <2>1, <2>2, <2>3, <2>4
<1>12. DOMAIN scored = 1 .. n /\ \A k \in 1 .. n : scored[k].riskScore \in Nat /\ Len(scored[k].assetIds) \in Nat
  <2>1. DOMAIN scored = 1 .. n
    BY <1>8
  <2>2. ASSUME NEW k \in 1 .. n PROVE scored[k].riskScore \in Nat /\ Len(scored[k].assetIds) \in Nat
    <3>1. PICK p \in Paths : p = traversed[k]
      BY <1>7
    <3>2. Len(p.assetIds) \in Nat
      BY PathIs
    <3>3. scored[k].riskScore \in 0 .. 100 /\ scored[k].assetIds = p.assetIds
      BY <1>11, <3>1
    <3>4. \A m \in 0 .. 100 : m \in Nat
      OBVIOUS
    <3>5. scored[k].riskScore \in Nat
      BY <3>3, <3>4
    <3> QED BY <3>2, <3>3, <3>5
  <2> QED BY <2>1, <2>2
<1>13. PICK sorted : sorted = Sorted(scored)
  OBVIOUS
<1>14. /\ DOMAIN sorted = 1 .. n /\ Len(sorted) = n /\ Range(sorted) = Range(scored)
       /\ \A i, j \in 1 .. n : i < j => sorted[i].riskScore >= sorted[j].riskScore
  BY <1>12, <1>13, SortedIs
<1>15. PICK found : found = {[assetIds |-> p.assetIds, dependencies |-> p.dependencies] : p \in Range(sorted)}
  OBVIOUS
<1>16. found = Range(traversed)
  <2>1. \A k \in 1 .. n : /\ scored[k] \in Range(scored)
                          /\ [assetIds |-> scored[k].assetIds, dependencies |-> scored[k].dependencies] = traversed[k]
    <3> SUFFICES ASSUME NEW k \in 1 .. n
                 PROVE  /\ scored[k] \in Range(scored)
                        /\ [assetIds |-> scored[k].assetIds, dependencies |-> scored[k].dependencies] = traversed[k]
      OBVIOUS
    <3>1. PICK p \in Paths : p = traversed[k]
      BY <1>7
    <3>2. p = [assetIds |-> p.assetIds, dependencies |-> p.dependencies]
      BY PathIs
    <3>3. scored[k].assetIds = p.assetIds /\ scored[k].dependencies = p.dependencies
      BY <1>11, <3>1
    <3> QED BY <1>12, <3>1, <3>2, <3>3 DEF Range
  <2>2. \A y \in Range(scored) : \E k \in 1 .. n : y = scored[k]
    BY <1>12 DEF Range
  <2>3. \A y \in Range(traversed) : \E k \in 1 .. n : y = traversed[k]
    BY <1>6 DEF Range
  <2>4. found \subseteq Range(traversed)
    BY <1>7, <1>14, <1>15, <2>1, <2>2
  <2>5. Range(traversed) \subseteq found
    BY <1>14, <1>15, <2>1, <2>3
  <2> QED BY <2>4, <2>5
<1>17. PICK exact : exact = AttackPathsIn(inv, Range(ids), maxDepth)
  OBVIOUS
<1>18. exact = {p \in all : ReachesService(inv, p)}
  <2>1. Range(ids) \in SUBSET Assets
    BY LenProperties, ElementOfSeq DEF Range
  <2> QED BY <1>3, <1>17, <2>1, AttackPathsAre
<1>19. found \subseteq exact
  BY <1>4, <1>5, <1>16, <1>18
<1>20. Cardinality(found) = n
  <2>1. traversed \in [1 .. n -> found]
    BY <1>5, <1>6, <1>7, <1>16, LenProperties
  <2>2. \A j, k \in 1 .. n : traversed[j] = traversed[k] => j = k
    BY <1>5, <1>6 DEF IsInjective
  <2>3. \A y \in found : \E k \in 1 .. n : traversed[k] = y
    BY <1>6, <1>16 DEF Range
  <2>4. traversed \in Bijection(1 .. n, found)
    BY <2>1, <2>2, <2>3 DEF Bijection, Injection, Surjection, IsInjective
  <2>5. ExistsBijection(1 .. n, found)
    BY <2>4 DEF ExistsBijection
  <2> QED BY <2>5, FS_CountingElements
<1>21. ASSUME ~Truncated(x) PROVE found = exact
  <2>1. Len(examined) \in Nat /\ ExamineLimit \in Nat /\ PathLimit \in Nat
    BY <1>4, LenProperties, LimitAssumption
  <2>2. ~(Len(examined) >= ExamineLimit) /\ n # PathLimit
    BY <1>10, <1>13, <1>14, <1>21 DEF Truncated
  <2>3. Len(examined) < ExamineLimit /\ Len(traversed) < PathLimit
    <3>1. PICK l \in Nat : l = Len(examined)
      BY <2>1
    <3>2. PICK a \in Nat : a = ExamineLimit
      BY <2>1
    <3>3. PICK b \in Nat : b = PathLimit
      BY <2>1
    <3>4. l < a /\ n < b
      BY <1>4, <1>6, <2>2, <3>1, <3>2, <3>3
    <3> QED BY <1>6, <3>1, <3>2, <3>3, <3>4
  <2> QED BY <1>4, <1>5, <1>16, <1>18, <2>3
<1>22. \A p \in Range(sorted) : {p.likelihoodScore, p.impactScore, p.riskScore} \subseteq 0 .. 100
  <2>1. \A y \in Range(scored) : \E k \in 1 .. n : y = scored[k]
    BY <1>12 DEF Range
  <2>2. ASSUME NEW p \in Range(sorted) PROVE {p.likelihoodScore, p.impactScore, p.riskScore} \subseteq 0 .. 100
    <3>1. PICK k \in 1 .. n : p = scored[k]
      BY <1>14, <2>1
    <3> QED BY <1>11, <3>1
  <2> QED BY <2>2
<1>23. n <= PathLimit
  BY <1>4, <1>6
<1> QED BY <1>9, <1>10, <1>13, <1>14, <1>15, <1>17, <1>19, <1>20, <1>21, <1>22, <1>23 DEF ExactOf

-----------------------------------------------------------------------------
(* The blast radius.                                                       *)

\* A set is as many as its four parts together.
LEMMA FourParts ==
  ASSUME NEW K, IsFiniteSet(K), NEW A, NEW B, NEW C, NEW D, K = A \cup B \cup C \cup D,
         A \cap B = {}, A \cap C = {}, A \cap D = {}, B \cap C = {}, B \cap D = {}, C \cap D = {}
  PROVE  Cardinality(A) + Cardinality(B) + Cardinality(C) + Cardinality(D) = Cardinality(K)
<1>1. IsFiniteSet(A) /\ IsFiniteSet(B) /\ IsFiniteSet(C) /\ IsFiniteSet(D)
  BY FS_Subset
<1>2. PICK a \in Nat : a = Cardinality(A)
  BY <1>1, FS_CardinalityType
<1>3. PICK b \in Nat : b = Cardinality(B)
  BY <1>1, FS_CardinalityType
<1>4. PICK c \in Nat : c = Cardinality(C)
  BY <1>1, FS_CardinalityType
<1>5. PICK d \in Nat : d = Cardinality(D)
  BY <1>1, FS_CardinalityType
<1>6. Cardinality({}) = 0
  BY FS_EmptySet
<1>7. PICK E : E = A \cup B
  OBVIOUS
<1>8. IsFiniteSet(E) /\ Cardinality(E) = a + b
  <2>1. IsFiniteSet(E) /\ Cardinality(E) = a + b - Cardinality(A \cap B)
    BY <1>1, <1>2, <1>3, <1>7, FS_Union
  <2> QED BY <1>6, <2>1
<1>9. PICK F : F = E \cup C
  OBVIOUS
<1>10. IsFiniteSet(F) /\ Cardinality(F) = a + b + c
  <2>1. IsFiniteSet(F) /\ Cardinality(F) = (a + b) + c - Cardinality(E \cap C)
    BY <1>1, <1>4, <1>8, <1>9, FS_Union
  <2>2. E \cap C = {}
    BY <1>7
  <2>3. Cardinality(E \cap C) = 0
    BY <1>6, <2>2
  <2> QED BY <2>1, <2>3
<1>11. Cardinality(F \cup D) = a + b + c + d
  <2>1. Cardinality(F \cup D) = (a + b + c) + d - Cardinality(F \cap D)
    BY <1>1, <1>5, <1>10, FS_Union
  <2>2. F \cap D = {}
    BY <1>7, <1>9
  <2>3. Cardinality(F \cap D) = 0
    BY <1>6, <2>2
  <2> QED BY <2>1, <2>3
<1>12. F \cup D = K
  BY <1>7, <1>9
<1> QED BY <1>2, <1>3, <1>4, <1>5, <1>11, <1>12

\* The counts by criticality count each asset of the inventory that is reached.
LEMMA CountedIs ==
  ASSUME NEW inv, Scored(inv), NEW reachable, IsFiniteSet(reachable), NEW by, by = countCriticality(inv, reachable)
  PROVE  by.low + by.medium + by.high + by.critical = Cardinality(reachable \cap DOMAIN inv.assets)
<1>1. PICK K : K = reachable \cap DOMAIN inv.assets
  OBVIOUS
<1> DEFINE Of(c) == {a \in K : inv.assets[a] = c}
<1>2. \A a \in K : inv.assets[a] \in {"low", "medium", "high", "critical"}
  BY <1>1 DEF Scored, criticalityScore
<1>3. IsFiniteSet(K)
  BY <1>1, FS_Intersection
<1>4. /\ by.low = Cardinality(Of("low")) /\ by.medium = Cardinality(Of("medium"))
      /\ by.high = Cardinality(Of("high")) /\ by.critical = Cardinality(Of("critical"))
  BY <1>1 DEF countCriticality, criticalityScore
<1>5. K = Of("low") \cup Of("medium") \cup Of("high") \cup Of("critical")
  BY <1>2
<1>6. /\ Of("low") \cap Of("medium") = {} /\ Of("low") \cap Of("high") = {} /\ Of("low") \cap Of("critical") = {}
      /\ Of("medium") \cap Of("high") = {} /\ Of("medium") \cap Of("critical") = {} /\ Of("high") \cap Of("critical") = {}
  OBVIOUS
<1>7. Cardinality(Of("low")) + Cardinality(Of("medium")) + Cardinality(Of("high")) + Cardinality(Of("critical")) = Cardinality(K)
  <2>1. PICK A : A = Of("low")
    OBVIOUS
  <2>2. PICK B : B = Of("medium")
    OBVIOUS
  <2>3. PICK C : C = Of("high")
    OBVIOUS
  <2>4. PICK D : D = Of("critical")
    OBVIOUS
  <2> HIDE DEF Of
  <2> QED BY <1>3, <1>5, <1>6, <2>1, <2>2, <2>3, <2>4, FourParts
<1> QED BY <1>1, <1>4, <1>7

\* What an analysis reaches is within the depth it was asked for, and short of
\* the limits it is all that is.
LEMMA ReachableIs ==
  ASSUME NEW inv, Graph(inv.dependencies), NEW ids \in Seq(Assets), IsInjective(ids), NEW maxDepth \in Nat,
         NEW x, x = analyzeAttackPaths(inv, ids, maxDepth)
  PROVE  /\ IsFiniteSet(x.reachableAssetIds)
         /\ x.reachableAssetIds \subseteq Within(inv.dependencies, Range(ids), maxDepth)
         /\ ~Truncated(x) => x.reachableAssetIds = Within(inv.dependencies, Range(ids), maxDepth)
<1>1. PICK examined : examined = Examined(inv, ids, maxDepth)
  OBVIOUS
<1>2. PICK all : all = AllPaths(inv.dependencies, Range(ids), maxDepth)
  OBVIOUS
<1>3. /\ examined \in Seq(Paths) /\ IsInjective(examined) /\ Range(examined) \subseteq all
      /\ Len(Reached(inv, examined)) <= PathLimit
      /\ Len(examined) < ExamineLimit /\ Len(Reached(inv, examined)) < PathLimit => Range(examined) = all
  BY <1>1, <1>2, ExaminedIs
<1>4. PICK traversed : traversed = Reached(inv, examined)
  OBVIOUS
<1>5. traversed \in Seq(Paths)
  BY <1>3, <1>4, OnlyIs DEF Reached
<1>6. PICK n \in Nat : n = Len(traversed) /\ DOMAIN traversed = 1 .. n
  BY <1>5, LenProperties
<1>7. PICK reachable : reachable = {Last(path.assetIds) : path \in Range(examined)}
  OBVIOUS
<1>8. PICK scored : scored = [k \in 1 .. n |-> ScorePath(inv, traversed[k])]
  OBVIOUS
<1>9. /\ x.reachableAssetIds = reachable
      /\ x.incomplete = (Len(examined) >= ExamineLimit)
      /\ x.paths = Sorted(scored)
  BY <1>1, <1>4, <1>6, <1>7, <1>8 DEF analyzeAttackPaths, Reached
<1>10. {Last(path.assetIds) : path \in all} = Within(inv.dependencies, Range(ids), maxDepth)
  <2>1. Range(ids) \in SUBSET Assets
    BY LenProperties, ElementOfSeq DEF Range
  <2> QED BY <1>2, <2>1, EndingIs DEF Ending, Graph
<1>11. reachable \subseteq Within(inv.dependencies, Range(ids), maxDepth)
  BY <1>3, <1>7, <1>10
<1>12. IsFiniteSet(reachable)
  <2>1. IsFiniteSet(Range(examined))
    BY <1>3, CountIs
  <2>2. PICK f : f = [path \in Range(examined) |-> Last(path.assetIds)]
    OBVIOUS
  <2>3. f \in Surjection(Range(examined), reachable)
    BY <1>7, <2>2 DEF Surjection
  <2> QED BY <2>1, <2>3, FS_Surjection
<1>13. ASSUME ~Truncated(x) PROVE reachable = Within(inv.dependencies, Range(ids), maxDepth)
  <2>1. Len(examined) \in Nat /\ ExamineLimit \in Nat /\ PathLimit \in Nat
    BY <1>3, LenProperties, LimitAssumption
  <2>2. ~(Len(examined) >= ExamineLimit) /\ Len(x.paths) # PathLimit
    BY <1>9, <1>13 DEF Truncated
  <2>3. DOMAIN x.paths = 1 .. n
    BY <1>8, <1>9 DEF Sorted
  <2>4. Len(x.paths) = n
    <3>1. x.paths \in [1 .. n -> Range(x.paths)]
      <4>1. x.paths = [k \in 1 .. n |-> x.paths[k]]
        BY <1>8, <1>9 DEF Sorted
      <4> QED BY <2>3, <4>1 DEF Range
    <3>2. x.paths \in Seq(Range(x.paths))
      BY <3>1, SeqDef
    <3> QED BY <2>3, <3>2, LenProperties
  <2>5. Len(examined) < ExamineLimit /\ Len(traversed) < PathLimit
    <3>1. PICK l \in Nat : l = Len(examined)
      BY <2>1
    <3>2. PICK a \in Nat : a = ExamineLimit
      BY <2>1
    <3>3. PICK b \in Nat : b = PathLimit
      BY <2>1
    <3>4. l < a /\ n < b
      BY <1>3, <1>4, <1>6, <2>2, <2>4, <3>1, <3>2, <3>3
    <3> QED BY <1>6, <3>1, <3>2, <3>3, <3>4
  <2> QED BY <1>3, <1>4, <1>7, <1>10, <2>5
<1> QED BY <1>9, <1>11, <1>12, <1>13

-----------------------------------------------------------------------------
(* The analyses and the inventory.                                         *)

\* An analysis on its way has read what was stored when it read it: nothing
\* has gone since, and what it could reach when it began it will find.
AnalysisAt(q, store, inv) ==
  /\ {"op", "unread", "inventory", "entryAssetIds", "maxDepth", "known", "reach"} \subseteq DOMAIN q
  /\ q.entryAssetIds \in Seq(Assets) /\ IsInjective(q.entryAssetIds) /\ q.maxDepth \in Nat
  /\ Graph(q.inventory.dependencies)
  /\ Ends(q.inventory.dependencies) \subseteq Ends(inv.dependencies)
  /\ q.reach \subseteq Within((IF "dependencies" \in q.unread THEN inv ELSE q.inventory).dependencies,
                              Range(q.entryAssetIds), q.maxDepth)
  /\ q.known \subseteq DOMAIN (IF "assets" \in q.unread THEN inv ELSE q.inventory).assets
  /\ store = "memory" => \A list \in {"assets", "dependencies"} : list \in q.unread \/ q.inventory[list] = inv[list]

\* A saved one is exact for what it read and real for what is stored.
SavedAt(s, store, deps) ==
  /\ s.analysis.maxDepth \in Nat
  /\ ExactOf(s.analysis, s.query.inventory)
  /\ RealOf(s.analysis, s.query, store, deps)

AInv ==
  /\ \A r \in Requests : requests[r].op = "analyze" => AnalysisAt(requests[r], dataStore, Inventory)
  /\ analyses \in Seq(Range(analyses))
  /\ \A k \in DOMAIN analyses : SavedAt(analyses[k], dataStore, dependencies)

\* An inventory loses no asset and no dependency.
Grows(a, b) == DOMAIN a.assets \subseteq DOMAIN b.assets /\ Ends(a.dependencies) \subseteq Ends(b.dependencies)

\* What an analysis has read remains true of an inventory that has grown.
LEMMA AnalysisGrows ==
  ASSUME NEW q, NEW store, NEW a, NEW b, AnalysisAt(q, store, a), Grows(a, b), store = "memory" => a = b
  PROVE  AnalysisAt(q, store, b)
<1>1. CASE "dependencies" \in q.unread
  <2>1. q.reach \subseteq Within(a.dependencies, Range(q.entryAssetIds), q.maxDepth)
    BY <1>1 DEF AnalysisAt
  <2>2. q.maxDepth \in Nat /\ Ends(a.dependencies) \subseteq Ends(b.dependencies)
    BY DEF AnalysisAt, Grows
  <2>3. Within(a.dependencies, Range(q.entryAssetIds), q.maxDepth) \subseteq
          Within(b.dependencies, Range(q.entryAssetIds), q.maxDepth)
    BY <2>2, WithinGrows
  <2>4. q.reach \subseteq Within((IF "dependencies" \in q.unread THEN b ELSE q.inventory).dependencies,
                                 Range(q.entryAssetIds), q.maxDepth)
    BY <1>1, <2>1, <2>3
  <2> QED BY <2>4 DEF AnalysisAt, Grows
<1>2. CASE "dependencies" \notin q.unread
  BY <1>2 DEF AnalysisAt, Grows
<1> QED BY <1>1, <1>2

\* So does what was saved.
LEMMA SavedGrows ==
  ASSUME NEW s, NEW store, NEW a, NEW b, SavedAt(s, store, a), Ends(a) \subseteq Ends(b)
  PROVE  SavedAt(s, store, b)
<1>1. PICK x : x = s.analysis
  OBVIOUS
<1>2. x.maxDepth \in Nat /\ RealOf(x, s.query, store, a)
  BY <1>1 DEF SavedAt
<1>3. Within(a, Range(x.entryAssetIds), x.maxDepth) \subseteq Within(b, Range(x.entryAssetIds), x.maxDepth)
  BY <1>2, WithinGrows
<1>4. RealOf(x, s.query, store, b)
  BY <1>2, <1>3 DEF RealOf
<1> QED BY <1>1, <1>4 DEF SavedAt

\* A step that takes nothing from the inventory keeps the invariant, when what
\* is on its way in memory sees no change and what is new satisfies it.
LEMMA AnalysesKept ==
  ASSUME AInv, UNCHANGED dataStore, Grows(Inventory, Inventory'),
         \A r \in Requests : requests'[r].op = "analyze" =>
           \/ requests'[r] = requests[r] /\ (dataStore = "memory" => Inventory = Inventory')
           \/ AnalysisAt(requests'[r], dataStore', Inventory'),
         \/ UNCHANGED analyses
         \/ \E s : analyses' = Append(analyses, s) /\ SavedAt(s, dataStore', dependencies')
  PROVE  AInv'
<1>1. ASSUME NEW r \in Requests, requests'[r].op = "analyze" PROVE AnalysisAt(requests[r], dataStore, Inventory)'
  <2>1. CASE requests'[r] = requests[r] /\ (dataStore = "memory" => Inventory = Inventory')
    <3>1. AnalysisAt(requests[r], dataStore, Inventory)
      BY <1>1, <2>1 DEF AInv
    <3>2. AnalysisAt(requests[r], dataStore, Inventory')
      BY <2>1, <3>1, AnalysisGrows
    <3>3. AnalysisAt(requests'[r], dataStore', Inventory')
      BY <2>1, <3>2
    <3> QED BY <3>3
  <2>2. CASE AnalysisAt(requests'[r], dataStore', Inventory')
    BY <2>2
  <2> QED BY <1>1, <2>1, <2>2
<1>2. Ends(dependencies) \subseteq Ends(dependencies')
  BY DEF Grows, Inventory
<1>3. \A k \in DOMAIN analyses : SavedAt(analyses[k], dataStore', dependencies')
  BY <1>2, SavedGrows DEF AInv
<1>4. CASE UNCHANGED analyses
  <2>1. analyses' \in Seq(Range(analyses'))
    BY <1>4 DEF AInv
  <2>2. \A k \in DOMAIN analyses' : SavedAt(analyses'[k], dataStore', dependencies')
    BY <1>3, <1>4
  <2> QED BY <1>1, <2>1, <2>2 DEF AInv
<1>5. ASSUME NEW s, analyses' = Append(analyses, s), SavedAt(s, dataStore', dependencies') PROVE AInv'
  <2>1. PICK S : S = Range(analyses) \cup {s}
    OBVIOUS
  <2>2. PICK seq \in Seq(S) : seq = analyses
    <3>1. analyses \in [1 .. Len(analyses) -> Range(analyses)] /\ Len(analyses) \in Nat
      BY LenProperties DEF AInv
    <3>2. analyses \in [1 .. Len(analyses) -> S]
      BY <2>1, <3>1
    <3> QED BY <3>1, <3>2, SeqDef
  <2>3. PICK n \in Nat : n = Len(seq) /\ DOMAIN seq = 1 .. n
    BY LenProperties
  <2>4. PICK new : new = Append(seq, s)
    OBVIOUS
  <2>5. /\ new \in Seq(S) /\ Len(new) = n + 1 /\ DOMAIN new = 1 .. (n + 1)
        /\ \A k \in 1 .. n : new[k] = seq[k]
        /\ new[n + 1] = s
    BY <2>1, <2>3, <2>4, AppendProperties, LenProperties
  <2>6. new \in Seq(Range(new))
    <3>1. new \in [1 .. (n + 1) -> S]
      BY <2>5, LenProperties
    <3>2. new \in [1 .. (n + 1) -> Range(new)]
      BY <2>5, <3>1 DEF Range
    <3>3. n + 1 \in Nat
      OBVIOUS
    <3> QED BY <3>2, <3>3, SeqDef
  <2>7. \A k \in DOMAIN new : SavedAt(new[k], dataStore', dependencies')
    <3> SUFFICES ASSUME NEW k \in DOMAIN new PROVE SavedAt(new[k], dataStore', dependencies')
      OBVIOUS
    <3>1. CASE k = n + 1
      BY <1>5, <2>5, <3>1
    <3>2. CASE k # n + 1
      <4>1. k \in 1 .. n
        BY <2>5, <3>2
      <4> QED BY <1>3, <2>2, <2>3, <2>5, <4>1
    <3> QED BY <3>1, <3>2
  <2>8. analyses' = new
    BY <1>5, <2>2, <2>4
  <2> QED BY <1>1, <2>6, <2>7, <2>8 DEF AInv
<1> QED BY <1>4, <1>5

\* A request that starts, reads or ends leaves the inventory alone.
LEMMA AnalysisMoves ==
  ASSUME IInv, AInv, UNCHANGED <<dataStore, stored>>, NEW r \in Requests, NEW q, requests' = [requests EXCEPT ![r] = q],
         q.op = "analyze" => AnalysisAt(q, dataStore, Inventory),
         \/ UNCHANGED analyses
         \/ \E s : analyses' = Append(analyses, s) /\ SavedAt(s, dataStore, dependencies)
  PROVE  AInv'
<1>1. Inventory' = Inventory /\ UNCHANGED <<dataStore, dependencies>>
  BY DEF stored, Inventory, Criticalities
<1>2. \A s \in Requests : requests'[s] = IF s = r THEN q ELSE requests[s]
  BY DEF IInv, RequestsOK
<1>3. Grows(Inventory, Inventory')
  BY <1>1 DEF Grows
<1>4. \A s \in Requests : requests'[s].op = "analyze" =>
           \/ requests'[s] = requests[s] /\ (dataStore = "memory" => Inventory = Inventory')
           \/ AnalysisAt(requests'[s], dataStore', Inventory')
  BY <1>1, <1>2
<1>5. \/ UNCHANGED analyses
      \/ \E s : analyses' = Append(analyses, s) /\ SavedAt(s, dataStore', dependencies')
  BY <1>1
<1> QED BY <1>1, <1>3, <1>4, <1>5, AnalysesKept

\* A write of the inventory comes, in memory, when no analysis is on its way.
LEMMA AnalysisWritten ==
  ASSUME IInv, AInv, UNCHANGED <<dataStore, analyses>>,
         DOMAIN assets \subseteq DOMAIN assets', Ends(dependencies) \subseteq Ends(dependencies'),
         \A s \in Requests : requests'[s].op = "analyze" => requests'[s] = requests[s],
         dataStore = "memory" => \A s \in Requests : requests[s].op # "analyze"
  PROVE  AInv'
<1>1. Grows(Inventory, Inventory')
  BY DEF Grows, Inventory, Criticalities
<1>2. \A s \in Requests : requests'[s].op = "analyze" =>
           \/ requests'[s] = requests[s] /\ (dataStore = "memory" => Inventory = Inventory')
           \/ AnalysisAt(requests'[s], dataStore', Inventory')
  OBVIOUS
<1> QED BY <1>1, <1>2, AnalysesKept

\* What an inventory guarantees an analysis.
LEMMA InventoryGraph ==
  ASSUME IInv
  PROVE  /\ Graph(dependencies)
         /\ \A d \in Range(dependencies) : d.target \in DOMAIN assets
         /\ DOMAIN assets \subseteq Assets
<1>1. InventoryOK(assets, dependencies, vulnerabilities, services, events)
  BY InventoryIs DEF IInv
<1>2. \A d \in Range(dependencies) : d.target \in DOMAIN assets
  BY <1>1 DEF InventoryOK, Range
<1> QED BY <1>1, <1>2 DEF InventoryOK, Graph

\* A step that adds an asset or replaces it, directly or in an import or an
\* enrichment.
LEMMA EnterKeepsAnalyses ==
  ASSUME IInv, AInv, NEW a, NEW row, assets' = With(assets, a, row), UNCHANGED <<dataStore, dependencies, analyses>>,
         \A s \in Requests : \/ requests'[s] = Overlapped(a)[s]
                             \/ requests'[s].op \in {"import", "none"},
         Undisturbed \/ \E s \in Requests : requests[s].op \in {"import", "enrich"}
  PROVE  AInv'
<1>1. DOMAIN assets \subseteq DOMAIN assets' /\ Ends(dependencies) \subseteq Ends(dependencies')
  BY DEF With
<1>2. ASSUME NEW s \in Requests, requests'[s].op = "analyze" PROVE requests'[s] = requests[s]
  <2>1. requests'[s] = Overlapped(a)[s]
    BY <1>2
  <2>2. CASE requests[s].op = "enrich" /\ requests[s].asset = a
    <3>1. requests'[s] = [requests[s] EXCEPT !.overlapped = TRUE]
      BY <2>1, <2>2 DEF Overlapped
    <3>2. requests[s] \in [op : {"enrich"}, asset : Assets, lifecycle : Lifecycles,
                           criticality : DOMAIN criticalityScore, overlapped : BOOLEAN]
      BY <2>2 DEF IInv, RequestsOK, EnrichmentOK
    <3>3. requests'[s].op = "enrich"
      BY <3>1, <3>2
    <3> QED BY <1>2, <3>3
  <2>3. CASE ~(requests[s].op = "enrich" /\ requests[s].asset = a)
    BY <2>1, <2>3 DEF Overlapped
  <2> QED BY <2>2, <2>3
<1>3. ASSUME dataStore = "memory", NEW s \in Requests PROVE requests[s].op # "analyze"
  <2>1. Idle.op = "none"
    BY DEF Idle
  <2>2. CASE Undisturbed
    BY <1>3, <2>1, <2>2 DEF Undisturbed
  <2>3. ASSUME NEW t \in Requests, requests[t].op \in {"import", "enrich"} PROVE requests[s].op # "analyze"
    BY <1>3, <2>1, <2>3 DEF IInv, AloneOK
  <2> QED BY <2>2, <2>3
<1> QED BY <1>1, <1>2, <1>3, AnalysisWritten

\* A dependency is replaced by one of the same relationship, or added.
LEMMA DependencyKeepsAnalyses ==
  ASSUME IInv, AInv, NEW d \in Dependencies, createDependency(d)
  PROVE  AInv'
<1>1. Undisturbed /\ UNCHANGED <<dataStore, assets, requests, analyses>>
  BY DEF createDependency, Change
<1>2. Ends(dependencies) \subseteq Ends(dependencies')
  <2>1. /\ d \in Dependency /\ dependencies \in Seq(Dependency) /\ DOMAIN dependencies = 1 .. Len(dependencies)
        /\ Len(dependencies) \in Nat
    BY InventoryGraph, RequestsAssumption, LenProperties DEF Graph
  <2>2. \A k \in DOMAIN dependencies : /\ k \in DOMAIN dependencies'
                                       /\ dependencies'[k].source = dependencies[k].source
                                       /\ dependencies'[k].target = dependencies[k].target
    <3>1. CASE \E e \in Range(dependencies) : SameRelationship(d, e)
      <4>1. dependencies' = [k \in DOMAIN dependencies |->
               IF dataStore = "postgres" /\ SameRelationship(d, dependencies[k]) THEN d ELSE dependencies[k]]
        BY <3>1 DEF createDependency
      <4> QED BY <4>1 DEF SameRelationship
    <3>2. CASE ~ \E e \in Range(dependencies) : SameRelationship(d, e)
      <4>1. dependencies' = Append(dependencies, d)
        BY <3>2 DEF createDependency
      <4>2. PICK n \in Nat : n = Len(dependencies)
        BY <2>1
      <4>3. /\ DOMAIN dependencies' = 1 .. (n + 1)
            /\ \A k \in 1 .. n : dependencies'[k] = dependencies[k]
        BY <2>1, <4>1, <4>2, AppendProperties, LenProperties
      <4> QED BY <2>1, <4>2, <4>3
    <3> QED BY <3>1, <3>2
  <2> SUFFICES ASSUME NEW k \in DOMAIN dependencies
               PROVE  <<dependencies[k].source, dependencies[k].target>> \in Ends(dependencies')
    BY DEF Ends, Range
  <2>3. dependencies'[k] \in Range(dependencies')
    BY <2>2 DEF Range
  <2> QED BY <2>2, <2>3 DEF Ends
<1>3. Idle.op = "none"
  BY DEF Idle
<1>4. dataStore = "memory" => \A s \in Requests : requests[s].op # "analyze"
  BY <1>1, <1>3 DEF Undisturbed
<1>5. DOMAIN assets \subseteq DOMAIN assets'
  BY <1>1
<1>6. \A s \in Requests : requests'[s].op = "analyze" => requests'[s] = requests[s]
  BY <1>1
<1> QED BY <1>1, <1>2, <1>4, <1>5, <1>6, AnalysisWritten

\* What is not of the assets or their dependencies no analysis follows.
LEMMA RecordsKeepAnalyses ==
  ASSUME IInv, AInv,
         \/ \E v \in Vulnerabilities : upsertVulnerability(v)
         \/ \E s \in Services : upsertCriticalService(s)
         \/ \E e \in Events : ingestSecurityEvent(e)
  PROVE  AInv'
<1>1. Undisturbed /\ UNCHANGED <<dataStore, assets, dependencies, requests, analyses>>
  BY DEF upsertVulnerability, upsertCriticalService, ingestSecurityEvent, Change
<1>2. Idle.op = "none"
  BY DEF Idle
<1>3. dataStore = "memory" => \A s \in Requests : requests[s].op # "analyze"
  BY <1>1, <1>2 DEF Undisturbed
<1>4. DOMAIN assets \subseteq DOMAIN assets' /\ Ends(dependencies) \subseteq Ends(dependencies')
  BY <1>1
<1>5. \A s \in Requests : requests'[s].op = "analyze" => requests'[s] = requests[s]
  BY <1>1
<1> QED BY <1>1, <1>3, <1>4, <1>5, AnalysisWritten

\* An analysis begins with nothing read and may reach what is stored.
LEMMA StartKeepsAnalyses ==
  ASSUME IInv, AInv, NEW r \in Requests, NEW query \in Analyses, StartAnalysis(r, query)
  PROVE  AInv'
<1>1. PICK q : q = [op |-> "analyze", entryAssetIds |-> query.entryAssetIds, maxDepth |-> query.maxDepth,
                    unread |-> Lists, inventory |-> Unread, known |-> DOMAIN assets,
                    reach |-> Within(dependencies, Range(query.entryAssetIds), query.maxDepth)]
  OBVIOUS
<1>2. /\ requests' = [requests EXCEPT ![r] = q]
      /\ UNCHANGED <<dataStore, stored, analyses>>
  BY <1>1 DEF StartAnalysis
<1>3. query.entryAssetIds \in Seq(Assets) /\ IsInjective(query.entryAssetIds) /\ query.maxDepth \in Nat
  BY RequestsAssumption
<1>4. /\ {"op", "unread", "inventory", "entryAssetIds", "maxDepth", "known", "reach"} \subseteq DOMAIN q
      /\ q.entryAssetIds = query.entryAssetIds /\ q.maxDepth = query.maxDepth /\ q.unread = Lists
      /\ q.inventory = Unread /\ q.known = DOMAIN assets
      /\ q.reach = Within(dependencies, Range(query.entryAssetIds), query.maxDepth)
  BY <1>1
<1>5. /\ q.inventory.dependencies = << >> /\ "dependencies" \in q.unread /\ "assets" \in q.unread
      /\ Inventory.dependencies = dependencies /\ DOMAIN Inventory.assets = DOMAIN assets
  BY <1>4 DEF Unread, Lists, Inventory, Criticalities
<1>6. Graph(q.inventory.dependencies) /\ Ends(q.inventory.dependencies) = {}
  BY <1>5 DEF Graph, Ends, Range
<1>7. AnalysisAt(q, dataStore, Inventory)
  BY <1>3, <1>4, <1>5, <1>6 DEF AnalysisAt
<1> QED BY <1>2, <1>7, AnalysisMoves

\* A list that is read is what is stored: what could be reached, and the assets
\* that were known, are in it.
LEMMA ReadKeepsAnalyses ==
  ASSUME IInv, AInv, NEW r \in Requests, NEW list \in Lists, ReadList(r, list)
  PROVE  AInv'
<1>1. PICK p : p = requests[r]
  OBVIOUS
<1>2. PICK unread : unread = p.unread \ {list}
  OBVIOUS
<1>3. PICK inventory : inventory = [p.inventory EXCEPT ![list] = Inventory[list]]
  OBVIOUS
<1>4. PICK q : q = [p EXCEPT !.unread = unread, !.inventory = inventory]
  OBVIOUS
<1>5. /\ p.op = "analyze" /\ list \in p.unread
      /\ requests' = [requests EXCEPT ![r] = q]
      /\ UNCHANGED <<dataStore, stored, analyses>>
  BY <1>1, <1>2, <1>3, <1>4 DEF ReadList
<1>6. AnalysisOK(p) /\ AnalysisAt(p, dataStore, Inventory)
  BY <1>1, <1>5 DEF IInv, RequestsOK, AInv
<1>7. /\ DOMAIN q = DOMAIN p
      /\ q.unread = unread /\ q.inventory = inventory /\ q.entryAssetIds = p.entryAssetIds
      /\ q.maxDepth = p.maxDepth /\ q.known = p.known /\ q.reach = p.reach
  <2>1. {"op", "unread", "inventory", "entryAssetIds", "maxDepth", "known", "reach"} \subseteq DOMAIN p
    BY <1>6 DEF AnalysisAt
  <2>2. PICK m : m = [p EXCEPT !.unread = unread]
    OBVIOUS
  <2>3. /\ DOMAIN m = DOMAIN p /\ m.unread = unread /\ m.entryAssetIds = p.entryAssetIds
        /\ m.maxDepth = p.maxDepth /\ m.known = p.known /\ m.reach = p.reach
    BY <2>1, <2>2
  <2>4. q = [m EXCEPT !.inventory = inventory]
    BY <1>4, <2>2
  <2> QED BY <2>1, <2>3, <2>4
<1>8. /\ inventory.dependencies = IF list = "dependencies" THEN dependencies ELSE p.inventory.dependencies
      /\ inventory.assets = IF list = "assets" THEN Inventory.assets ELSE p.inventory.assets
  <2>1. "dependencies" \in DOMAIN p.inventory /\ "assets" \in DOMAIN p.inventory
    BY <1>6 DEF AnalysisOK, Lists
  <2>2. Inventory["dependencies"] = dependencies
    BY DEF Inventory
  <2> QED BY <1>3, <2>1, <2>2
<1>9. Inventory.dependencies = dependencies /\ Graph(dependencies)
  BY InventoryGraph DEF Inventory
<1>10. Graph(q.inventory.dependencies) /\ Ends(q.inventory.dependencies) \subseteq Ends(Inventory.dependencies)
  BY <1>6, <1>7, <1>8, <1>9 DEF AnalysisAt
<1>11. q.reach \subseteq Within((IF "dependencies" \in q.unread THEN Inventory ELSE q.inventory).dependencies,
                                Range(q.entryAssetIds), q.maxDepth)
  <2>1. p.reach \subseteq Within((IF "dependencies" \in p.unread THEN Inventory ELSE p.inventory).dependencies,
                                Range(p.entryAssetIds), p.maxDepth)
    BY <1>6 DEF AnalysisAt
  <2>2. (IF "dependencies" \in q.unread THEN Inventory ELSE q.inventory).dependencies =
        (IF "dependencies" \in p.unread THEN Inventory ELSE p.inventory).dependencies
    BY <1>2, <1>5, <1>7, <1>8, <1>9
  <2> QED BY <1>7, <2>1, <2>2
<1>12. q.known \subseteq DOMAIN (IF "assets" \in q.unread THEN Inventory ELSE q.inventory).assets
  <2>1. p.known \subseteq DOMAIN (IF "assets" \in p.unread THEN Inventory ELSE p.inventory).assets
    BY <1>6 DEF AnalysisAt
  <2>2. (IF "assets" \in q.unread THEN Inventory ELSE q.inventory).assets =
        (IF "assets" \in p.unread THEN Inventory ELSE p.inventory).assets
    BY <1>2, <1>5, <1>7, <1>8
  <2> QED BY <1>7, <2>1, <2>2
<1>13. ASSUME dataStore = "memory", NEW l \in {"assets", "dependencies"} PROVE l \in q.unread \/ q.inventory[l] = Inventory[l]
  <2>1. l \in p.unread \/ p.inventory[l] = Inventory[l]
    BY <1>6, <1>13 DEF AnalysisAt
  <2>2. l \in DOMAIN p.inventory
    BY <1>6 DEF AnalysisOK, Lists
  <2>3. inventory[l] = IF l = list THEN Inventory[l] ELSE p.inventory[l]
    BY <1>3, <2>2
  <2> QED BY <1>2, <1>7, <2>1, <2>3
<1>14. AnalysisAt(q, dataStore, Inventory)
  <2>1. /\ {"op", "unread", "inventory", "entryAssetIds", "maxDepth", "known", "reach"} \subseteq DOMAIN q
        /\ q.entryAssetIds \in Seq(Assets) /\ IsInjective(q.entryAssetIds) /\ q.maxDepth \in Nat
    BY <1>6, <1>7 DEF AnalysisAt
  <2> QED BY <1>10, <1>11, <1>12, <1>13, <2>1 DEF AnalysisAt
<1> QED BY <1>5, <1>14, AnalysisMoves

\* An analysis that has read all its lists is exact for them, and real for what
\* is stored when it is saved.
LEMMA SavedIs ==
  ASSUME IInv, NEW q, AnalysisOK(q), AnalysisAt(q, dataStore, Inventory), q.unread = {},
         Range(q.entryAssetIds) \subseteq DOMAIN q.inventory.assets,
         NEW x, x = analyzeAttackPaths(q.inventory, q.entryAssetIds, q.maxDepth)
  PROVE  SavedAt([query |-> q, analysis |-> x], dataStore, dependencies)
<1>1. PICK inv : inv = q.inventory
  OBVIOUS
<1>2. PICK ids \in Seq(Assets) : ids = q.entryAssetIds /\ IsInjective(ids)
  BY DEF AnalysisAt
<1>3. PICK maxDepth \in Nat : maxDepth = q.maxDepth
  BY DEF AnalysisAt
<1>4. Graph(inv.dependencies) /\ Scored(inv) /\ x = analyzeAttackPaths(inv, ids, maxDepth)
  BY <1>1, <1>2, <1>3 DEF AnalysisAt, AnalysisOK
<1>5. x.entryAssetIds = ids /\ x.maxDepth = maxDepth
  BY <1>4 DEF analyzeAttackPaths
<1>6. ExactOf(x, inv)
  BY <1>2, <1>4, AnalysisIsExact
<1>7. PICK reachable : reachable = x.reachableAssetIds
  OBVIOUS
<1>8. PICK near : near = Within(inv.dependencies, Range(ids), maxDepth)
  OBVIOUS
<1>9. IsFiniteSet(reachable) /\ reachable \subseteq near /\ (~Truncated(x) => reachable = near)
  BY <1>2, <1>4, <1>7, <1>8, ReachableIs
<1>10. q.reach \subseteq near /\ q.known \subseteq DOMAIN inv.assets
  BY <1>1, <1>2, <1>3, <1>8 DEF AnalysisAt
<1>11. reachable \subseteq Within(dependencies, Range(ids), maxDepth)
  <2>1. Ends(inv.dependencies) \subseteq Ends(dependencies)
    BY <1>1 DEF AnalysisAt, Inventory
  <2> QED BY <1>8, <1>9, <2>1, WithinGrows
<1>12. PICK by : by = x.assetsByCriticality
  OBVIOUS
<1>13. by.low + by.medium + by.high + by.critical = Cardinality(reachable \cap DOMAIN inv.assets)
  <2>1. by = countCriticality(inv, reachable)
    BY <1>4, <1>7, <1>12 DEF analyzeAttackPaths
  <2> QED BY <1>4, <1>9, <2>1, CountedIs
<1>14. Cardinality(reachable \cap DOMAIN inv.assets) >= Cardinality(reachable \cap q.known)
  <2>1. PICK A : A = reachable \cap DOMAIN inv.assets
    OBVIOUS
  <2>2. PICK B : B = reachable \cap q.known
    OBVIOUS
  <2>3. IsFiniteSet(A) /\ B \in SUBSET A
    BY <1>9, <1>10, <2>1, <2>2, FS_Intersection
  <2>4. Cardinality(B) <= Cardinality(A) /\ Cardinality(A) \in Nat /\ IsFiniteSet(B)
    BY <2>3, FS_Subset, FS_CardinalityType
  <2>5. Cardinality(B) \in Nat
    BY <2>4, FS_CardinalityType
  <2> QED BY <2>1, <2>2, <2>4, <2>5
<1>15. ASSUME dataStore = "memory" PROVE reachable \cap DOMAIN inv.assets = reachable
  <2>1. inv.assets = Inventory.assets /\ inv.dependencies = Inventory.dependencies
    BY <1>1, <1>15 DEF AnalysisAt
  <2>2. DOMAIN inv.assets = DOMAIN assets /\ inv.dependencies = dependencies
    BY <2>1 DEF Inventory, Criticalities
  <2>3. near \subseteq Range(ids) \cup {d.target : d \in Range(dependencies)}
    BY <1>8, <2>2, WithinIs
  <2>4. near \subseteq DOMAIN assets
    BY <1>1, <1>2, <2>2, <2>3, InventoryGraph
  <2> QED BY <1>9, <2>2, <2>4
<1>16. RealOf(x, q, dataStore, dependencies)
  BY <1>5, <1>7, <1>9, <1>10, <1>11, <1>12, <1>13, <1>14, <1>15 DEF RealOf
<1>17. PICK s : s = [query |-> q, analysis |-> x]
  OBVIOUS
<1>18. s.query = q /\ s.analysis = x
  BY <1>17
<1> QED BY <1>1, <1>3, <1>5, <1>6, <1>16, <1>17, <1>18 DEF SavedAt

\* Every step of a request keeps the analyses what they promise.
LEMMA StepAInv ==
  ASSUME IInv, AInv, NEW r \in Requests, Step(r)
  PROVE  AInv'
<1>1. Idle.op = "none"
  BY DEF Idle
<1>2. ASSUME NEW file \in Files, StartImport(r, file) PROVE AInv'
  <2>1. PICK q : q = [op |-> "import", rows |-> [k \in DOMAIN file.rows |-> Candidate(file, file.rows[k])]]
    OBVIOUS
  <2>2. q.op = "import" /\ requests' = [requests EXCEPT ![r] = q] /\ UNCHANGED <<dataStore, stored, analyses>>
    BY <1>2, <2>1 DEF StartImport
  <2> QED BY <2>2, AnalysisMoves
<1>3. CASE ImportRow(r)
  <2>1. PICK next : next = IF Len(requests[r].rows) = 1 THEN Idle
                           ELSE [op |-> "import", rows |-> Tail(requests[r].rows)]
    OBVIOUS
  <2>2. next.op \in {"import", "none"}
    BY <1>1, <2>1
  <2>3. PICK row : row = Head(requests[r].rows)
    OBVIOUS
  <2>4. requests[r].op = "import"
    BY <1>3 DEF ImportRow
  <2>5. CASE Valid(row)
    <3>1. Enter(row.asset, row.criticality) /\ requests' = [Overlapped(row.asset) EXCEPT ![r] = next]
      BY <1>3, <2>1, <2>3, <2>5 DEF ImportRow
    <3>2. \A s \in Requests : requests'[s] = Overlapped(row.asset)[s] \/ requests'[s].op \in {"import", "none"}
      BY <2>2, <3>1 DEF Overlapped
    <3>3. PICK entered : entered = [criticality |-> row.criticality, lifecycle |-> "unset"]
      OBVIOUS
    <3>4. assets' = With(assets, row.asset, entered) /\ UNCHANGED <<dataStore, dependencies, analyses>>
      BY <3>1, <3>3 DEF Enter, upsertAsset
    <3> QED BY <2>4, <3>2, <3>4, EnterKeepsAnalyses
  <2>6. CASE ~Valid(row)
    <3>1. requests' = [requests EXCEPT ![r] = next] /\ UNCHANGED <<dataStore, stored, analyses>>
      BY <1>3, <2>1, <2>3, <2>6 DEF ImportRow
    <3> QED BY <2>2, <3>1, AnalysisMoves
  <2> QED BY <2>5, <2>6
<1>4. ASSUME NEW e \in Enrichments, StartEnrichment(r, e) PROVE AInv'
  <2>1. PICK q : q = [op |-> "enrich", asset |-> e.asset, lifecycle |-> e.lifecycle,
                      criticality |-> assets[e.asset].criticality, overlapped |-> FALSE]
    OBVIOUS
  <2>2. q.op = "enrich" /\ requests' = [requests EXCEPT ![r] = q] /\ UNCHANGED <<dataStore, stored, analyses>>
    BY <1>4, <2>1 DEF StartEnrichment
  <2> QED BY <2>2, AnalysisMoves
<1>5. CASE SaveEnrichment(r)
  <2>1. PICK a : a = requests[r].asset
    OBVIOUS
  <2>2. PICK row : row = [criticality |-> requests[r].criticality, lifecycle |-> requests[r].lifecycle]
    OBVIOUS
  <2>3. /\ requests[r].op = "enrich" /\ assets' = With(assets, a, row)
        /\ requests' = [requests EXCEPT ![r] = Idle] /\ UNCHANGED <<dataStore, dependencies, analyses>>
    BY <1>5, <2>1, <2>2 DEF SaveEnrichment, upsertAsset
  <2>4. \A s \in Requests : requests'[s] = IF s = r THEN Idle ELSE requests[s]
    BY <2>3 DEF IInv, RequestsOK
  <2>5. DOMAIN assets \subseteq DOMAIN assets' /\ Ends(dependencies) \subseteq Ends(dependencies')
    BY <2>3 DEF With
  <2>6. \A s \in Requests : requests'[s].op = "analyze" => requests'[s] = requests[s]
    BY <1>1, <2>4
  <2>7. dataStore = "memory" => \A s \in Requests : requests[s].op # "analyze"
    BY <1>1, <2>3 DEF IInv, AloneOK
  <2> QED BY <2>3, <2>5, <2>6, <2>7, AnalysisWritten
<1>6. ASSUME NEW query \in Analyses, StartAnalysis(r, query) PROVE AInv'
  BY <1>6, StartKeepsAnalyses
<1>7. ASSUME NEW list \in Lists, ReadList(r, list) PROVE AInv'
  BY <1>7, ReadKeepsAnalyses
<1>8. CASE SaveRiskAnalysis(r)
  <2>1. PICK q : q = requests[r]
    OBVIOUS
  <2>2. PICK x : x = analyzeAttackPaths(q.inventory, q.entryAssetIds, q.maxDepth)
    OBVIOUS
  <2>3. PICK s : s = [query |-> q, analysis |-> x]
    OBVIOUS
  <2>4. /\ q.op = "analyze" /\ q.unread = {}
        /\ requests' = [requests EXCEPT ![r] = Idle] /\ UNCHANGED <<dataStore, stored>>
        /\ IF Range(q.entryAssetIds) \subseteq DOMAIN q.inventory.assets
           THEN analyses' = Append(analyses, s) ELSE UNCHANGED analyses
    BY <1>8, <2>1, <2>2, <2>3 DEF SaveRiskAnalysis
  <2>5. AnalysisOK(q) /\ AnalysisAt(q, dataStore, Inventory)
    BY <2>1, <2>4 DEF IInv, RequestsOK, AInv
  <2>6. CASE Range(q.entryAssetIds) \subseteq DOMAIN q.inventory.assets
    <3>1. SavedAt(s, dataStore, dependencies)
      BY <2>2, <2>3, <2>4, <2>5, <2>6, SavedIs
    <3>2. analyses' = Append(analyses, s)
      BY <2>4, <2>6
    <3> QED BY <1>1, <2>4, <3>1, <3>2, AnalysisMoves
  <2>7. CASE ~(Range(q.entryAssetIds) \subseteq DOMAIN q.inventory.assets)
    <3>1. UNCHANGED analyses
      BY <2>4, <2>7
    <3> QED BY <1>1, <2>4, <3>1, AnalysisMoves
  <2> QED BY <2>6, <2>7
<1>9. CASE Fail(r)
  <2>1. requests' = [requests EXCEPT ![r] = Idle] /\ UNCHANGED <<dataStore, stored, analyses>>
    BY <1>9 DEF Fail
  <2> QED BY <1>1, <2>1, AnalysisMoves
<1> QED BY <1>2, <1>3, <1>4, <1>5, <1>6, <1>7, <1>8, <1>9 DEF Step

\* Every step does.
LEMMA NextAInv == IInv /\ AInv /\ [RiskNext]_vars => AInv'
<1> SUFFICES ASSUME IInv, AInv, [RiskNext]_vars PROVE AInv'
  OBVIOUS
<1>1. ASSUME NEW row \in Rows, CreateAsset(row) PROVE AInv'
  <2>1. PICK entered : entered = [criticality |-> row.criticality, lifecycle |-> "unset"]
    OBVIOUS
  <2>2. /\ assets' = With(assets, row.asset, entered) /\ requests' = Overlapped(row.asset) /\ Undisturbed
        /\ UNCHANGED <<dataStore, dependencies, analyses>>
    BY <1>1, <2>1 DEF CreateAsset, Change, Enter, upsertAsset
  <2> QED BY <2>2, EnterKeepsAnalyses
<1>2. ASSUME NEW d \in Dependencies, createDependency(d) PROVE AInv'
  BY <1>2, DependencyKeepsAnalyses
<1>3. CASE \/ \E v \in Vulnerabilities : upsertVulnerability(v)
           \/ \E s \in Services : upsertCriticalService(s)
           \/ \E e \in Events : ingestSecurityEvent(e)
  BY <1>3, RecordsKeepAnalyses
<1>4. ASSUME NEW r \in Requests, Step(r) PROVE AInv'
  BY <1>4, StepAInv
<1>5. CASE UNCHANGED vars
  <2>1. /\ UNCHANGED <<dataStore, analyses, dependencies, requests>> /\ Inventory' = Inventory
    BY <1>5 DEF vars, stored, Inventory, Criticalities
  <2> QED BY <2>1 DEF AInv
<1> QED BY <1>1, <1>2, <1>3, <1>4, <1>5 DEF RiskNext, Write

\* At first nothing is analyzed.
LEMMA InitAInv == RiskInit => AInv
<1> SUFFICES ASSUME RiskInit PROVE AInv
  OBVIOUS
<1>1. /\ analyses = << >> /\ \A r \in Requests : requests[r] = Idle
  BY DEF RiskInit
<1>2. Idle.op = "none"
  BY DEF Idle
<1>3. analyses \in Seq(Range(analyses)) /\ DOMAIN analyses = {}
  BY <1>1, EmptySeq
<1> QED BY <1>1, <1>2, <1>3 DEF AInv

\* What holds of the analyses in every reachable state.
LEMMA AnalysesInvariant == RiskSpec => []AInv
<1> QED BY InitIInv, NextIInv, InitAInv, NextAInv, PTL DEF RiskSpec

-----------------------------------------------------------------------------
(* The theorems.                                                           *)

\* The likelihood of a path counts the worst open vulnerability, exploit and
\* event on it: more of them, or worse ones, make none of the three less.
LEMMA LikelihoodGrows ==
  ASSUME NEW a, NEW b, Scored(a), Scored(b), NEW path,
         b.assets = a.assets, a.events \subseteq b.events,
         \A v \in a.vulnerabilities : v.status = "open" =>
           \E u \in b.vulnerabilities : /\ u.asset = v.asset
                                        /\ u.status = "open"
                                        /\ u.cvss >= v.cvss
                                        /\ exploitScore[u.exploit] >= exploitScore[v.exploit]
  PROVE  LikelihoodScore(a, path) <= LikelihoodScore(b, path)
<1> DEFINE open(i) == OpenVulnerabilities(i, path)
           relevant(i) == {e \in i.events : e.assets \cap Range(path.assetIds) \cap DOMAIN i.assets # {}}
           cvss(i) == {v.cvss : v \in open(i)}
           exploit(i) == {exploitScore[v.exploit] : v \in open(i)}
           severity(i) == {eventSeverityScore[e.severity] : e \in relevant(i)}
<1>1. \A v \in open(a) : \E u \in open(b) : u.cvss >= v.cvss /\ exploitScore[u.exploit] >= exploitScore[v.exploit]
  BY DEF OpenVulnerabilities
<1>2. relevant(a) \subseteq relevant(b)
  OBVIOUS
<1>3. /\ cvss(a) \in SUBSET (0 .. 100) /\ cvss(b) \in SUBSET (0 .. 100)
      /\ exploit(a) \in SUBSET (0 .. 100) /\ exploit(b) \in SUBSET (0 .. 100)
      /\ severity(a) \in SUBSET (0 .. 100) /\ severity(b) \in SUBSET (0 .. 100)
      /\ LikelihoodSum(a, path) \in Nat /\ LikelihoodSum(b, path) \in Nat
  BY LikelihoodParts
<1>4. PICK c \in Nat : c = IF \E d \in Range(path.dependencies) : d.critical THEN 10 ELSE 0
  OBVIOUS
<1>5. /\ LikelihoodSum(a, path) = 15 + Share(Highest(cvss(a)), 35) + Highest(exploit(a)) + Highest(severity(a)) + c
      /\ LikelihoodSum(b, path) = 15 + Share(Highest(cvss(b)), 35) + Highest(exploit(b)) + Highest(severity(b)) + c
  BY <1>4 DEF LikelihoodSum, VulnerabilityContribution
<1>6. \A x \in cvss(a) : \E y \in cvss(b) : x <= y
  <2> SUFFICES ASSUME NEW v \in open(a) PROVE \E y \in cvss(b) : v.cvss <= y
    OBVIOUS
  <2>1. PICK u \in open(b) : u.cvss >= v.cvss
    BY <1>1
  <2>2. u.cvss \in cvss(b) /\ v.cvss \in cvss(a)
    OBVIOUS
  <2> QED BY <1>3, <2>1, <2>2
<1>7. \A x \in exploit(a) : \E y \in exploit(b) : x <= y
  <2> SUFFICES ASSUME NEW v \in open(a) PROVE \E y \in exploit(b) : exploitScore[v.exploit] <= y
    OBVIOUS
  <2>1. PICK u \in open(b) : exploitScore[u.exploit] >= exploitScore[v.exploit]
    BY <1>1
  <2>2. exploitScore[u.exploit] \in exploit(b) /\ exploitScore[v.exploit] \in exploit(a)
    OBVIOUS
  <2> QED BY <1>3, <2>1, <2>2
<1>8. \A x \in severity(a) : \E y \in severity(b) : x <= y
  <2>1. severity(a) \subseteq severity(b)
    BY <1>2
  <2>2. \A x \in severity(a) : x <= x
    BY <1>3
  <2> QED BY <2>1, <2>2
<1> HIDE DEF cvss, exploit, severity
<1>9. /\ Highest(cvss(a)) <= Highest(cvss(b)) /\ Highest(cvss(a)) \in 0 .. 100 /\ Highest(cvss(b)) \in 0 .. 100
  BY <1>3, <1>6, HighestGrows, HighestIs
<1>10. /\ Highest(exploit(a)) <= Highest(exploit(b))
       /\ Highest(exploit(a)) \in 0 .. 100 /\ Highest(exploit(b)) \in 0 .. 100
  BY <1>3, <1>7, HighestGrows, HighestIs
<1>11. /\ Highest(severity(a)) <= Highest(severity(b))
       /\ Highest(severity(a)) \in 0 .. 100 /\ Highest(severity(b)) \in 0 .. 100
  BY <1>3, <1>8, HighestGrows, HighestIs
<1>12. /\ Share(Highest(cvss(a)), 35) <= Share(Highest(cvss(b)), 35)
       /\ Share(Highest(cvss(a)), 35) \in 0 .. 100 /\ Share(Highest(cvss(b)), 35) \in 0 .. 100
  <2>1. PICK n \in 0 .. 100 : n = 35
    OBVIOUS
  <2> QED BY <1>9, <2>1, ShareGrows, ShareIs
<1>13. LikelihoodSum(a, path) <= LikelihoodSum(b, path)
  <2>1. \A s, x, y, t, z, w \in Int :
          s <= t /\ x <= z /\ y <= w => 15 + s + x + y + c <= 15 + t + z + w + c
    BY <1>4
  <2>2. /\ Share(Highest(cvss(a)), 35) \in Int /\ Share(Highest(cvss(b)), 35) \in Int
        /\ Highest(exploit(a)) \in Int /\ Highest(exploit(b)) \in Int
        /\ Highest(severity(a)) \in Int /\ Highest(severity(b)) \in Int
    BY <1>10, <1>11, <1>12
  <2> QED BY <1>5, <1>10, <1>11, <1>12, <2>1, <2>2
<1> QED BY <1>3, <1>13, CapGrows DEF LikelihoodScore

\* The inventory stays a proper one, whatever order the requests and their
\* steps come in and whichever of them fail.
THEOREM ProperInventory == RiskSpec => []RiskTypeOK
<1>1. IInv => RiskTypeOK
  BY DEF IInv
<1> QED BY <1>1, RiskInvariant, PTL

\* The criticality of an asset is the one last entered, unless it was entered
\* under an enrichment, which in memory cannot happen.
THEOREM EnrichmentKeeps == RiskSpec => []EnrichmentKeepsInventory
<1>1. IInv => EnrichmentKeepsInventory
  BY DEF IInv, WrittenOK, AloneOK, EnrichmentKeepsInventory
<1> QED BY <1>1, RiskInvariant, PTL

\* The scores of any path are what the contract of the API wants, whatever the
\* lists were when an analysis read them.
ScoresInContract ==
  \A r \in Requests : requests[r].op = "analyze" =>
    \A path : /\ LikelihoodScore(requests[r].inventory, path) \in 0 .. 100
              /\ ImpactScore(requests[r].inventory, path) \in 0 .. 100
              /\ RiskScore(requests[r].inventory, path) \in 0 .. 100

\* The response of an analysis is never refused by its own contract for a score.
THEOREM ScoresAreInContract == RiskSpec => []ScoresInContract
<1>1. IInv => ScoresInContract
  <2> SUFFICES ASSUME IInv, NEW r \in Requests, requests[r].op = "analyze"
               PROVE  \A path : /\ LikelihoodScore(requests[r].inventory, path) \in 0 .. 100
                                /\ ImpactScore(requests[r].inventory, path) \in 0 .. 100
                                /\ RiskScore(requests[r].inventory, path) \in 0 .. 100
    BY DEF ScoresInContract
  <2>1. Scored(requests[r].inventory)
    BY DEF IInv, RequestsOK, AnalysisOK
  <2> QED BY <2>1, Percentages
<1> QED BY <1>1, RiskInvariant, PTL

\* A step that adds open vulnerabilities or events, or makes them worse, lowers
\* the risk of no path.
LEMMA StepRaisesRisk ==
  ASSUME IInv, IInv', ThreatsGrow, NEW path
  PROVE  RiskScore(Inventory', path) >= RiskScore(Inventory, path)
<1>1. PICK a : a = Inventory
  OBVIOUS
<1>2. PICK b : b = Inventory'
  OBVIOUS
<1>3. a = [assets |-> Criticalities, dependencies |-> dependencies, services |-> services,
           vulnerabilities |-> vulnerabilities, events |-> events]
  BY <1>1 DEF Inventory
<1>4. b = [assets |-> Criticalities', dependencies |-> dependencies', services |-> services',
           vulnerabilities |-> vulnerabilities', events |-> events']
  BY <1>2 DEF Inventory
<1>5. UNCHANGED <<assets, dependencies, services>> /\ Criticalities' = Criticalities
  BY DEF ThreatsGrow, Criticalities
<1>6. /\ a.assets = b.assets /\ a.services = b.services
      /\ a.vulnerabilities = vulnerabilities /\ b.vulnerabilities = vulnerabilities'
      /\ a.events = events /\ b.events = events'
  BY <1>3, <1>4, <1>5
<1>7. Scored(a) /\ Scored(b)
  <2>1. Proper(a)
    BY <1>1 DEF IInv, RiskTypeOK
  <2>2. Proper(b)
    BY <1>2 DEF IInv, RiskTypeOK
  <2> QED BY <2>1, <2>2 DEF Proper, Scored
<1>8. LikelihoodScore(a, path) <= LikelihoodScore(b, path)
  <2>1. /\ a.events \subseteq b.events
        /\ \A v \in a.vulnerabilities : v.status = "open" =>
             \E u \in b.vulnerabilities : /\ u.asset = v.asset
                                          /\ u.status = "open"
                                          /\ u.cvss >= v.cvss
                                          /\ exploitScore[u.exploit] >= exploitScore[v.exploit]
    BY <1>6 DEF ThreatsGrow
  <2> QED BY <1>6, <1>7, <2>1, LikelihoodGrows
<1>9. ImpactScore(a, path) = ImpactScore(b, path)
  BY <1>6 DEF ImpactScore, ServicesAt
<1>10. RiskScore(a, path) <= RiskScore(b, path)
  <2>1. /\ LikelihoodScore(a, path) \in 0 .. 100 /\ LikelihoodScore(b, path) \in 0 .. 100
        /\ ImpactScore(a, path) \in 0 .. 100
    BY <1>7, Percentages
  <2>2. Share(LikelihoodScore(a, path), ImpactScore(a, path)) <= Share(LikelihoodScore(b, path), ImpactScore(a, path))
    BY <1>8, <2>1, ShareGrows
  <2> QED BY <1>9, <2>2 DEF RiskScore
<1>11. RiskScore(a, path) \in Int /\ RiskScore(b, path) \in Int
  BY <1>7, Percentages
<1> QED BY <1>1, <1>2, <1>10, <1>11

\* More or worse threats never lower the risk of a path.
THEOREM ThreatsRaise == RiskSpec => ThreatsRaiseRisk
<1>1. IInv /\ IInv' =>
        [ThreatsGrow =>
           \A q \in Analyses : \A path \in UNION {Range(Queue(Inventory, e, q.maxDepth)) : e \in Range(q.entryAssetIds)} :
             RiskScore(Inventory', path) >= RiskScore(Inventory, path)]_vars
  BY StepRaisesRisk
<1> QED BY <1>1, RiskInvariant, PTL DEF ThreatsRaiseRisk

\* The blast radius of a saved analysis is real and, short of the limits,
\* complete, however the reads of the analysis fell between the writes of
\* others.
THEOREM BlastRadiusReal == RiskSpec => []BlastRadiusIsReal
<1>1. AInv => BlastRadiusIsReal
  BY DEF AInv, SavedAt, RealOf, BlastRadiusIsReal
<1> QED BY <1>1, AnalysesInvariant, PTL

\* Short of the limits a saved analysis has each attack path of what it read,
\* once, told apart by its dependencies where two assets have several
\* relationships, and no other; every score is a percentage and the paths of the highest
\* risk come first.
THEOREM AnalysesExact == RiskSpec => []AnalysesAreExact
<1>1. IInv /\ AInv => AnalysesAreExact
  BY DEF IInv, AInv, SavedAt, ExactOf, AnalysesAreExact
<1> QED BY <1>1, AnalysesInvariant, RiskInvariant, PTL
=============================================================================
