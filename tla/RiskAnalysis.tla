----------------------------- MODULE RiskAnalysis -----------------------------
(***************************************************************************)
(* The inventory of one organization and the analyses of its risk: assets, *)
(* dependencies, vulnerabilities, critical services and events are written *)
(* while requests import assets, enrich one of them or analyze the attack  *)
(* paths.  In PostgreSQL every call of the store is a step of its own and  *)
(* may fail; in memory nothing comes between the calls of a request.       *)
(***************************************************************************)
EXTENDS AttackPaths, TLC

CONSTANTS
  Assets,           \* external identifiers
  DataStores,       \* a subset of {"memory", "postgres"}
  Requests,
  Inventories,      \* the inventories an instance may start with
  Rows,             \* what clients may ask to write: assets,
  Enrichments,      \* their lifecycles,
  Dependencies,
  Vulnerabilities,
  Services,
  Events,
  Files,            \* files to import
  Analyses,         \* requested entry assets and depth
  MaxChanges,       \* bound on the writes of the inventory
  MaxAnalyses       \* bound on the saved analyses

VARIABLES
  dataStore,
  assets,           \* criticality and lifecycle, by asset
  dependencies,     \* in the order of their creation
  vulnerabilities,  \* at most one for an identifier and an asset
  services,         \* at most one of a name
  events,           \* at most one of an identifier
  analyses,
  requests,
  written,          \* history: the criticality last imported or entered, by asset
  overtaken,        \* history: assets enriched by a request that read an older version
  changes

stored == <<assets, dependencies, vulnerabilities, services, events>>
vars == <<dataStore, stored, analyses, requests, written, overtaken, changes>>

Lists == {"assets", "dependencies", "vulnerabilities", "services", "events"}

Lifecycles == {"planned", "active", "maintenance", "retired"}
Asset == [criticality : DOMAIN criticalityScore, lifecycle : Lifecycles \cup {"unset"}]
Relationships ==
  {"communicates_with", "depends_on", "administers", "authenticates_via", "stores_data_in", "controls"}
Dependency == [source : Assets, target : Assets, relationship : Relationships, critical : BOOLEAN]

\* The scores a vulnerability is given are those the engine knows.
Assessed(v) == v.cvss \in 0 .. 100 /\ v.exploit \in DOMAIN exploitScore

\* The key of a dependency; two assets may have several relationships.
SameRelationship(d, e) ==
  d.source = e.source /\ d.target = e.target /\ d.relationship = e.relationship

\* An inventory holds one record of a key, and its records are of its assets;
\* the events name what they like.
Proper(inv) ==
  /\ \A a \in DOMAIN inv.assets : a \in Assets /\ inv.assets[a] \in DOMAIN criticalityScore
  /\ inv.dependencies \in Seq(Dependency)
  /\ \A d \in Range(inv.dependencies) : d.source # d.target /\ {d.source, d.target} \subseteq DOMAIN inv.assets
  /\ \A j, k \in DOMAIN inv.dependencies : SameRelationship(inv.dependencies[j], inv.dependencies[k]) => j = k
  /\ \A v \in inv.vulnerabilities : Assessed(v) /\ v.asset \in DOMAIN inv.assets
  /\ \A v, u \in inv.vulnerabilities : v.id = u.id /\ v.asset = u.asset => v = u
  /\ \A s \in inv.services : s.criticality \in DOMAIN criticalityScore /\ s.assets \subseteq DOMAIN inv.assets
  /\ \A s, t \in inv.services : s.name = t.name => s = t
  /\ \A e \in inv.events : e.severity \in DOMAIN eventSeverityScore
  /\ \A e, f \in inv.events : e.id = f.id => e = f

ASSUME InventoriesAssumption == \A inv \in Inventories : Proper(inv)

\* The contract refuses a request that is not of this form.
ASSUME RequestsAssumption ==
  /\ \A row \in Rows : row.asset \in Assets /\ row.criticality \in DOMAIN criticalityScore
  /\ \A e \in Enrichments : e.lifecycle \in Lifecycles
  /\ Dependencies \subseteq Dependency
  /\ \A v \in Vulnerabilities : Assessed(v)
  /\ \A s \in Services : s.criticality \in DOMAIN criticalityScore
  /\ \A e \in Events : e.severity \in DOMAIN eventSeverityScore
  /\ \A q \in Analyses : q.entryAssetIds \in Seq(Assets) /\ IsInjective(q.entryAssetIds) /\ q.maxDepth \in Nat

Criticalities == [a \in DOMAIN assets |-> assets[a].criticality]

Inventory == [assets |-> Criticalities, dependencies |-> dependencies, services |-> services,
              vulnerabilities |-> vulnerabilities, events |-> events]

Unread == [assets |-> << >>, dependencies |-> << >>, services |-> {}, vulnerabilities |-> {},
           events |-> {}]

Idle == [op |-> "none"]

RiskInit ==
  /\ dataStore \in DataStores
  /\ \E inv \in Inventories :
       /\ assets = [a \in DOMAIN inv.assets |-> [criticality |-> inv.assets[a], lifecycle |-> "unset"]]
       /\ dependencies = inv.dependencies
       /\ vulnerabilities = inv.vulnerabilities
       /\ services = inv.services
       /\ events = inv.events
       /\ written = inv.assets
  /\ analyses = << >>
  /\ requests = [r \in Requests |-> Idle]
  /\ overtaken = {}
  /\ changes = 0

-----------------------------------------------------------------------------
(* Who may take a step.                                                    *)

\* Slip: the calls of a request to the store in memory are not made at once.
Undisturbed_Never == TRUE

\* The calls to the store in memory return without waiting for anything.
Undisturbed == dataStore = "memory" => \A r \in Requests : requests[r] = Idle

Free(r) == Undisturbed /\ requests[r] = Idle
Change == Undisturbed /\ changes < MaxChanges /\ changes' = changes + 1

-----------------------------------------------------------------------------
(* Assets.                                                                 *)

With(f, a, value) == [b \in DOMAIN f \cup {a} |-> IF b = a THEN value ELSE f[b]]

\* Slip: an asset that exists keeps what it has.
upsertAsset_Keeps(a, row) == IF a \in DOMAIN assets THEN assets ELSE With(assets, a, row)

\* Everything but the identity of an existing asset is replaced, its metadata
\* and with them the lifecycle included.
upsertAsset(a, row) == With(assets, a, row)

\* The inventory changes under the requests that have read the asset to enrich.
Overlapped(a) ==
  [r \in Requests |-> IF requests[r].op = "enrich" /\ requests[r].asset = a
                      THEN [requests[r] EXCEPT !.overlapped = TRUE] ELSE requests[r]]

Enter(a, criticality) ==
  /\ assets' = upsertAsset(a, [criticality |-> criticality, lifecycle |-> "unset"])
  /\ written' = With(written, a, criticality)
  /\ UNCHANGED <<dataStore, dependencies, vulnerabilities, services, events, analyses, overtaken>>

CreateAsset(row) ==
  /\ Change
  /\ Enter(row.asset, row.criticality)
  /\ requests' = Overlapped(row.asset)

\* A row names an asset and perhaps its criticality; a component of a bill of
\* materials has the default.
Candidate(file, row) ==
  [asset |-> row.asset,
   criticality |-> IF file.source = "cyclonedx_json" \/ row.criticality = ""
                   THEN file.defaultCriticality ELSE row.criticality]

Valid(candidate) == candidate.asset \in Assets /\ candidate.criticality \in DOMAIN criticalityScore

\* A file that cannot be read is refused as a whole and starts nothing.
StartImport(r, file) ==
  /\ Free(r)
  /\ changes < MaxChanges
  /\ changes' = changes + 1
  /\ requests' = [requests EXCEPT ![r] =
                    [op |-> "import", rows |-> [k \in DOMAIN file.rows |-> Candidate(file, file.rows[k])]]]
  /\ UNCHANGED <<dataStore, stored, analyses, written, overtaken>>

\* Every row is written by itself; an invalid one is passed over.
ImportRow(r) ==
  /\ requests[r].op = "import"
  /\ LET rows == requests[r].rows
         next == IF Len(rows) = 1 THEN Idle ELSE [op |-> "import", rows |-> Tail(rows)]
     IN  IF Valid(Head(rows))
         THEN /\ Enter(Head(rows).asset, Head(rows).criticality)
              /\ requests' = [Overlapped(Head(rows).asset) EXCEPT ![r] = next]
         ELSE /\ requests' = [requests EXCEPT ![r] = next]
              /\ UNCHANGED <<dataStore, stored, analyses, written, overtaken>>
  /\ UNCHANGED changes

\* The whole asset is read and, with its new lifecycle, written back.
StartEnrichment(r, e) ==
  /\ Free(r)
  /\ e.asset \in DOMAIN assets
  /\ changes < MaxChanges
  /\ changes' = changes + 1
  /\ requests' = [requests EXCEPT ![r] =
                    [op |-> "enrich", asset |-> e.asset, lifecycle |-> e.lifecycle,
                     criticality |-> assets[e.asset].criticality, overlapped |-> FALSE]]
  /\ UNCHANGED <<dataStore, stored, analyses, written, overtaken>>

SaveEnrichment(r) ==
  /\ requests[r].op = "enrich"
  /\ LET q == requests[r]
     IN  /\ assets' = upsertAsset(q.asset, [criticality |-> q.criticality, lifecycle |-> q.lifecycle])
         /\ overtaken' = IF q.overlapped THEN overtaken \cup {q.asset} ELSE overtaken
  /\ requests' = [requests EXCEPT ![r] = Idle]
  /\ UNCHANGED <<dataStore, dependencies, vulnerabilities, services, events, analyses, written, changes>>

-----------------------------------------------------------------------------
(* What the assets depend on, suffer from and serve.                       *)

\* A relationship from one asset to another is recorded once; PostgreSQL takes over
\* whether it is critical.
createDependency(d) ==
  /\ Change
  /\ d.source # d.target /\ {d.source, d.target} \subseteq DOMAIN assets
  /\ dependencies' =
       IF \E e \in Range(dependencies) : SameRelationship(d, e)
       THEN [k \in DOMAIN dependencies |->
               IF dataStore = "postgres" /\ SameRelationship(d, dependencies[k]) THEN d ELSE dependencies[k]]
       ELSE Append(dependencies, d)
  /\ UNCHANGED <<dataStore, assets, vulnerabilities, services, events, analyses, requests, written, overtaken>>

upsertVulnerability(v) ==
  /\ Change
  /\ v.asset \in DOMAIN assets
  /\ vulnerabilities' = {u \in vulnerabilities : u.id # v.id \/ u.asset # v.asset} \cup {v}
  /\ UNCHANGED <<dataStore, assets, dependencies, services, events, analyses, requests, written, overtaken>>

upsertCriticalService(s) ==
  /\ Change
  /\ s.assets \subseteq DOMAIN assets
  /\ services' = {t \in services : t.name # s.name} \cup {s}
  /\ UNCHANGED <<dataStore, assets, dependencies, vulnerabilities, events, analyses, requests, written, overtaken>>

ingestSecurityEvent(e) ==
  /\ Change
  /\ e.id \notin {f.id : f \in events}
  /\ events' = events \cup {e}
  /\ UNCHANGED <<dataStore, assets, dependencies, vulnerabilities, services, analyses, requests, written, overtaken>>

-----------------------------------------------------------------------------
(* Analyses.                                                               *)

StartAnalysis(r, q) ==
  /\ Free(r)
  /\ Len(analyses) + Cardinality({c \in Requests : requests[c].op = "analyze"}) < MaxAnalyses
  /\ requests' = [requests EXCEPT ![r] =
                    [op |-> "analyze", entryAssetIds |-> q.entryAssetIds, maxDepth |-> q.maxDepth,
                     unread |-> Lists, inventory |-> Unread,
                     \* history
                     known |-> DOMAIN assets,
                     reach |-> Within(dependencies, Range(q.entryAssetIds), q.maxDepth)]]
  /\ UNCHANGED <<dataStore, stored, analyses, written, overtaken, changes>>

\* The five lists are read at once, each by a query of its own.
ReadList(r, list) ==
  /\ requests[r].op = "analyze"
  /\ list \in requests[r].unread
  /\ LET q == requests[r]
     IN  requests' = [requests EXCEPT ![r] =
                        [q EXCEPT !.unread = q.unread \ {list},
                                  !.inventory = [q.inventory EXCEPT ![list] = Inventory[list]]]]
  /\ UNCHANGED <<dataStore, stored, analyses, written, overtaken, changes>>

\* Nothing is saved unless every entry asset was read; with what is saved stands
\* the request it answers (history).
SaveRiskAnalysis(r) ==
  /\ requests[r].op = "analyze"
  /\ requests[r].unread = {}
  /\ LET q == requests[r]
         analysis == analyzeAttackPaths(q.inventory, q.entryAssetIds, q.maxDepth)
     IN  IF Range(q.entryAssetIds) \subseteq DOMAIN q.inventory.assets
         THEN analyses' = Append(analyses, [query |-> q, analysis |-> analysis])
         ELSE UNCHANGED analyses
  /\ requests' = [requests EXCEPT ![r] = Idle]
  /\ UNCHANGED <<dataStore, stored, written, overtaken, changes>>

\* A call of the store fails: what it was to write is not written.
Fail(r) ==
  /\ dataStore = "postgres"
  /\ requests[r] # Idle
  /\ requests' = [requests EXCEPT ![r] = Idle]
  /\ UNCHANGED <<dataStore, stored, analyses, written, overtaken, changes>>

-----------------------------------------------------------------------------
Write ==
  \/ \E row \in Rows : CreateAsset(row)
  \/ \E d \in Dependencies : createDependency(d)
  \/ \E v \in Vulnerabilities : upsertVulnerability(v)
  \/ \E s \in Services : upsertCriticalService(s)
  \/ \E e \in Events : ingestSecurityEvent(e)

Step(r) ==
  \/ \E file \in Files : StartImport(r, file)
  \/ ImportRow(r)
  \/ \E e \in Enrichments : StartEnrichment(r, e)
  \/ SaveEnrichment(r)
  \/ \E q \in Analyses : StartAnalysis(r, q)
  \/ \E list \in Lists : ReadList(r, list)
  \/ SaveRiskAnalysis(r)
  \/ Fail(r)

RiskNext == Write \/ \E r \in Requests : Step(r)

RiskSpec == RiskInit /\ [][RiskNext]_vars

-----------------------------------------------------------------------------
(* Properties.                                                             *)

\* Whatever order the requests and their steps come in, the inventory is a
\* proper one: one record of a key, of assets that are there.
RiskTypeOK ==
  /\ \A a \in DOMAIN assets : assets[a] \in Asset
  /\ Proper(Inventory)

Truncated(x) == x.incomplete \/ Len(x.paths) = PathLimit

\* The blast radius of an analysis is real and, short of the limits, complete,
\* however its five reads fall between the writes of others: it holds all that
\* could be reached when the analysis began and nothing that cannot be reached
\* by now.  Its counts by criticality count every asset of it that was there
\* when the analysis began and, in memory, every asset of it.
BlastRadiusIsReal ==
  \A k \in DOMAIN analyses :
    LET x == analyses[k].analysis
        q == analyses[k].query
        counted == x.assetsByCriticality.low + x.assetsByCriticality.medium
                     + x.assetsByCriticality.high + x.assetsByCriticality.critical
    IN  /\ ~Truncated(x) => q.reach \subseteq x.reachableAssetIds
        /\ x.reachableAssetIds \subseteq Within(dependencies, Range(x.entryAssetIds), x.maxDepth)
        /\ counted >= Cardinality(x.reachableAssetIds \cap q.known)
        /\ dataStore = "memory" => counted = Cardinality(x.reachableAssetIds)

\* Short of the limits an analysis has each attack path of what it read, and no
\* other, once: assets that depend on each other in two ways give two paths, which
\* differ in their dependencies.  No score is above 100, as the contract of the API
\* wants it, and the paths of the highest risk come first.
AnalysesAreExact ==
  /\ RiskTypeOK
  /\ \A k \in DOMAIN analyses :
       LET x == analyses[k].analysis
           found == {[assetIds |-> p.assetIds, dependencies |-> p.dependencies] : p \in Range(x.paths)}
           exact == AttackPathsIn(analyses[k].query.inventory, Range(x.entryAssetIds), x.maxDepth)
       IN  /\ found \subseteq exact
           /\ ~Truncated(x) => found = exact
           /\ Cardinality(found) = Len(x.paths) /\ Len(x.paths) <= PathLimit
           /\ \A p \in Range(x.paths) : {p.likelihoodScore, p.impactScore, p.riskScore} \subseteq 0 .. 100
           /\ \A i, j \in DOMAIN x.paths : i < j => x.paths[i].riskScore >= x.paths[j].riskScore

\* The criticality of an asset is the one last imported or entered, unless an
\* enrichment that read the asset before a write of it came after that write;
\* in memory that does not happen.
EnrichmentKeepsInventory ==
  /\ \A a \in DOMAIN assets : assets[a].criticality = written[a] \/ a \in overtaken
  /\ dataStore = "memory" => overtaken = {}

\* Every open vulnerability remains, perhaps worse, and every event.
ThreatsGrow ==
  /\ ~UNCHANGED <<vulnerabilities, events>>
  /\ UNCHANGED <<assets, dependencies, services>>
  /\ \A v \in {v \in vulnerabilities : v.status = "open"} :
       \E u \in vulnerabilities' : /\ u.asset = v.asset
                                   /\ u.status = "open"
                                   /\ u.cvss >= v.cvss
                                   /\ exploitScore[u.exploit] >= exploitScore[v.exploit]
  /\ events \subseteq events'

\* More or worse threats never lower the risk of a path.
ThreatsRaiseRisk ==
  [][ThreatsGrow =>
       \A q \in Analyses : \A path \in UNION {Range(Queue(Inventory, e, q.maxDepth)) : e \in Range(q.entryAssetIds)} :
         RiskScore(Inventory', path) >= RiskScore(Inventory, path)]_vars
=============================================================================
