---------------------------- MODULE MCRiskAnalysis ----------------------------
(***************************************************************************)
(* Instances of RiskAnalysis for TLC: a gateway from which the controller  *)
(* of a service is reached through one of two servers.                     *)
(***************************************************************************)
EXTENDS RiskAnalysis

RiskSymmetry == Permutations(Requests)

Relation(source, relationship, target, critical) ==
  [source |-> source, target |-> target, relationship |-> relationship, critical |-> critical]
Dep(source, target, critical) == Relation(source, "depends_on", target, critical)
Vuln(id, a, cvss, exploit, status) ==
  [id |-> id, asset |-> a, cvss |-> cvss, exploit |-> exploit, status |-> status]
Service(criticality, downtime, on) ==
  [name |-> "supply", criticality |-> criticality, downtime |-> downtime, assets |-> on]
Event(type, severity, on) == [id |-> type, type |-> type, severity |-> severity, assets |-> on]

MCInventories ==
  {[assets |-> "gateway" :> "low" @@ "hmi" :> "medium" @@ "plc" :> "critical",
    dependencies |-> <<Dep("gateway", "hmi", FALSE), Dep("hmi", "plc", FALSE), Dep("plc", "hmi", FALSE)>>,
    vulnerabilities |-> {Vuln("cve", "plc", 98, "none_known", "open")},
    services |-> {Service("critical", 60, {"plc"})}, events |-> {}],
   [assets |-> "gateway" :> "low" @@ "hmi" :> "high" @@ "plc" :> "critical" @@ "historian" :> "medium",
    dependencies |-> <<Dep("gateway", "hmi", FALSE), Dep("gateway", "historian", FALSE),
                       Dep("hmi", "plc", FALSE), Dep("historian", "plc", FALSE)>>,
    vulnerabilities |-> {},
    services |-> {Service("high", 240, {"plc", "historian"})},
    events |-> {Event("phishing", "critical", {"gateway", "laptop"})}]}

MCRows ==
  {[asset |-> "historian", criticality |-> "medium"], [asset |-> "plc", criticality |-> "low"]}
MCEnrichments == {[asset |-> a, lifecycle |-> "retired"] : a \in {"plc", "hmi"}}
MCDependencies ==
  {Dep("hmi", "plc", TRUE), Dep("hmi", "historian", FALSE), Relation("hmi", "controls", "plc", FALSE),
   Dep("historian", "plc", TRUE)}
MCVulnerabilities ==
  {Vuln("cve", "hmi", 55, "active_exploitation", "open"), Vuln("cve", "plc", 98, "active_exploitation", "open"),
   Vuln("cve", "plc", 98, "none_known", "mitigated")}
MCServices == {Service("low", 30, {"plc"}), Service("critical", 60, {"hmi"})}
MCEvents == {Event("denial_of_service", "low", {"hmi"}), Event("phishing", "critical", {"gateway", "laptop"})}
MCFiles ==
  {[source |-> "manual_csv", defaultCriticality |-> "medium",
    rows |-> <<[asset |-> "plc", criticality |-> ""], [asset |-> "", criticality |-> "high"],
               [asset |-> "historian", criticality |-> "high"]>>],
   [source |-> "cyclonedx_json", defaultCriticality |-> "low",
    rows |-> <<[asset |-> "hmi", criticality |-> "critical"]>>]}
MCAnalyses ==
  {[entryAssetIds |-> <<"gateway">>, maxDepth |-> 3], [entryAssetIds |-> <<"hmi", "gateway">>, maxDepth |-> 1],
   [entryAssetIds |-> <<"historian", "gateway">>, maxDepth |-> 2]}
=============================================================================
