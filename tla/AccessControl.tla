---------------------------- MODULE AccessControl ----------------------------
(***************************************************************************)
(* Which role may call which route of the API, and what the web console    *)
(* shows to whom.  A route has the name of the console's function that     *)
(* calls it, or one of its own where the console does not call it.         *)
(***************************************************************************)

Roles == {"platform_admin", "organization_admin", "incident_commander", "security_analyst",
          "ot_engineer", "auditor", "viewer"}

\* The lists of roles that occur in the calls of requireRoles.
Members == Roles \ {"platform_admin"}
Admins == {"platform_admin", "organization_admin"}
Assessors == Admins \cup {"auditor"}
ProofReaders == Assessors \cup {"incident_commander"}
Planners == Members \ {"auditor", "viewer"}
Approvers == {"organization_admin", "incident_commander", "ot_engineer"}
Inventory == {"organization_admin", "security_analyst", "ot_engineer"}
Analysts == {"organization_admin", "security_analyst"}
Commanders == {"organization_admin", "incident_commander"}

incidentReaders == Members
incidentOperators == {"organization_admin", "security_analyst", "incident_commander"}

-----------------------------------------------------------------------------
(* Routes and the roles they admit.                                        *)

SystemRoutes ==
  [authSession |-> Roles, logout |-> Roles,
   enrollIdentity |-> Admins, identityUsers |-> Assessors, systemStatus |-> Roles]

LabRoutes ==
  [labScenarios |-> Members, startLabSimulation |-> incidentOperators, labSimulation |-> Members,
   stopLabSimulation |-> incidentOperators, labHeartbeat |-> Members]

EvidenceRoutes ==
  [governanceAssurance |-> Assessors, auditEvents |-> Assessors,
   runAuditAnchor |-> {"organization_admin", "auditor"}, auditAnchors |-> ProofReaders,
   verifyAuditAnchor |-> ProofReaders, auditEventProof |-> ProofReaders,
   walletChallenge |-> Admins, walletVerify |-> Admins]

ReportRoutes ==
  [posture |-> Roles, dataQuality |-> Roles, mlGovernance |-> Roles, complianceReadiness |-> Roles,
   assessorBundle |-> Assessors, executiveReport |-> Assessors]

ContextRoutes == [deploymentReadiness |-> Admins, accessContext |-> Roles]

PlatformRoutes ==
  [createOrganization |-> {"platform_admin"},
   decisionAnchor |-> Approvers, submitDecisionAnchor |-> Approvers,
   decisionProof |-> Roles \ {"security_analyst"}, organization |-> Roles, boundaries |-> Roles,
   initAgent |-> Admins \cup incidentOperators, feed |-> Roles]

AssetRoutes ==
  [createAsset |-> Inventory, assets |-> Members, deliverNotification |-> Commanders]

InventoryRoutes ==
  [enrichAsset |-> Inventory, importAssets |-> Inventory, createDependency |-> Inventory,
   dependencies |-> Members, ingestEvent |-> Analysts, events |-> Members]

IntegrationRoutes ==
  [createIntegration |-> {"organization_admin"}, integrations |-> Members,
   setIntegrationStatus |-> {"organization_admin"}, rotateIntegrationSecret |-> {"organization_admin"},
   integrationDeliveries |-> Members, indicators |-> Members,
   createTaxiiSource |-> {"organization_admin"}, taxiiSources |-> Members,
   setTaxiiSourceStatus |-> {"organization_admin"}, syncTaxii |-> Analysts, taxiiJobs |-> Members]

DetectionRoutes ==
  [train |-> Analysts, models |-> Members, evaluate |-> Analysts, findings |-> Members,
   reviewFinding |-> incidentOperators]

RiskRoutes ==
  [upsertVulnerability |-> Inventory, vulnerabilities |-> Members,
   upsertCriticalService |-> Planners, services |-> Members, analyze |-> Planners,
   analyses |-> Members]

ResponseRoutes ==
  [upsertResponsePolicy |-> Commanders, responsePolicies |-> Members, simulateResponse |-> Planners,
   responses |-> Members, response |-> Members, decideResponse |-> Approvers]

\* Slip: a list is read with the roles of the operations on it.
IncidentRoutes_Operators ==
  [correlate |-> incidentOperators, createIncident |-> incidentOperators,
   incidents |-> incidentOperators,
   incident |-> incidentReaders, timeline |-> incidentReaders,
   transitionIncident |-> incidentOperators, assignIncident |-> incidentOperators,
   commentOnIncident |-> incidentOperators, linkEvidence |-> incidentOperators,
   addIncidentTask |-> incidentOperators, updateIncidentTask |-> incidentOperators]

IncidentRoutes ==
  [correlate |-> incidentOperators, createIncident |-> incidentOperators,
   incidents |-> incidentReaders, incident |-> incidentReaders, timeline |-> incidentReaders,
   transitionIncident |-> incidentOperators, assignIncident |-> incidentOperators,
   commentOnIncident |-> incidentOperators, linkEvidence |-> incidentOperators,
   addIncidentTask |-> incidentOperators, updateIncidentTask |-> incidentOperators]

\* Every route is in one of the tables.
Allowed ==
  {SystemRoutes, LabRoutes, EvidenceRoutes, ReportRoutes, ContextRoutes, PlatformRoutes, AssetRoutes,
   InventoryRoutes, IntegrationRoutes, DetectionRoutes, RiskRoutes, ResponseRoutes, IncidentRoutes}

hasRole(role, route) ==
  \E routes \in Allowed : route \in DOMAIN routes /\ role \in routes[route]

-----------------------------------------------------------------------------
(* The console.                                                            *)

permissionsByRole ==
  [platform_admin |-> {"all"}, organization_admin |-> {"all"},
   incident_commander |-> {"operations", "incidents", "responses", "tasks", "notifications", "read"},
   security_analyst |-> {"operations", "assets", "detection", "incidents", "simulate", "read"},
   ot_engineer |-> {"operations", "assets", "responses", "simulate", "read"},
   auditor |-> {"assurance", "evidence", "read"}, viewer |-> {"read"}]

\* The pages of each permission.
navigation ==
  [operations |-> {"lab", "detection", "threatGraph", "workQueue", "mlGovernance"},
   read |-> {"overview", "evidence", "dataQuality", "integrations", "resilience", "system",
             "connectorCatalog"},
   incidents |-> {"incidents"}, responses |-> {"responses", "decisions"}, tasks |-> {"taskboard"},
   assets |-> {"risk", "assets", "topology", "enrichment", "import"}, simulate |-> {"simulate"},
   assurance |-> {"assurance", "compliance", "executiveBrief"}, notifications |-> {"notifications"},
   all |-> {"configuration", "identity", "deployment", "connectors", "launchpad"}]

visibleNavigation(role) ==
  UNION {navigation[p] : p \in IF "all" \in permissionsByRole[role] THEN DOMAIN navigation
                               ELSE permissionsByRole[role] \cap DOMAIN navigation}

\* The routes a page reads.
ConsolePages ==
  [overview |-> {"assets", "events", "findings", "incidents", "boundaries"},
   assets |-> {"assets", "dependencies", "vulnerabilities", "services"},
   detection |-> {"findings", "models"}, incidents |-> {"incidents", "findings"},
   risk |-> {"analyses", "assets"}, responses |-> {"responses"},
   integrations |-> {"integrations", "taxiiSources", "indicators"}]

LabSimulationPage ==
  [lab |-> {"assets", "labScenarios", "labSimulation", "events", "findings", "incidents",
            "responses", "auditEvents"}]

OtherPages ==
  [assurance |-> {"governanceAssurance", "posture", "executiveReport"},
   compliance |-> {"complianceReadiness"}, executiveBrief |-> {"executiveReport"},
   configuration |-> {"assets"}, connectorCatalog |-> {"integrations"},
   connectors |-> {"integrations", "integrationDeliveries"}, launchpad |-> {"assets", "integrations"},
   dataQuality |-> {"dataQuality"}, decisions |-> {"responses", "decisionProof", "authSession"},
   deployment |-> {"deploymentReadiness"}, enrichment |-> {"assets"}, import |-> {},
   evidence |-> {"auditEvents", "auditAnchors"}, identity |-> {"identityUsers"},
   mlGovernance |-> {"mlGovernance"}, notifications |-> {}, system |-> {"systemStatus"},
   resilience |-> {"incidents", "responsePolicies", "responses", "services"},
   simulate |-> {"analyses", "assets", "incidents"}, taskboard |-> {"incidents"},
   threatGraph |-> {"assets", "events", "findings", "incidents", "indicators"},
   topology |-> {"assets", "dependencies", "services"},
   workQueue |-> {"findings", "incidents", "vulnerabilities"}]

Pages == {ConsolePages, LabSimulationPage, OtherPages}

Reads(page) == UNION {pages[page] : pages \in {p \in Pages : page \in DOMAIN p}}

-----------------------------------------------------------------------------
(* Properties.                                                             *)

\* Every page the console shows to a role of an organization can read what it
\* shows; the audit trail, which assessors alone may read, is the exception on
\* the evidence and laboratory pages.
VisiblePagesLoad ==
  \A role \in Members : \A page \in visibleNavigation(role) :
    \A route \in Reads(page) \ {"auditEvents", "auditAnchors"} : hasRole(role, route)

\* "Read-only roles can inspect": a viewer may call nothing that changes data
\* and an auditor only the run that anchors the audit trail.
ReadOnlyRolesInspect ==
  LET shown == UNION {Reads(page) : page \in UNION {DOMAIN pages : pages \in Pages}}
      reading == {"logout", "labHeartbeat", "verifyAuditAnchor", "auditEventProof", "accessContext",
                  "assessorBundle", "organization", "feed", "taxiiJobs", "response", "incident",
                  "timeline"}
      routes == UNION {DOMAIN table : table \in Allowed}
  IN  \A route \in routes \ (shown \cup reading) :
        /\ ~hasRole("viewer", route)
        /\ hasRole("auditor", route) => route = "runAuditAnchor"
=============================================================================
