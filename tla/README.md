# A verification project for Cascadia

Cascadia (`src/apps/api` with its web console, contract package and Solidity contract) is an API in
which the operators of a water or energy site watch their assets, collect security telemetry and
threat intelligence, investigate incidents, decide on responses together, and keep evidence of it
all: an append-only audit trail whose batches, and the approvals of responses, are anchored on the
MST chain.

This directory holds TLA+ models of the parts of the API in which several actors, failures or long
sequences of calls meet, the TLC configurations that check them on small instances, and proofs that
TLAPS checks for every instance. `PROJECT.json` says which lines each definition stands for, which
hazards the properties are aimed at, and, for every property, a plausible slip in the code (an operator
whose name extends the name of the definition it replaces, such as `SameWindow_StartOnly`) that breaks it.

Contents: 1 the system, 2 the modules and the code, 3 the runs, 4 fairness, 5 the proofs, 6 where code
and words disagree, 7 assumptions and limits, 8 the plan.

## 1. The system

One Node process (`server.ts`) serves HTTP requests (`app.ts`), runs an interval that sweeps the audit
trail, and one interval per laboratory simulation. All state is behind one interface, `CascadiaStore`,
with two implementations: `MemoryStore` (`store.ts`; gone after a restart) and `PostgresStore`
(`postgres-store.ts`; transactions, row locks, triggers, unique indexes). JavaScript runs one handler at
a time but lets others in at every `await`; that is where the interleavings come from. With the
in-memory store the awaits resolve at once, so less can get in between; several modules therefore model
both stores and `dataStore`, chosen in `Init` and never changed, says which one is in use.

| component | state it keeps | operations | talks to | what is hard | what makes it correct |
|---|---|---|---|---|---|
| audit anchoring (`audit-anchor-service.ts`, `server.ts`, `mst-client.ts`, contract) | audit events, batch anchors (window, root, chain id, status), transactions in the mempool, the contract's list of batches | sweep, manual run, verify, Merkle proof, record event | store, RPC node, contract | overlapping runs, receipt timeouts, late transactions, windows that collide, the append-only trigger | a confirmed anchor recomputes to its root and is on the chain; no event drops off the list unless it was published; every event gets there |
| response decisions (`response-engine.ts`, `response-workflow.ts`) | policies, scenarios with scored options and decisions | set policy, simulate, decide | store | decisions of several operators at once, policies that change between scoring and deciding | quorum of distinct operators in allowed roles, rejection final, evidence immutable |
| decision proofs (`decision-proof-service.ts`, contract) | wallets, proofs, the contract's decision records | register wallet, request signature, submit, verify | decisions, RPC node, contract | overlapping submissions, timeout then late mining, restart between transaction and save | a confirmed proof verifies; only approvals are recorded, and for good |
| TAXII synchronization (`taxii-sync-service.ts`) | sources with status and checkpoint, jobs, attempts, deliveries, indicators | create source, enable/disable, sync | TAXII server, integration ingestion | overlapping requests, retries, partial pages, restarts, two clocks | one running job per source, nothing below the checkpoint missing, every call ends |
| laboratory simulation (`lab-simulation-service.ts`) | simulations and their intervals, in memory only | start, stop, tick | ingestion, detection, correlation, incidents | ticks that overlap, stop during a tick, ticks failing half-way | no leaked interval, no stranded simulation, one incident, own evidence |
| integrations and webhooks (`integration-service.ts`) | integrations with status and secret, deliveries, security events, threat indicators | create, enable/disable, rotate, ingest | store | duplicate deliveries at once, rotation and disabling in between, a bundle with several versions of an indicator | a delivery is recorded whole, and once; the newest version stays |
| detection (`detection-engine.ts`) | models, findings, evaluated marks, reviews | train, evaluate, review | telemetry | training while events arrive, two trainings, overlapping evaluations, a failure between findings and marks | one active model, nothing marked that was not flagged, one finding per event, reviews stay |
| incidents (`incident-service.ts`, `incident-workflow.ts`, `incident-correlation.ts`) | incidents with timeline, tasks, evidence; child tables | create, transition, assign, comment, link, tasks | findings, store | concurrent changes, reopening, repeated creation, the record beside its tables | the timeline tells the status, times belong to it, nothing recorded is lost, tables match |
| identity and sessions (`identity-service.ts`, `session-token.ts`, `bootstrap-identity.ts`) | organizations, memberships, provider subjects, login attempts, sessions | found, enrol, bootstrap, begin/complete login, log out | identity provider, store | two logins or enrolments at once, addresses that move between accounts, role changes | one organization per identity, one account per user, what is good for once is used once |
| roles (`app.ts`, console) | none | `requireRoles` of every route, the pages of every role | | a page whose data the role may not read | shown pages load, reading roles change nothing |
| inventory and import (`asset-import.ts`, `app.ts`) | assets, dependencies, vulnerabilities, critical services | create, import, enrich, upsert | store | an enrichment that overlaps an import | what was entered last stays |
| risk engine (`risk-engine.ts`) | saved analyses | analyze | inventory, events | five reads between the writes of others, the limits of the traversal | every attack path, and only those; a real blast radius; scores in range |
| stores | everything above | | | | each operation is part of the component that calls it |
| others: posture, observability, configuration, migrations, demo data, contract schemas, console pages, scripts | | | | | section 7 |

How they meet: a tick of the laboratory ingests telemetry through the integration, evaluates it with
the detection engine, correlates findings into an incident, and simulates responses. A TAXII
sync hands every page to the ingestion of its STIX integration. A decision on a scenario is what a
decision proof is about. Every operation of every component leaves an audit event, which anchoring
takes to the chain.

The 40 hazards, each at its line and with the properties that would catch it going wrong, are in
`PROJECT.json` under "hazards".

## 2. The modules and the code

### AuditLedger, AuditAnchoring

`AuditLedger` is the promise: events are recorded, batches of them are published for good, and an
event counts as anchored only once it is published. `AuditAnchoring` is the code:

| model | code |
|---|---|
| `events`, `RecordAuditEvent(o)` | `audit_events`; any mutation of the API |
| `runner[r]`, its `pc` | one call of `runAnchorBatch` (a sweep task of one organization, or the manual route) between two awaits |
| `ListEvents`, `ReadBatchCount`, `Submit` | `listUnanchoredAuditEvents`, `auditBatchCount()`, `submitTransaction` |
| `ConfirmationTimesOut`, `ObserveRevert`, `ObserveReceipt`, `RpcFails` | the outcomes of `waitForConfirmation` and of the calls before it, and the `catch` |
| `RecordInMemory`, `RecordFailureInPostgres`, `RecordSuccessInPostgres` | `createAuditBatchAnchor` in the two stores: `Object.assign` over the anchor of the same window; `ON CONFLICT DO UPDATE`; the transaction that the append-only trigger refuses |
| `txs`, `Mine`, `Revert`, `auditBatches` | the signer's nonces and the contract's `anchorAuditBatch` |
| `VerifyMatches`, `IsProofAnchor` | `verifyAuditBatch`, the anchor `getMerkleProof` picks |

A Merkle root is the set of events it commits to.

### ResponseDecision, DecisionProof

`ResponseDecision` has `UpsertPolicy`, the two halves of `simulateResponses` (`ScoreCandidates` reads
the policies, `SaveScenario` stores what was scored) and `RecordDecision`, which is one step since both
stores hold the row for its duration. `MayDecide` are the checks of `applyResponseDecision` and of the
route, `Decided` what it returns. The scores of an option are abstracted to whether its gates pass.

`DecisionProof` extends it with the registration of a wallet (`IssueChallenge` replaces the user's
challenge, `VerifyWallet` consumes it for a signature of the same address, `SetWalletAddress` is the
update with its unique index, which an overlapping verification may meet), the `submitAnchor` calls (`RequestAnchor`, `Send`,
`SendRefused`, `ChainUnreachable`, `SaveProof`), restarts, and the contract (`MineDecision`,
`RevertDecision`). `Send` is guarded by `Acceptable` because sending estimates gas first; the same
check runs again when the transaction is mined. A signature is the wallet that made it and an
evidence hash is the record it is computed from.

### CollectionMirror, TaxiiSync

`CollectionMirror` is the promise: indicators are only replaced by newer versions that are in a
collection, and checkpoints move forward, to times up to which nothing is missing. In `TaxiiSync`,
`call[c]` is one `runTaxiiSync` between awaits: `RequestSync` reads the credential (with the status of
the source), `OpenJob`/`CreateJob`/`RefuseJob` are `createTaxiiSyncJob`, `ReceivePage`,
`ReceiveInvalidPage`, `RetryFetch` and `FailFetch` are the outcomes of a request with the attempt they
append, `IngestPage` is the delivery and the end of the loop body (`AfterPage`), `FinishJob` is
`finishTaxiiSyncJob`. `OpenJob` is a step of its own because PostgreSQL fixes `now()` at `BEGIN` while
the in-memory store reads the source before an await, so each store takes start and checkpoint
from a different moment (`NewJob`). Failures are `SaveFails`, `FinishFails` and `Restart`; the server is
`AddObject`, and answers with any part of what it has, in any number of pages. Several sources may
feed one integration, so their pages share the indicators.

### LabSimulation

`request[s]` is how far `start` is (`CheckActive`, `CreateSimulation`, `SetTimer`), `tick[t]` a tick
between two awaits: `BeginTick`, `IngestEvent`, `RecordEvent`, then the evaluation (`ListEvaluated`,
`ReadTelemetry`, a `SaveFinding` for each event that scored, a `MarkEvaluated` for each candidate), then
`RecordFindings`, with which the tick takes over what its evaluation created, the correlation, whose
three lists are read in any order (`ReadList`), `FindCandidate`/`NoCandidate`,
`CreateIncident`/`CreateConflicts`, `RecordIncident` and `FinishTick`. `TickFails` is the `catch`, which may
come between any two of them, so that findings may be saved and not reported, or saved and not marked as
evaluated, and two evaluations may save the findings of one batch between them. With the in-memory store no
await leaves the microtask queue, so a tick or a start request runs to its end before another timer or
request is served (`Quiet`). One detection model is active throughout and its verdict on an event is left
open; all simulated events are about one asset, so their findings correlate.

### IncidentWorkflow

| model | code |
|---|---|
| `incidents`, `NewIncidents`, `Transition`, `Assign`, `CommentOn`, `LinkEvidence`, `CreateTask`, `UpdateTask` | the record and what `incident-service.ts` and `incident-workflow.ts` make of it |
| `StoreResource`, `Valid` | whatever evidence may be (events, findings, analyses, responses) and `validateIncidentEvidence` |
| `RequestCreate`, `InsertIncident`, `ReturnExisting`, `RefuseKey` | `createIncident` with its idempotency key and fingerprint |
| `ChangeInMemory`; `BeginChange`, `CommitChange`, `RollBack` | `mutateIncident` of the stores: without an await; `SELECT ... FOR UPDATE`, the writes, or their undoing |
| `rows`, `Persisted` | the three child tables and `persistIncidentChildren`, which writes them only when the record has grown |

A time is the position of the timeline entry that is added with it.

### IdentityAccess, AccessControl

`IdentityAccess`: `CreateOrganization`; `EnrolInMemory`, and in Postgres `UpsertUser` (whose row lock
lasts until `Enrol`); `BootstrapCheck` and `Bootstrap` under the advisory lock of the command;
`BeginLogin`, `ConsumeAttempt`; `resolveIdentity`, which in memory is one step (`ResolveInMemory`) and in
Postgres a transaction of statements that lock nothing they read: `FindBySubject`, `FindByAddress`,
`CheckConflict`, and `BindSubject`, the `INSERT .. ON CONFLICT` with the two unique keys of the
migration; then `CreateInMemory`, or `RetireSurplus` and `InsertSession`, as two statements of one
transaction that see only what is committed; `Logout`, `ExpireSession`, `ExpireAttempt` and `Abort` for every refusal or
failure. The provider is external: a code is exchanged for any subject with any address. A session
stands for its token.

`AccessControl` is the tables of the roles that each route admits (`Allowed`, by the name of the console's
function that calls the route), and what the console shows: `permissionsByRole`, `navigation` and the
routes each page reads (`Pages`, `Reads`).

### IntegrationIngest, AnomalyScore, DetectionEngine

`IntegrationIngest` has creation, `Administer` (status and rotation), `IngestSignedWebhook` (the
checks of the service against the credential it read), and then what the stores do: in memory one
event after the other with an await in between (`IngestInMemory`), in Postgres a transaction that
fixes its time before it waits for the lock (`BeginDelivery`, `CommitDelivery`); `RefuseDelivery` is
the answer to an id that was used, `IngestSecurityEvent` the route for single events. `Merge` is what remains when the indicators of a
bundle are merged one after another: the newest version of each.

`AnomalyScore` is the scoring as a pure function of a baseline, a batch and an event: medians in
halves, deviations in quarters, factors in whole points, so that each rounding of the code is one of
integers. `DetectionEngine` extends both. A training is `StartTraining` (takes `trainedAt`),
`ReadTelemetry`, `NextVersion`, `SaveDetectionModel`; an evaluation is `GetActiveDetectionModel`,
`ListEvaluatedEventIds`, `ReadCandidates`, `SaveAnomalyFinding` per event, `MarkEventsEvaluated`; any of
them may fail in between.

### AttackPaths, RiskAnalysis

`AttackPaths` is `analyzeAttackPaths` as operators: from the end of a path the dependencies lead on to
assets that are not on it (`Onward`, `Extensions`); the breadth-first queue of an entry (`Queue`) is the
paths of no dependency, then of one, and so on (`Level`); the entries one after the other are cut off by
the two limits (`Examined`); then the scores with their roundings, the order of the result (`Sorted`: each
path at the place that as many come before it say), and the MITRE techniques. `Within` and `AttackPathsIn` say without a traversal what it has to find.
`RiskAnalysis` is what changes the inventory while an analysis reads it: `CreateAsset`, imports row by
row (`StartImport`, `ImportRow`), enrichment as a read and a later write (`StartEnrichment`,
`SaveEnrichment`), dependencies, vulnerabilities, services, events; an analysis is `StartAnalysis`,
`ReadList` for each of its five lists in any order, `SaveRiskAnalysis`. With a saved analysis stands, as
history, the request it answers: what it read, and what was known and could be reached when it began. `Proper` is what the tables
keep by their keys and references and the in-memory store by its checks; two assets may have several relationships,
which lead to the same assets by different paths. A dependency in a path stands for its identifier. With the in-memory store nothing
comes between the calls of a request (`Undisturbed`).

## 3. The runs

Each passing run ends without an error and explores all states of its instance.

| run | instance | states | what it shows |
|---|---|---|---|
| `anchoring` | 1 organization, 2 runs, 2 events, 4 transactions, clock of 2 ms, 1 failure, both stores | 228,905 | `AnchorsAreTruthful`: a confirmed anchor recomputes to its root, its batch is at its id or later, no event leaves the list without being on the chain; with distinct timestamps the Merkle proof is taken from an anchor that includes the event and no step un-includes an event; the ledger is implemented; every event reaches the chain |
| `anchoring_verify_race` | 2 organizations, no failure | violation | section 6 |
| `anchoring_postgres_rollback` | PostgreSQL, 1 run, no failure | violation | section 6 |
| `decision_proof` | 3 operators, 3 roles (one of them may not decide), 2 action types, policies that change twice, 2 overlapping simulations, 2 wallets, 2 challenges, 3 submissions, 1 fault | 2,007,978 | Quorum, one vote per operator on one option, rejection final, evidence kept, an approval meets the policy as long as it was set once; one wallet per challenge and user; a confirmed proof verifies under the approver's wallet, records are approvals that recompute |
| `proof_resubmit` | 2 operators | violation | section 6 |
| `taxii` | 1 source, 1 indicator in 2 versions, 2 calls, 2 attempts, 2 pages, 2 jobs, 1 ms, 1 status change, 1 failure or restart, both stores | 3,046,934 | One running job, nothing missed, attempts tell the story (`JobsTellTheSync`), every step of a call is progress, the mirror is implemented |
| `taxii_orphan` | 1 call, 1 restart, PostgreSQL | violation | section 6 |
| `lab` | 2 simulations, 2 ticks in flight, 2 templates, 1 fault, intervals fire until 3 events are stored, both stores | 2,421,339 | No leaked interval and nothing stranded (`TimersFollowStatus`), one incident, own evidence, each finding counted once; on the in-memory store simulations are serial, complete and final |
| `incidents` | 1 key (a second incident is a slip), 2 requests, 2 resources, 6 timeline entries, 1 roll-back, both stores | 4,331,750 | Timeline, times, evidence and child tables agree with the record; nothing recorded is lost; a key creates one incident |
| `identity` | 2 people, 2 provider accounts, 2 organizations, 3 logins of which one waits for its callback at a time, 2 requests, limit of 2 sessions, both stores | 5,539,702 | One organization per identity (founders aside), one account per user and sessions of the account's user up to overtaken first logins, one bootstrap and one session per attempt, roles from enrolment only, the limit of sessions up to overlapping logins, pages that load for their roles |
| `detection` | 2 integrations, 3 bodies, 2 events, 1 indicator, 2 requests, 2 deliveries of 1 id, 2 models, 1 review, both stores | 5,850,141 | Deliveries are recorded whole, in Postgres once; one active model, the last; one finding per event; what is marked was flagged; reviews survive |
| `risk` | 2 inventories of 3 and 4 assets, 3 changes, 1 analysis, 2 requests, limits of 4 and 7 paths, both stores | 1,216,475 | Exactly the attack paths of what was read; the blast radius is real; threats never lower a risk; only an enrichment that overlapped a write undoes it |

Why these bounds are enough. The hazards need two of something: two runs over one window, two
operators on one option, two calls on one source, two ticks of one simulation, two changes of one
incident, two logins of one user, two evaluations of one event, and one failure at any
point. Two events are needed for a window to be overwritten by a larger batch and, with a clock that
may or may not advance between them, for windows that share an end; the fourth transaction is the
retry after one failure while another run is in flight. Two submissions race and a third comes after
one of them was lost. Two versions and two pages are needed for an old version to arrive after a new
one and for a failure after a first page; two attempts for a retry. Two events make a scenario that
overlapping ticks can complete in the wrong order. Six entries take an incident through resolution
and reopening. Three logins exceed a limit of two sessions, with and without an overlap, and
two accounts with two addresses let an address move, and two requests let first logins of one
account, or of one address, overlap in `resolveIdentity`. That one login at a time waits for its callback
(`MaxOpen`) loses no overlap: a login that is open touches nothing until its callback. Two models are needed for one to be retired and
for two trainings to collide. The inventories of `risk` have a fork, a cycle, an asset that two paths
share, an event about an asset nobody entered, two relationships of two assets (one of them entered
during the run), and paths enough to meet either limit; three changes
fit an enrichment, an import and one more write around an analysis.

Small stand-ins of the code's constants: `MaxAttempts` and `MaxPages` of TAXII for `MAX_ATTEMPTS` 3
and `MAX_PAGES`, two event templates for five, `SessionLimit` 2 for 5, `PathLimit` 4 and `ExamineLimit`
7 for 100 and 10,000, `MinimumEvents` 1. `RolesFitPages` is about all roles, whichever an instance enrols.

Symmetry is used only for model values that no
definition names (callers, requests, ticks, simulations, users, wallets, people, organizations of `identity`), and in no run that checks liveness.
`CHECK_DEADLOCK FALSE` stands in every configuration: the bounded instances stop when nobody has
anything left to do.

Bounds in guards: `MaxTime`, `MaxEvents`, `MaxTxs`, `MaxFailures`, `MaxScenarios`, `MaxUpserts`,
`MaxChallenges`, `MaxSubmissions`, `MaxFaults`, `MaxJobs`, `MaxToggles`, `MaxCrashes`, `MaxIncidents`,
`MaxEntries`, `MaxRollbacks`, `MaxAttempts` and `MaxOpen` (of `IdentityAccess`), `MaxDeliveries`,
`MaxAdministration`, `MaxModels`, `MaxReviews`, `MaxChanges`, `MaxAnalyses`; each limits how
often the environment acts. Where a bound could stop a run or a call half-way, it is charged when the
call starts (`ListEvents`, `RequestSync`, `ScoreCandidates`, `StartImport`, `StartAnalysis`); a
training or a delivery that started below its bound goes on above it, and `MaxIncidents` leaves
room for one incident more than there are keys.

## 4. Fairness and termination

Only `AuditAnchoring` has a liveness property that needs fairness (`EveryEventReachesChain`):
`setInterval` starts a sweep over every organization again and again (weak fairness of `ListEvents` for
each organization), each await of a run is bounded by a timeout or is answered (weak fairness of the
run's next step), and the chain mines what is pending (weak fairness of `Mine`). Failures are
finitely many (`MaxFailures`), as they have to be for a retry to succeed. The property is stated for
the in-memory store, since PostgreSQL never records a success and would use up any bound on
transactions (section 6).

That TAXII calls end is stated without fairness: `EveryStepIsProgress` gives every call a measure of
the work left that each of its steps decreases, so it ends after at most as many steps, provided its
awaits return (every request has a timeout). That a simulation ends is reduced likewise to
`NeverStranded`: while it runs its interval is set, or the request that will set it is at the first tick.

## 5. The proofs

Eight modules hold theorems for every value of the constants: any number of organizations, operators,
sources, simulations, incidents, people, deliveries or assets, of requests that overlap, and of
failures, and either store. Each extends the component's module: `AuditAnchoring_proofs`,
`DecisionProof_proofs` (which is also about the response decisions underneath), `TaxiiSync_proofs`,
`LabSimulation_proofs`, `IncidentWorkflow_proofs`, `IdentityAccess_proofs`, `DetectionEngine_proofs` (with
the ingestion of deliveries), `RiskAnalysis_proofs`. All properties of the passing runs but the
liveness one are theorems. The argument is the same throughout: an invariant `IInv` that holds initially and that every
action keeps, checked by TLC on an instance before it was proved, and a step from it to
each property; action properties and refinements follow from `IInv` and the step. What differs is what has to be
added to a property to make it inductive, and that is nearly always what an operation in flight may still
rely on.

**Audit anchoring.** From `TypeCorrect` (every state is typed), `RootRecomputes`, `BatchAtOrAfterId`,
`IncludedAreOnChain`, which together are `Truthful` (the property `AnchorsAreTruthful` of the run), to
`Refinement` (`Spec => Ledger!LedgerSpec`). None of the invariants is inductive
as it stands: what an anchor says comes from a run that read the chain several steps earlier. `IInv` is
- `TypeOK`;
- `EventTimes`: no event is from the future, so a non-empty batch has a first and a last timestamp
  (a set of naturals with an upper bound has a minimum and a maximum, proved from well-foundedness);
- `RunInv`: what each run knows at each `pc`: its batch is not empty, the id it read is not beyond the
  chain, the transaction it sent carries its batch, and once that is mined the batch is on the chain
  at that id or after, which the receipt then confirms;
- `AnchorInv`: a confirmed anchor includes the events of its root, and the root is on the chain at its
  id or after; whatever the status, all events an anchor includes are on the chain.

`RunInv` is what carries the order of reading, sending and mining from one step to the next; the
store's actions then turn a fact about the run into one about the anchor. `Refinement` shows that the
initial state is the ledger's and that every step records, publishes, anchors or stutters; the
interesting steps are the store's, which may take events out of an anchor (a later run of the same
window) but put in only published ones, and those of `Mine`.

`ProofAnchor` and `StaysIncluded` (an action property) are about distinct timestamps, and need to know
that an anchor's window determines its batch. `OrderInv` says why: events are dated in the order of
their ids, what is included is a beginning of each organization's log, and the batches of runs and
anchors are stretches of it (`StretchesOK`), although runs that overlap list the same events.

**Response decisions.** `ResponseTypeCorrect`, `Quorum`, `OneVote`, `Evidence` (an action
property) and `MeetsOnlyPolicy`. `ResponseInv` says of each scenario that its decisions are about its
selected option, by distinct operators in roles of the option, approvals only where the option permits
them, and that its status is the one `StatusAfter` computes from them; that simulations in flight hold
typed options is part of the type invariant. Quorum and vote follow from it; evidence follows from the
type invariant and the actions. `PolicyInv` adds that, as long as one policy was set at most, every option
that passed its gates, stored or in a simulation in flight, is a copy of that policy.

**Decision proofs.** `WalletsProved` rests on `WalletInv`: a challenge is pending or taken by a
verification, not both, and has not been used then; so it registers a wallet once, although reading it and
setting the address are steps apart. `ProofsAgree` rests on `ProofInv`: whatever is on its way to
the chain, on it, or stored about it carries the hash of an approval in the store (`HashesOK`), a
transaction in the mempool is the one its call waits for or one that nobody waits for any more
(`TransactionsOK`), and what a call was told is mined has its record in the contract (`RecordsOK`). `ScenariosGrow` is the lemma that ties it to the
decisions: an approval, once recorded, keeps its place, so its hash stays the hash of something.
`WorkflowUnderneath` (`ProofSpec => ResponseSpec`) says that the theorems about decisions hold with
wallets and chain around them.

**TAXII synchronization.** `JobsAlwaysTell` (one job runs per source; attempts tell pages and
retries), `NothingIsMissed`, `CallsProgress` (an action property: the measure of every call decreases) and
`Refinement` (`Spec` implements `CollectionMirror`). `CallsOK`: a call that works on a job owns it and
the job runs; `JobsOK` and `CheckpointsOK`: a job started from a checkpoint no later than today's, and
checkpoints are starts of jobs, which the two stores guarantee for different reasons; `PagesOK`: what a
job has to bring (`Due`: added after its checkpoint, not after its start) is held or was sent to the call,
which is what makes moving the checkpoint safe; `AttemptsOK`: the attempts of a job tell every page
up to the one its call is at.

**Laboratory.** `IntervalsFollow`, `CreatesOne`, `ReportsAreOwn`, `MemoryRunsAreWhole`. Of any store: ticks
belong to a simulation whose record exists; events in flight never exceed the room the scenario leaves;
what a tick holds is in the store (`TicksHold`); a finding was told as created to one tick at most, and
is not reported yet while that tick holds it (`FoundOnce`), whence the count of findings; and one tick at most
was told that its incident is new and has not counted it (`NewIsTold`). Of the in-memory store (`Serial`): one tick or start request at a time, one
running simulation, and events in the order of the scenario.

**Incidents.** `TimelinesTell`, `TimesAreCurrent`, `EvidenceAccounted`, `TablesAgree`, `Idempotent`, and
`NoHistoryIsLost` (an action property). Every incident is as the properties say (`RecordOK`); a change
that was begun in Postgres was made of the row as it still is, because the row is locked, and its result is
`RecordOK` and adds to it (`Grown`); keys are unique; an answer names the incident of its
fingerprint. For the tables, the rows of the other incidents are what a change leaves alone.

**Identity.** `OneOrg`, `OneSubject`, `Once`, `EnrolledRolesOnly`, `SessionLimits`. What is refused
was looked up one step or more before what is written, so none of the properties is inductive. The
invariant adds what a request may still rely on when it writes:
- `DirectoryOK`: while an enrolment holds the row of its address no other one does, so every membership
  of that address is still in its organization (or the user founded one);
- `BootstrapOK`: the one command in progress is about an organization that was not bootstrapped, and one
  that was has a member for good, so the command's guard stays false;
- `AccountsOK` (in `HoldersOK`): a session, or a login about to create one, is of the user its account is
  bound to or was overtaken; bindings only grow, and only Postgres is ever between two statements;
- `SessionsOK` and `HoldersOK`: the attempt of a session is gone, and so is that of a request between
  the callback and the session, which no session and no other request has; the role it carries
  comes from an enrolment, and a membership once made keeps its organization and user;
- `LimitOK`, for the limit of sessions: nothing older than a session that overlapped no other is still
  being created, so what is older only becomes less; there is room for it once it is committed, and before
  that there will be when what it retires is gone.

`RolesFit` is about tables, not steps, and is proved by cases: most routes a page reads admit every member
(`OpenRoutesAdmit`), five pages read others (`PagesRead`), and only roles these admit are shown them
(`RestrictedPagesShown`); what a viewer or an auditor may call is found table by table (`ReadOnlyRolesCall`).

**Ingestion and detection.** `DeliveriesHeld`, `LastModelActive`, `OneFindingEach`, `EvaluatedFlagged`, and
`ReviewsKept` (an action property). In memory the events of a delivery in progress are held or left to be
(`DeliveryOK`); a training's version is at most the next one (`TrainingOK`); and what must be flagged of a
batch is flagged or left to be (`EvaluationOK`), so an evaluation that fails has marked nothing. That any
score is a percentage, of any telemetry, needs that medians exist: of the values with enough
others at or below them there is a least one (`NthExists`, from well-foundedness). For deliveries, the
newest version is a maximum over everything that was brought, and that set stays finite.

**Inventory and risk.** `ProperInventory` (one record of a key, of assets that are there, whatever fails or
overlaps), `EnrichmentKeeps`, `ScoresAreInContract` and `ThreatsRaise` (an action property). What an
enrichment read is what was last entered unless its asset was written since, which is recorded, or had been
overtaken before (`EnrichmentOK`); in memory one request at most is on its way (`AloneOK`). The lists an
analysis reads at different moments need not be a proper inventory together, but each can be
scored by itself (`AnalysisOK`), so no score leaves the range the contract of the API states. That
worse threats never lower a risk is the monotonicity of each part of the score (`HighestGrows`,
`ShareGrows`, `CapGrows`), with their roundings.

`AnalysesExact` (a saved analysis has exactly the attack paths of what it read, each once, the highest risk
first) is mostly about the traversal, in three layers:
- a level holds exactly the simple paths of its length from its entry, each once (`LevelIs`): a path of
  n + 1 dependencies is its beginning, which is in the level before, and one more dependency, which is in
  the extensions of that beginning once since a relationship of two assets is recorded once (`ExtensionsAre`);
  two relationships of theirs give two paths, which differ in their dependencies. Levels are a
  recursive function whose values are sequences of sequences, so this first needs what concatenating them
  yields (`FlattenIs`) and that such a function exists (`Iteration`, from the uniqueness of its beginnings);
- the queues of all entries hold each path once, since entries differ (`OrderIs`); either limit cuts off an
  end of that and is visible in the result (`ExaminedIs`); an asset is within n dependencies of an entry
  exactly if a simple path of at most n ends there (`WithinIs`, `ReachableIs`);
- the paths that end at a service are then those of `AttackPathsIn`, which knows no traversal but takes every
  way along dependencies that fit (`RouteIs`, `AttackPathsAre`), and `Sorted` is a permutation of them in order, since every path has a rank of its own
  (`RanksAre`, `SortedIs`).

`BlastRadiusReal` is that together with what the five reads may miss. `AInv` says of an analysis on its way
that the dependencies it has read are still stored, and that what was known and could be reached when it
began is in what it has read or, while that list is unread, in what is stored; in memory both are what is stored. It
survives the writes of others because the inventory loses no asset and no relationship (`AnalysisGrows`),
and it is what a saved analysis is then real about (`SavedGrows`). TLC checked `AInv` on the instance of the
run. Both theorems assume of a request only that its entries differ and its depth is a number
(`attackPathAnalysisRequestSchema`).

The proofs rest on the assumptions on constants named in the modules, which TLC evaluates in every run:
stand-ins for "nobody" are not members, limits are positive numbers, requests are what the contracts
let through (`RequestsAssumption`), an instance starts with a proper inventory
(`InventoriesAssumption`), versions of indicators and ticks in flight are finitely many. They also cite
the library's theorems on sequences, functions, finite sets and well-foundedness.

Model-checked only: `EveryEventReachesChain` (liveness under fairness, beyond TLAPS here). The runs that end
in a violation state what the code does not do.

## 6. Where code and words disagree

Four disagreements have a run that ends in a counterexample and an entry under "findings":

1. `anchoring_verify_race`: `runAnchorBatch` stores the batch count it read before it sent its
   transaction as the batch's id (`audit-anchor-service.ts:54`). Two organizations swept at once read
   the same count; the batch mined second is then verified against the first, and reported as a mismatch.
2. `anchoring_postgres_rollback`: on PostgreSQL the trigger `audit_events_append_only` refuses the
   `UPDATE` that links events to their batch (`postgres-store.ts:275`), so no success is ever recorded
   and every sweep sends the same events again.
3. `proof_resubmit`: submitting a confirmed decision again is refused by the contract, and the refusal
   is saved over the confirmed proof (`decision-proof-service.ts:54`).
4. `taxii_orphan`: after a restart or a failing `finishTaxiiSyncJob` a job stays "running" with nobody
   working on it, and its source can never be synchronized again (`taxii-sync-service.ts:196`).

Others were met while modelling and are visible in the models, without a run of their own:
- a scenario is decided under the copy of the policy it was scored with, also after the policy was
  tightened, while `docs/phase-22-response-simulation-builder.md:11` says that a simulation does not
  "bypass policy"; `ApprovalMeetsOnlyPolicy` is therefore stated for policies that were set once;
- an approval may be anchored while its scenario still awaits others (`RequestAnchor` looks at the
  decision, not at the scenario);
- `getMerkleProof` looks for a window by milliseconds (`audit-anchor-service.ts:82`), which is
  ambiguous when events share one; hence `DistinctTimestamps`;
- the status of a TAXII source is read once, before the job, and that of its integration never
  (`taxii-sync-service.ts:162`), so disabling does not stop a sync that was requested;
- on PostgreSQL two start requests can both find no running simulation (`lab-simulation-service.ts:69`),
  overlapping ticks may send a template twice and skip another, and a tick in flight may overwrite
  "stopped"; `InMemoryRunsAreWhole` says that none of this happens on the in-memory store, the one
  `app.test.ts:255` uses;
- "a maximum of five active sessions per user" (`docs/phase-9-identity-access.md:10`): the in-memory store has
  no limit (`store.ts:291`), and in Postgres logins that overlap retire the same sessions
  (`postgres-store.ts:368`) and exceed five; `SessionLimitUpToOverlaps` says by how much;
- "the provider subject is bound only after the first successful verified login"
  (`docs/phase-9-identity-access.md:7`), but two first logins of one account that overlap with two enrolled
  addresses both succeed: the `INSERT` of the second (`postgres-store.ts:343`) meets the row of the first,
  only sets `last_login_at`, and the login goes on as the user of its own address, to whom the account is
  not bound. `OneSubjectPerUser` admits exactly these sessions (`overtaken`), in Postgres; without
  that exception TLC finds the trace;
- a session keeps the role of its login when its user is enrolled with another
  (`postgres-store.ts:369`); `RolesComeFromEnrolment` therefore says "was once enrolled";
- `createOrganization` makes its actor a member also when the actor is a member elsewhere
  (`postgres-store.ts:212`), after which `resolveIdentity` refuses every login of that user; hence the
  exception of founders in `OneOrganization`;
- "telemetry ingested after the active model was trained" (`docs/phase-6-ml-detection.md:10`): `trainedAt`
  is taken before the events are read (`detection-engine.ts:33`), so an event may be in the baseline and a
  candidate; and an event ingested but not evaluated before a newer model was trained is never
  evaluated (`detection-engine.ts:106`). No property promises the evaluation of every event: evaluations
  are requests of an operator, and nothing makes the operator send them;
- the status of an integration is read before a delivery is recorded (`integration-service.ts:123`), so a delivery that
  overlaps its disabling still goes in; and in memory, deliveries of one id that overlap are
  recorded twice (`store.ts:530`), so that `DeliveriesAreHeld` claims "once" for Postgres only;
- at 100 paths the traversal stops without `incomplete` (`risk-engine.ts:55`): entries that come later are not
  looked at and the blast radius is smaller than reported; the properties of an analysis hold short of
  both limits;
- the five lists of an analysis are of different moments, so its counts by criticality may miss an asset
  that is in its blast radius (`risk-engine.ts:36`);
- in Postgres an enrichment writes back the criticality it read (`app.ts:565`), over an import in between;
  an import or an edit of an asset in turn drops its enrichment, and a CycloneDX import resets the
  criticality to the default of the file;
- a dependency that exists is left alone in memory and updated in Postgres (`createDependency`);
- two assets may have up to six relationships (`store.ts:360`), and every one of them gives paths of its own
  with the same assets (`risk-engine.ts:62`), each of which counts towards both limits;
- the score of the posture page does not use the assets and critical services that
  `docs/phase-12-security-posture.md:6` names;
- the evidence and laboratory pages are shown to roles whose reads of the audit trail are refused, the exception in
  `VisiblePagesLoad`; a platform administrator is told to have "all" permissions (`app.ts:420`) but is
  refused by most routes for data, and is left out of that property.

## 7. Assumptions and limits

- Hashes are collision-free; signatures cannot be made without the wallet; the chain does not
  reorganize beyond the confirmations that are awaited.
- The TAXII server's clock is not behind ours (`AddObject`): what it adds after a job has started is
  stamped later than that start. Checkpoints are our times compared with the server's.
- Database transactions are serializable where the code locks the rows it reads, and are split
  into steps where it does not; a failed transaction leaves nothing behind.
- One API process. Two processes on one database would add interleavings of the in-memory state of
  the laboratory, not of the stores.
- Left out as data: scores, texts, hashes' formats, pagination tokens other than "seen before", the
  objects of an envelope that are not indicators, the analysis and response steps at the end of a tick.

- Requests of the in-memory inventory, risk analysis included, run undisturbed, as do its enrolments.
- The names of services are compared as they are (the stores compare them without case). How a CSV file is quoted is left out: a file is a list of rows
  or is refused.

Not modelled, and why: posture, data quality, readiness and executive reports (pure summaries of lists
read at one moment), observability (counters), configuration (parsing of the environment), migrations (a
script that runs before the server; two instances starting at once both see a migration as missing
before either holds the lock, `migrate.ts:15`, and the second fails on a table that exists), demo
data and operations scripts (they fill a store or start other programs), notifications, agents and
published posts (plain inserts and reads, a delivery to an external address). The console is modelled
as far as the server depends on it: what it shows to whom and which routes that calls.

## 8. The plan

Done, in the order of importance of what they protect: anchoring (evidence), decisions (authority),
proofs (both), TAXII (overlap, retries and restarts), laboratory (timers and ticks), incidents
(history), identity and roles (access), ingestion and detection (telemetry), inventory and risk.

Every safety property the runs check is a theorem. Left for a prover with fairness: that every event
reaches the chain, and, from the measures of section 4, that calls of TAXII and simulations end.

Next in the models: the Merkle tree and its proofs as operators against a reference definition, and a
lifecycle with an append-only timeline as the abstract specification of `IncidentWorkflow`.
