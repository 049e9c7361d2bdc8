----------------------------- MODULE LabSimulation -----------------------------
(***************************************************************************)
(* Lab simulations of one organization: start requests, the interval timer *)
(* of each simulation, the ticks it fires (LabSimulationService.tick), and *)
(* what they leave in the store: telemetry, findings, incidents.           *)
(*                                                                         *)
(* An event is [sim, seq, source]: the key of normalized_security_events   *)
(* is its source and its sourceEventId "lab-<sim>-<seq>".  A finding is    *)
(* modelled by its event; all simulations use one asset, so all their      *)
(* findings correlate.  One detection model is active throughout; whether  *)
(* an event scores above its threshold is left open.                       *)
(*                                                                         *)
(* With the in-memory store no await leaves the microtask queue, so a      *)
(* start request or a tick runs to its end before anything else happens;   *)
(* with Postgres every statement of an evaluation and of a correlation is  *)
(* a step of its own, between which other requests and ticks run.          *)
(***************************************************************************)
EXTENDS Integers, FiniteSets, Sequences

CONSTANTS
  Sims,          \* simulations, one per start request
  NoSim,         \* the simulation of an idle tick
  Ticks,         \* ticks that may be in flight at once
  EventSources,  \* the source of each event template, in order
  DataStores,    \* which store the API may run on: "memory", "postgres"
  MaxEvents,     \* bound: stored events at which intervals stop firing
  MaxFaults      \* bound: failing store calls

ASSUME DataStoresAssumption == DataStores \subseteq {"memory", "postgres"}
ASSUME NoSimAssumption == NoSim \notin Sims
ASSUME EventSourcesAssumption == EventSources \in Seq({"siem", "edr"}) /\ EventSources # << >>
ASSUME TicksAssumption == IsFiniteSet(Ticks)
ASSUME BoundsAssumption == MaxEvents \in Nat /\ MaxFaults \in Nat

VARIABLES
  dataStore,  \* the store in use
  sim,        \* LabSimulationService.simulations
  request,    \* how far the start request of each simulation is
  tick,       \* the ticks in flight
  telemetry,  \* normalized_security_events of the simulations
  evaluated,  \* detection_event_evaluations
  findings,   \* anomaly_findings
  incidents,  \* incidents of the simulations: [sim, evidence]
  faults      \* so far (bound)

vars == <<sim, request, tick, telemetry, evaluated, findings, incidents, faults, dataStore>>
storeVars == <<telemetry, evaluated, findings, incidents>>

EventCount == Len(EventSources)

\* Overlapping ticks may move a simulation past its last template.
EventType == [sim : Sims, seq : 1..(EventCount + Cardinality(Ticks)), source : {"siem", "edr"}]

IdleTick == [pc |-> "idle", sim |-> NoSim, template |-> 1, event |-> {}, batch |-> {},
             scored |-> {}, created |-> {}, unread |-> {}, new |-> FALSE]
NewSim == [status |-> "running", timer |-> FALSE, next |-> 0, eventIds |-> {}, findingIds |-> {},
           findingsCreated |-> 0, incidents |-> 0]
NotStarted == [NewSim EXCEPT !.status = "none"]

InFlight(s) == {t \in Ticks : tick[t].sim = s}

\* Nobody else is in the middle of a start request or a tick.
Quiet == \/ dataStore = "postgres"
         \/ /\ \A t \in Ticks : tick[t].pc = "idle"
            /\ \A s \in Sims : request[s] \notin {"checked", "ticking"}

Init ==
  /\ dataStore \in DataStores
  /\ sim = [s \in Sims |-> NotStarted]
  /\ request = [s \in Sims |-> "none"]
  /\ tick = [t \in Ticks |-> IdleTick]
  /\ telemetry = {} /\ evaluated = {} /\ findings = {} /\ incidents = {}
  /\ faults = 0

-----------------------------------------------------------------------------
(* start and stop.                                                         *)

\* Slip: simulations of the organization are not looked at.
CheckActive_Never(s) ==
  /\ request[s] = "none" /\ Quiet
  /\ request' = [request EXCEPT ![s] = "checked"]
  /\ UNCHANGED <<sim, tick, storeVars, faults, dataStore>>

\* No simulation of the organization may be running; then getActiveDetectionModel
\* is awaited.
CheckActive(s) ==
  /\ request[s] = "none" /\ Quiet
  /\ \A r \in Sims : sim[r].status # "running"
  /\ request' = [request EXCEPT ![s] = "checked"]
  /\ UNCHANGED <<sim, tick, storeVars, faults, dataStore>>

\* The first steps of a tick: the status is checked and the template of the
\* next event is read, then listAssets is awaited.
TickOf(s) == [IdleTick EXCEPT !.pc = "asset", !.sim = s, !.template = sim'[s].next + 1]

\* The record is created, and its first tick begins.
CreateSimulation(s, t) ==
  /\ request[s] = "checked" /\ tick[t].pc = "idle"
  /\ sim' = [sim EXCEPT ![s] = NewSim]
  /\ tick' = [tick EXCEPT ![t] = TickOf(s)]
  /\ request' = [request EXCEPT ![s] = "ticking"]
  /\ UNCHANGED <<storeVars, faults, dataStore>>

\* Slip: the interval is never set.
SetTimer_Never(s) ==
  /\ request[s] = "ticking" /\ InFlight(s) = {}
  /\ sim' = sim
  /\ request' = [request EXCEPT ![s] = "done"]
  /\ UNCHANGED <<tick, storeVars, faults, dataStore>>

\* The first tick is over: setInterval, if the simulation is still running.
SetTimer(s) ==
  /\ request[s] = "ticking" /\ InFlight(s) = {}
  /\ sim' = [sim EXCEPT ![s].timer = sim[s].status = "running"]
  /\ request' = [request EXCEPT ![s] = "done"]
  /\ UNCHANGED <<tick, storeVars, faults, dataStore>>

\* stop: also while a tick is in flight, even the first one.
Stop(s) ==
  /\ sim[s].status # "none" /\ Quiet
  /\ sim' = [sim EXCEPT ![s].timer = FALSE,
                        ![s].status = IF @ = "running" THEN "stopped" ELSE @]
  /\ UNCHANGED <<request, tick, storeVars, faults, dataStore>>

-----------------------------------------------------------------------------
(* tick.                                                                   *)

\* The simulation record once its status is final.
Final(k, status) == [k EXCEPT !.status = status, !.timer = FALSE]

\* The end of a tick: whatever the status is by now, the last event completes.
Ended(k) == IF k.next >= EventCount THEN Final(k, "completed") ELSE k

\* The interval fires, whether or not the last tick is over.
BeginTick(s, t) ==
  /\ sim[s].timer /\ sim[s].status = "running" /\ Quiet
  /\ sim[s].next < EventCount
  /\ Cardinality(telemetry) < MaxEvents
  /\ tick[t].pc = "idle"
  /\ sim' = sim
  /\ tick' = [tick EXCEPT ![t] = TickOf(s)]
  /\ UNCHANGED <<request, storeVars, faults, dataStore>>

\* It fires with no template left: the tick before has not finished yet.
BeginTickExhausted(s) ==
  /\ sim[s].timer /\ sim[s].status = "running" /\ Quiet
  /\ sim[s].next >= EventCount
  /\ sim' = [sim EXCEPT ![s] = Final(@, "completed")]
  /\ UNCHANGED <<request, tick, storeVars, faults, dataStore>>

\* sourceEventId is computed from nextEvent as it is now, and the event goes to
\* the store, where it may be a duplicate.
IngestEvent(t) ==
  /\ tick[t].pc = "asset"
  /\ LET k == sim[tick[t].sim]
         e == [sim |-> tick[t].sim, seq |-> k.next + 1, source |-> EventSources[tick[t].template]]
     IN /\ telemetry' = telemetry \cup {e}
        /\ tick' = [tick EXCEPT ![t] = [@ EXCEPT !.pc = "ingested", !.event = {e} \ telemetry]]
  /\ UNCHANGED <<sim, request, evaluated, findings, incidents, faults, dataStore>>

\* nextEvent moves on even if the event was a duplicate.
RecordEvent(t) ==
  /\ tick[t].pc = "ingested"
  /\ sim' = [sim EXCEPT ![tick[t].sim].eventIds = @ \cup tick[t].event,
                        ![tick[t].sim].next = @ + 1]
  /\ tick' = [tick EXCEPT ![t] = [@ EXCEPT !.pc = "evaluate", !.template = 1, !.event = {}]]
  /\ UNCHANGED <<request, storeVars, faults, dataStore>>

\* evaluateNewTelemetry reads which events were evaluated;
ListEvaluated(t) ==
  /\ tick[t].pc = "evaluate"
  /\ tick' = [tick EXCEPT ![t] = [@ EXCEPT !.pc = "telemetry", !.batch = evaluated]]
  /\ UNCHANGED <<sim, request, storeVars, faults, dataStore>>

\* then the events: the others are its candidates, and some of them score.
ReadTelemetry(t) ==
  /\ tick[t].pc = "telemetry"
  /\ \E scored \in SUBSET (telemetry \ tick[t].batch) :
       tick' = [tick EXCEPT ![t] = [@ EXCEPT !.pc = "save", !.scored = scored,
                                             !.batch = telemetry \ tick[t].batch]]
  /\ UNCHANGED <<sim, request, storeVars, faults, dataStore>>

\* Slip: a finding that was there already is told as created.
CreatedBy_Always(e) == {e}

\* saveAnomalyFinding reports the finding as created if there was none.
CreatedBy(e) == {e} \ findings

\* A transaction for each event that scored.
SaveFinding(t, e) ==
  /\ tick[t].pc = "save" /\ e \in tick[t].scored
  /\ findings' = findings \cup {e}
  /\ tick' = [tick EXCEPT ![t] = [@ EXCEPT !.scored = tick[t].scored \ {e},
                                           !.created = tick[t].created \cup CreatedBy(e)]]
  /\ UNCHANGED <<sim, request, telemetry, evaluated, incidents, faults, dataStore>>

\* Then a statement for each candidate.
MarkEvaluated(t, e) ==
  /\ tick[t].pc = "save" /\ tick[t].scored = {} /\ e \in tick[t].batch
  /\ evaluated' = evaluated \cup {e}
  /\ tick' = [tick EXCEPT ![t] = [@ EXCEPT !.batch = tick[t].batch \ {e}]]
  /\ UNCHANGED <<sim, request, telemetry, findings, incidents, faults, dataStore>>

\* The findings this evaluation created for events the simulation emitted.
OwnFindings(s, F) == F \cap sim[s].eventIds

\* The simulation after it took over its findings.
Reported(t) ==
  LET own == OwnFindings(tick[t].sim, tick[t].created)
  IN  [sim[tick[t].sim] EXCEPT !.findingIds = @ \cup own, !.findingsCreated = @ + Cardinality(own)]

EvaluationIsOver(t) == tick[t].pc = "save" /\ tick[t].scored = {} /\ tick[t].batch = {}

\* The tick takes over its findings, and correlates if there is no incident yet:
\* all findings are eligible as far as nothing is read.
RecordFindings(t) ==
  /\ EvaluationIsOver(t)
  /\ sim[tick[t].sim].incidents = 0
  /\ sim' = [sim EXCEPT ![tick[t].sim] = Reported(t)]
  /\ tick' = [tick EXCEPT ![t] = [@ EXCEPT !.pc = "correlate", !.batch = EventType, !.created = {},
                                           !.unread = {"findings", "events", "incidents"}]]
  /\ UNCHANGED <<request, storeVars, faults, dataStore>>

\* The simulation has its incident: the tick ends.
RecordLastFindings(t) ==
  /\ EvaluationIsOver(t)
  /\ sim[tick[t].sim].incidents > 0
  /\ sim' = [sim EXCEPT ![tick[t].sim] = Ended(Reported(t))]
  /\ tick' = [tick EXCEPT ![t] = IdleTick]
  /\ UNCHANGED <<request, storeVars, faults, dataStore>>

Linked == UNION {i.evidence : i \in incidents}

\* The findings each of the three lists leaves eligible.
Listed == [findings |-> findings, events |-> telemetry, incidents |-> EventType \ Linked]

\* correlateIncidentCandidates queries the three at once: any order.
ReadList(t, list) ==
  /\ tick[t].pc = "correlate" /\ list \in tick[t].unread
  /\ tick' = [tick EXCEPT ![t] = [@ EXCEPT !.batch = tick[t].batch \cap Listed[list],
                                           !.unread = tick[t].unread \ {list}]]
  /\ UNCHANGED <<sim, request, storeVars, faults, dataStore>>

\* Unlinked findings that correlate: two at least, one of this simulation.
HasCandidate(t) ==
  /\ Cardinality(tick[t].batch) >= 2
  /\ tick[t].batch \cap sim[tick[t].sim].findingIds # {}

\* Correlation finds a candidate; its evidence is validated before it is saved.
FindCandidate(t) ==
  /\ tick[t].pc = "correlate" /\ tick[t].unread = {}
  /\ HasCandidate(t)
  /\ tick' = [tick EXCEPT ![t].pc = "create"]
  /\ UNCHANGED <<sim, request, storeVars, faults, dataStore>>

\* Correlation finds nothing: the tick ends.
NoCandidate(t) ==
  /\ tick[t].pc = "correlate" /\ tick[t].unread = {}
  /\ ~HasCandidate(t)
  /\ sim' = [sim EXCEPT ![tick[t].sim] = Ended(@)]
  /\ tick' = [tick EXCEPT ![t] = IdleTick]
  /\ UNCHANGED <<request, storeVars, faults, dataStore>>

IncidentsOf(s) == {i \in incidents : i.sim = s}

\* Slip: every attempt has an idempotency key of its own.
CreateIncident_NoKey(t) ==
  /\ tick[t].pc = "create"
  /\ incidents' = incidents \cup {[sim |-> tick[t].sim, evidence |-> tick[t].batch]}
  /\ tick' = [tick EXCEPT ![t] = [@ EXCEPT !.pc = "created", !.batch = {}, !.new = TRUE]]
  /\ UNCHANGED <<sim, request, telemetry, evaluated, findings, faults, dataStore>>

\* createIncident with the key "lab-simulation-<id>": a new incident, or the one
\* that exists with the same fingerprint.
CreateIncident(t) ==
  /\ tick[t].pc = "create"
  /\ \A i \in IncidentsOf(tick[t].sim) : i.evidence = tick[t].batch
  /\ incidents' = incidents \cup {[sim |-> tick[t].sim, evidence |-> tick[t].batch]}
  /\ tick' = [tick EXCEPT ![t] = [@ EXCEPT !.pc = "created", !.batch = {},
                                           !.new = IncidentsOf(tick[t].sim) = {}]]
  /\ UNCHANGED <<sim, request, telemetry, evaluated, findings, faults, dataStore>>

\* 409: the key was used with other evidence.  The simulation fails.
CreateConflicts(t) ==
  /\ tick[t].pc = "create"
  /\ \E i \in IncidentsOf(tick[t].sim) : i.evidence # tick[t].batch
  /\ sim' = [sim EXCEPT ![tick[t].sim] = Final(@, "failed")]
  /\ tick' = [tick EXCEPT ![t] = IdleTick]
  /\ UNCHANGED <<request, storeVars, faults, dataStore>>

\* A new incident is counted; analysis and response simulation are awaited.
RecordIncident(t) ==
  /\ tick[t].pc = "created" /\ tick[t].new
  /\ sim' = [sim EXCEPT ![tick[t].sim].incidents = @ + 1]
  /\ tick' = [tick EXCEPT ![t] = [@ EXCEPT !.pc = "analyzed"]]
  /\ UNCHANGED <<request, storeVars, faults, dataStore>>

FinishTick(t) ==
  /\ tick[t].pc = "analyzed" \/ (tick[t].pc = "created" /\ ~tick[t].new)
  /\ sim' = [sim EXCEPT ![tick[t].sim] = Ended(@)]
  /\ tick' = [tick EXCEPT ![t] = IdleTick]
  /\ UNCHANGED <<request, storeVars, faults, dataStore>>

\* A store call fails: whatever the status is by now, the simulation fails.
TickFails(t) ==
  /\ tick[t].pc # "idle"
  /\ dataStore = "postgres" /\ faults < MaxFaults
  /\ sim' = [sim EXCEPT ![tick[t].sim] = Final(@, "failed")]
  /\ tick' = [tick EXCEPT ![t] = IdleTick]
  /\ faults' = faults + 1
  /\ UNCHANGED <<request, storeVars, dataStore>>

-----------------------------------------------------------------------------
TickStep(t) ==
  \/ IngestEvent(t) \/ RecordEvent(t) \/ ListEvaluated(t) \/ ReadTelemetry(t)
  \/ \E e \in tick[t].scored : SaveFinding(t, e)
  \/ \E e \in tick[t].batch : MarkEvaluated(t, e)
  \/ RecordFindings(t) \/ RecordLastFindings(t)
  \/ \E list \in tick[t].unread : ReadList(t, list)
  \/ FindCandidate(t) \/ NoCandidate(t)
  \/ CreateIncident(t) \/ CreateConflicts(t) \/ RecordIncident(t) \/ FinishTick(t)

TimerFires(s) == BeginTickExhausted(s) \/ \E t \in Ticks : BeginTick(s, t)

StartStep(s) == SetTimer(s) \/ \E t \in Ticks : CreateSimulation(s, t)

Next ==
  \/ \E s \in Sims : CheckActive(s) \/ StartStep(s) \/ TimerFires(s) \/ Stop(s)
  \/ \E t \in Ticks : TickStep(t) \/ TickFails(t)

Spec == Init /\ [][Next]_vars

-----------------------------------------------------------------------------
(* Properties.                                                             *)

SimType == [status : {"none", "running", "stopped", "completed", "failed"}, timer : BOOLEAN,
            next : 0..(EventCount + Cardinality(Ticks)), eventIds : SUBSET EventType,
            findingIds : SUBSET EventType, findingsCreated : Nat, incidents : {0, 1}]

TickType == [pc : {"idle", "asset", "ingested", "evaluate", "telemetry", "save", "correlate",
                   "create", "created", "analyzed"},
             sim : Sims \cup {NoSim}, template : 1..EventCount, event : SUBSET EventType,
             batch : SUBSET EventType, scored : SUBSET EventType, created : SUBSET EventType,
             unread : SUBSET {"findings", "events", "incidents"}, new : BOOLEAN]

\* Records, ticks and the store keep their schemas; findings and evidence are
\* about telemetry that exists.
TypeOK ==
  /\ sim \in [Sims -> SimType]
  /\ request \in [Sims -> {"none", "checked", "ticking", "done"}]
  /\ tick \in [Ticks -> TickType]
  /\ incidents \subseteq [sim : Sims, evidence : SUBSET EventType]
  /\ telemetry \subseteq EventType
  /\ evaluated \subseteq telemetry /\ findings \subseteq telemetry
  /\ \A i \in incidents : i.evidence \subseteq findings /\ Cardinality(i.evidence) >= 2

\* An interval is only ever left set for a simulation that is running, whatever
\* the order of stop, the end of the first tick and failures: a leaked interval
\* would fire for the life of the process.
NoLeakedTimer == \A s \in Sims : sim[s].timer => sim[s].status = "running"

\* A running simulation is never stranded: its interval is set, or its start
\* request is still at the first tick and will set it.  With an interval that
\* keeps firing this is what makes it end.
NeverStranded ==
  \A s \in Sims : sim[s].status = "running" => sim[s].timer \/ request[s] = "ticking"

\* A simulation and its interval go together: none is left over, none missing.
TimersFollowStatus == NoLeakedTimer /\ NeverStranded

\* Overlapping ticks of a simulation, and ticks that fail half-way, create at
\* most one incident, and the simulation counts it only if it is in the store
\* with a finding of its own.
OneIncident ==
  \A s \in Sims :
    /\ Cardinality(IncidentsOf(s)) <= 1
    /\ sim[s].incidents > 0 => \E i \in IncidentsOf(s) : i.evidence \cap sim[s].findingIds # {}

\* What a simulation reports is its own: events it emitted that are stored, and
\* findings about them, each counted once, even when evaluations that overlap
\* or fail half-way split the findings of the same events between them.
ReportsOwnEvidence ==
  /\ TypeOK
  /\ \A s \in Sims :
       /\ sim[s].findingIds \subseteq sim[s].eventIds \cap findings
       /\ sim[s].findingsCreated = Cardinality(sim[s].findingIds)
       /\ sim[s].eventIds \subseteq {e \in telemetry : e.sim = s}

\* What a completed simulation has emitted: the events of its scenario in
\* order, each once.
EmittedAll(s) ==
  sim[s].eventIds = {[sim |-> s, seq |-> n, source |-> EventSources[n]] : n \in 1..EventCount}

\* On the in-memory store, which never lets a tick or a start request be
\* interrupted, an organization has one running simulation, a completed one has
\* emitted its whole scenario (app.test.ts:255 expects that), and the final
\* status of a simulation stays.
InMemoryRunsAreWhole ==
  /\ [](dataStore = "memory" =>
          /\ Cardinality({s \in Sims : sim[s].status = "running"}) <= 1
          /\ \A s \in Sims : sim[s].status = "completed" => EmittedAll(s))
  /\ [][dataStore = "memory" =>
          \A s \in Sims : sim[s].status \in {"stopped", "completed", "failed"}
            => sim'[s].status = sim[s].status]_vars
=============================================================================
