-------------------------- MODULE LabSimulation_proofs -------------------------
(***************************************************************************)
(* Proofs about lab simulations, for any number of simulations, ticks in   *)
(* flight, event templates and failures and either store: intervals follow *)
(* the status, a simulation creates one incident, it reports evidence of   *)
(* its own, and on the in-memory store simulations are serial and whole.   *)
(***************************************************************************)
EXTENDS LabSimulation, FiniteSetTheorems, SequenceTheorems, TLAPS

-----------------------------------------------------------------------------
(* The inductive invariant.                                                *)

\* A tick is idle or belongs to a simulation.
TicksBelong == \A t \in Ticks : tick[t].pc = "idle" <=> tick[t].sim = NoSim

\* Nothing of a simulation exists before its record does.
NothingBeforeStart ==
  \A s \in Sims : request[s] \in {"none", "checked"} => sim[s] = NotStarted /\ InFlight(s) = {}

\* Ticks that have yet to count the event they send: each leaves room for it.
Sending(s) == {t \in InFlight(s) : tick[t].pc \in {"asset", "ingested"}}
RoomLeft == \A s \in Sims : sim[s].next + Cardinality(Sending(s)) <= EventCount + Cardinality(Ticks)

\* What the ticks hold: events of their simulation, events and findings that are
\* stored, and, once it is created, an incident with a finding of the simulation.
Holds(t) ==
  /\ tick[t].event \subseteq {e \in telemetry : e.sim = tick[t].sim}
  /\ tick[t].pc \in {"telemetry", "save"} => tick[t].batch \subseteq telemetry
  /\ tick[t].scored \subseteq telemetry /\ tick[t].created \subseteq findings
  /\ tick[t].pc = "correlate" /\ "findings" \notin tick[t].unread => tick[t].batch \subseteq findings
  /\ tick[t].pc = "create" =>
       /\ tick[t].batch \subseteq findings
       /\ Cardinality(tick[t].batch) >= 2
       /\ tick[t].batch \cap sim[tick[t].sim].findingIds # {}
  /\ tick[t].pc \in {"created", "analyzed"} =>
       \E i \in incidents : i.sim = tick[t].sim /\ i.evidence \cap sim[i.sim].findingIds # {}
TicksHold == \A t \in Ticks : Holds(t)

\* One incident per simulation, and one that is counted is there.
OnePerSim == \A i, j \in incidents : i.sim = j.sim => i = j
CountedExists ==
  \A s \in Sims : sim[s].incidents > 0
    => \E i \in IncidentsOf(s) : i.evidence \cap sim[s].findingIds # {}

\* Only one tick of a simulation was told that its incident is new, and it has
\* not counted it yet.
ToldNew(t) == tick[t].pc = "created" /\ tick[t].new
NewIsTold ==
  /\ \A t \in Ticks : ToldNew(t) => sim[tick[t].sim].incidents = 0
  /\ \A t, u \in Ticks : ToldNew(t) /\ ToldNew(u) /\ tick[t].sim = tick[u].sim => t = u

\* What simulations report, of ReportsOwnEvidence.
ReportsOwn ==
  \A s \in Sims :
    /\ sim[s].findingIds \subseteq sim[s].eventIds \cap findings
    /\ sim[s].eventIds \subseteq {e \in telemetry : e.sim = s}

\* A finding that a tick created is not told to another tick, nor reported yet,
\* and a simulation counts those it took over.
FoundOnce ==
  /\ \A t \in Ticks : IsFiniteSet(tick[t].created)
  /\ \A t, u \in Ticks : t # u => tick[t].created \cap tick[u].created = {}
  /\ \A t \in Ticks, s \in Sims : tick[t].created \cap sim[s].findingIds = {}
  /\ \A s \in Sims : /\ IsFiniteSet(sim[s].findingIds)
                     /\ sim[s].findingsCreated = Cardinality(sim[s].findingIds)

-----------------------------------------------------------------------------
(* What holds on the in-memory store besides.                              *)

\* The first n events of a scenario.
Scenario(s, n) == {[sim |-> s, seq |-> m, source |-> EventSources[m]] : m \in 1..n}

Starting(s) == request[s] \in {"checked", "ticking"}

\* One thing at a time: a tick, or a start request and its first tick.
OneAtATime ==
  /\ \A t, u \in Ticks : tick[t].pc # "idle" /\ tick[u].pc # "idle" => t = u
  /\ \A r, s \in Sims : Starting(r) /\ Starting(s) => r = s
  /\ \A t \in Ticks, s \in Sims :
       tick[t].pc # "idle" /\ Starting(s) => request[s] = "ticking" /\ tick[t].sim = s

\* One simulation runs; none while a start request is past its check; and that
\* of a tick does.
OneRuns ==
  /\ \A r, s \in Sims : sim[r].status = "running" /\ sim[s].status = "running" => r = s
  /\ \A r, s \in Sims : request[s] = "checked" => sim[r].status # "running"
  /\ \A t \in Ticks : tick[t].pc # "idle" => sim[tick[t].sim].status = "running"

\* Events are emitted in the order of the scenario, each by the tick that read
\* its template.
InOrder ==
  /\ \A s \in Sims :
       /\ sim[s].next <= EventCount
       /\ sim[s].status = "completed" => sim[s].next = EventCount
       /\ sim[s].eventIds = Scenario(s, sim[s].next)
       /\ (\A t \in InFlight(s) : tick[t].pc # "ingested")
            => {e \in telemetry : e.sim = s} = Scenario(s, sim[s].next)
  /\ \A t \in Ticks :
       /\ tick[t].pc \in {"asset", "ingested"} => tick[t].template = sim[tick[t].sim].next + 1
       /\ tick[t].pc = "ingested" =>
            LET s == tick[t].sim
                e == [sim |-> s, seq |-> sim[s].next + 1, source |-> EventSources[sim[s].next + 1]]
            IN /\ tick[t].event = {e}
               /\ {d \in telemetry : d.sim = s} = Scenario(s, sim[s].next) \cup {e}

Serial == OneAtATime /\ OneRuns /\ InOrder

IInv ==
  /\ TypeOK /\ TicksBelong /\ NothingBeforeStart /\ RoomLeft
  /\ TimersFollowStatus
  /\ TicksHold /\ OnePerSim /\ CountedExists /\ NewIsTold /\ ReportsOwn /\ FoundOnce
  /\ dataStore \in DataStores
  /\ dataStore = "memory" => Serial

-----------------------------------------------------------------------------
(* Types.                                                                  *)

\* There is an event template, the first of them.
LEMMA EventCountFacts ==
  /\ EventCount \in Nat /\ EventCount >= 1
  /\ Cardinality(Ticks) \in Nat
  /\ \A n \in 1..EventCount : EventSources[n] \in {"siem", "edr"}
BY EventSourcesAssumption, TicksAssumption, FS_CardinalityType, SMT DEF EventCount

\* A tick that is not idle belongs to a simulation.
LEMMA TickHasSim ==
  ASSUME TypeOK, TicksBelong, NEW t \in Ticks, tick[t].pc # "idle"
  PROVE  tick[t].sim \in Sims
BY DEF TypeOK, TickType, TicksBelong

\* A new simulation, and one that does not exist yet.
LEMMA NewSimType == NewSim \in SimType /\ NotStarted \in SimType
<1>1. {} \in SUBSET EventType /\ 0 \in 0..(EventCount + Cardinality(Ticks))
  BY EventCountFacts
<1>2. NewSim \in SimType
  BY <1>1, SMT DEF NewSim, SimType
<1> QED
  BY <1>2, SMT DEF NotStarted, SimType

\* What a simulation record may be changed to.
LEMMA SimTypes ==
  ASSUME NEW k \in SimType
  PROVE  /\ NewSim \in SimType /\ NotStarted \in SimType
         /\ Final(k, "completed") \in SimType /\ Final(k, "failed") \in SimType
         /\ Ended(k) \in SimType
         /\ \A b \in BOOLEAN : [k EXCEPT !.timer = b] \in SimType
         /\ \A F \in SUBSET EventType, n \in Nat :
              [k EXCEPT !.findingIds = F, !.findingsCreated = n] \in SimType
         /\ \A n \in {0, 1} : [k EXCEPT !.incidents = n] \in SimType
         /\ \A E \in SUBSET EventType, n \in 0..(EventCount + Cardinality(Ticks)) :
              [k EXCEPT !.eventIds = E, !.next = n] \in SimType
<1>1. NewSim \in SimType /\ NotStarted \in SimType
  BY NewSimType
<1>3. Final(k, "completed") \in SimType /\ Final(k, "failed") \in SimType
  <2>1. [k EXCEPT !.status = "completed", !.timer = FALSE] \in SimType
    BY Zenon DEF SimType
  <2>2. [k EXCEPT !.status = "failed", !.timer = FALSE] \in SimType
    BY Zenon DEF SimType
  <2> QED
    BY <2>1, <2>2 DEF Final
<1>4. Ended(k) \in SimType
  BY <1>3 DEF Ended
<1>5. \A b \in BOOLEAN : [k EXCEPT !.timer = b] \in SimType
  BY SMT DEF SimType
<1>6. ASSUME NEW F \in SUBSET EventType, NEW n \in Nat
      PROVE  [k EXCEPT !.findingIds = F, !.findingsCreated = n] \in SimType
  BY Zenon DEF SimType
<1>7. \A n \in {0, 1} : [k EXCEPT !.incidents = n] \in SimType
  BY SMT DEF SimType
<1>8. ASSUME NEW E \in SUBSET EventType, NEW n \in 0..(EventCount + Cardinality(Ticks))
      PROVE  [k EXCEPT !.eventIds = E, !.next = n] \in SimType
  BY Zenon DEF SimType
<1> QED
  BY <1>1, <1>3, <1>4, <1>5, <1>6, <1>7, <1>8

\* An idle tick, and one that begins.
LEMMA IdleTickTypes ==
  /\ IdleTick \in TickType
  /\ \A s \in Sims, n \in 1..EventCount :
       [IdleTick EXCEPT !.pc = "asset", !.sim = s, !.template = n] \in TickType
<1>1. IdleTick \in TickType
  BY EventCountFacts, SMT DEF IdleTick, TickType
<1>2. ASSUME NEW s \in Sims, NEW n \in 1..EventCount
      PROVE  [IdleTick EXCEPT !.pc = "asset", !.sim = s, !.template = n] \in TickType
  BY <1>1, Zenon DEF TickType
<1> QED
  BY <1>1, <1>2

\* What a tick may be changed to.
LEMMA TickTypes ==
  ASSUME NEW k \in TickType
  PROVE  /\ [k EXCEPT !.pc = "create"] \in TickType /\ [k EXCEPT !.pc = "analyzed"] \in TickType
         /\ \A E \in SUBSET EventType :
              /\ [k EXCEPT !.pc = "ingested", !.event = E] \in TickType
              /\ [k EXCEPT !.pc = "telemetry", !.batch = E] \in TickType
              /\ [k EXCEPT !.batch = E] \in TickType
         /\ [k EXCEPT !.pc = "evaluate", !.template = 1, !.event = {}] \in TickType
         /\ \A B, S \in SUBSET EventType :
              /\ [k EXCEPT !.pc = "save", !.scored = S, !.batch = B] \in TickType
              /\ [k EXCEPT !.scored = B, !.created = S] \in TickType
         /\ \A B \in SUBSET EventType, L \in SUBSET {"findings", "events", "incidents"} :
              /\ [k EXCEPT !.pc = "correlate", !.batch = B, !.created = {}, !.unread = L] \in TickType
              /\ [k EXCEPT !.batch = B, !.unread = L] \in TickType
         /\ \A b \in BOOLEAN : [k EXCEPT !.pc = "created", !.batch = {}, !.new = b] \in TickType
<1>1. [k EXCEPT !.pc = "create"] \in TickType /\ [k EXCEPT !.pc = "analyzed"] \in TickType
  BY SMT DEF TickType
<1>2. ASSUME NEW E \in SUBSET EventType
      PROVE  /\ [k EXCEPT !.pc = "ingested", !.event = E] \in TickType
             /\ [k EXCEPT !.pc = "telemetry", !.batch = E] \in TickType
             /\ [k EXCEPT !.batch = E] \in TickType
  BY Zenon DEF TickType
<1>3. [k EXCEPT !.pc = "evaluate", !.template = 1, !.event = {}] \in TickType
  <2>1. 1 \in 1..EventCount /\ {} \in SUBSET EventType
    BY EventCountFacts
  <2> QED
    BY <2>1, Zenon DEF TickType
<1>4. ASSUME NEW B \in SUBSET EventType, NEW S \in SUBSET EventType
      PROVE  /\ [k EXCEPT !.pc = "save", !.scored = S, !.batch = B] \in TickType
             /\ [k EXCEPT !.scored = B, !.created = S] \in TickType
  BY Zenon DEF TickType
<1>5. ASSUME NEW B \in SUBSET EventType, NEW L \in SUBSET {"findings", "events", "incidents"}
      PROVE  /\ [k EXCEPT !.pc = "correlate", !.batch = B, !.created = {}, !.unread = L] \in TickType
             /\ [k EXCEPT !.batch = B, !.unread = L] \in TickType
  BY {} \in SUBSET EventType, Zenon DEF TickType
<1>6. ASSUME NEW b \in BOOLEAN
      PROVE  [k EXCEPT !.pc = "created", !.batch = {}, !.new = b] \in TickType
  BY {} \in SUBSET EventType, Zenon DEF TickType
<1> QED
  BY <1>1, <1>2, <1>3, <1>4, <1>5, <1>6

\* A tick that has yet to count its event leaves room for one more.
LEMMA RoomForNext ==
  ASSUME TypeOK, RoomLeft, NEW t \in Ticks, tick[t].sim \in Sims,
         tick[t].pc \in {"asset", "ingested"}
  PROVE  sim[tick[t].sim].next + 1 \in 1..(EventCount + Cardinality(Ticks))
<1> DEFINE s == tick[t].sim
<1>1. IsFiniteSet(Sending(s)) /\ t \in Sending(s)
  BY TicksAssumption, FS_Subset DEF Sending, InFlight
<1>2. Cardinality(Sending(s)) \in Nat /\ Cardinality(Sending(s)) # 0
  BY <1>1, FS_CardinalityType, FS_EmptySet
<1>3. sim[s].next \in Nat
  BY EventCountFacts, SMT DEF TypeOK, SimType
<1>4. sim[s].next + Cardinality(Sending(s)) <= EventCount + Cardinality(Ticks)
  BY DEF RoomLeft
<1> QED
  BY <1>2, <1>3, <1>4, EventCountFacts

\* An event that is sent is one of the simulation's events.
LEMMA SentEventType ==
  ASSUME TypeOK, RoomLeft, NEW t \in Ticks, tick[t].sim \in Sims,
         tick[t].pc \in {"asset", "ingested"}
  PROVE  [sim |-> tick[t].sim, seq |-> sim[tick[t].sim].next + 1,
          source |-> EventSources[tick[t].template]] \in EventType
<1>1. tick[t].template \in 1..EventCount
  BY DEF TypeOK, TickType
<1>2. EventSources[tick[t].template] \in {"siem", "edr"}
  BY <1>1, EventCountFacts
<1> QED
  BY <1>2, RoomForNext DEF EventType

\* The template read by a tick that begins exists.
LEMMA TickOfType ==
  ASSUME NEW s \in Sims, sim'[s].next \in 0..(EventCount - 1)
  PROVE  TickOf(s) \in TickType
<1>1. sim'[s].next + 1 \in 1..EventCount
  BY EventCountFacts
<1>2. [IdleTick EXCEPT !.pc = "asset", !.sim = s, !.template = sim'[s].next + 1] \in TickType
  BY <1>1, IdleTickTypes, Zenon
<1> QED
  BY <1>2 DEF TickOf

\* A candidate is made of findings, two at least, one of the simulation.
LEMMA CandidateFacts ==
  ASSUME NEW t \in Ticks, Holds(t), FindCandidate(t)
  PROVE  /\ tick[t].batch \subseteq findings /\ Cardinality(tick[t].batch) >= 2
         /\ tick[t].batch \cap sim[tick[t].sim].findingIds # {}
BY DEF Holds, FindCandidate, HasCandidate

\* What a tick takes over is counted, and leaves its simulation otherwise as it is.
LEMMA ReportedFacts ==
  ASSUME TypeOK, FoundOnce, NEW t \in Ticks, NEW s \in Sims, s = tick[t].sim
  PROVE  LET own == OwnFindings(s, tick[t].created)
             n == Cardinality(own)
         IN  /\ own \subseteq tick[t].created /\ own \subseteq sim[s].eventIds
             /\ IsFiniteSet(own) /\ n \in Nat
             /\ Reported(t) = [sim[s] EXCEPT !.findingIds = sim[s].findingIds \cup own,
                                            !.findingsCreated = sim[s].findingsCreated + n]
             /\ Reported(t) \in SimType
<1> DEFINE own == OwnFindings(s, tick[t].created)
<1>1. own \subseteq tick[t].created /\ own \subseteq sim[s].eventIds
  BY DEF OwnFindings
<1>2. IsFiniteSet(own) /\ Cardinality(own) \in Nat
  BY <1>1, FS_Subset, FS_CardinalityType DEF FoundOnce
<1>3. Reported(t) = [sim[s] EXCEPT !.findingIds = sim[s].findingIds \cup own,
                                   !.findingsCreated = sim[s].findingsCreated + Cardinality(own)]
  BY DEF Reported
<1>4. sim[s] \in SimType
  BY DEF TypeOK
<1> HIDE DEF own
<1>5. /\ sim[s].findingIds \cup own \in SUBSET EventType
      /\ sim[s].findingsCreated + Cardinality(own) \in Nat
  BY <1>1, <1>2, <1>4 DEF SimType
<1>6. Reported(t) \in SimType
  <2>1. \A F \in SUBSET EventType, n \in Nat :
          [sim[s] EXCEPT !.findingIds = F, !.findingsCreated = n] \in SimType
    BY <1>4, SimTypes
  <2> QED
    BY <1>3, <1>5, <2>1, Zenon
<1> QED
  BY <1>1, <1>2, <1>3, <1>6 DEF own

-----------------------------------------------------------------------------
(* Every step preserves the types.                                         *)

\* A step of a start request, of the operator or of an interval.
LEMMA StartTypes ==
  ASSUME IInv, NEW s \in Sims, CheckActive(s) \/ StartStep(s) \/ TimerFires(s) \/ Stop(s)
  PROVE  TypeOK'
<1> USE DEF IInv, TypeOK
<1>1. sim[s] \in SimType
  OBVIOUS
<1>2. CASE CheckActive(s)
  BY <1>2, SMT DEF CheckActive, storeVars
<1>3. ASSUME NEW t \in Ticks, CreateSimulation(s, t) PROVE TypeOK'
  <2>1. NewSim \in SimType
    BY <1>1, SimTypes
  <2>2. sim' = [sim EXCEPT ![s] = NewSim] /\ tick' = [tick EXCEPT ![t] = TickOf(s)]
    BY <1>3 DEF CreateSimulation
  <2>3. sim'[s].next \in 0..(EventCount - 1)
    BY <2>2, EventCountFacts, SMT DEF NewSim
  <2>4. TickOf(s) \in TickType
    BY <2>3, TickOfType
  <2> QED
    BY <1>3, <2>1, <2>2, <2>4, SMT DEF CreateSimulation, storeVars
<1>4. CASE SetTimer(s)
  <2>1. [sim[s] EXCEPT !.timer = sim[s].status = "running"] \in SimType
    BY <1>1, SimTypes
  <2> QED
    BY <1>4, <2>1, SMT DEF SetTimer, storeVars
<1>5. ASSUME NEW t \in Ticks, BeginTick(s, t) PROVE TypeOK'
  <2>1. sim'[s].next \in 0..(EventCount - 1)
    BY <1>1, <1>5, EventCountFacts, SMT DEF BeginTick, SimType
  <2>2. TickOf(s) \in TickType
    BY <2>1, TickOfType
  <2> QED
    BY <1>5, <2>2, SMT DEF BeginTick, storeVars
<1>6. CASE BeginTickExhausted(s)
  <2>1. Final(sim[s], "completed") \in SimType
    BY <1>1, SimTypes
  <2> QED
    BY <1>6, <2>1, SMT DEF BeginTickExhausted, storeVars
<1>7. CASE Stop(s)
  <2>1. [sim[s] EXCEPT !.timer = FALSE,
                       !.status = IF @ = "running" THEN "stopped" ELSE @] \in SimType
    BY <1>1, Zenon DEF SimType
  <2> QED
    BY <1>7, <2>1, SMT DEF Stop, storeVars
<1> QED
  BY <1>2, <1>3, <1>4, <1>5, <1>6, <1>7 DEF StartStep, TimerFires

\* A step of a tick, except that it fails.
LEMMA TickTypesKept ==
  ASSUME IInv, NEW t \in Ticks, TickStep(t) \/ TickFails(t)
  PROVE  TypeOK'
<1> DEFINE s == tick[t].sim
<1> USE DEF IInv, TypeOK
<1>0. tick[t].pc # "idle"
  BY DEF TickStep, TickFails, IngestEvent, RecordEvent, ListEvaluated, ReadTelemetry, SaveFinding,
         MarkEvaluated, RecordFindings, RecordLastFindings, EvaluationIsOver, ReadList, FindCandidate,
         NoCandidate, CreateIncident, CreateConflicts, RecordIncident, FinishTick
<1>1. s \in Sims /\ sim[s] \in SimType /\ tick[t] \in TickType
  BY <1>0, TickHasSim
<1>2. /\ tick[t].event \subseteq telemetry
      /\ tick[t].batch \in SUBSET EventType /\ tick[t].scored \in SUBSET EventType
      /\ tick[t].created \in SUBSET EventType
      /\ telemetry \in SUBSET EventType /\ findings \subseteq telemetry
      /\ Holds(t)
  BY <1>1 DEF TicksHold, Holds, TickType
<1>3. CASE IngestEvent(t)
  <2> DEFINE e == [sim |-> s, seq |-> sim[s].next + 1, source |-> EventSources[tick[t].template]]
  <2>1. e \in EventType
    BY <1>1, <1>3, SentEventType DEF IngestEvent
  <2>2. /\ telemetry' = telemetry \cup {e}
        /\ tick' = [tick EXCEPT ![t] = [tick[t] EXCEPT !.pc = "ingested", !.event = {e} \ telemetry]]
    BY <1>3 DEF IngestEvent
  <2> HIDE DEF e, s
  <2>3. [tick[t] EXCEPT !.pc = "ingested", !.event = {e} \ telemetry] \in TickType
    BY <1>1, <2>1, TickTypes
  <2> QED
    BY <1>3, <2>1, <2>2, <2>3, SMT DEF IngestEvent
<1>4. CASE RecordEvent(t)
  <2> DEFINE k == [sim[s] EXCEPT !.eventIds = sim[s].eventIds \cup tick[t].event,
                                 !.next = sim[s].next + 1]
  <2>1. /\ sim' = [sim EXCEPT ![s] = k]
        /\ tick' = [tick EXCEPT ![t] = [tick[t] EXCEPT !.pc = "evaluate", !.template = 1,
                                                      !.event = {}]]
    BY <1>1, <1>4 DEF RecordEvent
  <2>2. sim[s].next + 1 \in 0..(EventCount + Cardinality(Ticks))
    BY <1>1, <1>4, RoomForNext DEF RecordEvent
  <2>3. sim[s].eventIds \cup tick[t].event \in SUBSET EventType
    BY <1>1, <1>2 DEF SimType
  <2>4. k \in SimType
    BY <1>1, <2>2, <2>3, SimTypes
  <2>5. [tick[t] EXCEPT !.pc = "evaluate", !.template = 1, !.event = {}] \in TickType
    BY <1>1, TickTypes
  <2> HIDE DEF k, s
  <2>6. sim' \in [Sims -> SimType] /\ tick' \in [Ticks -> TickType]
    BY <1>1, <2>1, <2>4, <2>5, SMT
  <2> QED
    BY <1>4, <2>6, SMT DEF RecordEvent, storeVars
<1>5. CASE ListEvaluated(t)
  <2>1. evaluated \in SUBSET EventType
    BY <1>2
  <2>2. [tick[t] EXCEPT !.pc = "telemetry", !.batch = evaluated] \in TickType
    BY <1>1, <2>1, TickTypes
  <2> QED
    BY <1>5, <2>2, SMT DEF ListEvaluated, storeVars
<1>6. CASE ReadTelemetry(t)
  <2>1. PICK scored \in SUBSET (telemetry \ tick[t].batch) :
          tick' = [tick EXCEPT ![t] = [tick[t] EXCEPT !.pc = "save", !.scored = scored,
                                                      !.batch = telemetry \ tick[t].batch]]
    BY <1>6 DEF ReadTelemetry
  <2>2. [tick[t] EXCEPT !.pc = "save", !.scored = scored, !.batch = telemetry \ tick[t].batch]
          \in TickType
    BY <1>1, <1>2, TickTypes
  <2> QED
    BY <1>6, <2>1, <2>2, SMT DEF ReadTelemetry, storeVars
<1>7. ASSUME NEW e \in tick[t].scored, SaveFinding(t, e)
      PROVE  TypeOK'
  <2> DEFINE S == tick[t].scored \ {e}
             C == tick[t].created \cup CreatedBy(e)
  <2>1. tick' = [tick EXCEPT ![t] = [tick[t] EXCEPT !.scored = S, !.created = C]]
    BY <1>7 DEF SaveFinding
  <2>2. S \in SUBSET EventType /\ C \in SUBSET EventType
    BY <1>2 DEF CreatedBy
  <2> HIDE DEF S, C
  <2>3. [tick[t] EXCEPT !.scored = S, !.created = C] \in TickType
    BY <1>1, <2>2, TickTypes
  <2>4. tick' \in [Ticks -> TickType]
    BY <2>1, <2>3, SMT
  <2>5. e \in telemetry
    BY <1>2 DEF Holds
  <2>6. findings' \subseteq telemetry /\ findings \subseteq findings'
    BY <1>2, <1>7, <2>5 DEF SaveFinding
  <2>7. \A i \in incidents' : i.evidence \subseteq findings' /\ Cardinality(i.evidence) >= 2
    BY <1>7, <2>6 DEF SaveFinding
  <2> QED
    BY <1>7, <2>4, <2>6, <2>7 DEF SaveFinding
<1>12. ASSUME NEW e \in tick[t].batch, MarkEvaluated(t, e)
       PROVE  TypeOK'
  <2>1. tick' = [tick EXCEPT ![t] = [tick[t] EXCEPT !.batch = tick[t].batch \ {e}]]
    BY <1>12 DEF MarkEvaluated
  <2>2. [tick[t] EXCEPT !.batch = tick[t].batch \ {e}] \in TickType
    BY <1>1, <1>2, TickTypes
  <2>3. evaluated' \subseteq telemetry
    BY <1>2, <1>12 DEF MarkEvaluated, Holds
  <2> QED
    BY <1>12, <2>1, <2>2, <2>3, SMT DEF MarkEvaluated
<1>13. CASE RecordFindings(t) \/ RecordLastFindings(t)
  <2>1. Reported(t) \in SimType /\ Ended(Reported(t)) \in SimType
    BY <1>1, SimTypes, ReportedFacts
  <2>2. PICK k \in SimType : sim' = [sim EXCEPT ![s] = k]
    BY <1>1, <1>13, <2>1 DEF RecordFindings, RecordLastFindings
  <2>3. PICK l \in TickType : tick' = [tick EXCEPT ![t] = l]
    <3>1. CASE RecordFindings(t)
      <4>1. tick' = [tick EXCEPT ![t] = [tick[t] EXCEPT !.pc = "correlate", !.batch = EventType,
                                           !.created = {},
                                           !.unread = {"findings", "events", "incidents"}]]
        BY <3>1 DEF RecordFindings
      <4>2. [tick[t] EXCEPT !.pc = "correlate", !.batch = EventType, !.created = {},
                            !.unread = {"findings", "events", "incidents"}] \in TickType
        BY <1>1, TickTypes
      <4> QED
        BY <4>1, <4>2
    <3>2. CASE RecordLastFindings(t)
      BY <3>2, IdleTickTypes DEF RecordLastFindings
    <3> QED
      BY <1>13, <3>1, <3>2
  <2> HIDE DEF s
  <2>4. sim' \in [Sims -> SimType]
    BY <2>2, Zenon
  <2>5. tick' \in [Ticks -> TickType]
    BY <2>3, Zenon
  <2> QED
    BY <1>13, <2>4, <2>5 DEF RecordFindings, RecordLastFindings, storeVars
<1>14. ASSUME NEW list \in tick[t].unread, ReadList(t, list)
       PROVE  TypeOK'
  <2> DEFINE B == tick[t].batch \cap Listed[list]
             L == tick[t].unread \ {list}
  <2>1. tick' = [tick EXCEPT ![t] = [tick[t] EXCEPT !.batch = B, !.unread = L]]
    BY <1>14 DEF ReadList
  <2>2. B \in SUBSET EventType /\ L \in SUBSET {"findings", "events", "incidents"}
    BY <1>1, <1>2 DEF TickType
  <2> HIDE DEF B, L
  <2>3. [tick[t] EXCEPT !.batch = B, !.unread = L] \in TickType
    BY <1>1, <2>2, TickTypes
  <2> QED
    BY <1>14, <2>1, <2>3, SMT DEF ReadList, storeVars
<1>15. CASE FindCandidate(t)
  <2>1. [tick[t] EXCEPT !.pc = "create"] \in TickType
    BY <1>1, TickTypes
  <2> QED
    BY <1>15, <2>1, SMT DEF FindCandidate, storeVars
<1>8. CASE NoCandidate(t) \/ FinishTick(t)
  <2>1. Ended(sim[s]) \in SimType /\ IdleTick \in TickType
    BY <1>1, SimTypes, IdleTickTypes
  <2>2. sim' = [sim EXCEPT ![s] = Ended(sim[s])] /\ tick' = [tick EXCEPT ![t] = IdleTick]
    BY <1>1, <1>8 DEF NoCandidate, FinishTick
  <2> HIDE DEF s
  <2> QED
    BY <1>1, <1>8, <2>1, <2>2, SMT DEF NoCandidate, FinishTick, storeVars
<1>9. CASE CreateIncident(t)
  <2> DEFINE i == [sim |-> s, evidence |-> tick[t].batch]
             new == IncidentsOf(s) = {}
  <2>1. /\ incidents' = incidents \cup {i}
        /\ tick' = [tick EXCEPT ![t] = [tick[t] EXCEPT !.pc = "created", !.batch = {}, !.new = new]]
    BY <1>9 DEF CreateIncident
  <2>2. /\ i \in [sim : Sims, evidence : SUBSET EventType]
        /\ i.evidence \subseteq findings /\ Cardinality(i.evidence) >= 2
    BY <1>1, <1>2, <1>9 DEF CreateIncident, Holds
  <2>3. [tick[t] EXCEPT !.pc = "created", !.batch = {}, !.new = new] \in TickType
    BY <1>1, TickTypes
  <2> HIDE DEF i, s, new
  <2> QED
    BY <1>9, <2>1, <2>2, <2>3, SMT DEF CreateIncident
<1>10. CASE CreateConflicts(t) \/ TickFails(t)
  <2>1. Final(sim[s], "failed") \in SimType /\ IdleTick \in TickType
    BY <1>1, SimTypes, IdleTickTypes
  <2>2. sim' = [sim EXCEPT ![s] = Final(sim[s], "failed")] /\ tick' = [tick EXCEPT ![t] = IdleTick]
    BY <1>1, <1>10 DEF CreateConflicts, TickFails
  <2> HIDE DEF s
  <2> QED
    BY <1>1, <1>10, <2>1, <2>2, SMT DEF CreateConflicts, TickFails, storeVars
<1>11. CASE RecordIncident(t)
  <2>1. sim[s].incidents = 0
    BY <1>1, <1>11 DEF RecordIncident, NewIsTold, ToldNew
  <2>2. [sim[s] EXCEPT !.incidents = sim[s].incidents + 1] \in SimType
    BY <1>1, <2>1, sim[s].incidents + 1 = 1, SimTypes
  <2>3. [tick[t] EXCEPT !.pc = "analyzed"] \in TickType
    BY <1>1, TickTypes
  <2>4. /\ sim' = [sim EXCEPT ![s] = [sim[s] EXCEPT !.incidents = sim[s].incidents + 1]]
        /\ tick' = [tick EXCEPT ![t] = [tick[t] EXCEPT !.pc = "analyzed"]]
    BY <1>1, <1>11 DEF RecordIncident
  <2> DEFINE k == [sim[s] EXCEPT !.incidents = sim[s].incidents + 1]
  <2> HIDE DEF s, k
  <2>5. sim' \in [Sims -> SimType] /\ tick' \in [Ticks -> TickType]
    BY <1>1, <2>2, <2>3, <2>4, SMT DEF k
  <2> QED
    BY <1>11, <2>5, SMT DEF RecordIncident, storeVars
<1> QED
  BY <1>3, <1>4, <1>5, <1>6, <1>7, <1>8, <1>9, <1>10, <1>11, <1>12, <1>13, <1>14, <1>15
     DEF TickStep

-----------------------------------------------------------------------------
(* What the steps change.                                                  *)

\* The steps that save a finding, and those that take findings over.
Saves(t) == \E e \in tick[t].scored : SaveFinding(t, e)
Reports(t) == RecordFindings(t) \/ RecordLastFindings(t)

\* A step of a tick changes that tick, which ends or stays with its simulation,
\* and that simulation, whose record changes its status only to a final one;
\* what is stored or reported is not lost.
LEMMA TickStepShape ==
  ASSUME IInv, NEW t \in Ticks, TickStep(t) \/ TickFails(t)
  PROVE  LET s == tick[t].sim
         IN /\ tick[t].pc # "idle" /\ s \in Sims
            /\ request' = request /\ dataStore' = dataStore
            /\ \A u \in Ticks \ {t} : tick'[u] = tick[u]
            /\ tick'[t] = IdleTick \/ (tick'[t].pc # "idle" /\ tick'[t].sim = s)
            /\ \A r \in Sims \ {s} : sim'[r] = sim[r]
            /\ \/ sim'[s].status = sim[s].status /\ sim'[s].timer = sim[s].timer
               \/ /\ sim'[s].status \in {"completed", "failed"} /\ sim'[s].timer = FALSE
                  /\ tick'[t] = IdleTick
            /\ sim[s].findingIds \subseteq sim'[s].findingIds
            /\ sim[s].eventIds \subseteq sim'[s].eventIds
            /\ ~RecordEvent(t) => sim'[s].next = sim[s].next /\ sim'[s].eventIds = sim[s].eventIds
            /\ ~Reports(t) => /\ sim'[s].findingIds = sim[s].findingIds
                              /\ sim'[s].findingsCreated = sim[s].findingsCreated
            /\ ~Saves(t) => findings' = findings /\ tick'[t].created \subseteq tick[t].created
            /\ ~RecordIncident(t) => sim'[s].incidents = sim[s].incidents
            /\ ~IngestEvent(t) => telemetry' = telemetry
            /\ ~CreateIncident(t) => incidents' = incidents /\ tick'[t].pc # "created"
            /\ ~IngestEvent(t) => tick'[t].pc \notin {"asset", "ingested"}
            /\ telemetry \subseteq telemetry' /\ findings \subseteq findings'
            /\ incidents \subseteq incidents'
<1> DEFINE s == tick[t].sim
           k == sim[s]
<1> USE DEF IInv, TypeOK
<1>0. tick[t].pc # "idle"
  BY DEF TickStep, TickFails, IngestEvent, RecordEvent, ListEvaluated, ReadTelemetry, SaveFinding,
         MarkEvaluated, RecordFindings, RecordLastFindings, EvaluationIsOver, ReadList, FindCandidate,
         NoCandidate, CreateIncident, CreateConflicts, RecordIncident, FinishTick
<1>1. s \in Sims /\ k \in SimType /\ tick[t] \in TickType
  BY <1>0, TickHasSim
<1>2. CASE IngestEvent(t)
  <2> DEFINE E == {[sim |-> s, seq |-> k.next + 1, source |-> EventSources[tick[t].template]]} \ telemetry
  <2>1. /\ tick' = [tick EXCEPT ![t] = [tick[t] EXCEPT !.pc = "ingested", !.event = E]]
        /\ telemetry \subseteq telemetry'
    BY <1>2 DEF IngestEvent
  <2> HIDE DEF E
  <2>2. /\ tick'[t].pc = "ingested" /\ tick'[t].sim = s /\ tick'[t].created = tick[t].created
        /\ \A u \in Ticks \ {t} : tick'[u] = tick[u]
    BY <1>1, <2>1 DEF TickType
  <2> QED
    BY <1>0, <1>1, <1>2, <2>1, <2>2 DEF IngestEvent
<1>3. CASE RecordEvent(t)
  <2>1. /\ \A r \in Sims \ {s} : sim'[r] = sim[r]
        /\ sim'[s] = [k EXCEPT !.eventIds = k.eventIds \cup tick[t].event, !.next = k.next + 1]
    BY <1>1, <1>3 DEF RecordEvent
  <2>2. /\ sim'[s].status = k.status /\ sim'[s].timer = k.timer
        /\ k.eventIds \subseteq sim'[s].eventIds
        /\ sim'[s].findingIds = k.findingIds /\ sim'[s].incidents = k.incidents
        /\ sim'[s].findingsCreated = k.findingsCreated
    BY <1>1, <2>1, SMT DEF SimType
  <2>3. /\ tick'[t].pc = "evaluate" /\ tick'[t].sim = s /\ tick'[t].created = tick[t].created
        /\ \A u \in Ticks \ {t} : tick'[u] = tick[u]
    BY <1>1, <1>3 DEF RecordEvent, TickType
  <2> QED
    BY <1>0, <1>1, <1>3, <2>1, <2>2, <2>3 DEF RecordEvent, storeVars
<1>4. CASE \/ ListEvaluated(t) \/ ReadTelemetry(t) \/ FindCandidate(t)
           \/ \E list \in tick[t].unread : ReadList(t, list)
  <2>1. /\ tick'[t].pc \in {"telemetry", "save", "create", "correlate"} /\ tick'[t].sim = s
        /\ tick'[t].created = tick[t].created /\ \A u \in Ticks \ {t} : tick'[u] = tick[u]
    <3>1. CASE ListEvaluated(t)
      BY <1>1, <3>1 DEF ListEvaluated, TickType
    <3>2. CASE ReadTelemetry(t)
      <4>1. PICK S : tick' = [tick EXCEPT ![t] = [tick[t] EXCEPT !.pc = "save", !.scored = S,
                                                           !.batch = telemetry \ tick[t].batch]]
        BY <3>2 DEF ReadTelemetry
      <4> QED
        BY <1>1, <4>1 DEF TickType
    <3>3. CASE FindCandidate(t)
      BY <1>1, <3>3 DEF FindCandidate, TickType
    <3>4. ASSUME NEW list \in tick[t].unread, ReadList(t, list)
          PROVE  /\ tick'[t].pc = "correlate" /\ tick'[t].sim = s
                 /\ tick'[t].created = tick[t].created /\ \A u \in Ticks \ {t} : tick'[u] = tick[u]
      BY <1>1, <3>4 DEF ReadList, TickType
    <3> QED
      BY <1>4, <3>1, <3>2, <3>3, <3>4
  <2>3. UNCHANGED <<sim, request, storeVars, dataStore>>
    BY <1>4 DEF ListEvaluated, ReadTelemetry, FindCandidate, ReadList
  <2> QED
    BY <1>0, <1>1, <2>1, <2>3 DEF storeVars
<1>5. ASSUME NEW e \in tick[t].scored, SaveFinding(t, e)
      PROVE  /\ tick'[t].pc = "save" /\ tick'[t].sim = s
             /\ \A u \in Ticks \ {t} : tick'[u] = tick[u]
             /\ findings \subseteq findings'
             /\ UNCHANGED <<sim, request, telemetry, incidents, dataStore>>
  BY <1>1, <1>5 DEF SaveFinding, TickType
<1>10. ASSUME NEW e \in tick[t].batch, MarkEvaluated(t, e)
       PROVE  /\ tick'[t].pc = "save" /\ tick'[t].sim = s /\ tick'[t].created = tick[t].created
              /\ \A u \in Ticks \ {t} : tick'[u] = tick[u]
              /\ UNCHANGED <<sim, request, telemetry, findings, incidents, dataStore>>
  BY <1>1, <1>10 DEF MarkEvaluated, TickType
<1>11. CASE Reports(t)
  <2>1. PICK F, n : Reported(t) = [k EXCEPT !.findingIds = k.findingIds \cup F, !.findingsCreated = n]
    BY DEF Reported
  <2>2. /\ Reported(t).status = k.status /\ Reported(t).timer = k.timer
        /\ k.findingIds \subseteq Reported(t).findingIds /\ Reported(t).next = k.next
        /\ Reported(t).eventIds = k.eventIds /\ Reported(t).incidents = k.incidents
        /\ Reported(t) \in SimType
    <3>1. Reported(t) \in SimType
      BY <1>1, ReportedFacts
    <3> HIDE DEF k
    <3> QED
      BY <1>1, <2>1, <3>1, SMT DEF SimType
  <2>3. \A r \in Sims \ {s} : sim'[r] = sim[r]
    BY <1>1, <1>11 DEF Reports, RecordFindings, RecordLastFindings
  <2>4. CASE RecordFindings(t)
    <3>1. sim'[s] = Reported(t)
      BY <1>1, <2>4 DEF RecordFindings
    <3>2. /\ tick'[t].pc = "correlate" /\ tick'[t].sim = s /\ tick'[t].created = {}
          /\ \A u \in Ticks \ {t} : tick'[u] = tick[u]
      BY <1>1, <2>4 DEF RecordFindings, TickType
    <3> QED
      BY <1>0, <1>1, <1>11, <2>2, <2>3, <2>4, <3>1, <3>2 DEF RecordFindings, storeVars
  <2>5. CASE RecordLastFindings(t)
    <3>1. /\ sim'[s] = Ended(Reported(t)) /\ tick'[t] = IdleTick
          /\ \A u \in Ticks \ {t} : tick'[u] = tick[u]
      BY <1>1, <2>5 DEF RecordLastFindings
    <3>2. LET m == Reported(t)
          IN  /\ \/ Ended(m) = m
                 \/ Ended(m).status = "completed" /\ Ended(m).timer = FALSE
              /\ Ended(m).next = m.next /\ Ended(m).eventIds = m.eventIds
              /\ Ended(m).findingIds = m.findingIds /\ Ended(m).incidents = m.incidents
      BY <2>2, SMT DEF Ended, Final, SimType
    <3>3. IdleTick.pc = "idle" /\ IdleTick.created = {}
      BY DEF IdleTick
    <3> QED
      BY <1>0, <1>1, <1>11, <2>2, <2>3, <2>5, <3>1, <3>2, <3>3 DEF RecordLastFindings, storeVars
  <2> QED
    BY <1>11, <2>4, <2>5 DEF Reports
<1>6. CASE NoCandidate(t) \/ FinishTick(t)
  <2>1. /\ \A r \in Sims \ {s} : sim'[r] = sim[r]
        /\ sim'[s] = Ended(k)
        /\ tick'[t] = IdleTick /\ \A u \in Ticks \ {t} : tick'[u] = tick[u]
    BY <1>1, <1>6 DEF NoCandidate, FinishTick
  <2>2. /\ IdleTick.pc = "idle" /\ IdleTick.created = {}
        /\ \/ Ended(k) = k
           \/ Ended(k).status = "completed" /\ Ended(k).timer = FALSE
        /\ Ended(k).next = k.next /\ Ended(k).eventIds = k.eventIds
        /\ Ended(k).findingIds = k.findingIds /\ Ended(k).incidents = k.incidents
        /\ Ended(k).findingsCreated = k.findingsCreated
    BY <1>1, SMT DEF Ended, Final, SimType, IdleTick
  <2> HIDE DEF k
  <2> QED
    BY <1>0, <1>1, <1>6, <2>1, <2>2 DEF NoCandidate, FinishTick, storeVars, k
<1>7. CASE CreateIncident(t)
  <2>1. /\ tick' = [tick EXCEPT ![t] = [tick[t] EXCEPT !.pc = "created", !.batch = {},
                                                      !.new = IncidentsOf(s) = {}]]
        /\ incidents \subseteq incidents'
    BY <1>7 DEF CreateIncident
  <2>2. /\ tick'[t].pc = "created" /\ tick'[t].sim = s /\ tick'[t].created = tick[t].created
        /\ \A u \in Ticks \ {t} : tick'[u] = tick[u]
    BY <1>1, <2>1 DEF TickType
  <2> QED
    BY <1>0, <1>1, <1>7, <2>1, <2>2 DEF CreateIncident
<1>8. CASE CreateConflicts(t) \/ TickFails(t)
  <2>1. /\ \A r \in Sims \ {s} : sim'[r] = sim[r]
        /\ sim'[s] = Final(k, "failed")
        /\ tick'[t] = IdleTick /\ \A u \in Ticks \ {t} : tick'[u] = tick[u]
    BY <1>1, <1>8 DEF CreateConflicts, TickFails
  <2>2. LET f == Final(k, "failed")
        IN /\ f.status = "failed" /\ f.timer = FALSE /\ f.next = k.next /\ f.eventIds = k.eventIds
           /\ f.findingIds = k.findingIds /\ f.incidents = k.incidents
           /\ f.findingsCreated = k.findingsCreated
           /\ IdleTick.pc = "idle" /\ IdleTick.created = {}
    BY <1>1, SMT DEF Final, SimType, IdleTick
  <2> HIDE DEF k
  <2> QED
    BY <1>0, <1>1, <1>8, <2>1, <2>2 DEF CreateConflicts, TickFails, storeVars, k
<1>9. CASE RecordIncident(t)
  <2>1. /\ \A r \in Sims \ {s} : sim'[r] = sim[r]
        /\ sim'[s] = [k EXCEPT !.incidents = k.incidents + 1]
    BY <1>1, <1>9 DEF RecordIncident
  <2>2. /\ sim'[s].status = k.status /\ sim'[s].timer = k.timer
        /\ sim'[s].findingIds = k.findingIds /\ sim'[s].next = k.next
        /\ sim'[s].eventIds = k.eventIds /\ sim'[s].findingsCreated = k.findingsCreated
    BY <1>1, <2>1, SMT DEF SimType
  <2>3. /\ tick'[t].pc = "analyzed" /\ tick'[t].sim = s /\ tick'[t].created = tick[t].created
        /\ \A u \in Ticks \ {t} : tick'[u] = tick[u]
    BY <1>1, <1>9 DEF RecordIncident, TickType
  <2> QED
    BY <1>0, <1>1, <1>9, <2>1, <2>2, <2>3 DEF RecordIncident, storeVars
<1>12. CASE Saves(t)
  BY <1>0, <1>1, <1>5, <1>12 DEF Saves
<1>13. CASE \E e \in tick[t].batch : MarkEvaluated(t, e)
  BY <1>0, <1>1, <1>10, <1>13
<1> QED
  BY <1>2, <1>3, <1>4, <1>6, <1>7, <1>8, <1>9, <1>11, <1>12, <1>13 DEF TickStep, Saves, Reports

\* A step of a start request, of the operator or of an interval changes one
\* simulation and request, and may begin a tick; it stores nothing.
LEMMA StartShape ==
  ASSUME IInv, NEW s \in Sims, CheckActive(s) \/ StartStep(s) \/ TimerFires(s) \/ Stop(s)
  PROVE  /\ dataStore' = dataStore /\ storeVars' = storeVars
         /\ \A r \in Sims \ {s} : sim'[r] = sim[r] /\ request'[r] = request[r]
         /\ \/ tick' = tick
            \/ \E t \in Ticks :
                 /\ CreateSimulation(s, t) \/ BeginTick(s, t)
                 /\ tick[t].pc = "idle" /\ tick'[t] = TickOf(s)
                 /\ \A u \in Ticks \ {t} : tick'[u] = tick[u]
         /\ \/ /\ sim'[s].next = sim[s].next /\ sim'[s].eventIds = sim[s].eventIds
               /\ sim'[s].findingIds = sim[s].findingIds /\ sim'[s].incidents = sim[s].incidents
               /\ sim'[s].findingsCreated = sim[s].findingsCreated
            \/ request[s] = "checked" /\ sim'[s] = NewSim
<1> DEFINE k == sim[s]
<1> USE DEF IInv, TypeOK
<1>1. k \in SimType
  OBVIOUS
<1>2. CASE CheckActive(s)
  BY <1>1, <1>2, SMT DEF CheckActive, storeVars
<1>3. ASSUME NEW t \in Ticks, CreateSimulation(s, t)
      PROVE  /\ dataStore' = dataStore /\ storeVars' = storeVars
             /\ \A r \in Sims \ {s} : sim'[r] = sim[r] /\ request'[r] = request[r]
             /\ tick[t].pc = "idle" /\ tick'[t] = TickOf(s)
             /\ \A u \in Ticks \ {t} : tick'[u] = tick[u]
             /\ request[s] = "checked" /\ sim'[s] = NewSim
  BY <1>1, <1>3 DEF CreateSimulation, storeVars
<1>4. CASE SetTimer(s)
  <2>1. sim'[s] = [k EXCEPT !.timer = k.status = "running"]
    BY <1>1, <1>4 DEF SetTimer
  <2>2. /\ sim'[s].next = k.next /\ sim'[s].eventIds = k.eventIds
        /\ sim'[s].findingIds = k.findingIds /\ sim'[s].incidents = k.incidents
        /\ sim'[s].findingsCreated = k.findingsCreated
    BY <1>1, <2>1 DEF SimType
  <2> QED
    BY <1>4, <2>2 DEF SetTimer, storeVars
<1>5. ASSUME NEW t \in Ticks, BeginTick(s, t)
      PROVE  /\ dataStore' = dataStore /\ storeVars' = storeVars
             /\ sim' = sim /\ request' = request
             /\ tick[t].pc = "idle" /\ tick'[t] = TickOf(s)
             /\ \A u \in Ticks \ {t} : tick'[u] = tick[u]
  BY <1>1, <1>5 DEF BeginTick, storeVars
<1>6. CASE BeginTickExhausted(s)
  <2>1. sim'[s] = Final(k, "completed")
    BY <1>1, <1>6 DEF BeginTickExhausted
  <2>2. /\ sim'[s].next = k.next /\ sim'[s].eventIds = k.eventIds
        /\ sim'[s].findingIds = k.findingIds /\ sim'[s].incidents = k.incidents
        /\ sim'[s].findingsCreated = k.findingsCreated
    BY <1>1, <2>1 DEF SimType, Final
  <2> QED
    BY <1>6, <2>2 DEF BeginTickExhausted, storeVars
<1>7. CASE Stop(s)
  <2>1. sim'[s] = [k EXCEPT !.timer = FALSE, !.status = IF @ = "running" THEN "stopped" ELSE @]
    BY <1>1, <1>7 DEF Stop
  <2>2. /\ sim'[s].next = k.next /\ sim'[s].eventIds = k.eventIds
        /\ sim'[s].findingIds = k.findingIds /\ sim'[s].incidents = k.incidents
        /\ sim'[s].findingsCreated = k.findingsCreated
    BY <1>1, <2>1 DEF SimType
  <2> QED
    BY <1>7, <2>2 DEF Stop, storeVars
<1> HIDE DEF k
<1>8. CASE \E t \in Ticks : CreateSimulation(s, t)
  BY <1>3, <1>8, Zenon
<1>9. CASE \E t \in Ticks : BeginTick(s, t)
  BY <1>5, <1>9, Zenon
<1> QED
  BY <1>2, <1>4, <1>6, <1>7, <1>8, <1>9 DEF StartStep, TimerFires

-----------------------------------------------------------------------------
(* Ticks, requests and intervals.                                          *)

\* The tick that begins.
LEMMA TickOfFacts ==
  ASSUME NEW s \in Sims
  PROVE  /\ TickOf(s).pc = "asset" /\ TickOf(s).sim = s /\ TickOf(s).template = sim'[s].next + 1
         /\ TickOf(s).event = {} /\ TickOf(s).batch = {} /\ TickOf(s).scored = {}
         /\ TickOf(s).created = {} /\ ~TickOf(s).new
         /\ s # NoSim
BY NoSimAssumption DEF TickOf, IdleTick

\* A step keeps ticks with their simulations, whose records come first.
LEMMA BelongingKept ==
  ASSUME IInv, Next
  PROVE  (TicksBelong /\ NothingBeforeStart)'
<1>1. ASSUME NEW t \in Ticks, TickStep(t) \/ TickFails(t)
      PROVE  (TicksBelong /\ NothingBeforeStart)'
  <2> DEFINE s == tick[t].sim
  <2>1. /\ tick[t].pc # "idle" /\ s \in Sims /\ request' = request
        /\ \A u \in Ticks \ {t} : tick'[u] = tick[u]
        /\ \A r \in Sims \ {s} : sim'[r] = sim[r]
        /\ tick'[t] = IdleTick \/ (tick'[t].pc # "idle" /\ tick'[t].sim = s)
    BY <1>1, TickStepShape
  <2>2. request[s] \notin {"none", "checked"}
    BY <2>1 DEF IInv, NothingBeforeStart, InFlight
  <2>3. IdleTick.pc = "idle" /\ IdleTick.sim = NoSim
    BY DEF IdleTick
  <2>4. TicksBelong'
    BY <2>1, <2>3, NoSimAssumption DEF IInv, TicksBelong
  <2> QED
    BY <2>1, <2>2, <2>3, <2>4, NoSimAssumption DEF IInv, NothingBeforeStart, InFlight
<1>2. ASSUME NEW s \in Sims, CheckActive(s) \/ StartStep(s) \/ TimerFires(s) \/ Stop(s)
      PROVE  (TicksBelong /\ NothingBeforeStart)'
  <2> USE DEF IInv
  <2>1. CASE CheckActive(s)
    BY <2>1 DEF CheckActive, TypeOK, TicksBelong, NothingBeforeStart, InFlight
  <2>2. CASE SetTimer(s) \/ Stop(s) \/ BeginTickExhausted(s)
    <3>1. /\ tick' = tick /\ \A r \in Sims \ {s} : sim'[r] = sim[r] /\ request'[r] = request[r]
          /\ request'[s] \in {request[s], "done"}
      BY <2>2 DEF SetTimer, Stop, BeginTickExhausted, TypeOK
    <3>2. request[s] \notin {"none", "checked"}
      BY <2>2 DEF SetTimer, Stop, BeginTickExhausted, NothingBeforeStart, NotStarted, NewSim
    <3> QED
      BY <3>1, <3>2 DEF TicksBelong, NothingBeforeStart, InFlight
  <2>3. ASSUME NEW t \in Ticks, CreateSimulation(s, t) \/ BeginTick(s, t)
        PROVE  (TicksBelong /\ NothingBeforeStart)'
    <3>1. /\ \A r \in Sims \ {s} : sim'[r] = sim[r] /\ request'[r] = request[r]
          /\ tick'[t] = TickOf(s) /\ \A u \in Ticks \ {t} : tick'[u] = tick[u]
      BY <2>3 DEF CreateSimulation, BeginTick, TypeOK
    <3>2. request'[s] \notin {"none", "checked"}
      BY <2>3 DEF CreateSimulation, BeginTick, NothingBeforeStart, NotStarted, NewSim, TypeOK
    <3> QED
      BY <3>1, <3>2, TickOfFacts DEF TicksBelong, NothingBeforeStart, InFlight
  <2> QED
    BY <1>2, <2>1, <2>2, <2>3 DEF StartStep, TimerFires
<1> QED
  BY <1>1, <1>2 DEF Next

\* A step leaves no interval behind and none missing.
LEMMA TimersKept ==
  ASSUME IInv, Next
  PROVE  TimersFollowStatus'
<1>1. ASSUME NEW t \in Ticks, TickStep(t) \/ TickFails(t)
      PROVE  TimersFollowStatus'
  <2> DEFINE s == tick[t].sim
  <2>1. /\ s \in Sims /\ request' = request /\ \A r \in Sims \ {s} : sim'[r] = sim[r]
        /\ \/ sim'[s].status = sim[s].status /\ sim'[s].timer = sim[s].timer
           \/ sim'[s].status \in {"completed", "failed"} /\ sim'[s].timer = FALSE
    BY <1>1, TickStepShape
  <2> QED
    BY <2>1 DEF IInv, TimersFollowStatus, NoLeakedTimer, NeverStranded
<1>2. ASSUME NEW s \in Sims, CheckActive(s) \/ StartStep(s) \/ TimerFires(s) \/ Stop(s)
      PROVE  TimersFollowStatus'
  <2> USE DEF IInv, TypeOK
  <2>0. /\ \A r \in Sims \ {s} : sim'[r] = sim[r] /\ request'[r] = request[r]
        /\ sim[s] \in SimType
    BY <1>2, StartShape
  <2>1. CASE CheckActive(s)
    BY <2>0, <2>1 DEF CheckActive, TimersFollowStatus, NoLeakedTimer, NeverStranded
  <2>2. CASE \E t \in Ticks : CreateSimulation(s, t)
    <3>1. sim'[s] = NewSim /\ request'[s] = "ticking"
      BY <2>2 DEF CreateSimulation
    <3> QED
      BY <2>0, <3>1 DEF TimersFollowStatus, NoLeakedTimer, NeverStranded, NewSim
  <2>3. CASE SetTimer(s)
    <3>1. sim'[s] = [sim[s] EXCEPT !.timer = sim[s].status = "running"]
      BY <2>3 DEF SetTimer
    <3>2. sim'[s].status = sim[s].status /\ sim'[s].timer = (sim[s].status = "running")
      BY <2>0, <3>1 DEF SimType
    <3> QED
      BY <2>0, <3>2 DEF TimersFollowStatus, NoLeakedTimer, NeverStranded
  <2>4. CASE \E t \in Ticks : BeginTick(s, t)
    BY <2>4 DEF BeginTick, TimersFollowStatus, NoLeakedTimer, NeverStranded
  <2>5. CASE BeginTickExhausted(s)
    <3>1. sim'[s] = Final(sim[s], "completed")
      BY <2>5 DEF BeginTickExhausted
    <3>2. sim'[s].status = "completed" /\ ~sim'[s].timer
      BY <2>0, <3>1 DEF SimType, Final
    <3> QED
      BY <2>0, <3>2 DEF TimersFollowStatus, NoLeakedTimer, NeverStranded
  <2>6. CASE Stop(s)
    <3>1. sim'[s] = [sim[s] EXCEPT !.timer = FALSE,
                                   !.status = IF @ = "running" THEN "stopped" ELSE @]
      BY <2>6 DEF Stop
    <3>2. sim'[s].status # "running" /\ ~sim'[s].timer
      BY <2>0, <3>1 DEF SimType
    <3> QED
      BY <2>0, <3>2 DEF TimersFollowStatus, NoLeakedTimer, NeverStranded
  <2> QED
    BY <1>2, <2>1, <2>2, <2>3, <2>4, <2>5, <2>6 DEF StartStep, TimerFires
<1> QED
  BY <1>1, <1>2 DEF Next

\* A step leaves the ticks that have yet to count their event room for it: one
\* that begins finds an event left, one that counts its event no longer needs room.
LEMMA RoomKept ==
  ASSUME IInv, Next
  PROVE  RoomLeft'
<1> USE DEF IInv
<1>1. /\ IsFiniteSet(Ticks)
      /\ \A r \in Sims : Sending(r) \subseteq Ticks /\ IsFiniteSet(Sending(r))
                         /\ Cardinality(Sending(r)) \in Nat
      /\ \A r \in Sims : Sending(r)' \subseteq Ticks /\ Cardinality(Sending(r)') \in Nat
                         /\ Cardinality(Sending(r)') <= Cardinality(Ticks)
  BY TicksAssumption, FS_Subset, FS_CardinalityType DEF Sending, InFlight
<1>2. \A r \in Sims : sim[r].next \in Nat
  BY EventCountFacts, SMT DEF TypeOK, SimType
<1>3. ASSUME NEW r \in Sims, sim'[r].next = sim[r].next, Sending(r)' \subseteq Sending(r)
      PROVE  sim'[r].next + Cardinality(Sending(r)') <= EventCount + Cardinality(Ticks)
  <2>1. Cardinality(Sending(r)') <= Cardinality(Sending(r))
    BY <1>1, <1>3, FS_Subset
  <2>2. sim[r].next + Cardinality(Sending(r)) <= EventCount + Cardinality(Ticks)
    BY DEF RoomLeft
  <2> QED
    BY <1>1, <1>2, <1>3, <2>1, <2>2, EventCountFacts
<1>4. ASSUME NEW t \in Ticks, TickStep(t) \/ TickFails(t)
      PROVE  RoomLeft'
  <2>0. PICK s \in Sims : s = tick[t].sim
    BY <1>4, TickStepShape
  <2>1. /\ \A u \in Ticks \ {t} : tick'[u] = tick[u]
        /\ \A r \in Sims \ {s} : sim'[r] = sim[r]
        /\ tick'[t] = IdleTick \/ (tick'[t].pc # "idle" /\ tick'[t].sim = s)
        /\ ~RecordEvent(t) => sim'[s].next = sim[s].next
    BY <1>4, <2>0, TickStepShape
  <2>2. tick'[t].pc \in {"asset", "ingested"} => tick[t].pc \in {"asset", "ingested"}
    BY <1>4, TickStepShape DEF IngestEvent
  <2>3. \A r \in Sims : Sending(r)' \subseteq Sending(r)
    BY <2>0, <2>1, <2>2, NoSimAssumption DEF Sending, InFlight, IdleTick
  <2>4. CASE ~RecordEvent(t)
    BY <1>3, <2>1, <2>3, <2>4 DEF RoomLeft
  <2>5. CASE RecordEvent(t)
    <3>1. t \in Sending(s) /\ t \notin Sending(s)'
      BY <2>0, <2>1, <2>5 DEF RecordEvent, Sending, InFlight, TypeOK, TickType
    <3>2. Sending(s)' \subseteq Sending(s) \ {t}
      BY <2>3, <3>1
    <3>3. Cardinality(Sending(s)') <= Cardinality(Sending(s)) - 1
      <4> DEFINE S == Sending(s)
                 T == Sending(s)'
      <4>1. IsFiniteSet(S) /\ t \in S /\ T \subseteq S \ {t}
        BY <1>1, <2>1, <3>1, <3>2
      <4> HIDE DEF S, T
      <4>2. IsFiniteSet(S \ {t}) /\ Cardinality(S \ {t}) = Cardinality(S) - 1
        BY <4>1, FS_RemoveElement
      <4>3. Cardinality(T) <= Cardinality(S) - 1
        BY <4>1, <4>2, FS_Subset
      <4> QED
        BY <4>3 DEF S, T
    <3>4. sim'[s].next = sim[s].next + 1
      BY <2>0, <2>1, <2>5 DEF RecordEvent, TypeOK, SimType
    <3>5. sim[s].next + Cardinality(Sending(s)) <= EventCount + Cardinality(Ticks)
      BY <2>1 DEF RoomLeft
    <3>6. sim'[s].next + Cardinality(Sending(s)') <= EventCount + Cardinality(Ticks)
      BY <1>1, <1>2, <2>1, <3>3, <3>4, <3>5, EventCountFacts
    <3> QED
      BY <1>3, <2>1, <2>3, <3>6 DEF RoomLeft
  <2> QED
    BY <2>4, <2>5
<1>5. ASSUME NEW s \in Sims, CheckActive(s) \/ StartStep(s) \/ TimerFires(s) \/ Stop(s)
      PROVE  RoomLeft'
  <2>1. \A r \in Sims \ {s} : sim'[r] = sim[r]
    BY <1>5, StartShape
  <2>2. CASE tick' = tick
    <3>1. /\ \A r \in Sims : Sending(r)' \subseteq Sending(r)
          /\ sim'[s].next = sim[s].next
      BY <1>5, <2>2, StartShape, TickOfFacts
         DEF Sending, InFlight, CheckActive, StartStep, TimerFires, CreateSimulation, NewSim,
             NothingBeforeStart, NotStarted
    <3> QED
      BY <1>3, <2>1, <3>1 DEF RoomLeft
  <2>3. ASSUME NEW t \in Ticks, CreateSimulation(s, t) \/ BeginTick(s, t)
        PROVE  RoomLeft'
    <3>1. tick'[t] = TickOf(s) /\ \A u \in Ticks \ {t} : tick'[u] = tick[u]
      BY <2>3 DEF CreateSimulation, BeginTick, TypeOK
    <3>2. \A r \in Sims \ {s} : Sending(r)' \subseteq Sending(r)
      BY <3>1, TickOfFacts DEF Sending, InFlight
    <3>3. sim'[s].next \in 0..(EventCount - 1)
      BY <1>2, <2>3, EventCountFacts DEF CreateSimulation, BeginTick, TypeOK, NewSim
    <3>4. sim'[s].next + Cardinality(Sending(s)') <= EventCount + Cardinality(Ticks)
      BY <1>1, <3>3, EventCountFacts
    <3> QED
      BY <1>3, <2>1, <3>2, <3>4 DEF RoomLeft
  <2> QED
    BY <1>5, <2>2, <2>3, StartShape
<1> QED
  BY <1>4, <1>5 DEF Next

-----------------------------------------------------------------------------
(* What ticks hold.                                                        *)

\* What a tick holds stays true while the store and the reports only grow.
LEMMA HoldsWhileGrowing ==
  ASSUME NEW u \in Ticks, Holds(u), tick'[u] = tick[u], tick[u].sim \in Sims \/ tick[u].pc = "idle",
         telemetry \subseteq telemetry', findings \subseteq findings', incidents \subseteq incidents',
         \A s \in Sims : tick[u].pc # "idle" /\ s = tick[u].sim =>
           sim[s].findingIds \subseteq sim'[s].findingIds
  PROVE  Holds(u)'
<1> USE DEF Holds
<1>1. tick[u].pc \in {"created", "analyzed"} =>
        \E i \in incidents' : i.sim = tick[u].sim /\ i.evidence \cap sim'[i.sim].findingIds # {}
  OBVIOUS
<1> QED
  BY <1>1

\* A tick that holds nothing.
LEMMA HoldsNothing ==
  ASSUME NEW t \in Ticks, tick'[t].event = {}, tick'[t].batch = {}, tick'[t].scored = {},
         tick'[t].created = {}, tick'[t].pc \in {"idle", "asset"}
  PROVE  Holds(t)'
BY DEF Holds

\* A step of a tick keeps what it holds: what it takes is in the store.
LEMMA OwnHoldingKept ==
  ASSUME IInv, NEW t \in Ticks, TickStep(t) \/ TickFails(t)
  PROVE  Holds(t)'
<1> USE DEF IInv, TypeOK
<1>0. PICK s \in Sims : s = tick[t].sim
  BY TickStepShape
<1>1. /\ Holds(t) /\ tick[t] \in TickType /\ tick[t].pc # "idle" /\ sim[s] \in SimType
      /\ telemetry \subseteq telemetry' /\ findings \subseteq findings'
      /\ incidents \subseteq incidents' /\ findings \subseteq telemetry
      /\ sim[s].findingIds \subseteq sim'[s].findingIds
  BY <1>0, TickStepShape DEF TicksHold
<1>2. CASE IngestEvent(t)
  <2> DEFINE e == [sim |-> s, seq |-> sim[s].next + 1, source |-> EventSources[tick[t].template]]
  <2>1. /\ telemetry' = telemetry \cup {e} /\ e.sim = s
        /\ tick' = [tick EXCEPT ![t] = [tick[t] EXCEPT !.pc = "ingested", !.event = {e} \ telemetry]]
    BY <1>0, <1>2 DEF IngestEvent
  <2> HIDE DEF e
  <2>2. /\ tick'[t].pc = "ingested" /\ tick'[t].sim = s /\ tick'[t].event = {e} \ telemetry
        /\ tick'[t].scored = tick[t].scored /\ tick'[t].created = tick[t].created
    BY <1>0, <1>1, <2>1 DEF TickType
  <2> QED
    BY <1>0, <1>1, <2>1, <2>2 DEF Holds
<1>3. CASE RecordEvent(t)
  <2>1. /\ tick'[t].pc = "evaluate" /\ tick'[t].event = {}
        /\ tick'[t].scored = tick[t].scored /\ tick'[t].created = tick[t].created
    BY <1>0, <1>1, <1>3 DEF TickType, RecordEvent
  <2> QED
    BY <1>1, <2>1 DEF Holds
<1>4. CASE ListEvaluated(t)
  <2>1. /\ tick'[t].pc = "telemetry" /\ tick'[t].sim = s /\ tick'[t].event = tick[t].event
        /\ tick'[t].batch = evaluated
        /\ tick'[t].scored = tick[t].scored /\ tick'[t].created = tick[t].created
    BY <1>0, <1>1, <1>4 DEF TickType, ListEvaluated
  <2> QED
    BY <1>0, <1>1, <2>1 DEF Holds
<1>5. CASE ReadTelemetry(t)
  <2>1. PICK scored \in SUBSET (telemetry \ tick[t].batch) :
          tick' = [tick EXCEPT ![t] = [tick[t] EXCEPT !.pc = "save", !.scored = scored,
                                                      !.batch = telemetry \ tick[t].batch]]
    BY <1>5 DEF ReadTelemetry
  <2>2. /\ tick'[t].pc = "save" /\ tick'[t].sim = s /\ tick'[t].event = tick[t].event
        /\ tick'[t].batch = telemetry \ tick[t].batch
        /\ tick'[t].scored = scored /\ tick'[t].created = tick[t].created
    BY <1>0, <1>1, <2>1 DEF TickType
  <2> QED
    BY <1>0, <1>1, <2>2 DEF Holds
<1>6. ASSUME NEW e \in tick[t].scored, SaveFinding(t, e)
      PROVE  Holds(t)'
  <2>1. /\ tick'[t].pc = "save" /\ tick'[t].sim = s /\ tick'[t].event = tick[t].event
        /\ tick'[t].batch = tick[t].batch /\ tick[t].pc = "save"
        /\ tick'[t].scored = tick[t].scored \ {e}
        /\ tick'[t].created \subseteq tick[t].created \cup {e} /\ findings' = findings \cup {e}
    BY <1>0, <1>1, <1>6 DEF TickType, SaveFinding, CreatedBy
  <2> QED
    BY <1>0, <1>1, <2>1 DEF Holds
<1>10. ASSUME NEW e \in tick[t].batch, MarkEvaluated(t, e)
       PROVE  Holds(t)'
  <2>1. /\ tick'[t].pc = "save" /\ tick'[t].sim = s /\ tick'[t].event = tick[t].event
        /\ tick'[t].batch \subseteq tick[t].batch /\ tick[t].pc = "save"
        /\ tick'[t].scored = tick[t].scored /\ tick'[t].created = tick[t].created
    BY <1>0, <1>1, <1>10 DEF TickType, MarkEvaluated
  <2> QED
    BY <1>0, <1>1, <2>1 DEF Holds
<1>11. CASE RecordFindings(t)
  <2>1. /\ tick'[t].pc = "correlate" /\ tick'[t].sim = s /\ tick'[t].event = tick[t].event
        /\ tick'[t].scored = tick[t].scored /\ tick'[t].created = {}
        /\ tick'[t].unread = {"findings", "events", "incidents"}
    BY <1>0, <1>1, <1>11 DEF TickType, RecordFindings
  <2> QED
    BY <1>0, <1>1, <2>1 DEF Holds
<1>12. ASSUME NEW list \in tick[t].unread, ReadList(t, list)
       PROVE  Holds(t)'
  <2>1. /\ tick'[t].pc = "correlate" /\ tick'[t].sim = s /\ tick'[t].event = tick[t].event
        /\ tick'[t].batch = tick[t].batch \cap Listed[list] /\ tick[t].pc = "correlate"
        /\ tick'[t].unread = tick[t].unread \ {list}
        /\ tick'[t].scored = tick[t].scored /\ tick'[t].created = tick[t].created
    BY <1>0, <1>1, <1>12 DEF TickType, ReadList
  <2>2. list = "findings" => Listed[list] = findings
    BY DEF Listed
  <2> QED
    BY <1>0, <1>1, <2>1, <2>2 DEF Holds
<1>13. CASE FindCandidate(t)
  <2>1. /\ tick'[t].pc = "create" /\ tick'[t].sim = s /\ tick'[t].event = tick[t].event
        /\ tick'[t].batch = tick[t].batch
        /\ tick'[t].scored = tick[t].scored /\ tick'[t].created = tick[t].created
    BY <1>0, <1>1, <1>13 DEF TickType, FindCandidate
  <2>2. /\ tick[t].batch \subseteq findings /\ Cardinality(tick[t].batch) >= 2
        /\ tick[t].batch \cap sim[s].findingIds # {}
    BY <1>0, <1>1, <1>13, CandidateFacts
  <2> QED
    BY <1>0, <1>1, <2>1, <2>2 DEF Holds
<1>7. CASE NoCandidate(t) \/ FinishTick(t) \/ CreateConflicts(t) \/ TickFails(t) \/ RecordLastFindings(t)
  <2>1. tick'[t] = IdleTick
    BY <1>7 DEF NoCandidate, FinishTick, CreateConflicts, TickFails, RecordLastFindings
  <2> QED
    BY <2>1, HoldsNothing DEF IdleTick
<1>8. CASE CreateIncident(t)
  <2> DEFINE i == [sim |-> s, evidence |-> tick[t].batch]
  <2>1. /\ tick' = [tick EXCEPT ![t] = [tick[t] EXCEPT !.pc = "created", !.batch = {},
                                                      !.new = IncidentsOf(s) = {}]]
        /\ incidents' = incidents \cup {i}
        /\ tick[t].pc = "create"
    BY <1>0, <1>8 DEF CreateIncident
  <2>2. /\ tick'[t].pc = "created" /\ tick'[t].sim = s /\ tick'[t].event = tick[t].event
        /\ tick'[t].scored = tick[t].scored /\ tick'[t].created = tick[t].created
    BY <1>0, <1>1, <2>1 DEF TickType
  <2>3. i.sim = s /\ i.evidence \cap sim'[i.sim].findingIds # {}
    BY <1>0, <1>1, <2>1 DEF Holds
  <2>4. \E j \in incidents' : j.sim = s /\ j.evidence \cap sim'[j.sim].findingIds # {}
    BY <2>1, <2>3
  <2> HIDE DEF i
  <2> QED
    BY <1>0, <1>1, <2>2, <2>4 DEF Holds
<1>9. CASE RecordIncident(t)
  <2>1. /\ tick'[t].pc = "analyzed" /\ tick'[t].sim = s /\ tick'[t].event = tick[t].event
        /\ tick[t].pc = "created"
        /\ tick'[t].scored = tick[t].scored /\ tick'[t].created = tick[t].created
    BY <1>0, <1>1, <1>9 DEF TickType, RecordIncident
  <2>2. PICK i \in incidents : i.sim = s /\ i.evidence \cap sim[s].findingIds # {}
    BY <1>0, <1>1, <2>1 DEF Holds
  <2>3. i \in incidents' /\ i.evidence \cap sim'[s].findingIds # {}
    BY <1>1, <2>2
  <2> QED
    BY <1>0, <1>1, <2>1, <2>2, <2>3 DEF Holds
<1> QED
  BY <1>2, <1>3, <1>4, <1>5, <1>6, <1>7, <1>8, <1>9, <1>10, <1>11, <1>12, <1>13 DEF TickStep

\* A step keeps what the ticks hold.
LEMMA HoldingKept ==
  ASSUME IInv, Next
  PROVE  TicksHold'
<1> USE DEF IInv
<1>1. \A u \in Ticks : Holds(u) /\ (tick[u].sim \in Sims \/ tick[u].pc = "idle")
  BY TickHasSim DEF TicksHold
<1>2. ASSUME NEW t \in Ticks, TickStep(t) \/ TickFails(t)
      PROVE  TicksHold'
  <2>1. Holds(t)'
    BY <1>2, OwnHoldingKept
  <2>2. ASSUME NEW u \in Ticks \ {t}
        PROVE  Holds(u)'
    BY <1>1, <1>2, TickStepShape, HoldsWhileGrowing
  <2> QED
    BY <2>1, <2>2 DEF TicksHold
<1>3. ASSUME NEW s \in Sims, CheckActive(s) \/ StartStep(s) \/ TimerFires(s) \/ Stop(s)
      PROVE  TicksHold'
  <2>1. /\ storeVars' = storeVars
        /\ \A r \in Sims \ {s} : sim'[r] = sim[r]
    BY <1>3, StartShape
  <2>2. \A u \in Ticks : \A r \in Sims : tick[u].pc # "idle" /\ r = tick[u].sim =>
          sim[r].findingIds \subseteq sim'[r].findingIds
    BY <1>1, <1>3, <2>1, StartShape DEF NothingBeforeStart, InFlight
  <2>3. \A u \in Ticks : tick'[u] = tick[u] \/ tick'[u] = TickOf(s)
    BY <1>3, StartShape, Zenon
  <2>4. ASSUME NEW u \in Ticks
        PROVE  Holds(u)'
    <3>1. CASE tick'[u] = tick[u]
      BY <1>1, <2>1, <2>2, <3>1, HoldsWhileGrowing DEF storeVars
    <3>2. CASE tick'[u] = TickOf(s)
      BY <3>2, TickOfFacts, HoldsNothing
    <3> QED
      BY <2>3, <3>1, <3>2
  <2> QED
    BY <2>4 DEF TicksHold
<1> QED
  BY <1>2, <1>3 DEF Next

-----------------------------------------------------------------------------
(* Incidents.                                                              *)

\* A start request, the operator and an interval create and count no incident.
LEMMA StartCountsNothing ==
  ASSUME IInv, NEW s \in Sims, CheckActive(s) \/ StartStep(s) \/ TimerFires(s) \/ Stop(s)
  PROVE  /\ incidents' = incidents
         /\ \A r \in Sims : /\ sim'[r].incidents = sim[r].incidents /\ sim'[r].next = sim[r].next
                            /\ sim'[r].findingIds = sim[r].findingIds
                            /\ sim'[r].findingsCreated = sim[r].findingsCreated
                            /\ sim'[r].eventIds = sim[r].eventIds
         /\ \A u \in Ticks : ToldNew(u)' => tick'[u] = tick[u]
<1>1. storeVars' = storeVars /\ \A r \in Sims \ {s} : sim'[r] = sim[r]
  BY StartShape
<1>2. /\ sim'[s].incidents = sim[s].incidents /\ sim'[s].findingIds = sim[s].findingIds
      /\ sim'[s].eventIds = sim[s].eventIds /\ sim'[s].next = sim[s].next
      /\ sim'[s].findingsCreated = sim[s].findingsCreated
  BY StartShape DEF IInv, NothingBeforeStart, NotStarted, NewSim
<1>3. \A u \in Ticks : tick'[u] = tick[u] \/ tick'[u] = TickOf(s)
  BY StartShape, Zenon
<1> QED
  BY <1>1, <1>2, <1>3, TickOfFacts DEF storeVars, ToldNew

\* Whatever the order of its ticks, a simulation has one incident.
LEMMA OnePerSimKept ==
  ASSUME IInv, Next
  PROVE  OnePerSim'
<1> USE DEF IInv, TypeOK
<1>1. ASSUME NEW t \in Ticks, TickStep(t) \/ TickFails(t)
      PROVE  OnePerSim'
  <2>1. CASE ~CreateIncident(t)
    BY <1>1, <2>1, TickStepShape DEF OnePerSim
  <2>2. CASE CreateIncident(t)
    <3> DEFINE i == [sim |-> tick[t].sim, evidence |-> tick[t].batch]
    <3>1. incidents' = incidents \cup {i}
      BY <2>2 DEF CreateIncident
    <3>2. ASSUME NEW j \in incidents, j.sim = tick[t].sim
          PROVE  j = i
      <4>1. j.evidence = tick[t].batch
        BY <2>2, <3>2 DEF CreateIncident, IncidentsOf
      <4> QED
        BY <3>2, <4>1
    <3>3. i.sim = tick[t].sim
      OBVIOUS
    <3> HIDE DEF i
    <3> QED
      BY <3>1, <3>2, <3>3 DEF OnePerSim
  <2> QED
    BY <2>1, <2>2
<1>2. ASSUME NEW s \in Sims, CheckActive(s) \/ StartStep(s) \/ TimerFires(s) \/ Stop(s)
      PROVE  OnePerSim'
  BY <1>2, StartCountsNothing DEF OnePerSim
<1> QED
  BY <1>1, <1>2 DEF Next

\* A simulation counts the incident that a tick of it was told is new.
LEMMA CountedKept ==
  ASSUME IInv, Next
  PROVE  CountedExists'
<1> USE DEF IInv, TypeOK
<1>1. ASSUME NEW t \in Ticks, TickStep(t) \/ TickFails(t)
      PROVE  CountedExists'
  <2>0. PICK s \in Sims : s = tick[t].sim
    BY <1>1, TickStepShape
  <2>1. /\ \A r \in Sims \ {s} : sim'[r] = sim[r]
        /\ incidents \subseteq incidents' /\ sim[s].findingIds \subseteq sim'[s].findingIds
    BY <1>1, <2>0, TickStepShape
  <2>2. ASSUME NEW r \in Sims, sim[r].incidents > 0
        PROVE  \E i \in IncidentsOf(r)' : i.evidence \cap sim'[r].findingIds # {}
    BY <2>1, <2>2 DEF CountedExists, IncidentsOf
  <2>3. CASE ~RecordIncident(t)
    <3>1. \A r \in Sims : sim'[r].incidents = sim[r].incidents
      BY <1>1, <2>0, <2>1, <2>3, TickStepShape
    <3> QED
      BY <2>2, <3>1 DEF CountedExists
  <2>4. CASE RecordIncident(t)
    <3>1. PICK i \in incidents : i.sim = s /\ i.evidence \cap sim[s].findingIds # {}
      BY <2>0, <2>4 DEF RecordIncident, TicksHold, Holds
    <3>2. i \in IncidentsOf(s)' /\ i.evidence \cap sim'[s].findingIds # {}
      BY <2>1, <3>1 DEF IncidentsOf
    <3> QED
      BY <2>1, <2>2, <3>2 DEF CountedExists
  <2> QED
    BY <2>3, <2>4
<1>2. ASSUME NEW s \in Sims, CheckActive(s) \/ StartStep(s) \/ TimerFires(s) \/ Stop(s)
      PROVE  CountedExists'
  BY <1>2, StartCountsNothing DEF CountedExists, IncidentsOf
<1> QED
  BY <1>1, <1>2 DEF Next

\* At most one tick of a simulation is told so, before it is counted.
LEMMA NewIsToldKept ==
  ASSUME IInv, Next
  PROVE  NewIsTold'
<1> USE DEF IInv, TypeOK
<1>1. ASSUME NEW t \in Ticks, TickStep(t) \/ TickFails(t)
      PROVE  NewIsTold'
  <2>0. PICK s \in Sims : s = tick[t].sim
    BY <1>1, TickStepShape
  <2>1. /\ \A r \in Sims \ {s} : sim'[r] = sim[r]
        /\ \A u \in Ticks \ {t} : tick'[u] = tick[u]
        /\ ~RecordIncident(t) => sim'[s].incidents = sim[s].incidents
        /\ tick[t] \in TickType /\ tick[t].pc # "idle"
    BY <1>1, <2>0, TickStepShape
  <2>2. \A u \in Ticks : ToldNew(u) => tick[u].sim \in Sims
    BY TickHasSim DEF ToldNew
  <2>3. CASE CreateIncident(t)
    <3>1. tick'[t] = [tick[t] EXCEPT !.pc = "created", !.batch = {}, !.new = IncidentsOf(s) = {}]
      BY <2>0, <2>3 DEF CreateIncident
    <3>2. tick'[t].sim = s /\ (ToldNew(t)' => IncidentsOf(s) = {})
      BY <2>0, <2>1, <3>1 DEF TickType, ToldNew
    <3>3. ToldNew(t)' => sim[s].incidents = 0
      BY <2>0, <3>2 DEF CountedExists, SimType
    <3>4. ASSUME NEW u \in Ticks, ToldNew(u), tick[u].sim = s
          PROVE  IncidentsOf(s) # {}
      <4>1. \E i \in incidents : i.sim = s
        BY <3>4 DEF ToldNew, TicksHold, Holds
      <4> QED
        BY <4>1 DEF IncidentsOf
    <3>5. \A r \in Sims : sim'[r].incidents = sim[r].incidents
      BY <2>1, <2>3 DEF CreateIncident
    <3> QED
      BY <2>1, <2>2, <3>2, <3>3, <3>4, <3>5 DEF NewIsTold, ToldNew
  <2>4. CASE RecordIncident(t)
    <3>1. ToldNew(t) /\ ~ToldNew(t)'
      BY <2>1, <2>4 DEF RecordIncident, ToldNew, TickType
    <3>2. \A u \in Ticks \ {t} : ToldNew(u) => tick[u].sim # s
      BY <2>0, <3>1 DEF NewIsTold
    <3> QED
      BY <2>1, <2>2, <3>1, <3>2 DEF NewIsTold, ToldNew
  <2>5. CASE ~CreateIncident(t) /\ ~RecordIncident(t)
    <3>1. tick'[t].pc # "created"
      BY <1>1, <2>5, TickStepShape
    <3> QED
      BY <2>1, <2>2, <2>5, <3>1 DEF NewIsTold, ToldNew
  <2> QED
    BY <2>3, <2>4, <2>5
<1>2. ASSUME NEW s \in Sims, CheckActive(s) \/ StartStep(s) \/ TimerFires(s) \/ Stop(s)
      PROVE  NewIsTold'
  <2>1. \A u \in Ticks : ToldNew(u)' => tick'[u] = tick[u] /\ ToldNew(u) /\ tick[u].sim \in Sims
    BY <1>2, StartCountsNothing, TickHasSim DEF ToldNew
  <2> QED
    BY <1>2, <2>1, StartCountsNothing DEF NewIsTold
<1> QED
  BY <1>1, <1>2 DEF Next

-----------------------------------------------------------------------------
(* Reports.                                                                *)

\* What a tick takes over.
LEMMA TakenOver ==
  ASSUME IInv, NEW t \in Ticks, Reports(t), NEW s \in Sims, s = tick[t].sim
  PROVE  LET own == OwnFindings(s, tick[t].created)
         IN  /\ own \subseteq tick[t].created /\ IsFiniteSet(own)
             /\ sim'[s].findingIds = sim[s].findingIds \cup own
             /\ sim'[s].findingsCreated = sim[s].findingsCreated + Cardinality(own)
             /\ tick'[t].created = {}
<1> DEFINE own == OwnFindings(s, tick[t].created)
           n == sim[s].findingsCreated + Cardinality(own)
<1> USE DEF IInv, TypeOK
<1>1. /\ own \subseteq tick[t].created /\ IsFiniteSet(own) /\ Reported(t) \in SimType
      /\ Reported(t) = [sim[s] EXCEPT !.findingIds = sim[s].findingIds \cup own,
                                     !.findingsCreated = n]
  BY ReportedFacts
<1>2. sim'[s] = Reported(t) \/ sim'[s] = Ended(Reported(t))
  BY DEF Reports, RecordFindings, RecordLastFindings
<1>3. tick'[t].created = {}
  <2>1. IdleTick.created = {} /\ tick[t] \in TickType
    BY DEF IdleTick
  <2>2. CASE RecordFindings(t)
    BY <2>1, <2>2 DEF RecordFindings, TickType
  <2>3. CASE RecordLastFindings(t)
    BY <2>1, <2>3 DEF RecordLastFindings
  <2> QED
    BY <2>2, <2>3 DEF Reports
<1> HIDE DEF own, n
<1>4. Reported(t).findingIds = sim[s].findingIds \cup own /\ Reported(t).findingsCreated = n
  BY <1>1 DEF SimType
<1>5. /\ Ended(Reported(t)).findingIds = Reported(t).findingIds
      /\ Ended(Reported(t)).findingsCreated = Reported(t).findingsCreated
  BY <1>1 DEF Ended, Final, SimType
<1> QED
  BY <1>1, <1>2, <1>3, <1>4, <1>5 DEF own, n

\* A simulation adds its own to what it reports: the event its tick stored, and
\* of the findings that its tick was the first to save those about its events.
LEMMA ReportsKept ==
  ASSUME IInv, Next
  PROVE  ReportsOwn'
<1> USE DEF IInv, TypeOK
<1>1. ASSUME NEW t \in Ticks, TickStep(t) \/ TickFails(t)
      PROVE  ReportsOwn'
  <2>0. PICK s \in Sims : s = tick[t].sim
    BY <1>1, TickStepShape
  <2>1. /\ \A r \in Sims \ {s} : sim'[r] = sim[r]
        /\ telemetry \subseteq telemetry' /\ findings \subseteq findings'
        /\ ~RecordEvent(t) => sim'[s].eventIds = sim[s].eventIds
        /\ ~Reports(t) => sim'[s].findingIds = sim[s].findingIds
        /\ sim[s].eventIds \subseteq sim'[s].eventIds /\ sim[s] \in SimType
    BY <1>1, <2>0, TickStepShape
  <2>2. sim'[s].eventIds \subseteq {e \in telemetry' : e.sim = s}
    <3>1. CASE RecordEvent(t)
      <4>1. sim'[s].eventIds = sim[s].eventIds \cup tick[t].event
        BY <2>0, <2>1, <3>1 DEF RecordEvent, SimType
      <4>2. tick[t].event \subseteq {e \in telemetry : e.sim = s}
        BY <2>0 DEF TicksHold, Holds
      <4> QED
        BY <2>1, <4>1, <4>2 DEF ReportsOwn
    <3> QED
      BY <2>1, <3>1 DEF ReportsOwn
  <2>3. sim'[s].findingIds \subseteq sim'[s].eventIds \cap findings'
    <3>1. CASE Reports(t)
      <4>1. sim'[s].findingIds \subseteq sim[s].findingIds \cup OwnFindings(s, tick[t].created)
        BY <1>1, <2>0, <3>1, TakenOver
      <4>2. tick[t].created \subseteq findings
        BY DEF TicksHold, Holds
      <4> QED
        BY <2>1, <4>1, <4>2 DEF ReportsOwn, OwnFindings
    <3> QED
      BY <2>1, <3>1 DEF ReportsOwn
  <2> QED
    BY <2>1, <2>2, <2>3 DEF ReportsOwn
<1>2. ASSUME NEW s \in Sims, CheckActive(s) \/ StartStep(s) \/ TimerFires(s) \/ Stop(s)
      PROVE  ReportsOwn'
  BY <1>2, StartCountsNothing, StartShape DEF ReportsOwn, storeVars
<1> QED
  BY <1>1, <1>2 DEF Next

\* Each finding is told as created to one tick, which takes it over once.
LEMMA FoundOnceKept ==
  ASSUME IInv, Next
  PROVE  FoundOnce'
<1> USE DEF IInv
<1>1. ASSUME NEW t \in Ticks, TickStep(t) \/ TickFails(t)
      PROVE  FoundOnce'
  <2>0. PICK s \in Sims : s = tick[t].sim
    BY <1>1, TickStepShape
  <2>1. /\ \A r \in Sims \ {s} : sim'[r] = sim[r]
        /\ \A u \in Ticks \ {t} : tick'[u] = tick[u]
        /\ ~Reports(t) => /\ sim'[s].findingIds = sim[s].findingIds
                          /\ sim'[s].findingsCreated = sim[s].findingsCreated
        /\ ~Saves(t) => tick'[t].created \subseteq tick[t].created
    BY <1>1, <2>0, TickStepShape
  <2>2. CASE Saves(t)
    <3>1. PICK e \in tick[t].scored : SaveFinding(t, e)
      BY <2>2 DEF Saves
    <3>2. sim' = sim /\ tick'[t].created = tick[t].created \cup ({e} \ findings)
      BY <3>1 DEF SaveFinding, CreatedBy, TypeOK, TickType
    <3>3. /\ \A u \in Ticks : tick[u].created \subseteq findings
          /\ \A r \in Sims : sim[r].findingIds \subseteq findings
      BY DEF TicksHold, Holds, ReportsOwn
    <3>4. IsFiniteSet(tick'[t].created)
      <4>1. IsFiniteSet({e} \ findings)
        BY FS_Singleton, FS_Subset
      <4>2. IsFiniteSet(tick[t].created)
        BY DEF FoundOnce
      <4>3. IsFiniteSet(tick[t].created \cup ({e} \ findings))
        BY <4>1, <4>2, FS_Union
      <4> QED
        BY <3>2, <4>3
    <3> QED
      BY <2>1, <3>2, <3>3, <3>4 DEF FoundOnce
  <2>3. CASE Reports(t)
    <3> DEFINE own == OwnFindings(s, tick[t].created)
    <3>1. /\ own \subseteq tick[t].created /\ IsFiniteSet(own)
          /\ sim'[s].findingIds = sim[s].findingIds \cup own
          /\ sim'[s].findingsCreated = sim[s].findingsCreated + Cardinality(own)
          /\ tick'[t].created = {}
      BY <2>0, <2>3, TakenOver
    <3> HIDE DEF own
    <3>2. sim[s].findingIds \cap own = {} /\ IsFiniteSet(sim[s].findingIds)
      BY <3>1 DEF FoundOnce
    <3>3. /\ IsFiniteSet(sim'[s].findingIds)
          /\ Cardinality(sim'[s].findingIds) =
               Cardinality(sim[s].findingIds) + Cardinality(own) - Cardinality(sim[s].findingIds \cap own)
      BY <3>1, <3>2, FS_Union
    <3>4. Cardinality(sim[s].findingIds \cap own) = 0
      BY <3>2, FS_EmptySet
    <3>5. Cardinality(sim[s].findingIds) \in Nat /\ Cardinality(own) \in Nat
      BY <3>1, <3>2, FS_CardinalityType
    <3>6. sim'[s].findingsCreated = Cardinality(sim'[s].findingIds)
      BY <3>1, <3>3, <3>4, <3>5 DEF FoundOnce
    <3>7. \A u \in Ticks \ {t} : tick[u].created \cap own = {}
      BY <3>1 DEF FoundOnce
    <3>8. IsFiniteSet(tick'[t].created)
      BY <3>1, FS_EmptySet
    <3>9. /\ \A u \in Ticks : IsFiniteSet(tick'[u].created)
          /\ \A r \in Sims : /\ IsFiniteSet(sim'[r].findingIds)
                            /\ sim'[r].findingsCreated = Cardinality(sim'[r].findingIds)
      BY <2>1, <3>3, <3>6, <3>8 DEF FoundOnce
    <3>10. \A u, v \in Ticks : u # v => tick'[u].created \cap tick'[v].created = {}
      BY <2>1, <3>1 DEF FoundOnce
    <3>11. \A u \in Ticks, r \in Sims : tick'[u].created \cap sim'[r].findingIds = {}
      BY <2>1, <3>1, <3>7 DEF FoundOnce
    <3> QED
      BY <3>9, <3>10, <3>11 DEF FoundOnce
  <2>4. CASE ~Saves(t) /\ ~Reports(t)
    <3>1. IsFiniteSet(tick'[t].created) /\ tick'[t].created \subseteq tick[t].created
      BY <2>1, <2>4, FS_Subset DEF FoundOnce
    <3> QED
      BY <2>1, <2>4, <3>1 DEF FoundOnce
  <2> QED
    BY <2>2, <2>3, <2>4
<1>2. ASSUME NEW s \in Sims, CheckActive(s) \/ StartStep(s) \/ TimerFires(s) \/ Stop(s)
      PROVE  FoundOnce'
  <2>1. \A u \in Ticks : tick'[u] = tick[u] \/ tick'[u].created = {}
    BY <1>2, StartShape, TickOfFacts
  <2>2. \A r \in Sims : /\ sim'[r].findingIds = sim[r].findingIds
                        /\ sim'[r].findingsCreated = sim[r].findingsCreated
    BY <1>2, StartCountsNothing
  <2> QED
    BY <2>1, <2>2, FS_EmptySet DEF FoundOnce
<1> QED
  BY <1>1, <1>2 DEF Next

-----------------------------------------------------------------------------
(* The in-memory store.                                                    *)

\* How a start request, the operator and an interval change a status.
LEMMA StartStatus ==
  ASSUME IInv, NEW s \in Sims, CheckActive(s) \/ StartStep(s) \/ TimerFires(s) \/ Stop(s)
  PROVE  \/ sim'[s].status = sim[s].status
         \/ /\ sim[s].status = "none" /\ sim'[s].status = "running"
            /\ \E t \in Ticks : CreateSimulation(s, t)
         \/ sim[s].status = "running" /\ sim'[s].status = "stopped" /\ Stop(s)
         \/ sim[s].status = "running" /\ sim'[s].status = "completed" /\ BeginTickExhausted(s)
<1> USE DEF IInv, TypeOK
<1>1. CASE CheckActive(s) \/ \E t \in Ticks : BeginTick(s, t)
  BY <1>1 DEF CheckActive, BeginTick
<1>2. CASE \E t \in Ticks : CreateSimulation(s, t)
  <2>1. sim'[s] = NewSim /\ sim[s] = NotStarted
    BY <1>2 DEF CreateSimulation, NothingBeforeStart
  <2> QED
    BY <1>2, <2>1 DEF NotStarted, NewSim
<1>3. CASE SetTimer(s)
  BY <1>3 DEF SetTimer, SimType
<1>4. CASE Stop(s)
  <2>1. sim'[s] = [sim[s] EXCEPT !.timer = FALSE,
                                 !.status = IF @ = "running" THEN "stopped" ELSE @]
    BY <1>4 DEF Stop
  <2> QED
    BY <1>4, <2>1 DEF SimType
<1>5. CASE BeginTickExhausted(s)
  <2>1. sim'[s] = Final(sim[s], "completed") /\ sim[s].status = "running"
    BY <1>5 DEF BeginTickExhausted
  <2> QED
    BY <1>5, <2>1 DEF SimType, Final
<1> QED
  BY <1>1, <1>2, <1>3, <1>4, <1>5 DEF StartStep, TimerFires

\* What a start request, the operator and an interval find and leave.
LEMMA SerialStart ==
  ASSUME IInv, dataStore = "memory", NEW s \in Sims,
         CheckActive(s) \/ StartStep(s) \/ TimerFires(s) \/ Stop(s)
  PROVE  (OneAtATime /\ OneRuns)'
<1> USE DEF IInv, TypeOK
<1>0. Serial /\ \A r \in Sims \ {s} : sim'[r] = sim[r] /\ request'[r] = request[r]
  BY StartShape
<1> USE <1>0 DEF Serial
<1>1. Quiet => /\ \A t \in Ticks : tick[t].pc = "idle"
               /\ \A r \in Sims : ~Starting(r)
  BY DEF Quiet, Starting
<1>2. CASE CheckActive(s)
  <2>1. /\ tick' = tick /\ sim' = sim /\ request'[s] = "checked" /\ Quiet
        /\ \A r \in Sims : sim[r].status # "running"
    BY <1>2 DEF CheckActive
  <2> QED
    BY <1>1, <2>1 DEF OneAtATime, OneRuns, Starting
<1>3. ASSUME NEW t \in Ticks, CreateSimulation(s, t)
      PROVE  (OneAtATime /\ OneRuns)'
  <2>1. /\ request[s] = "checked" /\ request'[s] = "ticking"
        /\ tick'[t] = TickOf(s) /\ \A u \in Ticks \ {t} : tick'[u] = tick[u]
        /\ sim'[s] = NewSim
    BY <1>3 DEF CreateSimulation
  <2>2. /\ \A u \in Ticks : tick[u].pc = "idle"
        /\ \A r \in Sims \ {s} : ~Starting(r)
        /\ \A r \in Sims : sim[r].status # "running"
    BY <2>1 DEF OneAtATime, OneRuns, Starting
  <2>3. OneAtATime'
    BY <2>1, <2>2, TickOfFacts DEF OneAtATime, Starting
  <2>4. OneRuns'
    BY <2>1, <2>2, TickOfFacts DEF OneRuns, NewSim, Starting
  <2> QED
    BY <2>3, <2>4
<1>4. CASE SetTimer(s)
  <2>1. /\ tick' = tick /\ request'[s] = "done" /\ sim'[s].status = sim[s].status
    BY <1>4 DEF SetTimer, SimType
  <2> QED
    BY <2>1, TickHasSim DEF OneAtATime, OneRuns, Starting
<1>5. ASSUME NEW t \in Ticks, BeginTick(s, t)
      PROVE  (OneAtATime /\ OneRuns)'
  <2>1. /\ request' = request /\ sim' = sim /\ Quiet /\ sim[s].status = "running"
        /\ tick'[t] = TickOf(s) /\ \A u \in Ticks \ {t} : tick'[u] = tick[u]
    BY <1>5 DEF BeginTick
  <2> QED
    BY <1>1, <2>1, TickOfFacts DEF OneAtATime, OneRuns, Starting
<1>6. CASE BeginTickExhausted(s) \/ Stop(s)
  <2>1. tick' = tick /\ request' = request /\ Quiet
    BY <1>6 DEF BeginTickExhausted, Stop
  <2>2. sim'[s].status = "running" => sim[s].status = "running"
    BY <1>6, StartStatus DEF BeginTickExhausted, Stop
  <2> QED
    BY <1>1, <2>1, <2>2 DEF OneAtATime, OneRuns, Starting
<1> QED
  BY <1>2, <1>3, <1>4, <1>5, <1>6 DEF StartStep, TimerFires

\* A tick is alone, and its simulation runs until it ends.
LEMMA SerialTick ==
  ASSUME IInv, dataStore = "memory", NEW t \in Ticks, TickStep(t) \/ TickFails(t)
  PROVE  (OneAtATime /\ OneRuns)'
<1> USE DEF IInv
<1>1. PICK s \in Sims : s = tick[t].sim
  BY TickStepShape
<1>2. /\ Serial /\ tick[t].pc # "idle" /\ request' = request
      /\ \A u \in Ticks \ {t} : tick'[u] = tick[u]
      /\ \A r \in Sims \ {s} : sim'[r] = sim[r]
      /\ tick'[t] = IdleTick \/ (tick'[t].pc # "idle" /\ tick'[t].sim = s)
      /\ \/ sim'[s].status = sim[s].status
         \/ sim'[s].status \in {"completed", "failed"} /\ tick'[t] = IdleTick
  BY <1>1, TickStepShape
<1>3. (\A u \in Ticks \ {t} : tick[u].pc = "idle") /\ sim[s].status = "running"
  BY <1>1, <1>2 DEF Serial, OneAtATime, OneRuns
<1>4. OneAtATime'
  BY <1>1, <1>2, <1>3 DEF Serial, OneAtATime, Starting, IdleTick
<1>5. OneRuns'
  BY <1>1, <1>2, <1>3 DEF Serial, OneRuns, Starting, IdleTick
<1> QED
  BY <1>4, <1>5

\* The scenario grows by its next event.
LEMMA ScenarioGrows ==
  ASSUME NEW s, NEW n \in Nat
  PROVE  Scenario(s, n + 1) =
           Scenario(s, n) \cup {[sim |-> s, seq |-> n + 1, source |-> EventSources[n + 1]]}
<1>1. 1..(n + 1) = 1..n \cup {n + 1}
  OBVIOUS
<1> QED
  BY <1>1 DEF Scenario

\* The event that comes next in a scenario is not one of those before it.
LEMMA NextIsNew ==
  ASSUME NEW s, NEW n \in Nat
  PROVE  [sim |-> s, seq |-> n + 1, source |-> EventSources[n + 1]] \notin Scenario(s, n)
<1> DEFINE event(m) == [sim |-> s, seq |-> m, source |-> EventSources[m]]
<1>1. \A m \in 1..n : event(m).seq = m /\ event(n + 1).seq = n + 1 /\ n + 1 # m
  OBVIOUS
<1>2. \A m \in 1..n : event(m) # event(n + 1)
  BY <1>1
<1> QED
  BY <1>2, Zenon DEF Scenario

\* Events are emitted in order by the steps of a tick.
LEMMA OrderKeptByTick ==
  ASSUME IInv, dataStore = "memory", NEW t \in Ticks, TickStep(t) \/ TickFails(t)
  PROVE  InOrder'
<1> USE DEF IInv, TypeOK
<1>1. PICK s \in Sims : s = tick[t].sim
  BY TickStepShape
<1>2. /\ Serial /\ tick[t].pc # "idle" /\ tick[t] \in TickType /\ sim[s] \in SimType
      /\ \A u \in Ticks \ {t} : tick'[u] = tick[u]
      /\ \A r \in Sims \ {s} : sim'[r] = sim[r]
      /\ tick'[t] = IdleTick \/ (tick'[t].pc # "idle" /\ tick'[t].sim = s)
      /\ ~RecordEvent(t) => sim'[s].next = sim[s].next /\ sim'[s].eventIds = sim[s].eventIds
      /\ ~IngestEvent(t) => telemetry' = telemetry /\ tick'[t].pc \notin {"asset", "ingested"}
  BY <1>1, TickStepShape
<1>3. /\ \A u \in Ticks \ {t} : tick[u].pc = "idle"
      /\ \A u \in Ticks \ {t} : tick'[u].pc = "idle"
      /\ \A r \in Sims \ {s} : InFlight(r) = {} /\ InFlight(r)' = {}
  BY <1>1, <1>2, NoSimAssumption DEF Serial, OneAtATime, InFlight, TicksBelong, IdleTick
<1>4. /\ sim[s].next \in Nat /\ sim[s].next <= EventCount /\ sim[s].eventIds = Scenario(s, sim[s].next)
      /\ sim[s].status = "running"
  BY <1>1, <1>2, EventCountFacts DEF Serial, InOrder, SimType, OneRuns
<1> DEFINE e == [sim |-> s, seq |-> sim[s].next + 1, source |-> EventSources[sim[s].next + 1]]
           Own(T) == {d \in T : d.sim = s}
<1>5. CASE IngestEvent(t)
  <2>1. tick[t].template = sim[s].next + 1 /\ Own(telemetry) = Scenario(s, sim[s].next)
    BY <1>1, <1>2, <1>3, <1>5 DEF Serial, InOrder, IngestEvent, InFlight
  <2>2. /\ telemetry' = telemetry \cup {e}
        /\ tick'[t] = [tick[t] EXCEPT !.pc = "ingested", !.event = {e} \ telemetry]
        /\ sim' = sim
    BY <1>1, <1>5, <2>1 DEF IngestEvent
  <2>3. e.sim = s /\ e \notin telemetry
    BY <1>4, <2>1, NextIsNew
  <2>4. /\ tick'[t].pc = "ingested" /\ tick'[t].event = {e}
        /\ tick'[t].template = sim[s].next + 1 /\ tick'[t].sim = s
    BY <1>1, <1>2, <2>1, <2>2, <2>3 DEF TickType
  <2>5. Own(telemetry') = Scenario(s, sim[s].next) \cup {e}
    BY <2>1, <2>2, <2>3
  <2>6. \A r \in Sims \ {s} : {d \in telemetry' : d.sim = r} = {d \in telemetry : d.sim = r}
    BY <2>2, <2>3
  <2>7. t \in InFlight(s)'
    BY <2>4 DEF InFlight
  <2> HIDE DEF e
  <2>8. ASSUME NEW r \in Sims
        PROVE  /\ sim'[r].next <= EventCount
               /\ sim'[r].status = "completed" => sim'[r].next = EventCount
               /\ sim'[r].eventIds = Scenario(r, sim'[r].next)
               /\ (\A u \in InFlight(r)' : tick'[u].pc # "ingested")
                    => {d \in telemetry' : d.sim = r} = Scenario(r, sim'[r].next)
    <3>1. CASE r = s
      BY <1>2, <2>2, <2>4, <2>7, <3>1 DEF Serial, InOrder
    <3>2. CASE r # s
      BY <1>2, <1>3, <2>2, <2>6, <3>2 DEF Serial, InOrder
    <3> QED
      BY <3>1, <3>2
  <2>9. ASSUME NEW u \in Ticks, tick'[u].pc # "idle"
        PROVE  u = t
    BY <1>3, <2>9
  <2>10. ASSUME NEW u \in Ticks
         PROVE  /\ tick'[u].pc \in {"asset", "ingested"} =>
                     tick'[u].template = sim'[tick'[u].sim].next + 1
                /\ tick'[u].pc = "ingested" =>
                     /\ tick'[u].event =
                          {[sim |-> tick'[u].sim, seq |-> sim'[tick'[u].sim].next + 1,
                            source |-> EventSources[sim'[tick'[u].sim].next + 1]]}
                     /\ {d \in telemetry' : d.sim = tick'[u].sim}
                          = Scenario(tick'[u].sim, sim'[tick'[u].sim].next)
                            \cup {[sim |-> tick'[u].sim, seq |-> sim'[tick'[u].sim].next + 1,
                                   source |-> EventSources[sim'[tick'[u].sim].next + 1]]}
    <3>1. CASE u = t
      BY <2>2, <2>4, <2>5, <3>1, Zenon DEF e
    <3>2. CASE u # t
      BY <2>9, <3>2
    <3> QED
      BY <3>1, <3>2
  <2> QED
    BY <2>8, <2>10, Zenon DEF InOrder, Scenario
<1>6. CASE ~IngestEvent(t)
  <2>1. \A u \in Ticks : tick'[u].pc \notin {"asset", "ingested"}
    BY <1>2, <1>3, <1>6
  <2>2. telemetry' = telemetry
    BY <1>2, <1>6
  <2>3. /\ sim'[s].next \in Nat /\ sim'[s].next <= EventCount
        /\ sim'[s].eventIds = Scenario(s, sim'[s].next)
        /\ Own(telemetry) = Scenario(s, sim'[s].next)
    <3>1. CASE RecordEvent(t)
      <4>1. tick[t].template = sim[s].next + 1 /\ tick[t].event = {e} /\ tick[t].template <= EventCount
        BY <1>1, <1>2, <3>1, EventCountFacts DEF RecordEvent, Serial, InOrder, TickType
      <4>2. Own(telemetry) = Scenario(s, sim[s].next) \cup {e}
        BY <1>1, <3>1 DEF RecordEvent, Serial, InOrder
      <4>3. sim'[s].eventIds = sim[s].eventIds \cup tick[t].event /\ sim'[s].next = sim[s].next + 1
        BY <1>1, <1>2, <3>1 DEF RecordEvent, SimType
      <4> HIDE DEF e
      <4> QED
        BY <1>4, <4>1, <4>2, <4>3, ScenarioGrows DEF e
    <3>2. CASE ~RecordEvent(t)
      <4>1. tick[t].pc # "ingested"
        BY <1>6, <3>2 DEF TickStep, TickFails, IngestEvent, RecordEvent, ListEvaluated, ReadTelemetry,
              SaveFinding, MarkEvaluated, RecordFindings, RecordLastFindings, EvaluationIsOver, ReadList,
              FindCandidate, NoCandidate, CreateIncident, CreateConflicts, RecordIncident, FinishTick
      <4>2. \A u \in InFlight(s) : tick[u].pc # "ingested"
        BY <1>3, <4>1 DEF InFlight
      <4>3. Own(telemetry) = Scenario(s, sim[s].next)
        BY <1>2, <4>2 DEF Serial, InOrder
      <4> QED
        BY <1>2, <1>4, <3>2, <4>3
    <3> QED
      BY <3>1, <3>2
  <2>4. sim'[s].status = "completed" => sim'[s].next = EventCount
    <3>1. CASE NoCandidate(t) \/ FinishTick(t) \/ RecordLastFindings(t)
      <4>1. PICK k \in SimType : sim'[s] = Ended(k) /\ k.next = sim[s].next /\ k.status = "running"
        <5>1. CASE NoCandidate(t) \/ FinishTick(t)
          BY <1>1, <1>2, <1>4, <5>1 DEF NoCandidate, FinishTick
        <5>2. CASE RecordLastFindings(t)
          <6>1. PICK F, n : Reported(t) = [sim[s] EXCEPT !.findingIds = F, !.findingsCreated = n]
            BY <1>1 DEF Reported
          <6>2. Reported(t) \in SimType
            BY <1>1, ReportedFacts
          <6>3. Reported(t).next = sim[s].next /\ Reported(t).status = "running"
            BY <1>2, <1>4, <6>1 DEF SimType
          <6> QED
            BY <1>1, <5>2, <6>2, <6>3 DEF RecordLastFindings
        <5> QED
          BY <3>1, <5>1, <5>2
      <4>2. sim'[s].status = "completed" => sim'[s].next >= EventCount
        BY <4>1 DEF Ended, Final, SimType
      <4>3. \A m \in Nat : m <= EventCount /\ m >= EventCount => m = EventCount
        BY EventCountFacts
      <4> QED
        BY <2>3, <4>2, <4>3, Zenon
    <3>2. CASE ~(NoCandidate(t) \/ FinishTick(t) \/ RecordLastFindings(t))
      <4>1. sim'[s].status # "completed"
        <5>1. CASE RecordEvent(t)
          BY <1>1, <1>2, <1>4, <5>1 DEF RecordEvent, SimType
        <5>2. CASE RecordFindings(t)
          <6>1. PICK F, n : sim'[s] = [sim[s] EXCEPT !.findingIds = F, !.findingsCreated = n]
            BY <1>1, <5>2 DEF RecordFindings, Reported
          <6> QED
            BY <1>2, <1>4, <6>1 DEF SimType
        <5>3. CASE RecordIncident(t)
          BY <1>1, <1>2, <1>4, <5>3 DEF RecordIncident, SimType
        <5>4. CASE \/ ListEvaluated(t) \/ ReadTelemetry(t) \/ FindCandidate(t) \/ CreateIncident(t)
                   \/ \E d \in tick[t].scored : SaveFinding(t, d)
                   \/ \E d \in tick[t].batch : MarkEvaluated(t, d)
                   \/ \E list \in tick[t].unread : ReadList(t, list)
          BY <1>4, <5>4 DEF ListEvaluated, ReadTelemetry, FindCandidate, CreateIncident, SaveFinding,
                            MarkEvaluated, ReadList
        <5>5. CASE CreateConflicts(t) \/ TickFails(t)
          <6>1. sim'[s] = Final(sim[s], "failed")
            BY <1>1, <5>5 DEF CreateConflicts, TickFails
          <6> QED
            BY <1>2, <6>1 DEF Final, SimType
        <5> QED
          BY <1>6, <3>2, <5>1, <5>2, <5>3, <5>4, <5>5 DEF TickStep
      <4> QED
        BY <4>1
    <3> QED
      BY <3>1, <3>2
  <2>5. ASSUME NEW r \in Sims \ {s}
        PROVE  /\ sim'[r].next <= EventCount
               /\ sim'[r].status = "completed" => sim'[r].next = EventCount
               /\ sim'[r].eventIds = Scenario(r, sim'[r].next)
               /\ {d \in telemetry' : d.sim = r} = Scenario(r, sim'[r].next)
    BY <1>2, <1>3, <2>2 DEF Serial, InOrder
  <2> QED
    BY <2>1, <2>2, <2>3, <2>4, <2>5 DEF InOrder
<1> QED
  BY <1>5, <1>6

\* A start request, the operator and an interval keep the order: a tick begins
\* with the template that is next, and completion finds none left.
LEMMA OrderKeptByStart ==
  ASSUME IInv, dataStore = "memory", NEW s \in Sims,
         CheckActive(s) \/ StartStep(s) \/ TimerFires(s) \/ Stop(s)
  PROVE  InOrder'
<1> USE DEF IInv
<1>1. /\ Serial /\ telemetry' = telemetry
      /\ \A r \in Sims \ {s} : sim'[r] = sim[r]
      /\ \A r \in Sims : sim'[r].next = sim[r].next /\ sim'[r].eventIds = sim[r].eventIds
      /\ \A u \in Ticks : tick'[u] = tick[u] \/ (tick'[u] = TickOf(s) /\ tick[u].pc = "idle")
  BY StartShape, StartCountsNothing DEF storeVars
<1>2. \A u \in Ticks : tick'[u].pc = "ingested" => tick'[u] = tick[u]
  BY <1>1, TickOfFacts
<1>3. \A u \in Ticks : tick[u].pc = "ingested" => tick'[u] = tick[u]
  BY <1>1
<1>4. \A r \in Sims : (\A u \in InFlight(r)' : tick'[u].pc # "ingested")
                        => \A u \in InFlight(r) : tick[u].pc # "ingested"
  BY <1>3 DEF InFlight
<1>5. sim'[s].status = "completed" => sim'[s].next = EventCount
  <2>1. CASE BeginTickExhausted(s)
    <3>1. sim[s].next >= EventCount /\ sim[s].next <= EventCount /\ sim[s].next \in Nat
      BY <1>1, <2>1, EventCountFacts DEF BeginTickExhausted, Serial, InOrder, TypeOK, SimType
    <3> QED
      BY <1>1, <3>1, EventCountFacts
  <2>2. CASE ~BeginTickExhausted(s)
    BY <1>1, <2>2, StartStatus DEF Serial, InOrder
  <2> QED
    BY <2>1, <2>2
<1>6. ASSUME NEW r \in Sims
      PROVE  /\ sim'[r].next <= EventCount
             /\ sim'[r].status = "completed" => sim'[r].next = EventCount
             /\ sim'[r].eventIds = Scenario(r, sim'[r].next)
             /\ (\A u \in InFlight(r)' : tick'[u].pc # "ingested")
                  => {d \in telemetry' : d.sim = r} = Scenario(r, sim'[r].next)
  BY <1>1, <1>4, <1>5 DEF Serial, InOrder
<1>7. ASSUME NEW u \in Ticks
      PROVE  tick'[u].pc \in {"asset", "ingested"} =>
               tick'[u].template = sim'[tick'[u].sim].next + 1
  <2>1. CASE tick'[u] = tick[u] /\ tick[u].pc # "idle"
    BY <1>1, <2>1, TickHasSim DEF Serial, InOrder
  <2>2. CASE tick'[u] = TickOf(s)
    BY <2>2, TickOfFacts
  <2> QED
    BY <1>1, <2>1, <2>2
<1>8. ASSUME NEW u \in Ticks, tick'[u].pc = "ingested"
      PROVE  LET r == tick'[u].sim
                 e == [sim |-> r, seq |-> sim'[r].next + 1, source |-> EventSources[sim'[r].next + 1]]
             IN /\ tick'[u].event = {e}
                /\ {d \in telemetry' : d.sim = r} = Scenario(r, sim'[r].next) \cup {e}
  <2>1. tick'[u] = tick[u] /\ tick[u].sim \in Sims
    BY <1>2, <1>8, TickHasSim
  <2>2. sim'[tick[u].sim].next = sim[tick[u].sim].next
    BY <1>1, <2>1
  <2> QED
    BY <1>1, <1>8, <2>1, <2>2 DEF Serial, InOrder
<1> QED
  BY <1>6, <1>7, <1>8, Zenon DEF InOrder, Scenario

\* On the in-memory store a final status stays.
LEMMA FinalStays ==
  ASSUME IInv, dataStore = "memory", Next, NEW r \in Sims,
         sim[r].status \in {"stopped", "completed", "failed"}
  PROVE  sim'[r].status = sim[r].status
<1>1. ASSUME NEW t \in Ticks, TickStep(t) \/ TickFails(t)
      PROVE  sim'[r].status = sim[r].status
  <2>1. sim[tick[t].sim].status = "running"
    BY <1>1, TickStepShape DEF IInv, Serial, OneRuns
  <2> QED
    BY <1>1, <2>1, TickStepShape
<1>2. ASSUME NEW s \in Sims, CheckActive(s) \/ StartStep(s) \/ TimerFires(s) \/ Stop(s)
      PROVE  sim'[r].status = sim[r].status
  BY <1>2, StartShape, StartStatus
<1> QED
  BY <1>1, <1>2 DEF Next

-----------------------------------------------------------------------------
(* Theorems.                                                               *)

\* At first there is no simulation and no tick.
LEMMA InitInv ==
  ASSUME Init
  PROVE  IInv
<1> USE DEF Init
<1>1. TypeOK
  <2>1. NotStarted \in SimType
    BY NewSimType
  <2> QED
    BY <2>1, IdleTickTypes DEF TypeOK
<1>2. TicksBelong /\ NothingBeforeStart /\ \A s \in Sims : InFlight(s) = {}
  BY NoSimAssumption DEF TicksBelong, NothingBeforeStart, InFlight, IdleTick
<1>3. RoomLeft
  <2>1. \A s \in Sims : Sending(s) = {} /\ sim[s].next = 0
    BY <1>2 DEF Sending, NotStarted, NewSim
  <2> QED
    BY <2>1, FS_EmptySet, EventCountFacts DEF RoomLeft
<1>4. TimersFollowStatus
  BY DEF TimersFollowStatus, NoLeakedTimer, NeverStranded, NotStarted, NewSim
<1>8. FoundOnce
  BY FS_EmptySet DEF FoundOnce, IdleTick, NotStarted, NewSim
<1>5. TicksHold /\ OnePerSim /\ CountedExists /\ NewIsTold /\ ReportsOwn
  BY DEF TicksHold, Holds, OnePerSim, CountedExists, NewIsTold, ToldNew, ReportsOwn,
         IdleTick, NotStarted, NewSim
<1>6. OneAtATime /\ OneRuns
  BY DEF OneAtATime, OneRuns, Starting, IdleTick, NotStarted, NewSim
<1>7. InOrder
  <2>1. \A s \in Sims : Scenario(s, 0) = {}
    BY DEF Scenario
  <2>2. \A s \in Sims : sim[s].next = 0 /\ sim[s].eventIds = {} /\ sim[s].status = "none"
    BY DEF NotStarted, NewSim
  <2>3. \A t \in Ticks : tick[t].pc = "idle"
    BY DEF IdleTick
  <2> QED
    BY <2>1, <2>2, <2>3, EventCountFacts DEF InOrder
<1> QED
  BY <1>1, <1>2, <1>3, <1>4, <1>5, <1>6, <1>7, <1>8 DEF IInv, Serial

\* Every step keeps the invariant.
LEMMA NextInv ==
  ASSUME IInv, [Next]_vars
  PROVE  IInv'
<1>1. CASE Next
  <2>1. TypeOK'
    BY <1>1, StartTypes, TickTypesKept DEF Next
  <2>2. dataStore' = dataStore
    BY <1>1, StartShape, TickStepShape DEF Next
  <2>3. dataStore = "memory" => Serial'
    BY <1>1, SerialStart, SerialTick, OrderKeptByStart, OrderKeptByTick DEF Next, Serial
  <2> QED
    BY <1>1, <2>1, <2>2, <2>3, BelongingKept, TimersKept, RoomKept, HoldingKept, OnePerSimKept,
       CountedKept, NewIsToldKept, ReportsKept, FoundOnceKept DEF IInv
<1>2. CASE UNCHANGED vars
  BY <1>2 DEF IInv, vars, TypeOK, TicksBelong, NothingBeforeStart, InFlight, RoomLeft, Sending,
              TimersFollowStatus, NoLeakedTimer, NeverStranded, TicksHold, Holds, OnePerSim,
              CountedExists, IncidentsOf, NewIsTold, ToldNew, ReportsOwn, FoundOnce, Serial, OneAtATime,
              Starting, OneRuns, InOrder
<1> QED
  BY <1>1, <1>2

\* The invariant holds in every behaviour.
THEOREM Invariant == Spec => []IInv
<1> QED
  BY InitInv, NextInv, PTL DEF Spec

\* Intervals and the status of their simulation go together: none is leaked by
\* stop, failures or the end of the first tick, and none is missing.
THEOREM IntervalsFollow == Spec => []TimersFollowStatus
<1> QED
  BY Invariant, PTL DEF IInv

\* Ticks that overlap or fail half-way create one incident at most, and only one
\* in the store with a finding of the simulation is counted.
THEOREM CreatesOne == Spec => []OneIncident
<1>1. IInv => OneIncident
  <2> SUFFICES ASSUME IInv, NEW s \in Sims
               PROVE  /\ Cardinality(IncidentsOf(s)) <= 1
                      /\ sim[s].incidents > 0 =>
                           \E i \in IncidentsOf(s) : i.evidence \cap sim[s].findingIds # {}
    BY DEF OneIncident
  <2>1. Cardinality(IncidentsOf(s)) <= 1
    <3>1. CASE IncidentsOf(s) = {}
      BY <3>1, FS_EmptySet
    <3>2. CASE IncidentsOf(s) # {}
      <4>1. PICK i : IncidentsOf(s) = {i}
        BY <3>2 DEF IInv, OnePerSim, IncidentsOf
      <4> QED
        BY <4>1, FS_Singleton
    <3> QED
      BY <3>1, <3>2
  <2> QED
    BY <2>1 DEF IInv, CountedExists
<1> QED
  BY <1>1, Invariant, PTL

\* What a simulation reports is its own: events it emitted that are stored, and
\* findings about them, each counted once, however evaluations that overlap or
\* fail half-way split the findings; records, ticks and the store keep their schemas.
THEOREM ReportsAreOwn == Spec => []ReportsOwnEvidence
<1>1. IInv => ReportsOwnEvidence
  BY DEF IInv, ReportsOwn, FoundOnce, ReportsOwnEvidence
<1> QED
  BY <1>1, Invariant, PTL

\* On the in-memory store an organization has one running simulation, a completed
\* one has emitted its whole scenario, and a final status stays.
THEOREM MemoryRunsAreWhole == Spec => InMemoryRunsAreWhole
<1> DEFINE Running == {s \in Sims : sim[s].status = "running"}
           Whole == dataStore = "memory" =>
                      /\ Cardinality(Running) <= 1
                      /\ \A s \in Sims : sim[s].status = "completed" => EmittedAll(s)
           Stays == dataStore = "memory" =>
                      \A s \in Sims : sim[s].status \in {"stopped", "completed", "failed"}
                        => sim'[s].status = sim[s].status
<1>1. IInv => Whole
  <2> SUFFICES ASSUME IInv, dataStore = "memory"
               PROVE  /\ Cardinality(Running) <= 1
                      /\ \A s \in Sims : sim[s].status = "completed" => EmittedAll(s)
    OBVIOUS
  <2>1. Cardinality(Running) <= 1
    <3>1. CASE Running = {}
      BY <3>1, FS_EmptySet
    <3>2. CASE Running # {}
      <4>1. PICK r : Running = {r}
        BY <3>2 DEF IInv, Serial, OneRuns
      <4>2. Cardinality({r}) = 1
        BY FS_Singleton
      <4> QED
        BY <4>1, <4>2
    <3> QED
      BY <3>1, <3>2
  <2>2. \A s \in Sims : sim[s].status = "completed" => EmittedAll(s)
    BY DEF IInv, Serial, InOrder, Scenario, EmittedAll
  <2> QED
    BY <2>1, <2>2
<1>2. IInv /\ [Next]_vars => [Stays]_vars
  BY FinalStays
<1> QED
  BY <1>1, <1>2, Invariant, PTL DEF Spec, InMemoryRunsAreWhole
=============================================================================
