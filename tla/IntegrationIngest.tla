--------------------------- MODULE IntegrationIngest ---------------------------
(***************************************************************************)
(* Integrations and what they deliver: signed webhook requests that        *)
(* overlap with each other, with status changes and with rotations of the  *)
(* signing secret, and the events and threat indicators they bring.        *)
(*                                                                         *)
(* A payload stands for a raw body: equal payloads have equal hashes.  A   *)
(* request whose timestamp, secret, body or integration is refused changes *)
(* nothing and is left out; the signature is abstracted to the version of  *)
(* the secret it was made with.                                            *)
(***************************************************************************)
EXTENDS Integers, Sequences, FiniteSets, SequencesExt

CONSTANTS
  Integrations,      \* integrations of one organization
  Payloads,          \* bodies of webhook requests
  PayloadsOf,        \* the bodies that fit an integration's data type
  EventsIn,          \* the events of a payload, a sequence
  IndicatorsIn,      \* the indicators of a payload, a sequence of <<id, version>>
  Events,            \* (source, sourceEventId) pairs
  Indicators,        \* STIX ids
  DeliveryIds,       \* x-cascadia-delivery-id
  Requests,          \* concurrent requests
  DataStores,        \* which store the API may run on: "memory", "postgres"
  MaxTime,           \* bound: ticks of the clock
  MaxDeliveries,     \* bound: deliveries recorded
  MaxAdministration  \* bound: status changes and rotations

\* What a STIX bundle is read into: an id and the version it was modified to.
ThreatIndicator == Indicators \X (Nat \ {0})

ASSUME IngestAssumption ==
  /\ DataStores \subseteq {"memory", "postgres"}
  /\ PayloadsOf \in [Integrations -> SUBSET Payloads]
  /\ EventsIn \in [Payloads -> Seq(Events)]
  /\ IndicatorsIn \in [Payloads -> Seq(ThreatIndicator)]
ASSUME IngestBoundsAssumption ==
  MaxTime \in Nat /\ MaxDeliveries \in Nat /\ MaxAdministration \in Nat

VARIABLES
  dataStore,       \* the store in use
  now,             \* the clock
  integration,     \* integrations: [status, secretVersion]
  deliveries,      \* integration_deliveries, in order of recording
  ingestedAt,      \* normalized_security_events: when, by event; Never if not held
  indicators,      \* threat_indicators: the version held, 0 if none
  request,         \* the state of each request in progress
  administration   \* so far (bound)

ingestVars == <<dataStore, now, integration, deliveries, ingestedAt, indicators,
                request, administration>>

Never == -1
Idle == [pc |-> "idle"]
Goto(r, state) == request' = [request EXCEPT ![r] = state]

\* The fields of a delivery that the model tells apart.
IntegrationDelivery ==
  [integration : Integrations, externalDeliveryId : DeliveryIds, payload : Payloads]
Integration == [status : {"active", "disabled"}, secretVersion : Nat \ {0}]
NoIntegration == [status |-> "none", secretVersion |-> 0]

Stored == {e \in Events : ingestedAt[e] # Never}
Prior(delivery) ==
  {d \in Range(deliveries) : /\ d.integration = delivery.integration
                             /\ d.externalDeliveryId = delivery.externalDeliveryId}

IngestInit ==
  /\ dataStore \in DataStores
  /\ now = 0
  /\ integration = [i \in Integrations |-> NoIntegration]
  /\ deliveries = << >>
  /\ ingestedAt = [e \in Events |-> Never]
  /\ indicators = [x \in Indicators |-> 0]
  /\ request = [r \in Requests |-> Idle]
  /\ administration = 0

-----------------------------------------------------------------------------
(* Administration.                                                         *)

CreateIntegration(i) ==
  /\ integration[i] = NoIntegration
  /\ integration' = [integration EXCEPT ![i] = [status |-> "active", secretVersion |-> 1]]
  /\ UNCHANGED <<dataStore, now, deliveries, ingestedAt, indicators, request,
                 administration>>

\* To set the status an integration has is to change nothing.
Administer(i, value) ==
  /\ integration[i] \notin {NoIntegration, value}
  /\ administration < MaxAdministration
  /\ integration' = [integration EXCEPT ![i] = value]
  /\ administration' = administration + 1
  /\ UNCHANGED <<dataStore, now, deliveries, ingestedAt, indicators, request>>

UpdateIntegrationStatus(i, status) ==
  Administer(i, [integration[i] EXCEPT !.status = status])

RotateIntegrationSecret(i) ==
  Administer(i, [integration[i] EXCEPT !.secretVersion = @ + 1])

-----------------------------------------------------------------------------
(* Webhooks.                                                               *)

\* The credential is read once: an active integration, a request signed
\* with its current secret.  The store is called after that.
IngestSignedWebhook(r, delivery) ==
  /\ request[r] = Idle
  /\ delivery.payload \in PayloadsOf[delivery.integration]
  /\ integration[delivery.integration].status = "active"
  /\ Len(deliveries) < MaxDeliveries
  /\ Goto(r, [pc |-> "ingest", delivery |-> delivery])
  /\ UNCHANGED <<dataStore, now, integration, deliveries, ingestedAt, indicators,
                 administration>>

\* A delivery id that was used before: the earlier delivery is the answer
\* if the body is the same, a conflict otherwise.
RefuseDelivery(r) ==
  /\ request[r].pc = IF dataStore = "memory" THEN "ingest" ELSE "transaction"
  /\ Prior(request[r].delivery) # {}
  /\ Goto(r, Idle)
  /\ UNCHANGED <<dataStore, now, integration, deliveries, ingestedAt, indicators,
                 administration>>

\* Events keep the time they first arrived; an indicator gives way to one
\* that is not older.
WithEvents(events, at) ==
  [e \in Events |-> IF ingestedAt[e] = Never /\ e \in events THEN at ELSE ingestedAt[e]]

\* Slip: an indicator gives way to whatever arrives.
Merge_Overwrites(brought) == FoldLeft(LAMBDA held, b : [held EXCEPT ![b[1]] = b[2]], indicators, brought)

\* The versions of an indicator among those brought.
Versions(brought, x) == {b[2] : b \in {y \in brought : y[1] = x}}

\* What remains when the indicators are merged one after another.
Merge(brought) ==
  [x \in Indicators |-> Max({indicators[x]} \cup Versions(Range(brought), x))]

Record(delivery) ==
  /\ deliveries' = Append(deliveries, delivery)
  /\ indicators' = Merge(IndicatorsIn[delivery.payload])

\* In memory: events one at a time, with an await after each; what follows
\* the last one is one step.
IngestFrom(r, left) ==
  LET delivery == request[r].delivery
  IN  IF left = << >>
      THEN /\ Record(delivery) /\ Goto(r, Idle)
           /\ UNCHANGED ingestedAt
      ELSE /\ ingestedAt' = WithEvents({Head(left)}, now)
           /\ Goto(r, [pc |-> "events", delivery |-> delivery, left |-> Tail(left)])
           /\ UNCHANGED <<deliveries, indicators>>

IngestInMemory(r) ==
  /\ dataStore = "memory"
  /\ \/ /\ request[r].pc = "ingest"
        /\ Prior(request[r].delivery) = {}
        /\ IngestFrom(r, EventsIn[request[r].delivery.payload])
     \/ /\ request[r].pc = "events"
        /\ IngestFrom(r, request[r].left)
  /\ UNCHANGED <<dataStore, now, integration, administration>>

\* PostgreSQL: now() is the time the transaction began, before it waited
\* for the lock on the integration.
BeginDelivery(r) ==
  /\ dataStore = "postgres"
  /\ request[r].pc = "ingest"
  /\ Goto(r, [pc |-> "transaction", delivery |-> request[r].delivery, at |-> now])
  /\ UNCHANGED <<dataStore, now, integration, deliveries, ingestedAt, indicators,
                 administration>>

CommitDelivery(r) ==
  /\ dataStore = "postgres"
  /\ request[r].pc = "transaction"
  /\ Prior(request[r].delivery) = {}
  /\ Record(request[r].delivery)
  /\ ingestedAt' = WithEvents(Range(EventsIn[request[r].delivery.payload]), request[r].at)
  /\ Goto(r, Idle)
  /\ UNCHANGED <<dataStore, now, integration, administration>>

\* POST /events/ingest: one event, which is a duplicate or new.
IngestSecurityEvent(e) ==
  /\ e \notin Stored
  /\ ingestedAt' = WithEvents({e}, now)
  /\ UNCHANGED <<dataStore, now, integration, deliveries, indicators, request,
                 administration>>

\* The database or the process fails a request; PostgreSQL rolls back the
\* transaction it was in.
Fail(r) ==
  /\ dataStore = "postgres"
  /\ request[r] # Idle
  /\ Goto(r, Idle)
  /\ UNCHANGED <<dataStore, now, integration, deliveries, ingestedAt, indicators, administration>>

Tick ==
  /\ now < MaxTime
  /\ now' = now + 1
  /\ UNCHANGED <<dataStore, integration, deliveries, ingestedAt, indicators, request,
                 administration>>

IngestNext ==
  \/ \E i \in Integrations :
       \/ \E status \in {"active", "disabled"} : UpdateIntegrationStatus(i, status)
       \/ CreateIntegration(i) \/ RotateIntegrationSecret(i)
  \/ \E r \in Requests :
       \/ \E delivery \in IntegrationDelivery : IngestSignedWebhook(r, delivery)
       \/ RefuseDelivery(r) \/ IngestInMemory(r) \/ BeginDelivery(r) \/ CommitDelivery(r)
       \/ Fail(r)
  \/ \E e \in Events : IngestSecurityEvent(e)
  \/ Tick

IngestSpec == IngestInit /\ [][IngestNext]_ingestVars

-----------------------------------------------------------------------------
(* Properties.                                                             *)

\* Type invariant.
IngestTypeOK ==
  /\ dataStore \in DataStores
  /\ now \in 0 .. MaxTime
  /\ integration \in [Integrations -> Integration \cup {NoIntegration}]
  /\ deliveries \in Seq(IntegrationDelivery)
  /\ ingestedAt \in [Events -> {Never} \cup 0 .. now]
  /\ indicators \in [Indicators -> Nat]
  /\ administration \in 0 .. MaxAdministration

\* In PostgreSQL a delivery id of an integration is recorded once, however
\* many copies of the request are in progress and whatever their bodies.
OneDeliveryPerId ==
  dataStore = "postgres" => IsInjective(
    [k \in DOMAIN deliveries |-> <<deliveries[k].integration, deliveries[k].externalDeliveryId>>])

EventsAreHeld == \A d \in Range(deliveries) : Range(EventsIn[d.payload]) \subseteq Stored

Brought == UNION {Range(IndicatorsIn[d.payload]) : d \in Range(deliveries)}

NewestAreHeld == \A x \in Indicators : indicators[x] = Max({0} \cup Versions(Brought, x))

\* A delivery is recorded once and whole: all its events are held, and of every
\* indicator the newest version that any delivery brought.
DeliveriesAreHeld == IngestTypeOK /\ OneDeliveryPerId /\ EventsAreHeld /\ NewestAreHeld
=============================================================================
