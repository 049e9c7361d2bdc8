---------------------------- MODULE DetectionEngine ----------------------------
(***************************************************************************)
(* Anomaly detection over the events that IntegrationIngest stores: the    *)
(* models an operator trains, the evaluations of new telemetry, the        *)
(* findings they save and the reviews of analysts.  Trainings, evaluations *)
(* and webhooks are requests that overlap; a request may fail between any  *)
(* two calls of the store.                                                 *)
(*                                                                         *)
(* A model keeps the set of events it was trained on: its features are     *)
(* functions of it (AnomalyScore).  The training window reaches back to    *)
(* the start of the clock.                                                 *)
(***************************************************************************)
EXTENDS IntegrationIngest, AnomalyScore

CONSTANTS
  EventOf,        \* the security event of each element of Events
  MinimumEvents,  \* minimumEvents of a training request
  Thresholds,     \* findingThreshold of a training request
  Dispositions,   \* dispositions a review may give
  MaxModels,      \* bound: models saved
  MaxReviews      \* bound: reviews of a finding

ASSUME DetectionAssumption ==
  /\ MinimumEvents \in Nat \ {0}
  /\ Thresholds \subseteq 40 .. 95
  /\ Dispositions \subseteq {"acknowledged", "dismissed", "escalated"}
  /\ MaxModels \in Nat /\ MaxReviews \in Nat
  /\ \A e \in Events :
       EventOf[e] \in SecurityEvent({EventOf[x].eventType : x \in Events},
                                    UNION {EventOf[x].assets : x \in Events},
                                    {EventOf[x].hour : x \in Events})
  /\ \A e \in Events : IsFiniteSet(EventOf[e].assets)

VARIABLES
  models,       \* detection_models, in order of saving
  findings,     \* anomaly_findings, in order of saving
  evaluations   \* detection_event_evaluations: <<model, event>>

vars == <<ingestVars, models, findings, evaluations>>
detectionVars == <<models, findings, evaluations>>
deliveryVars == <<dataStore, now, integration, deliveries, ingestedAt, indicators, administration>>

DetectionModel ==
  [version : Nat \ {0}, status : {"active", "retired"}, trainedAt : Nat,
   findingThreshold : Thresholds, trainedOn : SUBSET Events]
AnomalyFinding ==
  [model : Nat \ {0}, event : Events, anomalyScore : 0 .. 100,
   level : {"low", "medium", "high", "critical"},
   disposition : {"new"} \cup Dispositions, reviews : Seq(Dispositions)]

Active == {m \in DOMAIN models : models[m].status = "active"}
EvaluatedWith(m) == {e \in Events : <<m, e>> \in evaluations}

Init == IngestInit /\ models = << >> /\ findings = << >> /\ evaluations = {}

-----------------------------------------------------------------------------
(* Training.                                                               *)

\* trainedAt is taken before anything is read.
StartTraining(r, threshold) ==
  /\ request[r] = Idle
  /\ Len(models) < MaxModels
  /\ Goto(r, [pc |-> "train", trainedAt |-> now, findingThreshold |-> threshold])
  /\ UNCHANGED <<deliveryVars, detectionVars>>

\* The events observed up to trainedAt, whenever they were ingested; too
\* few of them end the request.
ReadTelemetry(r) ==
  /\ request[r].pc = "train"
  /\ LET events == {e \in Stored : EventOf[e].observedAt <= request[r].trainedAt}
     IN  IF Cardinality(events) < MinimumEvents
         THEN Goto(r, Idle)
         ELSE Goto(r, [pc |-> "version", trainedAt |-> request[r].trainedAt,
                       findingThreshold |-> request[r].findingThreshold, trainedOn |-> events])
  /\ UNCHANGED <<deliveryVars, detectionVars>>

\* One more than the highest version, which is read before it is used.
NextVersion(r) ==
  /\ request[r].pc = "version"
  /\ LET version == Max({0} \cup {m.version : m \in Range(models)}) + 1
     IN  Goto(r, [pc |-> "save",
                  model |-> [version |-> version, status |-> "active",
                             trainedAt |-> request[r].trainedAt,
                             findingThreshold |-> request[r].findingThreshold,
                             trainedOn |-> request[r].trainedOn]])
  /\ UNCHANGED <<deliveryVars, detectionVars>>

\* Slip: the version a training chose is not checked again.
VersionIsTaken_Never(model) == FALSE

VersionIsTaken(model) == \E m \in Range(models) : m.version = model.version

Retired(saved) == [m \in DOMAIN saved |-> [saved[m] EXCEPT !.status = "retired"]]

\* One transaction, or one step in memory; a version that is taken by now
\* is a conflict, and nothing is retired for it.
SaveDetectionModel(r) ==
  /\ request[r].pc = "save"
  /\ models' = IF VersionIsTaken(request[r].model) THEN models
               ELSE Append(Retired(models), request[r].model)
  /\ Goto(r, Idle)
  /\ UNCHANGED <<deliveryVars, findings, evaluations>>

-----------------------------------------------------------------------------
(* Evaluation.                                                             *)

GetActiveDetectionModel(r) ==
  /\ request[r] = Idle
  /\ \E m \in Active : Goto(r, [pc |-> "evaluate", modelId |-> m])
  /\ UNCHANGED <<deliveryVars, detectionVars>>

ListEvaluatedEventIds(r) ==
  /\ request[r].pc = "evaluate"
  /\ Goto(r, [pc |-> "candidates", modelId |-> request[r].modelId,
              evaluated |-> EvaluatedWith(request[r].modelId)])
  /\ UNCHANGED <<deliveryVars, detectionVars>>

Candidates(m, evaluated) == {e \in Stored \ evaluated : ingestedAt[e] > models[m].trainedAt}

Score(m, batch, e) ==
  AnomalyScore({EventOf[x] : x \in models[m].trainedOn}, {EventOf[x] : x \in batch}, EventOf[e])

\* The candidates, and those of them that score at or above the threshold.
ReadCandidates(r) ==
  /\ request[r].pc = "candidates"
  /\ LET m == request[r].modelId
         batch == Candidates(m, request[r].evaluated)
     IN  IF batch = {} THEN Goto(r, Idle)
         ELSE Goto(r, [pc |-> "findings", modelId |-> m, batch |-> batch,
                       left |-> {e \in batch : Score(m, batch, e) >= models[m].findingThreshold}])
  /\ UNCHANGED <<deliveryVars, detectionVars>>

\* Slip: the insert does not look for a finding of the model and the event.
HasFinding_Never(m, e) == FALSE

HasFinding(m, e) == \E f \in Range(findings) : f.model = m /\ f.event = e

NewFinding(m, batch, e) ==
  LET score == Score(m, batch, e)
  IN  [model |-> m, event |-> e, anomalyScore |-> score, level |-> FindingLevel(score),
       disposition |-> "new", reviews |-> << >>]

\* Slip: a finding that exists is written over.
SaveAnomalyFinding_Overwrites(r, e) ==
  LET finding == NewFinding(request[r].modelId, request[r].batch, e)
      Same(f) == f.model = finding.model /\ f.event = e
  IN  /\ request[r].pc = "findings"
      /\ e \in request[r].left
      /\ findings' = IF HasFinding(finding.model, e)
                     THEN [f \in DOMAIN findings |->
                             IF Same(findings[f]) THEN finding ELSE findings[f]]
                     ELSE Append(findings, finding)
      /\ Goto(r, [request[r] EXCEPT !.left = @ \ {e}])
      /\ UNCHANGED <<deliveryVars, models, evaluations>>

\* One finding at a time; one that exists stays as it is.
SaveAnomalyFinding(r, e) ==
  /\ request[r].pc = "findings"
  /\ e \in request[r].left
  /\ findings' = IF HasFinding(request[r].modelId, e) THEN findings
                 ELSE Append(findings, NewFinding(request[r].modelId, request[r].batch, e))
  /\ Goto(r, [request[r] EXCEPT !.left = @ \ {e}])
  /\ UNCHANGED <<deliveryVars, models, evaluations>>

\* Slip: the candidates are marked before their findings are saved.
FindingsAreSaved_Never(r) == TRUE

FindingsAreSaved(r) == request[r].left = {}

\* Then all candidates are marked: at once in memory, row by row in
\* PostgreSQL.
MarkEventsEvaluated(r) ==
  /\ request[r].pc = "findings"
  /\ FindingsAreSaved(r)
  /\ LET m == request[r].modelId
         batch == request[r].batch
     IN  \E marked \in IF dataStore = "memory" THEN {batch} ELSE {{e} : e \in batch} :
           /\ evaluations' = evaluations \cup {<<m, e>> : e \in marked}
           /\ IF marked = batch THEN Goto(r, Idle)
              ELSE Goto(r, [request[r] EXCEPT !.batch = @ \ marked])
  /\ UNCHANGED <<deliveryVars, models, findings>>

-----------------------------------------------------------------------------
(* Review.                                                                 *)

ReviewAnomalyFinding(f, disposition) ==
  /\ Len(findings[f].reviews) < MaxReviews
  /\ findings' = [findings EXCEPT ![f].disposition = disposition,
                                  ![f].reviews = Append(@, disposition)]
  /\ UNCHANGED <<ingestVars, models, evaluations>>

Next ==
  \/ IngestNext /\ UNCHANGED detectionVars
  \/ \E r \in Requests :
       \/ \E threshold \in Thresholds : StartTraining(r, threshold)
       \/ ReadTelemetry(r) \/ NextVersion(r) \/ SaveDetectionModel(r)
       \/ GetActiveDetectionModel(r) \/ ListEvaluatedEventIds(r) \/ ReadCandidates(r)
       \/ \E e \in Events : SaveAnomalyFinding(r, e)
       \/ MarkEventsEvaluated(r)
  \/ \E f \in DOMAIN findings, d \in Dispositions : ReviewAnomalyFinding(f, d)

Spec == Init /\ [][Next]_vars

-----------------------------------------------------------------------------
(* Properties.                                                             *)

\* Type invariant.
TypeOK ==
  /\ models \in Seq(DetectionModel)
  /\ findings \in Seq(AnomalyFinding)
  /\ \A f \in Range(findings) : f.model \in DOMAIN models
  /\ evaluations \subseteq (DOMAIN models) \X Events

\* Overlapping trainings leave versions without gap or repetition, and the
\* model saved last, which has the highest one, is the only active one.
LastModelIsActive ==
  /\ TypeOK
  /\ \A m \in DOMAIN models : models[m].version = m
  /\ Active = {Len(models)} \ {0}

\* An event has one finding for a model, however many evaluations overlap
\* or are repeated after a failure.
OneFinding ==
  IsInjective([f \in DOMAIN findings |-> <<findings[f].model, findings[f].event>>])

\* What an evaluation was going to flag whatever the volume of its batch is
\* flagged by the time the event is marked, after which no evaluation of
\* the model looks at it again: a failure loses no finding.
EvaluatedMeansFlagged ==
  \A m \in DOMAIN models : \A e \in EvaluatedWith(m) :
    LET baseline == {EventOf[x] : x \in models[m].trainedOn}
        quiet == (35 * Rarity(baseline, EventOf[e]) + 25 * SeverityScore[EventOf[e].severity]
                    + 25 * Novelty(baseline, EventOf[e]) + 50) \div 100
    IN  quiet >= models[m].findingThreshold => HasFinding(m, e)

\* A finding never loses a review, nor the disposition the last one gave:
\* evaluating its event again does not reset it.
ReviewsSurvive ==
  [][\A f \in DOMAIN findings :
       /\ f \in DOMAIN findings'
       /\ IsPrefix(findings[f].reviews, findings'[f].reviews)
       /\ findings'[f].disposition =
            IF findings'[f].reviews = << >> THEN "new" ELSE Last(findings'[f].reviews)]_vars
=============================================================================
