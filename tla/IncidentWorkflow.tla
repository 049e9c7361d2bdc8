--------------------------- MODULE IncidentWorkflow ---------------------------
(***************************************************************************)
(* Incidents: idempotent creation with validated evidence, and the changes *)
(* operators make to one at the same time (status, assignment, comments,   *)
(* evidence, tasks), in the in-memory store and in Postgres, where an      *)
(* incident is one JSON document and again rows of three child tables.     *)
(*                                                                         *)
(* Texts, tags, priorities, due times and the owners of tasks are data no  *)
(* operation looks at.                                                     *)
(* Times are positions in the timeline: every change that sets a time adds *)
(* the timeline entry of that time.                                        *)
(***************************************************************************)
EXTENDS Integers, Sequences, FiniteSets

CONSTANTS
  Orgs,          \* organizations that create incidents
  Resources,     \* events, findings, analyses, ... that can be evidence
  OrgOf,         \* the organization of each resource, perhaps none of Orgs
  Keys,          \* idempotency keys
  Users,         \* possible assignees
  Nobody,        \* no assignee; also an entry about nothing
  TaskStatuses,  \* statuses of a task
  Requests,      \* concurrent requests
  DataStores,    \* which store the API may run on: "memory", "postgres"
  MaxIncidents,  \* bound: incidents
  MaxEntries,    \* bound: timeline entries of an incident
  MaxRollbacks   \* bound: failing transactions

ASSUME DataStoresAssumption == DataStores \subseteq {"memory", "postgres"}
ASSUME OrgOfAssumption == DOMAIN OrgOf = Resources
ASSUME NobodyAssumption == Nobody \notin Users
ASSUME TaskStatusesAssumption ==
  "todo" \in TaskStatuses /\ TaskStatuses \subseteq {"todo", "in_progress", "blocked", "done"}
ASSUME IncidentBoundsAssumption ==
  MaxIncidents \in Nat /\ MaxEntries \in Nat /\ MaxRollbacks \in Nat

VARIABLES
  dataStore,  \* the store in use
  stored,     \* the resources stored so far
  incidents,  \* incidents, the id is the position
  rows,       \* the child tables in Postgres
  request,    \* the state of each request
  answers,    \* what creation requests were answered (history)
  rollbacks   \* so far (bound)

vars == <<stored, incidents, rows, request, answers, rollbacks, dataStore>>

-----------------------------------------------------------------------------
(* The record.                                                             *)

Statuses == {"new", "triaged", "investigating", "contained", "recovering", "resolved", "closed"}

\* allowedTransitions.
AllowedFrom ==
  [s \in Statuses |->
     CASE s = "new" -> {"triaged"}
       [] s = "triaged" -> {"investigating"}
       [] s = "investigating" -> {"contained", "resolved"}
       [] s = "contained" -> {"recovering", "resolved"}
       [] s = "recovering" -> {"resolved"}
       [] s = "resolved" -> {"closed", "investigating"}
       [] s = "closed" -> {"investigating"}]

\* A creation request; its fingerprint is the request itself, whose evidence
\* and tags are sorted before they are hashed.
CreateRequest ==
  [org : Orgs, key : Keys, assignee : Users \cup {Nobody}, evidence : SUBSET Resources]
Fingerprint(input) == input

EntryTypes == {"incident_created", "status_changed", "assignment_changed", "comment",
               "evidence_linked", "task_created", "task_updated"}

TimelineEntry == [type : EntryTypes, about : Resources \cup Users \cup {Nobody} \cup Nat,
                  from : Statuses \cup TaskStatuses \cup {"none"},
                  to : Statuses \cup TaskStatuses \cup {"none"}]

IncidentTask == [status : TaskStatuses]

\* No time yet.
Never == 0

IncidentRecord ==
  [org : Orgs, key : Keys, fingerprint : CreateRequest, status : Statuses,
   acknowledgedAt : Nat, resolvedAt : Nat, closedAt : Nat, summary : BOOLEAN,
   assignee : Users \cup {Nobody}, evidence : SUBSET Resources,
   timeline : Seq(TimelineEntry), tasks : Seq(IncidentTask)]

Entry(type, about) == [type |-> type, about |-> about, from |-> "none", to |-> "none"]
Change(type, about, from, to) == [type |-> type, about |-> about, from |-> from, to |-> to]

\* createIncident of the service: the creation entry and one per evidence link,
\* in the order the request lists them.
NewIncidents(input) ==
  {[org |-> input.org, key |-> input.key, fingerprint |-> Fingerprint(input), status |-> "new",
    acknowledgedAt |-> Never, resolvedAt |-> Never, closedAt |-> Never, summary |-> FALSE,
    assignee |-> input.assignee, evidence |-> input.evidence, tasks |-> << >>,
    timeline |-> <<Entry("incident_created", Nobody)>>
                   \o [k \in 1..Cardinality(input.evidence) |-> Entry("evidence_linked", order[k])]] :
     order \in {f \in [1..Cardinality(input.evidence) -> input.evidence] :
                  \A r \in input.evidence : \E k \in DOMAIN f : f[k] = r}}

-----------------------------------------------------------------------------
(* What a change makes of an incident x.                                   *)

\* Slip: reopening keeps the times of the resolution.
Transition_KeepsTimes(x, status) ==
  LET now == Len(x.timeline) + 1 IN
  [x EXCEPT !.status = status,
            !.acknowledgedAt = IF @ = Never THEN now ELSE @,
            !.resolvedAt = IF status = "resolved" THEN now ELSE @,
            !.closedAt = IF status = "closed" THEN now ELSE @,
            !.summary = status \in {"resolved", "closed"},
            !.timeline = Append(@, Change("status_changed", Nobody, x.status, status))]

\* Slip: the entry is made from the changed incident.
Transition_FromAfter(x, status) ==
  LET now == Len(x.timeline) + 1 IN
  [x EXCEPT !.status = status,
            !.acknowledgedAt = IF @ = Never THEN now ELSE @,
            !.resolvedAt = IF status = "resolved" THEN now ELSE IF status = "investigating" THEN Never ELSE @,
            !.closedAt = IF status = "closed" THEN now ELSE IF status = "investigating" THEN Never ELSE @,
            !.summary = status \in {"resolved", "closed"},
            !.timeline = Append(@, Change("status_changed", Nobody, status, status))]

\* transitionIncident: the first change acknowledges, resolving and closing
\* set their times and the summary, reopening takes them back.
Transition(x, status) ==
  LET now == Len(x.timeline) + 1
      reopened == status = "investigating" /\ x.status \in {"resolved", "closed"}
  IN [x EXCEPT !.status = status,
               !.acknowledgedAt = IF @ = Never THEN now ELSE @,
               !.resolvedAt = IF status = "resolved" THEN now ELSE IF reopened THEN Never ELSE @,
               !.closedAt = IF status = "closed" THEN now ELSE IF reopened THEN Never ELSE @,
               !.summary = status \in {"resolved", "closed"} \/ (@ /\ ~reopened),
               !.timeline = Append(@, Change("status_changed", Nobody, x.status, status))]

Assign(x, user) ==
  [x EXCEPT !.assignee = user, !.timeline = Append(@, Entry("assignment_changed", user))]

CommentOn(x) == [x EXCEPT !.timeline = Append(@, Entry("comment", Nobody))]

LinkEvidence(x, r) ==
  [x EXCEPT !.evidence = @ \cup {r}, !.timeline = Append(@, Entry("evidence_linked", r))]

CreateTask(x) ==
  [x EXCEPT !.tasks = Append(@, [status |-> "todo"]),
            !.timeline = Append(@, Entry("task_created", Len(x.tasks) + 1))]

\* updateIncidentTask: a field the request leaves out keeps its value.
UpdateTask(x, n, status) ==
  [x EXCEPT !.tasks[n] = [status |-> status],
            !.timeline = Append(@, Change("task_updated", n, x.tasks[n].status, status))]

\* validateIncidentEvidence: stored in the same organization.
Valid(org, evidence) == \A r \in evidence : r \in stored /\ OrgOf[r] = org

\* Slip: evidence may be linked twice.
Changed_LinksTwice(x) ==
  {LinkEvidence(x, r) : r \in {r \in Resources : Valid(x.org, {r})}}

\* Every outcome of the change routes that pass their checks.
Changed(x) ==
  {Transition(x, status) : status \in AllowedFrom[x.status]}
    \cup {Assign(x, user) : user \in Users \cup {Nobody}}
    \cup {CommentOn(x)}
    \cup {LinkEvidence(x, r) : r \in {r \in Resources \ x.evidence : Valid(x.org, {r})}}
    \cup {CreateTask(x)}
    \cup {UpdateTask(x, n, status) : n \in DOMAIN x.tasks, status \in TaskStatuses}

-----------------------------------------------------------------------------
(* The child tables.                                                       *)

\* What the child tables hold of incident i when its record is x.  An entry,
\* a link and a task keep the identity they were created with.
EvidenceRows(i, x) == {[incident |-> i, resource |-> r] : r \in x.evidence}
TimelineRows(i, x) == {[incident |-> i, at |-> n, entry |-> x.timeline[n]] : n \in DOMAIN x.timeline}
TaskRows(i, x) == {[incident |-> i, task |-> n, value |-> x.tasks[n]] : n \in DOMAIN x.tasks}

\* Slip: tasks are written when there are more of them, like the rest.
Persisted_NewTasksOnly(i, before, after) ==
  [evidence |-> rows.evidence \cup EvidenceRows(i, after),
   timeline |-> rows.timeline \cup TimelineRows(i, after),
   tasks    |-> IF Len(after.tasks) > Len(before.tasks)
                THEN rows.tasks \cup TaskRows(i, after) ELSE rows.tasks]

\* persistIncidentChildren: evidence and timeline are inserted when they have
\* grown, ON CONFLICT DO NOTHING; tasks are always upserted.
Persisted(i, before, after) ==
  [evidence |-> IF Cardinality(after.evidence) > Cardinality(before.evidence)
                THEN rows.evidence \cup EvidenceRows(i, after) ELSE rows.evidence,
   timeline |-> IF Len(after.timeline) > Len(before.timeline)
                THEN rows.timeline \cup TimelineRows(i, after) ELSE rows.timeline,
   tasks    |-> {t \in rows.tasks : t.incident = i => t.task \notin DOMAIN after.tasks}
                  \cup TaskRows(i, after)]

-----------------------------------------------------------------------------
Idle == [pc |-> "idle"]

Init ==
  /\ dataStore \in DataStores
  /\ stored = {}
  /\ incidents = << >>
  /\ rows = [evidence |-> {}, timeline |-> {}, tasks |-> {}]
  /\ request = [c \in Requests |-> Idle]
  /\ answers = {}
  /\ rollbacks = 0

\* Ingestion, detection, risk analysis or simulation stores a resource.
StoreResource(r) ==
  /\ r \notin stored
  /\ stored' = stored \cup {r}
  /\ UNCHANGED <<incidents, rows, request, answers, rollbacks, dataStore>>

-----------------------------------------------------------------------------
(* Creation.                                                               *)

\* The evidence is validated; the store is called after that.
RequestCreate(c, input) ==
  /\ request[c] = Idle
  /\ Valid(input.org, input.evidence)
  /\ request' = [request EXCEPT ![c] = [pc |-> "create", input |-> input]]
  /\ UNCHANGED <<stored, incidents, rows, answers, rollbacks, dataStore>>

WithKey(org, key) == {i \in DOMAIN incidents : incidents[i].org = org /\ incidents[i].key = key}

Answer(c, i) ==
  /\ answers' = answers \cup {[input |-> request[c].input, incident |-> i]}
  /\ request' = [request EXCEPT ![c] = Idle]

\* Slip: keys are not unique.
InsertIncident_NoKey(c) ==
  /\ request[c].pc = "create"
  /\ Len(incidents) < MaxIncidents
  /\ \E x \in NewIncidents(request[c].input) :
       /\ incidents' = Append(incidents, x)
       /\ rows' = IF dataStore = "postgres"
                  THEN Persisted(Len(incidents) + 1, [x EXCEPT !.evidence = {}, !.timeline = << >>], x)
                  ELSE rows
  /\ Answer(c, Len(incidents) + 1)
  /\ UNCHANGED <<stored, rollbacks, dataStore>>

\* createIncident of the store: the key is new in its organization.
InsertIncident(c) ==
  /\ request[c].pc = "create"
  /\ WithKey(request[c].input.org, request[c].input.key) = {}
  /\ Len(incidents) < MaxIncidents
  /\ \E x \in NewIncidents(request[c].input) :
       /\ incidents' = Append(incidents, x)
       /\ rows' = IF dataStore = "postgres"
                  THEN Persisted(Len(incidents) + 1, [x EXCEPT !.evidence = {}, !.timeline = << >>], x)
                  ELSE rows
  /\ Answer(c, Len(incidents) + 1)
  /\ UNCHANGED <<stored, rollbacks, dataStore>>

\* The key exists: the incident it created is the answer, if the request is
\* the same one.
ReturnExisting(c) ==
  /\ request[c].pc = "create"
  /\ \E i \in WithKey(request[c].input.org, request[c].input.key) :
       /\ incidents[i].fingerprint = Fingerprint(request[c].input)
       /\ Answer(c, i)
  /\ UNCHANGED <<stored, incidents, rows, rollbacks, dataStore>>

\* 409: the key was used with different incident data.
RefuseKey(c) ==
  /\ request[c].pc = "create"
  /\ \E i \in WithKey(request[c].input.org, request[c].input.key) :
       incidents[i].fingerprint # Fingerprint(request[c].input)
  /\ request' = [request EXCEPT ![c] = Idle]
  /\ UNCHANGED <<stored, incidents, rows, answers, rollbacks, dataStore>>

-----------------------------------------------------------------------------
(* Change.                                                                 *)

\* mutateIncident of the in-memory store runs without an await.
ChangeInMemory(i) ==
  /\ dataStore = "memory"
  /\ Len(incidents[i].timeline) < MaxEntries
  /\ \E x \in Changed(incidents[i]) : incidents' = [incidents EXCEPT ![i] = x]
  /\ UNCHANGED <<stored, rows, request, answers, rollbacks, dataStore>>

\* Slip: the row is read without a lock.
BeginChange_NoLock(c, i) ==
  /\ dataStore = "postgres"
  /\ request[c] = Idle
  /\ Len(incidents[i].timeline) < MaxEntries
  /\ \E x \in Changed(incidents[i]) :
       request' = [request EXCEPT ![c] = [pc |-> "change", incident |-> i, before |-> incidents[i], after |-> x]]
  /\ UNCHANGED <<stored, incidents, rows, answers, rollbacks, dataStore>>

\* mutateIncident of Postgres: SELECT ... FOR UPDATE waits for whoever has the
\* row, and the change is made of what it reads.
BeginChange(c, i) ==
  /\ dataStore = "postgres"
  /\ request[c] = Idle
  /\ \A d \in Requests : request[d].pc = "change" => request[d].incident # i
  /\ Len(incidents[i].timeline) < MaxEntries
  /\ \E x \in Changed(incidents[i]) :
       request' = [request EXCEPT ![c] = [pc |-> "change", incident |-> i, before |-> incidents[i], after |-> x]]
  /\ UNCHANGED <<stored, incidents, rows, answers, rollbacks, dataStore>>

\* The document and the child rows are written, and the transaction commits.
CommitChange(c) ==
  /\ request[c].pc = "change"
  /\ incidents' = [incidents EXCEPT ![request[c].incident] = request[c].after]
  /\ rows' = Persisted(request[c].incident, request[c].before, request[c].after)
  /\ request' = [request EXCEPT ![c] = Idle]
  /\ UNCHANGED <<stored, answers, rollbacks, dataStore>>

\* A statement of the transaction fails, and everything it wrote is undone.
RollBack(c) ==
  /\ dataStore = "postgres" /\ rollbacks < MaxRollbacks
  /\ request[c] # Idle
  /\ request' = [request EXCEPT ![c] = Idle]
  /\ rollbacks' = rollbacks + 1
  /\ UNCHANGED <<stored, incidents, rows, answers, dataStore>>

-----------------------------------------------------------------------------
Next ==
  \/ \E r \in Resources : StoreResource(r)
  \/ \E c \in Requests :
       \/ \E input \in CreateRequest : RequestCreate(c, input)
       \/ InsertIncident(c) \/ ReturnExisting(c) \/ RefuseKey(c)
       \/ \E i \in DOMAIN incidents : BeginChange(c, i)
       \/ CommitChange(c) \/ RollBack(c)
  \/ \E i \in DOMAIN incidents : ChangeInMemory(i)

Spec == Init /\ [][Next]_vars

-----------------------------------------------------------------------------
(* Properties.                                                             *)

RequestType ==
  {Idle} \cup [pc : {"create"}, input : CreateRequest]
         \cup [pc : {"change"}, incident : Nat, before : IncidentRecord, after : IncidentRecord]

\* Every variable has its schema, and what requests and answers name exists.
TypeOK ==
  /\ dataStore \in DataStores
  /\ stored \subseteq Resources
  /\ incidents \in Seq(IncidentRecord)
  /\ request \in [Requests -> RequestType]
  /\ \A c \in Requests : request[c].pc = "change" => request[c].incident \in DOMAIN incidents
  /\ answers \subseteq [input : CreateRequest, incident : DOMAIN incidents]
  /\ rollbacks \in Nat

Changes(timeline) == {n \in DOMAIN timeline : timeline[n].type = "status_changed"}

\* The status a timeline tells: that of its last status change.
Tells(timeline, status) ==
  \/ Changes(timeline) = {} /\ status = "new"
  \/ \E n \in Changes(timeline) :
       timeline[n].to = status /\ \A m \in Changes(timeline) : m <= n

TellsStatus(x) ==
  LET t == x.timeline IN
  /\ Tells(t, x.status)
  /\ \A n \in Changes(t) :
       t[n].to \in AllowedFrom[t[n].from] /\ Tells(SubSeq(t, 1, n - 1), t[n].from)

\* The timeline tells the status: its status changes are allowed transitions,
\* each from where the one before went, and the last one went to the current
\* status.  A lost or repeated change would break the chain (mutateIncident).
TimelineTellsStatus == \A i \in DOMAIN incidents : TellsStatus(incidents[i])

\* The last change to a status is the n-th entry.
LastTo(timeline, status, n) ==
  /\ n \in Changes(timeline) /\ timeline[n].to = status
  /\ \A m \in Changes(timeline) : timeline[m].to = status => m <= n

TimesBelong(x) ==
  /\ x.summary <=> x.status \in {"resolved", "closed"}
  /\ IF x.status \in {"resolved", "closed"} THEN LastTo(x.timeline, "resolved", x.resolvedAt)
     ELSE x.resolvedAt = Never
  /\ IF x.status = "closed" THEN LastTo(x.timeline, "closed", x.closedAt) ELSE x.closedAt = Never
  /\ IF x.status = "new" THEN x.acknowledgedAt = Never
     ELSE /\ x.acknowledgedAt \in Changes(x.timeline)
          /\ \A m \in Changes(x.timeline) : x.acknowledgedAt <= m

\* Resolved, closed and reopened any number of times, an incident has a
\* summary exactly while it is resolved or closed, the times it shows are
\* those of its current resolution and closure, and it is acknowledged once,
\* by its first status change (transitionIncident).
TimesBelongToStatus == \A i \in DOMAIN incidents : TimesBelong(incidents[i])

About(x, type) == {x.timeline[n].about : n \in {n \in DOMAIN x.timeline : x.timeline[n].type = type}}

AccountedFor(x) ==
  /\ x.evidence = About(x, "evidence_linked")
  /\ DOMAIN x.tasks = About(x, "task_created")
  /\ \A m, n \in DOMAIN x.timeline :
       x.timeline[m].type = "evidence_linked" /\ x.timeline[m] = x.timeline[n] => m = n
  /\ Valid(x.org, x.evidence)

\* Evidence and tasks are accounted for: an incident holds exactly what its
\* timeline says was linked and created, each link once, and all of it was
\* stored in the same organization.
EvidenceIsAccountedFor == TypeOK /\ \A i \in DOMAIN incidents : AccountedFor(incidents[i])

\* In Postgres the child tables agree with the documents, although the tables
\* are only written to in part, and nothing of a transaction that failed stays.
TablesMatchRecords ==
  dataStore = "postgres" =>
    /\ rows.evidence = UNION {EvidenceRows(i, incidents[i]) : i \in DOMAIN incidents}
    /\ rows.timeline = UNION {TimelineRows(i, incidents[i]) : i \in DOMAIN incidents}
    /\ rows.tasks = UNION {TaskRows(i, incidents[i]) : i \in DOMAIN incidents}

\* A creation request that is repeated, also at the same time, gets the
\* incident of the first one: requests with the same key that were answered
\* were the same request and name one incident.
CreationIsIdempotent ==
  \A a, b \in answers :
    a.input.org = b.input.org /\ a.input.key = b.input.key => a = b

\* "Reopening ... without erasing prior timeline evidence": no change, and no
\* overlap of changes, takes a timeline entry or a link away.
HistoryIsKept ==
  [][\A i \in DOMAIN incidents :
       /\ i \in DOMAIN incidents'
       /\ SubSeq(incidents'[i].timeline, 1, Len(incidents[i].timeline)) = incidents[i].timeline
       /\ incidents[i].evidence \subseteq incidents'[i].evidence]_vars
=============================================================================
