------------------------ MODULE IncidentWorkflow_proofs ------------------------
(***************************************************************************)
(* Proofs about incidents, for any number of requests, incidents and       *)
(* changes and either store: what a timeline tells of its incident, that   *)
(* creation is idempotent, that no history is lost, and that the child     *)
(* tables agree with the documents.                                        *)
(***************************************************************************)
EXTENDS IncidentWorkflow, FiniteSetTheorems, SequenceTheorems, TLAPS

-----------------------------------------------------------------------------
(* The inductive invariant.                                                *)

\* Nothing goes back to new.
NeverNewAgain(x) == \A n \in Changes(x.timeline) : x.timeline[n].to # "new"

\* An incident that is as the properties say.
RecordOK(x) ==
  /\ x \in IncidentRecord /\ IsFiniteSet(x.evidence)
  /\ TellsStatus(x) /\ NeverNewAgain(x) /\ TimesBelong(x) /\ AccountedFor(x)

\* What a change makes of x: one more entry of the timeline, and nothing that
\* identified it or was linked to it is lost.
Grown(x, y) ==
  /\ y.org = x.org /\ y.key = x.key /\ y.fingerprint = x.fingerprint
  /\ x.evidence \subseteq y.evidence /\ DOMAIN x.tasks \subseteq DOMAIN y.tasks
  /\ Len(y.timeline) = Len(x.timeline) + 1
  /\ SubSeq(y.timeline, 1, Len(x.timeline)) = x.timeline

\* Incidents are as the properties say, each with a key of its own.
RecordsOK ==
  /\ \A i \in DOMAIN incidents : RecordOK(incidents[i])
  /\ \A i, j \in DOMAIN incidents :
       incidents[i].org = incidents[j].org /\ incidents[i].key = incidents[j].key => i = j

\* A change is made of what the row holds while it is locked.
RequestsOK ==
  /\ \A c \in Requests :
       /\ request[c].pc = "create" => Valid(request[c].input.org, request[c].input.evidence)
       /\ request[c].pc = "change" =>
            /\ dataStore = "postgres"
            /\ request[c].before = incidents[request[c].incident]
            /\ RecordOK(request[c].after)
            /\ Grown(request[c].before, request[c].after)
  /\ \A c, d \in Requests :
       request[c].pc = "change" /\ request[d].pc = "change" /\ request[c].incident = request[d].incident
         => c = d

\* A request that was answered is the one its incident was created with.
AnswersOK ==
  \A a \in answers : /\ incidents[a.incident].org = a.input.org
                     /\ incidents[a.incident].key = a.input.key
                     /\ incidents[a.incident].fingerprint = a.input

\* What is stored can be counted.
StoredOK == IsFiniteSet(stored)

IInv ==
  /\ TypeOK /\ StoredOK
  /\ RecordsOK /\ RequestsOK /\ AnswersOK
  /\ TablesMatchRecords

-----------------------------------------------------------------------------
(* Timelines.                                                              *)

\* A sequence with one more element.
LEMMA Appended ==
  ASSUME NEW S, NEW s \in Seq(S), NEW e \in S
  PROVE  LET t == Append(s, e) IN
         /\ t \in Seq(S) /\ Len(s) \in Nat /\ Len(t) = Len(s) + 1
         /\ DOMAIN s = 1..Len(s) /\ DOMAIN t = 1..(Len(s) + 1)
         /\ DOMAIN t = DOMAIN s \cup {Len(s) + 1} /\ Len(s) + 1 \notin DOMAIN s
         /\ \A n \in DOMAIN s : t[n] = s[n]
         /\ t[Len(s) + 1] = e
         /\ \A n \in 0..Len(s) : SubSeq(t, 1, n) = SubSeq(s, 1, n)
         /\ SubSeq(t, 1, Len(s)) = s
<1> DEFINE t == Append(s, e)
<1>1. /\ t \in Seq(S) /\ Len(s) \in Nat /\ Len(t) = Len(s) + 1
      /\ DOMAIN s = 1..Len(s) /\ DOMAIN t = 1..(Len(s) + 1)
      /\ \A n \in 1..Len(s) : t[n] = s[n]
      /\ t[Len(s) + 1] = e
  BY AppendProperties, LenProperties
<1>2. DOMAIN t = DOMAIN s \cup {Len(s) + 1} /\ Len(s) + 1 \notin DOMAIN s
  BY <1>1
<1> HIDE DEF t
<1>3. \A n \in 0..Len(s) : SubSeq(t, 1, n) = SubSeq(s, 1, n)
  <2> SUFFICES ASSUME NEW n \in 0..Len(s) PROVE SubSeq(t, 1, n) = SubSeq(s, 1, n)
    OBVIOUS
  <2>1. n \in 0..Len(t)
    BY <1>1
  <2>2. SubSeq(t, 1, n) = Restrict(t, 1..n) /\ SubSeq(s, 1, n) = Restrict(s, 1..n)
    BY <1>1, <2>1, SubSeqRestrict
  <2>3. \A k \in 1..n : t[k] = s[k]
    BY <1>1
  <2> QED BY <2>2, <2>3 DEF Restrict
<1>4. SubSeq(s, 1, Len(s)) = s
  BY SubSeqFull
<1>5. SubSeq(t, 1, Len(s)) = s
  BY <1>1, <1>3, <1>4
<1> QED BY <1>1, <1>2, <1>3, <1>5 DEF t

\* What an entry adds to the status a timeline tells.
LEMMA Told ==
  ASSUME NEW t \in Seq(TimelineEntry), NEW e \in TimelineEntry
  PROVE  LET u == Append(t, e) IN
         /\ e.type # "status_changed" =>
              Changes(u) = Changes(t) /\ \A status : Tells(t, status) => Tells(u, status)
         /\ e.type = "status_changed" =>
              Changes(u) = Changes(t) \cup {Len(t) + 1} /\ Tells(u, e.to)
         /\ \A n \in Changes(t) : n \in DOMAIN t /\ n \in Nat /\ n # 0 /\ n <= Len(t) /\ u[n] = t[n]
         /\ \A n \in Changes(t) : SubSeq(u, 1, n - 1) = SubSeq(t, 1, n - 1)
<1> DEFINE u == Append(t, e)
           now == Len(t) + 1
<1>1. /\ Len(t) \in Nat /\ DOMAIN t = 1..Len(t)
      /\ DOMAIN u = DOMAIN t \cup {now} /\ now \notin DOMAIN t
      /\ \A n \in DOMAIN t : u[n] = t[n]
      /\ u[now] = e
      /\ \A n \in 0..Len(t) : SubSeq(u, 1, n) = SubSeq(t, 1, n)
  BY Appended
<1> HIDE DEF u
<1>2. \A n \in Changes(t) : n \in DOMAIN t /\ n \in Nat /\ n # 0 /\ n <= Len(t) /\ u[n] = t[n]
  BY <1>1 DEF Changes
<1>3. \A n \in Changes(t) : SubSeq(u, 1, n - 1) = SubSeq(t, 1, n - 1)
  <2>1. \A n \in Changes(t) : n - 1 \in 0..Len(t)
    BY <1>1, <1>2
  <2> QED BY <1>1, <2>1
<1>4. ASSUME e.type # "status_changed"
      PROVE  Changes(u) = Changes(t) /\ \A status : Tells(t, status) => Tells(u, status)
  <2>1. Changes(u) = Changes(t)
    BY <1>1, <1>4 DEF Changes
  <2> QED BY <1>2, <2>1 DEF Tells
<1>5. ASSUME e.type = "status_changed"
      PROVE  Changes(u) = Changes(t) \cup {now} /\ Tells(u, e.to)
  <2>1. Changes(u) = Changes(t) \cup {now}
    BY <1>1, <1>5 DEF Changes
  <2>2. \A m \in Changes(u) : m <= now
    BY <1>1, <1>2, <2>1
  <2> QED BY <1>1, <2>1, <2>2 DEF Tells
<1> QED BY <1>2, <1>3, <1>4, <1>5 DEF u

\* What an entry adds to the things a timeline is about.
LEMMA AboutAppended ==
  ASSUME NEW x, NEW y, x.timeline \in Seq(TimelineEntry), NEW e \in TimelineEntry,
         y.timeline = Append(x.timeline, e), NEW type
  PROVE  About(y, type) = About(x, type) \cup (IF e.type = type THEN {e.about} ELSE {})
<1> DEFINE t == x.timeline
           u == y.timeline
           now == Len(t) + 1
<1>1. /\ DOMAIN u = DOMAIN t \cup {now} /\ now \notin DOMAIN t
      /\ \A n \in DOMAIN t : u[n] = t[n]
      /\ u[now] = e
  BY Appended
<1> HIDE DEF t, u, now
<1>2. ASSUME NEW a \in {u[n].about : n \in {n \in DOMAIN u : u[n].type = type}}
      PROVE  a \in {t[n].about : n \in {n \in DOMAIN t : t[n].type = type}} \cup (IF e.type = type THEN {e.about} ELSE {})
  <2>1. PICK n \in DOMAIN u : u[n].type = type /\ a = u[n].about
    OBVIOUS
  <2>2. CASE n \in DOMAIN t
    BY <1>1, <2>1, <2>2
  <2>3. CASE n = now
    BY <1>1, <2>1, <2>3
  <2> QED BY <1>1, <2>1, <2>2, <2>3
<1>3. ASSUME NEW a \in {t[n].about : n \in {n \in DOMAIN t : t[n].type = type}} \cup (IF e.type = type THEN {e.about} ELSE {})
      PROVE  a \in {u[n].about : n \in {n \in DOMAIN u : u[n].type = type}}
  <2>1. CASE a \in {t[n].about : n \in {n \in DOMAIN t : t[n].type = type}}
    BY <1>1, <2>1
  <2>2. CASE e.type = type /\ a = e.about
    BY <1>1, <2>2
  <2> QED BY <1>3, <2>1, <2>2
<1> QED BY <1>2, <1>3, Zenon DEF About, t, u

-----------------------------------------------------------------------------
(* Changes of an incident.                                                 *)

\* An entry about something else tells the same status and times.
LEMMA QuietChange ==
  ASSUME NEW x \in IncidentRecord, NEW y \in IncidentRecord, NEW e \in TimelineEntry,
         TellsStatus(x), NeverNewAgain(x), TimesBelong(x),
         y.timeline = Append(x.timeline, e), e.type # "status_changed",
         y.status = x.status, y.summary = x.summary, y.acknowledgedAt = x.acknowledgedAt,
         y.resolvedAt = x.resolvedAt, y.closedAt = x.closedAt
  PROVE  TellsStatus(y) /\ NeverNewAgain(y) /\ TimesBelong(y)
<1> DEFINE t == x.timeline
           u == y.timeline
<1>1. t \in Seq(TimelineEntry)
  BY DEF IncidentRecord
<1>2. /\ Changes(u) = Changes(t) /\ \A status : Tells(t, status) => Tells(u, status)
      /\ \A n \in Changes(t) : u[n] = t[n] /\ SubSeq(u, 1, n - 1) = SubSeq(t, 1, n - 1)
  BY <1>1, Told
<1> HIDE DEF t, u
<1>3. TellsStatus(y)
  <2>1. /\ Tells(t, x.status)
        /\ \A n \in Changes(t) :
             t[n].to \in AllowedFrom[t[n].from] /\ Tells(SubSeq(t, 1, n - 1), t[n].from)
    BY DEF TellsStatus, t
  <2>2. /\ Tells(u, y.status)
        /\ \A n \in Changes(u) :
             u[n].to \in AllowedFrom[u[n].from] /\ Tells(SubSeq(u, 1, n - 1), u[n].from)
    BY <1>2, <2>1
  <2> QED BY <2>2 DEF TellsStatus, u
<1>4. NeverNewAgain(y)
  BY <1>2 DEF NeverNewAgain, t, u
<1>5. \A status, n : LastTo(t, status, n) => LastTo(u, status, n)
  BY <1>2 DEF LastTo
<1>6. TimesBelong(y)
  <2>1. /\ x.summary <=> x.status \in {"resolved", "closed"}
        /\ IF x.status \in {"resolved", "closed"} THEN LastTo(t, "resolved", x.resolvedAt)
           ELSE x.resolvedAt = Never
        /\ IF x.status = "closed" THEN LastTo(t, "closed", x.closedAt) ELSE x.closedAt = Never
        /\ IF x.status = "new" THEN x.acknowledgedAt = Never
           ELSE /\ x.acknowledgedAt \in Changes(t)
                /\ \A m \in Changes(t) : x.acknowledgedAt <= m
    BY DEF TimesBelong, t
  <2>2. /\ y.summary <=> y.status \in {"resolved", "closed"}
        /\ IF y.status \in {"resolved", "closed"} THEN LastTo(u, "resolved", y.resolvedAt)
           ELSE y.resolvedAt = Never
        /\ IF y.status = "closed" THEN LastTo(u, "closed", y.closedAt) ELSE y.closedAt = Never
        /\ IF y.status = "new" THEN y.acknowledgedAt = Never
           ELSE /\ y.acknowledgedAt \in Changes(u)
                /\ \A m \in Changes(u) : y.acknowledgedAt <= m
    BY <1>2, <1>5, <2>1
  <2> QED BY <2>2 DEF TimesBelong, u
<1> QED BY <1>3, <1>4, <1>6

\* A transition to an allowed status leaves an incident whose timeline and
\* times tell it.
LEMMA TransitionKeeps ==
  ASSUME NEW x, RecordOK(x), NEW status \in AllowedFrom[x.status]
  PROVE  LET y == Transition(x, status) IN RecordOK(y) /\ Grown(x, y)
<1> DEFINE y == Transition(x, status)
           t == x.timeline
           now == Len(t) + 1
           e == Change("status_changed", Nobody, x.status, status)
           u == Append(t, e)
           reopened == status = "investigating" /\ x.status \in {"resolved", "closed"}
           ack == IF x.acknowledgedAt = Never THEN now ELSE x.acknowledgedAt
           resolved == IF status = "resolved" THEN now ELSE IF reopened THEN Never ELSE x.resolvedAt
           closed == IF status = "closed" THEN now ELSE IF reopened THEN Never ELSE x.closedAt
           summary == status \in {"resolved", "closed"} \/ (x.summary /\ ~reopened)
<1>1. /\ x \in IncidentRecord /\ t \in Seq(TimelineEntry) /\ x.status \in Statuses
      /\ TellsStatus(x) /\ NeverNewAgain(x) /\ TimesBelong(x) /\ AccountedFor(x) /\ IsFiniteSet(x.evidence)
  BY DEF RecordOK, IncidentRecord
<1>2. status \in Statuses /\ status # "new"
      /\ (status = "closed" => x.status = "resolved")
      /\ (x.status = "closed" => status = "investigating")
      /\ (x.status = "resolved" => status \in {"closed", "investigating"})
  BY <1>1 DEF AllowedFrom, Statuses
<1>3. e \in TimelineEntry /\ e.type = "status_changed" /\ e.from = x.status /\ e.to = status /\ e.about = Nobody
  BY <1>1, <1>2 DEF Change, TimelineEntry, EntryTypes
<1>4. /\ u \in Seq(TimelineEntry) /\ Len(t) \in Nat /\ Len(u) = Len(t) + 1 /\ SubSeq(u, 1, Len(t)) = t
      /\ DOMAIN u = DOMAIN t \cup {now} /\ now \notin DOMAIN t /\ u[now] = e
      /\ \A n \in DOMAIN t : u[n] = t[n]
  BY <1>1, <1>3, Appended
<1>5. /\ Changes(u) = Changes(t) \cup {now} /\ Tells(u, status)
      /\ \A n \in Changes(t) : n \in DOMAIN t /\ n \in Nat /\ n # 0 /\ n <= Len(t) /\ u[n] = t[n]
      /\ \A n \in Changes(t) : SubSeq(u, 1, n - 1) = SubSeq(t, 1, n - 1)
  BY <1>1, <1>3, Told
<1>6. now \in Nat /\ now # 0 /\ now - 1 = Len(t)
  BY <1>4
<1>7. y = [x EXCEPT !.status = status, !.acknowledgedAt = ack, !.resolvedAt = resolved,
                    !.closedAt = closed, !.summary = summary, !.timeline = u]
  BY DEF Transition
<1>8. ack \in Nat /\ resolved \in Nat /\ closed \in Nat /\ summary \in BOOLEAN
  BY <1>1, <1>6 DEF IncidentRecord, Never
<1> HIDE DEF u, e, ack, resolved, closed, summary, y, now
<1>9. /\ y \in IncidentRecord /\ y.status = status /\ y.acknowledgedAt = ack /\ y.resolvedAt = resolved
      /\ y.closedAt = closed /\ y.summary = summary /\ y.timeline = u
      /\ y.org = x.org /\ y.key = x.key /\ y.fingerprint = x.fingerprint
      /\ y.evidence = x.evidence /\ y.tasks = x.tasks
  BY <1>1, <1>2, <1>4, <1>7, <1>8 DEF IncidentRecord
<1>10. TellsStatus(y)
  <2>1. \A n \in Changes(t) : t[n].to \in AllowedFrom[t[n].from] /\ Tells(SubSeq(t, 1, n - 1), t[n].from)
    BY <1>1 DEF TellsStatus
  <2>2. SubSeq(u, 1, now - 1) = t /\ Tells(t, x.status)
    BY <1>1, <1>4, <1>6 DEF TellsStatus
  <2>3. \A n \in Changes(u) : u[n].to \in AllowedFrom[u[n].from] /\ Tells(SubSeq(u, 1, n - 1), u[n].from)
    BY <1>3, <1>4, <1>5, <2>1, <2>2
  <2> QED BY <1>5, <1>9, <2>3 DEF TellsStatus
<1>11. NeverNewAgain(y)
  BY <1>1, <1>2, <1>3, <1>4, <1>5, <1>9 DEF NeverNewAgain
<1>12. /\ x.summary <=> x.status \in {"resolved", "closed"}
       /\ IF x.status \in {"resolved", "closed"} THEN LastTo(t, "resolved", x.resolvedAt)
          ELSE x.resolvedAt = Never
       /\ IF x.status = "closed" THEN LastTo(t, "closed", x.closedAt) ELSE x.closedAt = Never
       /\ IF x.status = "new" THEN x.acknowledgedAt = Never
          ELSE /\ x.acknowledgedAt \in Changes(t)
               /\ \A m \in Changes(t) : x.acknowledgedAt <= m
  BY <1>1 DEF TimesBelong
<1>13. LastTo(u, status, now)
  BY <1>3, <1>4, <1>5 DEF LastTo
<1>14. \A s, n : s # status /\ LastTo(t, s, n) => LastTo(u, s, n)
  BY <1>3, <1>4, <1>5 DEF LastTo
<1>15. y.summary <=> y.status \in {"resolved", "closed"}
  BY <1>1, <1>2, <1>9, <1>12 DEF summary
<1>16. IF y.status \in {"resolved", "closed"} THEN LastTo(u, "resolved", y.resolvedAt) ELSE y.resolvedAt = Never
  BY <1>1, <1>2, <1>9, <1>12, <1>13, <1>14 DEF resolved
<1>17. IF y.status = "closed" THEN LastTo(u, "closed", y.closedAt) ELSE y.closedAt = Never
  BY <1>1, <1>2, <1>9, <1>12, <1>13 DEF closed
<1>18. y.acknowledgedAt \in Changes(u) /\ \A m \in Changes(u) : y.acknowledgedAt <= m
  <2>1. CASE x.status = "new"
    <3>1. Changes(t) = {}
      BY <1>1, <2>1 DEF TellsStatus, Tells, NeverNewAgain
    <3>2. ack = now
      BY <1>12, <2>1 DEF ack
    <3> QED BY <1>5, <1>6, <1>9, <3>1, <3>2
  <2>2. CASE x.status # "new"
    <3>1. x.acknowledgedAt \in Changes(t) /\ ack = x.acknowledgedAt
      BY <1>5, <1>12, <2>2 DEF ack, Never
    <3>2. x.acknowledgedAt <= now
      BY <1>4, <1>5, <3>1 DEF now
    <3> QED BY <1>5, <1>9, <1>12, <2>2, <3>1, <3>2
  <2> QED BY <2>1, <2>2
<1>19. TimesBelong(y)
  BY <1>2, <1>9, <1>15, <1>16, <1>17, <1>18 DEF TimesBelong
<1>20. AccountedFor(y)
  <2>1. \A type : type # "status_changed" => About(y, type) = About(x, type)
    <3> SUFFICES ASSUME NEW type, type # "status_changed" PROVE About(y, type) = About(x, type)
      OBVIOUS
    <3>1. About(y, type) = About(x, type) \cup (IF e.type = type THEN {e.about} ELSE {})
      BY <1>1, <1>3, <1>9, AboutAppended DEF u
    <3> QED BY <1>3, <3>1
  <2>2. \A m, n \in DOMAIN u : u[m].type = "evidence_linked" /\ u[m] = u[n] => m = n
    BY <1>1, <1>3, <1>4 DEF AccountedFor
  <2> QED BY <1>1, <1>9, <2>1, <2>2 DEF AccountedFor
<1>21. Grown(x, y)
  BY <1>4, <1>9 DEF Grown
<1> QED BY <1>1, <1>9, <1>10, <1>11, <1>19, <1>20, <1>21 DEF RecordOK, y

\* What the other changes have in common: one entry about something else.
LEMMA OtherChange ==
  ASSUME NEW x, RecordOK(x), NEW y \in IncidentRecord, NEW e \in TimelineEntry,
         y.timeline = Append(x.timeline, e), e.type # "status_changed",
         y.org = x.org, y.key = x.key, y.fingerprint = x.fingerprint,
         y.status = x.status, y.summary = x.summary, y.acknowledgedAt = x.acknowledgedAt,
         y.resolvedAt = x.resolvedAt, y.closedAt = x.closedAt,
         y.evidence = x.evidence \cup (IF e.type = "evidence_linked" THEN {e.about} ELSE {}),
         DOMAIN y.tasks = DOMAIN x.tasks \cup (IF e.type = "task_created" THEN {e.about} ELSE {}),
         e.type = "evidence_linked" => Valid(x.org, {e.about}) /\ e.about \notin x.evidence
  PROVE  RecordOK(y) /\ Grown(x, y)
<1> DEFINE t == x.timeline
           u == y.timeline
           now == Len(t) + 1
<1>1. /\ x \in IncidentRecord /\ t \in Seq(TimelineEntry) /\ IsFiniteSet(x.evidence)
      /\ TellsStatus(x) /\ NeverNewAgain(x) /\ TimesBelong(x) /\ AccountedFor(x)
  BY DEF RecordOK, IncidentRecord
<1>2. TellsStatus(y) /\ NeverNewAgain(y) /\ TimesBelong(y)
  BY <1>1, QuietChange
<1>3. /\ Len(t) \in Nat /\ Len(u) = Len(t) + 1 /\ SubSeq(u, 1, Len(t)) = t
      /\ DOMAIN u = DOMAIN t \cup {now} /\ now \notin DOMAIN t /\ u[now] = e
      /\ \A n \in DOMAIN t : u[n] = t[n]
  BY <1>1, Appended
<1>4. Grown(x, y)
  BY <1>3 DEF Grown
<1>5. IsFiniteSet(y.evidence)
  <2>1. IsFiniteSet({e.about})
    BY FS_Singleton
  <2>2. IsFiniteSet(x.evidence \cup {e.about})
    BY <1>1, <2>1, FS_Union
  <2>3. y.evidence = x.evidence \/ y.evidence = x.evidence \cup {e.about}
    OBVIOUS
  <2> QED BY <1>1, <2>2, <2>3
<1>6. AccountedFor(y)
  <2>1. \A type : About(y, type) = About(x, type) \cup (IF e.type = type THEN {e.about} ELSE {})
    BY <1>1, AboutAppended
  <2>2. y.evidence = About(y, "evidence_linked") /\ DOMAIN y.tasks = About(y, "task_created")
    BY <1>1, <2>1 DEF AccountedFor
  <2>3. \A n \in DOMAIN t : t[n].type = "evidence_linked" => t[n].about \in x.evidence
    BY <1>1 DEF AccountedFor, About
  <2>4. \A n \in DOMAIN t : e.type = "evidence_linked" => t[n] # e
    BY <2>3
  <2>5. \A m, n \in DOMAIN u : u[m].type = "evidence_linked" /\ u[m] = u[n] => m = n
    BY <1>1, <1>3, <2>4 DEF AccountedFor
  <2>6. Valid(y.org, y.evidence)
    BY <1>1 DEF AccountedFor, Valid
  <2> QED BY <2>2, <2>5, <2>6 DEF AccountedFor
<1> QED BY <1>2, <1>4, <1>5, <1>6 DEF RecordOK

\* Every change leaves an incident that is as the properties say.
LEMMA ChangedKeeps ==
  ASSUME NEW x, RecordOK(x), NEW y \in Changed(x)
  PROVE  RecordOK(y) /\ Grown(x, y)
<1> DEFINE With(user, evidence, tasks, e) ==
             [x EXCEPT !.assignee = user, !.evidence = evidence, !.tasks = tasks,
                       !.timeline = Append(x.timeline, e)]
           SameBut(z, evidence, tasks, e) ==
             /\ z \in IncidentRecord /\ z.timeline = Append(x.timeline, e) /\ z.tasks = tasks
             /\ z.evidence = evidence /\ z.org = x.org /\ z.key = x.key
             /\ z.fingerprint = x.fingerprint /\ z.status = x.status /\ z.summary = x.summary
             /\ z.acknowledgedAt = x.acknowledgedAt /\ z.resolvedAt = x.resolvedAt
             /\ z.closedAt = x.closedAt
<1>1. /\ x \in IncidentRecord /\ x.timeline \in Seq(TimelineEntry) /\ x.tasks \in Seq(IncidentTask)
      /\ x.evidence \subseteq Resources
  BY DEF RecordOK, IncidentRecord
<1>2. ASSUME NEW user \in Users \cup {Nobody}, NEW evidence \in SUBSET Resources,
             NEW tasks \in Seq(IncidentTask), NEW e \in TimelineEntry
      PROVE  SameBut(With(user, evidence, tasks, e), evidence, tasks, e)
  <2>1. Append(x.timeline, e) \in Seq(TimelineEntry)
    BY <1>1, AppendProperties
  <2> QED BY <1>1, <2>1 DEF IncidentRecord
<1>3. x.assignee \in Users \cup {Nobody}
  BY <1>1 DEF IncidentRecord
<1>4. \A type \in EntryTypes, about \in Resources \cup Users \cup {Nobody} \cup Nat :
        /\ Entry(type, about) \in TimelineEntry /\ Entry(type, about).type = type
        /\ Entry(type, about).about = about
  BY DEF Entry, TimelineEntry
<1>5. ASSUME NEW user \in Users \cup {Nobody}, y = Assign(x, user) PROVE RecordOK(y) /\ Grown(x, y)
  <2> DEFINE e == Entry("assignment_changed", user)
  <2>1. e \in TimelineEntry /\ e.type = "assignment_changed"
    BY <1>4 DEF EntryTypes
  <2> HIDE DEF e
  <2>2. y = With(user, x.evidence, x.tasks, e)
    BY <1>1, <1>5 DEF Assign, e, IncidentRecord
  <2>3. SameBut(y, x.evidence, x.tasks, e)
    <3> HIDE DEF With, SameBut
    <3> QED BY <1>1, <1>2, <2>1, <2>2
  <2> QED BY <2>1, <2>3, OtherChange
<1>6. CASE y = CommentOn(x)
  <2> DEFINE e == Entry("comment", Nobody)
  <2>1. e \in TimelineEntry /\ e.type = "comment"
    BY <1>4 DEF EntryTypes
  <2> HIDE DEF e
  <2>2. y = With(x.assignee, x.evidence, x.tasks, e)
    BY <1>1, <1>6 DEF CommentOn, e, IncidentRecord
  <2>3. SameBut(y, x.evidence, x.tasks, e)
    <3> HIDE DEF With, SameBut
    <3> QED BY <1>1, <1>2, <1>3, <2>1, <2>2
  <2> QED BY <2>1, <2>3, OtherChange
<1>7. ASSUME NEW r \in Resources \ x.evidence, Valid(x.org, {r}), y = LinkEvidence(x, r)
      PROVE  RecordOK(y) /\ Grown(x, y)
  <2> DEFINE e == Entry("evidence_linked", r)
  <2>1. e \in TimelineEntry /\ e.type = "evidence_linked" /\ e.about = r
    BY <1>4 DEF EntryTypes
  <2> HIDE DEF e
  <2>2. y = With(x.assignee, x.evidence \cup {r}, x.tasks, e)
    BY <1>1, <1>7 DEF LinkEvidence, e, IncidentRecord
  <2>3. SameBut(y, x.evidence \cup {r}, x.tasks, e)
    <3> HIDE DEF With, SameBut
    <3> QED BY <1>1, <1>2, <1>3, <2>1, <2>2
  <2> QED BY <1>7, <2>1, <2>3, OtherChange
<1>8. CASE y = CreateTask(x)
  <2> DEFINE n == Len(x.tasks) + 1
             e == Entry("task_created", n)
             tasks == Append(x.tasks, [status |-> "todo"])
  <2>0. [status |-> "todo"] \in IncidentTask
    BY TaskStatusesAssumption DEF IncidentTask
  <2>1. tasks \in Seq(IncidentTask) /\ n \in Nat /\ DOMAIN tasks = DOMAIN x.tasks \cup {n}
    BY <1>1, <2>0, Appended
  <2>2. e \in TimelineEntry /\ e.type = "task_created" /\ e.about = n
    BY <1>4, <2>1 DEF EntryTypes
  <2> HIDE DEF e, n, tasks
  <2>3. y = With(x.assignee, x.evidence, tasks, e)
    BY <1>1, <1>8 DEF CreateTask, e, n, tasks, IncidentRecord
  <2>4. SameBut(y, x.evidence, tasks, e)
    <3> HIDE DEF With, SameBut
    <3> QED BY <1>1, <1>2, <1>3, <2>1, <2>2, <2>3
  <2> QED BY <2>1, <2>2, <2>4, OtherChange
<1>9. ASSUME NEW n \in DOMAIN x.tasks, NEW status \in TaskStatuses, y = UpdateTask(x, n, status)
      PROVE  RecordOK(y) /\ Grown(x, y)
  <2> DEFINE e == Change("task_updated", n, x.tasks[n].status, status)
             tasks == [x.tasks EXCEPT ![n] = [status |-> status]]
  <2>1. n \in Nat /\ x.tasks[n] \in IncidentTask /\ DOMAIN x.tasks = 1..Len(x.tasks)
    BY <1>1, LenProperties, ElementOfSeq
  <2>2. x.tasks[n].status \in TaskStatuses /\ [status |-> status] \in IncidentTask
    BY <2>1 DEF IncidentTask
  <2>3. tasks \in Seq(IncidentTask) /\ DOMAIN tasks = DOMAIN x.tasks
    BY <1>1, <2>1, <2>2, ExceptSeq
  <2>4. e \in TimelineEntry /\ e.type = "task_updated"
    BY <2>1, <2>2 DEF Change, TimelineEntry, EntryTypes
  <2> HIDE DEF e, tasks
  <2>5. y = With(x.assignee, x.evidence, tasks, e)
    BY <1>1, <1>9 DEF UpdateTask, e, tasks, IncidentRecord
  <2>6. SameBut(y, x.evidence, tasks, e)
    <3> HIDE DEF With, SameBut
    <3> QED BY <1>1, <1>2, <1>3, <2>3, <2>4, <2>5
  <2> QED BY <2>3, <2>4, <2>6, OtherChange
<1>10. ASSUME NEW status \in AllowedFrom[x.status], y = Transition(x, status)
       PROVE  RecordOK(y) /\ Grown(x, y)
  BY <1>10, TransitionKeeps
<1> HIDE DEF With, SameBut
<1>11. \/ \E status \in AllowedFrom[x.status] : y = Transition(x, status)
       \/ \E user \in Users \cup {Nobody} : y = Assign(x, user)
       \/ y = CommentOn(x)
       \/ \E r \in Resources \ x.evidence : Valid(x.org, {r}) /\ y = LinkEvidence(x, r)
       \/ y = CreateTask(x)
       \/ \E n \in DOMAIN x.tasks, status \in TaskStatuses : y = UpdateTask(x, n, status)
  BY SMTT(30) DEF Changed
<1> QED BY <1>5, <1>6, <1>7, <1>8, <1>9, <1>10, <1>11

-----------------------------------------------------------------------------
(* Creation.                                                               *)

\* The timeline an incident starts with: that it was created, and every link.
LEMMA FirstTimeline ==
  ASSUME NEW S \in SUBSET Resources, IsFiniteSet(S),
         NEW order \in [1..Cardinality(S) -> S], \A r \in S : \E k \in DOMAIN order : order[k] = r
  PROVE  LET n == Cardinality(S)
             t == <<Entry("incident_created", Nobody)>> \o [k \in 1..n |-> Entry("evidence_linked", order[k])]
         IN  /\ t \in Seq(TimelineEntry) /\ n \in Nat /\ Len(t) = n + 1 /\ DOMAIN t = 1..(n + 1)
             /\ t[1] = Entry("incident_created", Nobody)
             /\ \A k \in 1..n : t[k + 1] = Entry("evidence_linked", order[k])
             /\ \A j, k \in 1..n : order[j] = order[k] => j = k
<1> DEFINE n == Cardinality(S)
           first == <<Entry("incident_created", Nobody)>>
           links == [k \in 1..n |-> Entry("evidence_linked", order[k])]
           t == first \o links
<1>1. n \in Nat
  BY FS_CardinalityType
<1>2. \A j, k \in 1..n : order[j] = order[k] => j = k
  <2>1. IsFiniteSet(1..n) /\ Cardinality(1..n) = n
    BY <1>1, FS_Interval
  <2>2. order \in Surjection(1..n, S)
    BY DEF Surjection
  <2>3. order \in Injection(1..n, S)
    BY <2>1, <2>2, FS_SurjSameCardinalityImpliesInj
  <2> QED BY <2>3 DEF Injection, IsInjective
<1>3. first \in Seq(TimelineEntry) /\ Len(first) = 1 /\ first[1] = Entry("incident_created", Nobody)
  <2>1. Entry("incident_created", Nobody) \in TimelineEntry
    BY DEF Entry, TimelineEntry, EntryTypes
  <2> QED BY <2>1
<1>4. links \in Seq(TimelineEntry) /\ Len(links) = n
  <2>1. \A k \in 1..n : Entry("evidence_linked", order[k]) \in TimelineEntry
    BY DEF Entry, TimelineEntry, EntryTypes
  <2>2. links \in [1..n -> TimelineEntry]
    BY <2>1
  <2>3. links \in Seq(TimelineEntry)
    BY <1>1, <2>2, SeqDef
  <2> QED BY <1>1, <2>2, <2>3, LenProperties
<1> HIDE DEF first
<1>5. /\ t \in Seq(TimelineEntry) /\ Len(t) = n + 1
      /\ \A i \in 1..(n + 1) : t[i] = IF i <= 1 THEN first[i] ELSE links[i - 1]
  <2> HIDE DEF links, n
  <2>1. /\ first \o links \in Seq(TimelineEntry)
        /\ Len(first \o links) = Len(first) + Len(links)
        /\ \A i \in 1 .. Len(first) + Len(links) :
             (first \o links)[i] = IF i <= Len(first) THEN first[i] ELSE links[i - Len(first)]
    BY <1>3, <1>4, ConcatProperties
  <2>2. Len(first) + Len(links) = n + 1
    BY <1>1, <1>3, <1>4
  <2> QED BY <1>3, <2>1, <2>2
<1> HIDE DEF t
<1>6. DOMAIN t = 1..(n + 1)
  BY <1>5, LenProperties
<1>7. t[1] = Entry("incident_created", Nobody)
  <2>1. 1 \in 1..(n + 1) /\ 1 <= 1
    BY <1>1
  <2> QED BY <1>3, <1>5, <2>1
<1>8. \A k \in 1..n : t[k + 1] = Entry("evidence_linked", order[k])
  <2> SUFFICES ASSUME NEW k \in 1..n PROVE t[k + 1] = Entry("evidence_linked", order[k])
    OBVIOUS
  <2>1. k + 1 \in 1..(n + 1) /\ ~(k + 1 <= 1) /\ (k + 1) - 1 = k
    BY <1>1
  <2> QED BY <1>5, <2>1
<1> QED BY <1>1, <1>2, <1>5, <1>6, <1>7, <1>8 DEF t, first

\* A new incident is as the properties say.
LEMMA NewIncidentOK ==
  ASSUME StoredOK, NEW input \in CreateRequest, Valid(input.org, input.evidence),
         NEW x \in NewIncidents(input)
  PROVE  /\ RecordOK(x) /\ x.org = input.org /\ x.key = input.key /\ x.fingerprint = input
         /\ x.tasks = << >> /\ Len(x.timeline) > 0
<1> DEFINE S == input.evidence
           n == Cardinality(S)
<1>1. S \in SUBSET Resources /\ IsFiniteSet(S)
  <2>1. S \subseteq stored
    BY DEF Valid
  <2> QED BY <2>1, FS_Subset DEF StoredOK, CreateRequest
<1>2. PICK order \in [1..n -> S] :
        /\ \A r \in S : \E k \in DOMAIN order : order[k] = r
        /\ x = [org |-> input.org, key |-> input.key, fingerprint |-> Fingerprint(input), status |-> "new",
                acknowledgedAt |-> Never, resolvedAt |-> Never, closedAt |-> Never, summary |-> FALSE,
                assignee |-> input.assignee, evidence |-> S, tasks |-> << >>,
                timeline |-> <<Entry("incident_created", Nobody)>>
                               \o [k \in 1..n |-> Entry("evidence_linked", order[k])]]
  BY DEF NewIncidents
<1> DEFINE t == <<Entry("incident_created", Nobody)>>
                  \o [k \in 1..n |-> Entry("evidence_linked", order[k])]
<1>3. /\ t \in Seq(TimelineEntry) /\ n \in Nat /\ Len(t) = n + 1 /\ DOMAIN t = 1..(n + 1)
      /\ t[1] = Entry("incident_created", Nobody)
      /\ \A k \in 1..n : t[k + 1] = Entry("evidence_linked", order[k])
      /\ \A j, k \in 1..n : order[j] = order[k] => j = k
  BY <1>1, <1>2, FirstTimeline
<1> HIDE DEF t, n
<1>4. << >> \in Seq(IncidentTask) /\ DOMAIN << >> = {}
  BY EmptySeq
<1>5. /\ x \in IncidentRecord /\ x.timeline = t /\ x.evidence = S /\ x.tasks = << >>
      /\ x.status = "new" /\ x.summary = FALSE /\ x.acknowledgedAt = Never /\ x.resolvedAt = Never
      /\ x.closedAt = Never /\ x.org = input.org /\ x.key = input.key /\ x.fingerprint = input
  <2>1. x = [org |-> input.org, key |-> input.key, fingerprint |-> input, status |-> "new",
             acknowledgedAt |-> Never, resolvedAt |-> Never, closedAt |-> Never, summary |-> FALSE,
             assignee |-> input.assignee, evidence |-> S, tasks |-> << >>, timeline |-> t]
    BY <1>2 DEF t, Fingerprint
  <2> QED BY <1>1, <1>3, <1>4, <2>1 DEF IncidentRecord, CreateRequest, Statuses, Never
<1>6. \A m \in DOMAIN t : \/ m = 1 /\ t[m].type = "incident_created"
                          \/ \E k \in 1..n : m = k + 1 /\ t[m].type = "evidence_linked" /\ t[m].about = order[k]
  <2>1. t[1].type = "incident_created"
    BY <1>3 DEF Entry
  <2>2. \A k \in 1..n : t[k + 1].type = "evidence_linked" /\ t[k + 1].about = order[k]
    <3>1. \A r : Entry("evidence_linked", r).type = "evidence_linked" /\ Entry("evidence_linked", r).about = r
      BY DEF Entry
    <3> QED BY <1>3, <3>1
  <2>3. \A m \in DOMAIN t : m = 1 \/ m - 1 \in 1..n
    BY <1>3
  <2>4. \A m \in DOMAIN t : m = (m - 1) + 1
    BY <1>3
  <2> QED BY <2>1, <2>2, <2>3, <2>4
<1>7. Changes(t) = {}
  BY <1>6 DEF Changes
<1>8. TellsStatus(x) /\ NeverNewAgain(x) /\ TimesBelong(x)
  BY <1>5, <1>7 DEF TellsStatus, Tells, NeverNewAgain, TimesBelong
<1>9. AccountedFor(x)
  <2>1. About(x, "task_created") = {}
    BY <1>5, <1>6 DEF About
  <2>2. About(x, "evidence_linked") = S
    <3>1. ASSUME NEW r \in S PROVE r \in About(x, "evidence_linked")
      <4>1. PICK k \in 1..n : order[k] = r
        BY <1>2
      <4>2. k + 1 \in DOMAIN t /\ t[k + 1].type = "evidence_linked" /\ t[k + 1].about = r
        <5>1. k + 1 \in DOMAIN t /\ t[k + 1] = Entry("evidence_linked", r)
          BY <1>3, <4>1
        <5> QED BY <5>1 DEF Entry
      <4> QED BY <1>5, <4>2 DEF About
    <3>2. ASSUME NEW r \in About(x, "evidence_linked") PROVE r \in S
      <4>1. PICK m \in DOMAIN t : t[m].type = "evidence_linked" /\ r = t[m].about
        BY <1>5 DEF About
      <4>2. PICK k \in 1..n : t[m].about = order[k]
        BY <1>6, <4>1
      <4> QED BY <1>2, <4>1, <4>2
    <3> QED BY <3>1, <3>2
  <2>3. \A m, k \in DOMAIN t : t[m].type = "evidence_linked" /\ t[m] = t[k] => m = k
    BY <1>3, <1>6
  <2> QED BY <1>4, <1>5, <2>1, <2>2, <2>3 DEF AccountedFor
<1>10. Len(x.timeline) > 0
  BY <1>3, <1>5
<1> QED BY <1>1, <1>5, <1>8, <1>9, <1>10 DEF RecordOK

-----------------------------------------------------------------------------
(* The child tables.                                                       *)

\* The entries of a timeline stay where they are.
LEMMA GrownTimeline ==
  ASSUME NEW x, NEW y, x.timeline \in Seq(TimelineEntry), y.timeline \in Seq(TimelineEntry), Grown(x, y)
  PROVE  /\ Len(x.timeline) \in Nat /\ Len(y.timeline) \in Nat /\ Len(y.timeline) > Len(x.timeline)
         /\ \A n \in DOMAIN x.timeline : n \in DOMAIN y.timeline /\ y.timeline[n] = x.timeline[n]
<1> DEFINE t == x.timeline
           u == y.timeline
<1>1. /\ Len(t) \in Nat /\ Len(u) = Len(t) + 1 /\ SubSeq(u, 1, Len(t)) = t
      /\ DOMAIN t = 1..Len(t) /\ DOMAIN u = 1..Len(u)
  BY LenProperties DEF Grown
<1> HIDE DEF t, u
<1>2. Len(t) \in 0..Len(u)
  BY <1>1
<1>3. SubSeq(u, 1, Len(t)) = Restrict(u, 1..Len(t))
  BY <1>2, SubSeqRestrict DEF u
<1>4. \A n \in DOMAIN t : n \in DOMAIN u /\ u[n] = t[n]
  BY <1>1, <1>3 DEF Restrict
<1> QED BY <1>1, <1>4 DEF t, u

\* The rows of all incidents but i.
OtherEvidence(i) == UNION {EvidenceRows(j, incidents[j]) : j \in DOMAIN incidents \ {i}}
OtherTimeline(i) == UNION {TimelineRows(j, incidents[j]) : j \in DOMAIN incidents \ {i}}
OtherTasks(i) == UNION {TaskRows(j, incidents[j]) : j \in DOMAIN incidents \ {i}}

\* Writing only what grew turns the rows of what an incident was before into
\* those of what it is after, and leaves the others alone.
LEMMA PersistedMatches ==
  ASSUME NEW i, NEW before, NEW after,
         IsFiniteSet(after.evidence), before.evidence \subseteq after.evidence,
         \A n \in DOMAIN before.timeline :
           n \in DOMAIN after.timeline /\ after.timeline[n] = before.timeline[n],
         Len(after.timeline) > Len(before.timeline),
         DOMAIN before.tasks \subseteq DOMAIN after.tasks,
         rows.evidence = EvidenceRows(i, before) \cup OtherEvidence(i),
         rows.timeline = TimelineRows(i, before) \cup OtherTimeline(i),
         rows.tasks = TaskRows(i, before) \cup OtherTasks(i)
  PROVE  LET new == Persisted(i, before, after) IN
         /\ new.evidence = EvidenceRows(i, after) \cup OtherEvidence(i)
         /\ new.timeline = TimelineRows(i, after) \cup OtherTimeline(i)
         /\ new.tasks = TaskRows(i, after) \cup OtherTasks(i)
<1> DEFINE new == Persisted(i, before, after)
<1>1. /\ new.evidence = IF Cardinality(after.evidence) > Cardinality(before.evidence)
                        THEN rows.evidence \cup EvidenceRows(i, after) ELSE rows.evidence
      /\ new.timeline = rows.timeline \cup TimelineRows(i, after)
      /\ new.tasks = {t \in rows.tasks : t.incident = i => t.task \notin DOMAIN after.tasks}
                       \cup TaskRows(i, after)
  BY DEF Persisted
<1> HIDE DEF new
<1>2. new.evidence = EvidenceRows(i, after) \cup OtherEvidence(i)
  <2>1. CASE Cardinality(after.evidence) > Cardinality(before.evidence)
    <3>1. EvidenceRows(i, before) \subseteq EvidenceRows(i, after)
      BY DEF EvidenceRows
    <3> QED BY <1>1, <2>1, <3>1
  <2>2. CASE ~(Cardinality(after.evidence) > Cardinality(before.evidence))
    <3>1. /\ IsFiniteSet(before.evidence) /\ Cardinality(before.evidence) <= Cardinality(after.evidence)
          /\ Cardinality(before.evidence) = Cardinality(after.evidence) => before.evidence = after.evidence
      BY FS_Subset
    <3>2. Cardinality(before.evidence) \in Nat /\ Cardinality(after.evidence) \in Nat
      BY <3>1, FS_CardinalityType
    <3>3. before.evidence = after.evidence
      BY <2>2, <3>1, <3>2
    <3> QED BY <1>1, <2>2, <3>3 DEF EvidenceRows
  <2> QED BY <2>1, <2>2
<1>3. new.timeline = TimelineRows(i, after) \cup OtherTimeline(i)
  <2>1. TimelineRows(i, before) \subseteq TimelineRows(i, after)
    BY DEF TimelineRows
  <2> QED BY <1>1, <2>1
<1>4. new.tasks = TaskRows(i, after) \cup OtherTasks(i)
  <2>1. \A t \in TaskRows(i, before) : t.incident = i /\ t.task \in DOMAIN after.tasks
    BY DEF TaskRows
  <2>2. \A t \in OtherTasks(i) : t.incident # i
    BY DEF OtherTasks, TaskRows
  <2> QED BY <1>1, <2>1, <2>2
<1> QED BY <1>2, <1>3, <1>4 DEF new

\* The rows of an incident and those of the others are all the rows.
LEMMA AllRows ==
  ASSUME NEW i \in DOMAIN incidents
  PROVE  /\ UNION {EvidenceRows(j, incidents[j]) : j \in DOMAIN incidents}
              = EvidenceRows(i, incidents[i]) \cup OtherEvidence(i)
         /\ UNION {TimelineRows(j, incidents[j]) : j \in DOMAIN incidents}
              = TimelineRows(i, incidents[i]) \cup OtherTimeline(i)
         /\ UNION {TaskRows(j, incidents[j]) : j \in DOMAIN incidents}
              = TaskRows(i, incidents[i]) \cup OtherTasks(i)
<1> QED BY DEF OtherEvidence, OtherTimeline, OtherTasks

-----------------------------------------------------------------------------
(* The steps.                                                              *)

\* What is stored stays valid evidence.
LEMMA StillOK ==
  ASSUME stored \subseteq stored'
  PROVE  /\ \A x : RecordOK(x) => RecordOK(x)'
         /\ \A org, evidence : Valid(org, evidence) => Valid(org, evidence)'
<1>1. \A org, evidence : Valid(org, evidence) => Valid(org, evidence)'
  BY DEF Valid
<1>2. \A x : AccountedFor(x) => AccountedFor(x)'
  BY <1>1 DEF AccountedFor
<1> QED BY <1>1, <1>2 DEF RecordOK

\* Incidents and their rows stay while resources are stored.
LEMMA StoreStep ==
  ASSUME IInv, stored \subseteq stored', stored' \subseteq Resources, IsFiniteSet(stored'),
         UNCHANGED <<incidents, rows, request, answers, rollbacks, dataStore>>
  PROVE  IInv'
<1>1. TypeOK' /\ StoredOK' /\ AnswersOK' /\ TablesMatchRecords'
  BY DEF IInv, TypeOK, StoredOK, AnswersOK, TablesMatchRecords
<1>2. RecordsOK'
  BY StillOK DEF IInv, RecordsOK
<1>3. RequestsOK'
  BY StillOK DEF IInv, RequestsOK
<1> QED BY <1>1, <1>2, <1>3 DEF IInv

\* A request is made, takes the lock of an incident, is answered or gives up.
LEMMA RequestMoves ==
  ASSUME IInv, NEW c \in Requests, NEW r \in RequestType, request' = [request EXCEPT ![c] = r],
         UNCHANGED <<stored, incidents, rows, dataStore>>, rollbacks' \in Nat,
         answers' \subseteq [input : CreateRequest, incident : DOMAIN incidents],
         \A a \in answers' : /\ incidents[a.incident].org = a.input.org
                             /\ incidents[a.incident].key = a.input.key
                             /\ incidents[a.incident].fingerprint = a.input,
         r.pc = "create" => Valid(r.input.org, r.input.evidence),
         r.pc = "change" => /\ dataStore = "postgres"
                            /\ r.incident \in DOMAIN incidents /\ r.before = incidents[r.incident]
                            /\ RecordOK(r.after) /\ Grown(r.before, r.after)
                            /\ \A d \in Requests : request[d].pc = "change" => request[d].incident # r.incident
  PROVE  IInv'
<1>1. request' \in [Requests -> RequestType] /\ request'[c] = r /\ \A d \in Requests \ {c} : request'[d] = request[d]
  BY DEF IInv, TypeOK
<1>2. TypeOK'
  BY <1>1 DEF IInv, TypeOK
<1>3. StoredOK' /\ AnswersOK' /\ TablesMatchRecords'
  BY DEF IInv, StoredOK, AnswersOK, TablesMatchRecords
<1>4. RecordsOK'
  BY StillOK DEF IInv, RecordsOK
<1>5. RequestsOK'
  <2>1. \A d \in Requests :
          /\ request'[d].pc = "create" => Valid(request'[d].input.org, request'[d].input.evidence)
          /\ request'[d].pc = "change" =>
               /\ dataStore = "postgres"
               /\ request'[d].before = incidents[request'[d].incident]
               /\ RecordOK(request'[d].after)
               /\ Grown(request'[d].before, request'[d].after)
    BY <1>1 DEF IInv, RequestsOK
  <2>2. \A d, e \in Requests :
          request'[d].pc = "change" /\ request'[e].pc = "change" /\ request'[d].incident = request'[e].incident
            => d = e
    BY <1>1 DEF IInv, RequestsOK
  <2> QED BY <2>1, <2>2, StillOK DEF RequestsOK
<1> QED BY <1>2, <1>3, <1>4, <1>5 DEF IInv

\* Requests that touch no incident.
LEMMA RequestSteps ==
  ASSUME IInv, NEW c \in Requests,
         \/ \E input \in CreateRequest : RequestCreate(c, input)
         \/ ReturnExisting(c) \/ RefuseKey(c) \/ RollBack(c)
         \/ \E i \in DOMAIN incidents : BeginChange(c, i)
  PROVE  IInv'
<1>0. Idle \in RequestType /\ Idle.pc = "idle"
  BY DEF RequestType, Idle
<1>1. /\ answers \subseteq [input : CreateRequest, incident : DOMAIN incidents] /\ rollbacks \in Nat
      /\ \A a \in answers : /\ incidents[a.incident].org = a.input.org
                            /\ incidents[a.incident].key = a.input.key
                            /\ incidents[a.incident].fingerprint = a.input
  BY DEF IInv, TypeOK, AnswersOK
<1>2. ASSUME NEW input \in CreateRequest, RequestCreate(c, input) PROVE IInv'
  <2> DEFINE r == [pc |-> "create", input |-> input]
  <2>1. r \in RequestType /\ r.pc = "create" /\ r.input = input
    BY DEF RequestType
  <2>2. /\ request' = [request EXCEPT ![c] = r] /\ Valid(input.org, input.evidence)
        /\ UNCHANGED <<stored, incidents, rows, answers, rollbacks, dataStore>>
    BY <1>2 DEF RequestCreate
  <2> HIDE DEF r
  <2> QED BY <1>1, <2>1, <2>2, RequestMoves
<1>3. CASE ReturnExisting(c)
  <2>1. PICK i \in WithKey(request[c].input.org, request[c].input.key) :
          incidents[i].fingerprint = Fingerprint(request[c].input) /\ Answer(c, i)
    BY <1>3 DEF ReturnExisting
  <2>2. request[c].input \in CreateRequest
    BY <1>3 DEF ReturnExisting, IInv, TypeOK, RequestType, Idle
  <2>3. /\ i \in DOMAIN incidents /\ incidents[i].org = request[c].input.org
        /\ incidents[i].key = request[c].input.key /\ incidents[i].fingerprint = request[c].input
    BY <2>1 DEF WithKey, Fingerprint
  <2>4. /\ answers' = answers \cup {[input |-> request[c].input, incident |-> i]}
        /\ request' = [request EXCEPT ![c] = Idle]
        /\ UNCHANGED <<stored, incidents, rows, rollbacks, dataStore>>
    BY <1>3, <2>1 DEF ReturnExisting, Answer
  <2>5. /\ answers' \subseteq [input : CreateRequest, incident : DOMAIN incidents]
        /\ \A a \in answers' : /\ incidents[a.incident].org = a.input.org
                               /\ incidents[a.incident].key = a.input.key
                               /\ incidents[a.incident].fingerprint = a.input
    BY <1>1, <2>2, <2>3, <2>4
  <2> QED BY <1>0, <1>1, <2>4, <2>5, RequestMoves
<1>4. CASE RefuseKey(c) \/ RollBack(c)
  <2>1. /\ request' = [request EXCEPT ![c] = Idle] /\ rollbacks' \in Nat
        /\ UNCHANGED <<stored, incidents, rows, answers, dataStore>>
    BY <1>1, <1>4 DEF RefuseKey, RollBack
  <2> QED BY <1>0, <1>1, <2>1, RequestMoves
<1>5. ASSUME NEW i \in DOMAIN incidents, BeginChange(c, i) PROVE IInv'
  <2>1. PICK x \in Changed(incidents[i]) :
          request' = [request EXCEPT ![c] = [pc |-> "change", incident |-> i, before |-> incidents[i], after |-> x]]
    BY <1>5 DEF BeginChange
  <2> DEFINE r == [pc |-> "change", incident |-> i, before |-> incidents[i], after |-> x]
  <2>2. RecordOK(incidents[i]) /\ RecordOK(x) /\ Grown(incidents[i], x)
    BY ChangedKeeps DEF IInv, RecordsOK
  <2>3. incidents[i] \in IncidentRecord /\ x \in IncidentRecord /\ i \in Nat
    <3>1. DOMAIN incidents = 1..Len(incidents)
      BY LenProperties DEF IInv, TypeOK
    <3> QED BY <2>2, <3>1 DEF RecordOK
  <2>4. /\ r \in RequestType /\ r.pc = "change" /\ r.incident = i /\ r.before = incidents[i] /\ r.after = x
    BY <2>3 DEF RequestType
  <2>5. /\ dataStore = "postgres" /\ request' = [request EXCEPT ![c] = r]
        /\ \A d \in Requests : request[d].pc = "change" => request[d].incident # i
        /\ UNCHANGED <<stored, incidents, rows, answers, rollbacks, dataStore>>
    BY <1>5, <2>1 DEF BeginChange
  <2> HIDE DEF r
  <2> QED BY <1>1, <2>2, <2>4, <2>5, RequestMoves
<1> QED BY <1>2, <1>3, <1>4, <1>5

\* An incident is replaced by what a change made of it.
LEMMA RecordReplaced ==
  ASSUME IInv, NEW i \in DOMAIN incidents, NEW y, RecordOK(y), Grown(incidents[i], y),
         incidents' = [incidents EXCEPT ![i] = y], UNCHANGED <<stored, answers>>
  PROVE  /\ incidents' \in Seq(IncidentRecord) /\ DOMAIN incidents' = DOMAIN incidents
         /\ incidents'[i] = y /\ \A j \in DOMAIN incidents \ {i} : incidents'[j] = incidents[j]
         /\ RecordsOK' /\ AnswersOK'
<1>1. incidents \in Seq(IncidentRecord) /\ DOMAIN incidents = 1..Len(incidents) /\ y \in IncidentRecord
  BY LenProperties DEF IInv, TypeOK, RecordOK
<1>2. /\ incidents' \in Seq(IncidentRecord) /\ DOMAIN incidents' = DOMAIN incidents
      /\ incidents'[i] = y /\ \A j \in DOMAIN incidents \ {i} : incidents'[j] = incidents[j]
  BY <1>1, ExceptSeq
<1>3. /\ y.org = incidents[i].org /\ y.key = incidents[i].key
      /\ y.fingerprint = incidents[i].fingerprint
  BY DEF Grown
<1>4. RecordsOK'
  <2>1. \A j \in DOMAIN incidents' : RecordOK(incidents'[j])
    BY <1>2 DEF IInv, RecordsOK
  <2>2. \A j, k \in DOMAIN incidents' :
          incidents'[j].org = incidents'[k].org /\ incidents'[j].key = incidents'[k].key => j = k
    BY <1>2, <1>3 DEF IInv, RecordsOK
  <2> QED BY <2>1, <2>2, StillOK DEF RecordsOK
<1>5. AnswersOK'
  <2>1. \A a \in answers : a.incident \in DOMAIN incidents
    BY DEF IInv, TypeOK
  <2> QED BY <1>2, <1>3, <2>1 DEF IInv, AnswersOK
<1> QED BY <1>2, <1>4, <1>5

\* The in-memory store has no tables, and no change that waits.
LEMMA ChangeInMemoryStep ==
  ASSUME IInv, NEW i \in DOMAIN incidents, ChangeInMemory(i)
  PROVE  IInv'
<1>1. PICK y \in Changed(incidents[i]) : incidents' = [incidents EXCEPT ![i] = y]
  BY DEF ChangeInMemory
<1>2. dataStore = "memory" /\ UNCHANGED <<stored, rows, request, answers, rollbacks, dataStore>>
  BY DEF ChangeInMemory
<1>3. RecordOK(y) /\ Grown(incidents[i], y)
  BY ChangedKeeps DEF IInv, RecordsOK
<1>4. incidents' \in Seq(IncidentRecord) /\ DOMAIN incidents' = DOMAIN incidents /\ RecordsOK' /\ AnswersOK'
  BY <1>1, <1>2, <1>3, RecordReplaced
<1>5. TypeOK'
  BY <1>2, <1>4 DEF IInv, TypeOK
<1>6. RequestsOK'
  <2>1. \A c \in Requests : request[c].pc # "change"
    BY <1>2 DEF IInv, RequestsOK
  <2> QED BY <1>2, <2>1, StillOK DEF IInv, RequestsOK
<1>7. TablesMatchRecords' /\ StoredOK'
  BY <1>2 DEF IInv, TablesMatchRecords, StoredOK
<1> QED BY <1>4, <1>5, <1>6, <1>7 DEF IInv

\* The change that commits was made of what the row holds.
LEMMA CommitChangeStep ==
  ASSUME IInv, NEW c \in Requests, CommitChange(c)
  PROVE  IInv' /\ Grown(incidents[request[c].incident], request[c].after)
         /\ RecordOK(request[c].after) /\ request[c].incident \in DOMAIN incidents
<1> DEFINE i == request[c].incident
           x == request[c].before
           y == request[c].after
<1>1. /\ request[c].pc = "change" /\ incidents' = [incidents EXCEPT ![i] = y]
      /\ rows' = Persisted(i, x, y) /\ request' = [request EXCEPT ![c] = Idle]
      /\ UNCHANGED <<stored, answers, rollbacks, dataStore>>
  BY DEF CommitChange
<1>2. /\ dataStore = "postgres" /\ i \in DOMAIN incidents /\ x = incidents[i]
      /\ RecordOK(x) /\ RecordOK(y) /\ Grown(x, y)
  BY <1>1 DEF IInv, TypeOK, RequestsOK, RecordsOK
<1>3. /\ incidents' \in Seq(IncidentRecord) /\ DOMAIN incidents' = DOMAIN incidents
      /\ incidents'[i] = y /\ \A j \in DOMAIN incidents \ {i} : incidents'[j] = incidents[j]
      /\ RecordsOK' /\ AnswersOK'
  BY <1>1, <1>2, RecordReplaced
<1> HIDE DEF i, x, y
<1>4. /\ request' \in [Requests -> RequestType] /\ request'[c].pc = "idle"
      /\ \A d \in Requests \ {c} : request'[d] = request[d]
  BY <1>1 DEF IInv, TypeOK, RequestType, Idle
<1>5. TypeOK'
  BY <1>1, <1>3, <1>4 DEF IInv, TypeOK
<1>6. RequestsOK'
  <2>1. \A d \in Requests \ {c} : request[d].pc = "change" =>
          request[d].incident \in DOMAIN incidents \ {i}
    BY <1>1 DEF IInv, TypeOK, RequestsOK, i
  <2>2. \A d \in Requests :
          /\ request'[d].pc = "create" => Valid(request'[d].input.org, request'[d].input.evidence)
          /\ request'[d].pc = "change" =>
               /\ dataStore = "postgres"
               /\ request'[d].before = incidents'[request'[d].incident]
               /\ RecordOK(request'[d].after)
               /\ Grown(request'[d].before, request'[d].after)
    BY <1>3, <1>4, <2>1 DEF IInv, RequestsOK
  <2>3. \A d, e \in Requests :
          request'[d].pc = "change" /\ request'[e].pc = "change" /\ request'[d].incident = request'[e].incident
            => d = e
    BY <1>4 DEF IInv, RequestsOK
  <2> QED BY <1>1, <2>2, <2>3, StillOK DEF RequestsOK
<1>7. TablesMatchRecords'
  <2>1. /\ rows.evidence = EvidenceRows(i, x) \cup OtherEvidence(i)
        /\ rows.timeline = TimelineRows(i, x) \cup OtherTimeline(i)
        /\ rows.tasks = TaskRows(i, x) \cup OtherTasks(i)
    BY <1>2, AllRows DEF IInv, TablesMatchRecords
  <2>2. /\ IsFiniteSet(y.evidence) /\ x.evidence \subseteq y.evidence
        /\ DOMAIN x.tasks \subseteq DOMAIN y.tasks
        /\ x.timeline \in Seq(TimelineEntry) /\ y.timeline \in Seq(TimelineEntry)
    BY <1>2 DEF RecordOK, Grown, IncidentRecord
  <2>3. /\ \A n \in DOMAIN x.timeline : n \in DOMAIN y.timeline /\ y.timeline[n] = x.timeline[n]
        /\ Len(y.timeline) > Len(x.timeline)
    BY <1>2, <2>2, GrownTimeline
  <2>4. /\ rows'.evidence = EvidenceRows(i, y) \cup OtherEvidence(i)
        /\ rows'.timeline = TimelineRows(i, y) \cup OtherTimeline(i)
        /\ rows'.tasks = TaskRows(i, y) \cup OtherTasks(i)
    BY <1>1, <2>1, <2>2, <2>3, PersistedMatches
  <2>5. /\ UNION {EvidenceRows(j, incidents'[j]) : j \in DOMAIN incidents'} = EvidenceRows(i, y) \cup OtherEvidence(i)
        /\ UNION {TimelineRows(j, incidents'[j]) : j \in DOMAIN incidents'} = TimelineRows(i, y) \cup OtherTimeline(i)
        /\ UNION {TaskRows(j, incidents'[j]) : j \in DOMAIN incidents'} = TaskRows(i, y) \cup OtherTasks(i)
    BY <1>2, <1>3 DEF OtherEvidence, OtherTimeline, OtherTasks
  <2> QED BY <2>4, <2>5 DEF TablesMatchRecords
<1>8. StoredOK'
  BY <1>1 DEF IInv, StoredOK
<1> QED BY <1>2, <1>3, <1>5, <1>6, <1>7, <1>8 DEF IInv, i, x, y

\* The incident that is inserted is the only one with its key.
LEMMA InsertIncidentStep ==
  ASSUME IInv, NEW c \in Requests, InsertIncident(c)
  PROVE  IInv'
<1> DEFINE n == Len(incidents) + 1
           input == request[c].input
<1>1. PICK x \in NewIncidents(input) :
        /\ incidents' = Append(incidents, x)
        /\ rows' = IF dataStore = "postgres"
                   THEN Persisted(n, [x EXCEPT !.evidence = {}, !.timeline = << >>], x)
                   ELSE rows
  BY DEF InsertIncident
<1>2. /\ request[c].pc = "create" /\ WithKey(input.org, input.key) = {}
      /\ answers' = answers \cup {[input |-> input, incident |-> n]}
      /\ request' = [request EXCEPT ![c] = Idle]
      /\ UNCHANGED <<stored, rollbacks, dataStore>>
  BY DEF InsertIncident, Answer
<1>3. input \in CreateRequest /\ Valid(input.org, input.evidence)
  BY <1>2 DEF IInv, TypeOK, RequestsOK, RequestType, Idle
<1>4. /\ RecordOK(x) /\ x.org = input.org /\ x.key = input.key /\ x.fingerprint = input
      /\ x.tasks = << >> /\ Len(x.timeline) > 0 /\ x \in IncidentRecord
  BY <1>1, <1>3, NewIncidentOK DEF IInv, RecordOK
<1>5. /\ incidents' \in Seq(IncidentRecord) /\ Len(incidents) \in Nat
      /\ DOMAIN incidents' = DOMAIN incidents \cup {n} /\ n \notin DOMAIN incidents
      /\ incidents'[n] = x /\ \A i \in DOMAIN incidents : incidents'[i] = incidents[i]
  BY <1>1, <1>4, Appended DEF IInv, TypeOK
<1>6. /\ request' \in [Requests -> RequestType] /\ request'[c].pc = "idle"
      /\ \A d \in Requests \ {c} : request'[d] = request[d]
  BY <1>2 DEF IInv, TypeOK, RequestType, Idle
<1> HIDE DEF n, input
<1>7. TypeOK'
  <2>1. answers' \subseteq [input : CreateRequest, incident : DOMAIN incidents']
    BY <1>2, <1>3, <1>5 DEF IInv, TypeOK
  <2>2. \A d \in Requests : request'[d].pc = "change" => request'[d].incident \in DOMAIN incidents'
    BY <1>5, <1>6 DEF IInv, TypeOK
  <2> QED BY <1>2, <1>5, <1>6, <2>1, <2>2 DEF IInv, TypeOK
<1>8. RecordsOK'
  <2>1. \A j \in DOMAIN incidents' : RecordOK(incidents'[j])
    BY <1>4, <1>5 DEF IInv, RecordsOK
  <2>2. \A j \in DOMAIN incidents : ~(incidents[j].org = x.org /\ incidents[j].key = x.key)
    BY <1>2, <1>4 DEF WithKey
  <2>3. \A j, k \in DOMAIN incidents' :
          incidents'[j].org = incidents'[k].org /\ incidents'[j].key = incidents'[k].key => j = k
    BY <1>5, <2>2 DEF IInv, RecordsOK
  <2> QED BY <1>2, <2>1, <2>3, StillOK DEF RecordsOK
<1>9. RequestsOK'
  <2>1. \A d \in Requests :
          /\ request'[d].pc = "create" => Valid(request'[d].input.org, request'[d].input.evidence)
          /\ request'[d].pc = "change" =>
               /\ dataStore = "postgres"
               /\ request'[d].before = incidents'[request'[d].incident]
               /\ RecordOK(request'[d].after)
               /\ Grown(request'[d].before, request'[d].after)
    BY <1>5, <1>6 DEF IInv, RequestsOK, TypeOK
  <2>2. \A d, e \in Requests :
          request'[d].pc = "change" /\ request'[e].pc = "change" /\ request'[d].incident = request'[e].incident
            => d = e
    BY <1>6 DEF IInv, RequestsOK
  <2> QED BY <1>2, <2>1, <2>2, StillOK DEF RequestsOK
<1>10. AnswersOK'
  <2>1. \A a \in answers : a.incident \in DOMAIN incidents
    BY DEF IInv, TypeOK
  <2> QED BY <1>2, <1>4, <1>5, <2>1 DEF IInv, AnswersOK
<1>11. TablesMatchRecords'
  <2> SUFFICES ASSUME dataStore = "postgres" PROVE TablesMatchRecords'
    BY <1>2 DEF TablesMatchRecords
  <2> DEFINE empty == [x EXCEPT !.evidence = {}, !.timeline = << >>]
  <2>1. empty.evidence = {} /\ empty.timeline = << >> /\ empty.tasks = << >>
    BY <1>4 DEF IncidentRecord
  <2>2. rows' = Persisted(n, empty, x)
    BY <1>1
  <2> HIDE DEF empty
  <2>3. EvidenceRows(n, empty) = {} /\ TimelineRows(n, empty) = {} /\ TaskRows(n, empty) = {}
    BY <2>1 DEF EvidenceRows, TimelineRows, TaskRows
  <2>4. DOMAIN incidents \ {n} = DOMAIN incidents
    BY <1>5
  <2>5. /\ rows.evidence = EvidenceRows(n, empty) \cup OtherEvidence(n)
        /\ rows.timeline = TimelineRows(n, empty) \cup OtherTimeline(n)
        /\ rows.tasks = TaskRows(n, empty) \cup OtherTasks(n)
    BY <2>3, <2>4 DEF IInv, TablesMatchRecords, OtherEvidence, OtherTimeline, OtherTasks
  <2>6. IsFiniteSet(x.evidence) /\ Len(x.timeline) > Len(empty.timeline)
    BY <1>4, <2>1, EmptySeq DEF RecordOK
  <2>7. /\ rows'.evidence = EvidenceRows(n, x) \cup OtherEvidence(n)
        /\ rows'.timeline = TimelineRows(n, x) \cup OtherTimeline(n)
        /\ rows'.tasks = TaskRows(n, x) \cup OtherTasks(n)
    BY <2>1, <2>2, <2>5, <2>6, PersistedMatches
  <2>8. /\ UNION {EvidenceRows(j, incidents'[j]) : j \in DOMAIN incidents'} = EvidenceRows(n, x) \cup OtherEvidence(n)
        /\ UNION {TimelineRows(j, incidents'[j]) : j \in DOMAIN incidents'} = TimelineRows(n, x) \cup OtherTimeline(n)
        /\ UNION {TaskRows(j, incidents'[j]) : j \in DOMAIN incidents'} = TaskRows(n, x) \cup OtherTasks(n)
    BY <1>5 DEF OtherEvidence, OtherTimeline, OtherTasks
  <2> QED BY <2>7, <2>8 DEF TablesMatchRecords
<1>12. StoredOK'
  BY <1>2 DEF IInv, StoredOK
<1> QED BY <1>7, <1>8, <1>9, <1>10, <1>11, <1>12 DEF IInv

-----------------------------------------------------------------------------
(* The invariant.                                                          *)

\* Nothing is stored, and no incident exists.
LEMMA InitEstablishes == Init => IInv
<1> SUFFICES ASSUME Init PROVE IInv
  OBVIOUS
<1>1. /\ incidents = << >> /\ incidents \in Seq(IncidentRecord) /\ DOMAIN incidents = {}
      /\ stored = {} /\ IsFiniteSet(stored) /\ answers = {} /\ rollbacks = 0 /\ dataStore \in DataStores
  BY EmptySeq, FS_EmptySet DEF Init
<1>2. request \in [Requests -> RequestType] /\ \A c \in Requests : request[c].pc = "idle"
  BY DEF Init, RequestType, Idle
<1>3. TypeOK /\ StoredOK
  BY <1>1, <1>2 DEF TypeOK, StoredOK
<1>4. RecordsOK /\ RequestsOK /\ AnswersOK
  BY <1>1, <1>2 DEF RecordsOK, RequestsOK, AnswersOK
<1>5. TablesMatchRecords
  BY <1>1 DEF Init, TablesMatchRecords
<1> QED BY <1>3, <1>4, <1>5 DEF IInv

\* Every step keeps the invariant.
LEMMA NextKeeps == IInv /\ [Next]_vars => IInv'
<1> SUFFICES ASSUME IInv, [Next]_vars PROVE IInv'
  OBVIOUS
<1>1. ASSUME NEW r \in Resources, StoreResource(r) PROVE IInv'
  <2>1. /\ stored' = stored \cup {r} /\ stored \subseteq Resources /\ IsFiniteSet(stored)
        /\ UNCHANGED <<incidents, rows, request, answers, rollbacks, dataStore>>
    BY <1>1 DEF StoreResource, IInv, TypeOK, StoredOK
  <2>2. IsFiniteSet(stored')
    BY <2>1, FS_AddElement
  <2> QED BY <2>1, <2>2, StoreStep
<1>2. CASE UNCHANGED vars
  <2>1. stored' = stored /\ stored \subseteq Resources /\ IsFiniteSet(stored)
    BY <1>2 DEF vars, IInv, TypeOK, StoredOK
  <2> QED BY <1>2, <2>1, StoreStep DEF vars
<1>3. ASSUME NEW c \in Requests,
             \/ \E input \in CreateRequest : RequestCreate(c, input)
             \/ InsertIncident(c) \/ ReturnExisting(c) \/ RefuseKey(c)
             \/ \E i \in DOMAIN incidents : BeginChange(c, i)
             \/ CommitChange(c) \/ RollBack(c)
      PROVE  IInv'
  BY <1>3, RequestSteps, InsertIncidentStep, CommitChangeStep
<1>4. ASSUME NEW i \in DOMAIN incidents, ChangeInMemory(i) PROVE IInv'
  BY <1>4, ChangeInMemoryStep
<1> QED BY <1>1, <1>2, <1>3, <1>4 DEF Next

\* The invariant holds of the incidents.
LEMMA Inductive == Spec => []IInv
<1> QED BY InitEstablishes, NextKeeps, PTL DEF Spec

\* However changes overlap and fail, the status changes of a timeline are a
\* chain of allowed transitions that ends in the status.
THEOREM TimelinesTell == Spec => []TimelineTellsStatus
<1>1. IInv => TimelineTellsStatus
  BY DEF IInv, RecordsOK, RecordOK, TimelineTellsStatus
<1> QED BY <1>1, Inductive, PTL

\* However often an incident is resolved, closed and reopened, its times are
\* those of its current status.
THEOREM TimesAreCurrent == Spec => []TimesBelongToStatus
<1>1. IInv => TimesBelongToStatus
  BY DEF IInv, RecordsOK, RecordOK, TimesBelongToStatus
<1> QED BY <1>1, Inductive, PTL

\* An incident holds what its timeline says was linked, once each, all of it
\* stored in its organization.
THEOREM EvidenceAccounted == Spec => []EvidenceIsAccountedFor
<1>1. IInv => EvidenceIsAccountedFor
  BY DEF IInv, RecordsOK, RecordOK, EvidenceIsAccountedFor
<1> QED BY <1>1, Inductive, PTL

\* Tables that are written to in part agree with the documents.
THEOREM TablesAgree == Spec => []TablesMatchRecords
<1>1. IInv => TablesMatchRecords
  BY DEF IInv
<1> QED BY <1>1, Inductive, PTL

\* Requests with one key that were answered are the same request and name the
\* same incident.
THEOREM Idempotent == Spec => []CreationIsIdempotent
<1>1. ASSUME IInv PROVE CreationIsIdempotent
  <2> SUFFICES ASSUME NEW a \in answers, NEW b \in answers,
                      a.input.org = b.input.org, a.input.key = b.input.key
               PROVE  a = b
    BY DEF CreationIsIdempotent
  <2>1. /\ a \in [input : CreateRequest, incident : DOMAIN incidents]
        /\ b \in [input : CreateRequest, incident : DOMAIN incidents]
    BY <1>1 DEF IInv, TypeOK
  <2>2. a.incident = b.incident
    BY <1>1, <2>1 DEF IInv, AnswersOK, RecordsOK
  <2>3. a.input = b.input
    BY <1>1, <2>2 DEF IInv, AnswersOK
  <2> QED BY <2>1, <2>2, <2>3
<1>2. IInv => CreationIsIdempotent
  BY <1>1
<1> QED BY <1>2, Inductive, PTL

\* No step of any request takes an entry or a link away.
THEOREM NoHistoryIsLost == Spec => HistoryIsKept
<1> DEFINE Kept == \A i \in DOMAIN incidents :
                     /\ i \in DOMAIN incidents'
                     /\ SubSeq(incidents'[i].timeline, 1, Len(incidents[i].timeline)) = incidents[i].timeline
                     /\ incidents[i].evidence \subseteq incidents'[i].evidence
<1>1. ASSUME IInv, [Next]_vars PROVE Kept
  <2>1. \A i \in DOMAIN incidents :
          SubSeq(incidents[i].timeline, 1, Len(incidents[i].timeline)) = incidents[i].timeline
    <3> SUFFICES ASSUME NEW i \in DOMAIN incidents
                 PROVE  SubSeq(incidents[i].timeline, 1, Len(incidents[i].timeline)) = incidents[i].timeline
      OBVIOUS
    <3>1. incidents[i].timeline \in Seq(TimelineEntry)
      BY <1>1 DEF IInv, RecordsOK, RecordOK, IncidentRecord
    <3> QED BY <3>1, SubSeqFull
  <2>2. ASSUME incidents' = incidents PROVE Kept
    BY <2>1, <2>2
  <2>3. ASSUME NEW i \in DOMAIN incidents, NEW y, Grown(incidents[i], y),
               incidents' = [incidents EXCEPT ![i] = y]
        PROVE  Kept
    BY <2>1, <2>3 DEF Grown
  <2>4. ASSUME NEW i \in DOMAIN incidents, ChangeInMemory(i) PROVE Kept
    <3>1. PICK y \in Changed(incidents[i]) : incidents' = [incidents EXCEPT ![i] = y]
      BY <2>4 DEF ChangeInMemory
    <3>2. Grown(incidents[i], y)
      BY <1>1, ChangedKeeps DEF IInv, RecordsOK
    <3> QED BY <2>3, <3>1, <3>2
  <2>5. ASSUME NEW c \in Requests, CommitChange(c) PROVE Kept
    BY <1>1, <2>3, <2>5, CommitChangeStep DEF CommitChange
  <2>6. ASSUME NEW c \in Requests, InsertIncident(c) PROVE Kept
    <3>1. PICK x : incidents' = Append(incidents, x)
      BY <2>6 DEF InsertIncident
    <3>2. \A i \in DOMAIN incidents : i \in DOMAIN incidents' /\ incidents'[i] = incidents[i]
      BY <1>1, <3>1, AppendProperties, LenProperties DEF IInv, TypeOK
    <3> QED BY <2>1, <3>2
  <2>7. CASE \/ UNCHANGED vars \/ \E r \in Resources : StoreResource(r)
             \/ \E c \in Requests :
                  \/ \E input \in CreateRequest : RequestCreate(c, input)
                  \/ ReturnExisting(c) \/ RefuseKey(c) \/ RollBack(c)
                  \/ \E i \in DOMAIN incidents : BeginChange(c, i)
    <3>1. incidents' = incidents
      BY <2>7, Zenon DEF vars, StoreResource, RequestCreate, ReturnExisting, RefuseKey, RollBack, BeginChange
    <3> QED BY <2>2, <3>1
  <2> HIDE DEF Kept
  <2> QED BY <1>1, <2>4, <2>5, <2>6, <2>7 DEF Next
<1>2. IInv /\ IInv' /\ [Next]_vars => [Kept]_vars
  BY <1>1
<1> QED BY <1>2, Inductive, PTL DEF Spec, HistoryIsKept
=============================================================================
