------------------------------- MODULE TaxiiSync -------------------------------
(***************************************************************************)
(* Operator-triggered TAXII synchronization: the runTaxiiSync calls, their *)
(* jobs with the attempts made for each page, the checkpoints of the       *)
(* sources and the threat indicators the pages bring.                      *)
(*                                                                         *)
(* A page is a set of <<indicator, version>>: what else an envelope holds  *)
(* is counted and dropped, and equal pages have equal hashes.  A           *)
(* pagination token matters only by having been seen before or not.        *)
(***************************************************************************)
EXTENDS Integers, Sequences, FiniteSets

CONSTANTS
  Sources,      \* TAXII sources, all feeding one STIX integration
  NoSource,     \* the source of a call that is not running
  Indicators,   \* STIX ids
  Versions,     \* versions of an indicator, by modification time
  Callers,      \* concurrent runTaxiiSync calls
  DataStores,   \* which store the API may run on: "memory", "postgres"
  MaxAttempts,  \* MAX_ATTEMPTS
  MaxPages,     \* MAX_PAGES
  MaxTime,      \* bound: milliseconds the clock may advance
  MaxJobs,      \* bound: jobs
  MaxToggles,   \* bound: status changes of sources
  MaxCrashes    \* bound: restarts of the API and failures of the database

ASSUME DataStoresAssumption == DataStores \subseteq {"memory", "postgres"}
ASSUME NoSourceAssumption == NoSource \notin Sources
ASSUME VersionsAssumption == Versions \subseteq Nat \ {0} /\ IsFiniteSet(Versions)
ASSUME LimitsAssumption == MaxAttempts \in Nat \ {0} /\ MaxPages \in Nat \ {0}
ASSUME TaxiiBoundsAssumption ==
  MaxTime \in Nat /\ MaxJobs \in Nat /\ MaxToggles \in Nat /\ MaxCrashes \in Nat

VARIABLES
  dataStore,   \* the store in use
  now,         \* the clock
  collection,  \* the TAXII servers: when each version was added, by source
  source,      \* taxii_sources: [status, checkpoint]
  jobs,        \* taxii_sync_jobs, the id is the position
  deliveries,  \* integration_deliveries: [source, page]
  indicators,  \* threat_indicators: the version held, 0 if none
  call,        \* the state of each runTaxiiSync call
  toggles, crashes  \* so far (bounds)

vars == <<now, collection, source, jobs, deliveries, indicators, call,
          toggles, crashes, dataStore>>
storeVars == <<source, jobs, deliveries, indicators>>

-----------------------------------------------------------------------------
\* checkpoint_added_after is NULL; not in the collection.
NoCheckpoint == -1
NotAdded == -1

Running == {j \in DOMAIN jobs : jobs[j].status = "running"}
RunningFor(s) == {j \in Running : jobs[j].source = s}

IdleCall == [pc |-> "idle", source |-> NoSource, openedAt |-> 0, checkpoint |-> NoCheckpoint,
             job |-> 0, pages |-> 0, attempt |-> 1, sent |-> {}, page |-> {},
             more |-> "no", outcome |-> "failed"]

\* Objects of the collection after added_after.
AddedAfter(s, t) ==
  {x \in Indicators \X Versions :
     LET at == collection[s][x[1]][x[2]] IN at # NotAdded /\ at > t}

\* What the server has not sent to this caller yet.
Remaining(c) == AddedAfter(call[c].source, jobs[call[c].job].before) \ call[c].sent

Init ==
  /\ dataStore \in DataStores
  /\ now = 0
  /\ collection = [s \in Sources |-> [i \in Indicators |-> [v \in Versions |-> NotAdded]]]
  /\ source = [s \in Sources |-> [status |-> "active", checkpoint |-> NoCheckpoint]]
  /\ jobs = << >>
  /\ deliveries = {}
  /\ indicators = [i \in Indicators |-> 0]
  /\ call = [c \in Callers |-> IdleCall]
  /\ toggles = 0 /\ crashes = 0

-----------------------------------------------------------------------------
(* The environment.                                                        *)

Tick ==
  /\ now < MaxTime
  /\ now' = now + 1
  /\ UNCHANGED <<collection, storeVars, call, toggles, crashes, dataStore>>

\* The server adds a version.  Its clock is not behind ours: what is added
\* once a job has started is stamped later than the start.
AddObject(s, i, v) ==
  /\ collection[s][i][v] = NotAdded
  /\ \A j \in DOMAIN jobs : jobs[j].source = s => jobs[j].startedAt < now
  /\ collection' = [collection EXCEPT ![s][i][v] = now]
  /\ UNCHANGED <<now, storeVars, call, toggles, crashes, dataStore>>

\* updateTaxiiSourceStatus.
SetSourceStatus(s) ==
  /\ toggles < MaxToggles
  /\ \E status \in {"active", "disabled"} \ {source[s].status} :
       source' = [source EXCEPT ![s].status = status]
  /\ toggles' = toggles + 1
  /\ UNCHANGED <<now, collection, jobs, deliveries, indicators, call, crashes, dataStore>>

-----------------------------------------------------------------------------
(* runTaxiiSync.                                                           *)

\* Calls that may still create a job.
Opening == {c \in Callers : call[c].pc \in {"requested", "opened"}}

\* getTaxiiSourceCredential: the only look at the status of the source; the
\* status of the integration is not looked at.
RequestSync(c, s) ==
  /\ call[c].pc = "idle"
  /\ Len(jobs) + Cardinality(Opening) < MaxJobs
  /\ source[s].status = "active"
  /\ call' = [call EXCEPT ![c] = [IdleCall EXCEPT !.pc = "requested", !.source = s]]
  /\ UNCHANGED <<now, collection, storeVars, toggles, crashes, dataStore>>

\* createTaxiiSyncJob begins: Postgres fixes now() at BEGIN, the in-memory
\* store reads the source before an await.
OpenJob(c) ==
  /\ call[c].pc = "requested"
  /\ call' = [call EXCEPT ![c] = [@ EXCEPT !.pc = "opened", !.openedAt = now,
                                    !.checkpoint = source[call[c].source].checkpoint]]
  /\ UNCHANGED <<now, collection, storeVars, toggles, crashes, dataStore>>

NewJob(c) ==
  [source |-> call[c].source, status |-> "running",
   startedAt |-> IF dataStore = "postgres" THEN call[c].openedAt ELSE now,
   before |-> IF dataStore = "postgres" THEN source[call[c].source].checkpoint
              ELSE call[c].checkpoint,
   after |-> NoCheckpoint, pages |-> 0, attempts |-> {}]

\* Slip: no unique index on the running job of a source.
CreateJob_NoIndex(c) ==
  /\ call[c].pc = "opened"
  /\ jobs' = Append(jobs, NewJob(c))
  /\ call' = [call EXCEPT ![c] = [@ EXCEPT !.pc = "fetch", !.job = Len(jobs) + 1]]
  /\ UNCHANGED <<now, collection, source, deliveries, indicators, toggles, crashes, dataStore>>

\* INSERT ... ON CONFLICT (source_id) WHERE status='running' DO NOTHING, or the
\* check and the push of the in-memory store.
CreateJob(c) ==
  /\ call[c].pc = "opened"
  /\ RunningFor(call[c].source) = {}
  /\ jobs' = Append(jobs, NewJob(c))
  /\ call' = [call EXCEPT ![c] = [@ EXCEPT !.pc = "fetch", !.job = Len(jobs) + 1]]
  /\ UNCHANGED <<now, collection, source, deliveries, indicators, toggles, crashes, dataStore>>

\* 409: a TAXII sync is already running for this source.
RefuseJob(c) ==
  /\ call[c].pc = "opened"
  /\ RunningFor(call[c].source) # {}
  /\ call' = [call EXCEPT ![c] = IdleCall]
  /\ UNCHANGED <<now, collection, storeVars, toggles, crashes, dataStore>>

\* appendTaxiiSyncAttempt.
AppendAttempt(c, ok) ==
  jobs' = [jobs EXCEPT ![call[c].job].attempts =
             @ \cup {[page |-> call[c].pages + 1, number |-> call[c].attempt, ok |-> ok]}]

\* A page of the collection, with the server's word on whether there is more.
\* "again" is a token this pagination has already used.
ReceivePage(c) ==
  /\ call[c].pc = "fetch"
  /\ AppendAttempt(c, TRUE)
  /\ \E page \in SUBSET Remaining(c), more \in {"no", "next", "again"} :
       /\ page # Remaining(c) => more # "no"
       /\ more = "again" => call[c].pages > 0
       /\ call' = [call EXCEPT ![c] = [@ EXCEPT !.pc = "page", !.page = page, !.more = more]]
  /\ UNCHANGED <<now, collection, source, deliveries, indicators, toggles, crashes, dataStore>>

\* Status 200 and the right media type, but the body does not parse, the
\* envelope is not valid or one of its indicators is malformed.
ReceiveInvalidPage(c) ==
  /\ call[c].pc = "fetch"
  /\ AppendAttempt(c, TRUE)
  /\ call' = [call EXCEPT ![c] = [@ EXCEPT !.pc = "finish", !.outcome = "failed"]]
  /\ UNCHANGED <<now, collection, source, deliveries, indicators, toggles, crashes, dataStore>>

\* A network error, a timeout, 429 or 5xx: the attempt is recorded and, if it
\* was not the last one, made again after a delay.
RetryFetch(c) ==
  /\ call[c].pc = "fetch"
  /\ call[c].attempt < MaxAttempts
  /\ AppendAttempt(c, FALSE)
  /\ call' = [call EXCEPT ![c].attempt = @ + 1]
  /\ UNCHANGED <<now, collection, source, deliveries, indicators, toggles, crashes, dataStore>>

\* The last attempt fails, or one that is not retryable: any other status, a
\* redirect, a wrong media type, an unsafe destination.
FailFetch(c) ==
  /\ call[c].pc = "fetch"
  /\ AppendAttempt(c, FALSE)
  /\ call' = [call EXCEPT ![c] = [@ EXCEPT !.pc = "finish", !.outcome = "failed"]]
  /\ UNCHANGED <<now, collection, source, deliveries, indicators, toggles, crashes, dataStore>>

Newest(V) == CHOOSE v \in V : \A w \in V : w <= v

\* Slip: the last indicator of the page wins, whatever its modification time.
Merge_Overwrites(page) ==
  [i \in Indicators |->
     LET V == {v \in Versions : <<i, v>> \in page}
     IN IF V = {} THEN indicators[i] ELSE Newest(V)]

\* The upsert of each indicator, WHERE modified_at <= EXCLUDED.modified_at.
Merge(page) ==
  [i \in Indicators |-> Newest({indicators[i]} \cup {v \in Versions : <<i, v>> \in page})]

\* The page in hand is the last one read, and the job ends with outcome.
EndWith(k, outcome) == [k EXCEPT !.pc = "finish", !.outcome = outcome, !.pages = @ + 1]

FetchNext(k) == [k EXCEPT !.pc = "fetch", !.pages = @ + 1, !.attempt = 1,
                          !.sent = @ \cup k.page, !.page = {}, !.more = "no"]

\* Slip: pages are not counted, and a repeated token is not noticed.
AfterPage_Unbounded(k) ==
  IF k.more = "no" THEN EndWith(k, "succeeded") ELSE [FetchNext(k) EXCEPT !.pages = k.pages]

\* Slip: reaching the page limit ends the pagination like its last page.
AfterPage_LimitSucceeds(k) ==
  CASE k.more = "no" \/ k.pages + 1 >= MaxPages -> EndWith(k, "succeeded")
    [] k.more = "again" -> EndWith(k, "failed")
    [] OTHER -> FetchNext(k)

\* The end of the loop body for the call k: the job is done; the token was
\* seen before or the limit of pages is reached; the next page is fetched.
AfterPage(k) ==
  CASE k.more = "no" -> EndWith(k, "succeeded")
    [] k.more = "again" \/ (k.more = "next" /\ k.pages + 1 >= MaxPages) -> EndWith(k, "failed")
    [] k.more = "next" /\ k.pages + 1 < MaxPages -> FetchNext(k)

\* ingestIntegrationDelivery: a page delivered before is a no-op.
IngestPage(c) ==
  /\ call[c].pc = "page"
  /\ LET delivery == [source |-> call[c].source, page |-> call[c].page] IN
       /\ deliveries' = deliveries \cup {delivery}
       /\ indicators' = IF delivery \in deliveries THEN indicators ELSE Merge(call[c].page)
  /\ call' = [call EXCEPT ![c] = AfterPage(call[c])]
  /\ UNCHANGED <<now, collection, source, jobs, toggles, crashes, dataStore>>

\* The CASE of finishTaxiiSyncJob; the in-memory store just assigns.
NextCheckpoint(s, t) ==
  IF dataStore = "postgres" /\ source[s].checkpoint >= t THEN source[s].checkpoint ELSE t

\* finishTaxiiSyncJob: the job becomes final and, if it succeeded, the
\* checkpoint of its source moves to the start of the job.
FinishJob(c) ==
  LET k == call[c] IN
  /\ k.pc = "finish"
  /\ jobs[k.job].status = "running"
  /\ jobs' = [jobs EXCEPT ![k.job] =
                [@ EXCEPT !.status = k.outcome, !.pages = k.pages,
                          !.after = IF k.outcome = "succeeded" THEN jobs[k.job].startedAt
                                    ELSE NoCheckpoint]]
  /\ source' = IF k.outcome = "succeeded"
               THEN [source EXCEPT ![k.source].checkpoint =
                       NextCheckpoint(k.source, jobs[k.job].startedAt)]
               ELSE source
  /\ call' = [call EXCEPT ![c] = IdleCall]
  /\ UNCHANGED <<now, collection, deliveries, indicators, toggles, crashes, dataStore>>

-----------------------------------------------------------------------------
(* Failures.  The in-memory store neither fails nor survives a restart.    *)

\* The attempt or the page cannot be saved: the catch of runTaxiiSync.
SaveFails(c) ==
  /\ dataStore = "postgres" /\ crashes < MaxCrashes
  /\ call[c].pc \in {"fetch", "page"}
  /\ call' = [call EXCEPT ![c] = [@ EXCEPT !.pc = "finish", !.outcome = "failed"]]
  /\ crashes' = crashes + 1
  /\ UNCHANGED <<now, collection, storeVars, toggles, dataStore>>

\* finishTaxiiSyncJob itself fails; nothing catches that.
FinishFails(c) ==
  /\ dataStore = "postgres" /\ crashes < MaxCrashes
  /\ call[c].pc = "finish"
  /\ call' = [call EXCEPT ![c] = IdleCall]
  /\ crashes' = crashes + 1
  /\ UNCHANGED <<now, collection, storeVars, toggles, dataStore>>

\* The API stops and starts again.
Restart ==
  /\ dataStore = "postgres" /\ crashes < MaxCrashes
  /\ call' = [c \in Callers |-> IdleCall]
  /\ crashes' = crashes + 1
  /\ UNCHANGED <<now, collection, storeVars, toggles, dataStore>>

-----------------------------------------------------------------------------
SyncStep(c) ==
  \/ OpenJob(c) \/ CreateJob(c) \/ RefuseJob(c)
  \/ ReceivePage(c) \/ ReceiveInvalidPage(c) \/ RetryFetch(c) \/ FailFetch(c)
  \/ IngestPage(c) \/ FinishJob(c)

Next ==
  \/ Tick
  \/ \E s \in Sources :
       \/ \E i \in Indicators, v \in Versions : AddObject(s, i, v)
       \/ SetSourceStatus(s)
       \/ \E c \in Callers : RequestSync(c, s)
  \/ \E c \in Callers : SyncStep(c) \/ SaveFails(c) \/ FinishFails(c)
  \/ Restart

Spec == Init /\ [][Next]_vars

-----------------------------------------------------------------------------
(* Properties.                                                             *)

Times == 0..MaxTime
PageObjects == Indicators \X Versions

AttemptType == [page : 1..MaxPages, number : 1..MaxAttempts, ok : BOOLEAN]
JobType == [source : Sources, status : {"running", "succeeded", "failed"},
            startedAt : Times, before : Times \cup {NoCheckpoint},
            after : Times \cup {NoCheckpoint}, pages : 0..MaxPages,
            attempts : SUBSET AttemptType]
CallType == [pc : {"idle", "requested", "opened", "fetch", "page", "finish"},
             source : Sources \cup {NoSource}, openedAt : Times,
             checkpoint : Times \cup {NoCheckpoint}, job : Nat, pages : 0..MaxPages,
             attempt : 1..MaxAttempts, sent : SUBSET PageObjects, page : SUBSET PageObjects,
             more : {"no", "next", "again"}, outcome : {"succeeded", "failed"}]

\* Every variable has its schema; the limits of MAX_PAGES and MAX_ATTEMPTS and
\* the CHECKs of taxii_sync_attempts are part of it.
TypeOK ==
  /\ now \in Times
  /\ collection \in [Sources -> [Indicators -> [Versions -> Times \cup {NotAdded}]]]
  /\ source \in [Sources -> [status : {"active", "disabled"},
                             checkpoint : Times \cup {NoCheckpoint}]]
  /\ jobs \in Seq(JobType)
  /\ deliveries \subseteq [source : Sources, page : SUBSET PageObjects]
  /\ indicators \in [Indicators -> Versions \cup {0}]
  /\ call \in [Callers -> CallType]
  /\ toggles \in Nat /\ crashes \in Nat

\* "Only one job may run per source", whoever requests them and whichever
\* store decides: docs/phase-5-taxii-sync.md:14.
OneRunningJob == \A s \in Sources : Cardinality(RunningFor(s)) <= 1

\* A checkpoint promises that everything the server added up to it has been
\* taken over, across failed jobs, partial pages and restarts: finishing a job
\* with the pages it managed to read would skip the others for good.
NothingMissed ==
  \A s \in Sources, i \in Indicators, v \in Versions :
    collection[s][i][v] # NotAdded /\ collection[s][i][v] <= source[s].checkpoint
      => v <= indicators[i]

\* The attempts of a job tell its story: every page has attempts 1 to k, only
\* the k-th may have succeeded, and a page was asked for only when the one
\* before was received; a succeeded job has received all of its pages.
AttemptsTellTheJob ==
  \A j \in DOMAIN jobs :
    LET A == jobs[j].attempts IN
    /\ \A a \in A :
         /\ a.number > 1 => \E b \in A : b.page = a.page /\ b.number = a.number - 1 /\ ~b.ok
         /\ a.page > 1 => \E b \in A : b.page = a.page - 1 /\ b.ok
         /\ \A b \in A : a.page = b.page /\ a.number = b.number => a = b
    /\ jobs[j].status = "succeeded" =>
         {a.page : a \in {b \in A : b.ok}} = 1..jobs[j].pages

\* The jobs tell what happened: one runs at a time and each kept its attempts.
JobsTellTheSync ==
  /\ TypeOK
  /\ OneRunningJob
  /\ AttemptsTellTheJob

Mirror == INSTANCE CollectionMirror WITH
  mirror <- indicators, checkpoint <- [s \in Sources |-> source[s].checkpoint]

\* The synchronization implements the mirror: indicators are only replaced by
\* newer versions out of a collection, and a checkpoint moves forward only, to
\* a time up to which nothing is missing.
ImplementsMirror == Mirror!MirrorSpec

\* The work a call has left at most: pages to fetch, each with its attempts and
\* its ingestion, then the end of the job.
PageWork == MaxAttempts + 1
WorkLeft(k) ==
  CASE k.pc = "idle" -> 0
    [] k.pc = "finish" -> 1
    [] k.pc = "page" -> (MaxPages - k.pages - 1) * PageWork + 2
    [] k.pc = "fetch" -> (MaxPages - k.pages) * PageWork + 2 - k.attempt
    [] k.pc = "opened" -> MaxPages * PageWork + 2
    [] k.pc = "requested" -> MaxPages * PageWork + 3

\* Every call ends, whatever the server answers: each of its steps leaves less
\* to do, since attempts and pages are limited, the attempts start over only
\* with the next page and a repeated token is an error.
EveryStepIsProgress ==
  [][\A c \in Callers :
       call[c].pc # "idle" /\ call'[c] # call[c] => WorkLeft(call'[c]) < WorkLeft(call[c])]_vars

\* "A TAXII sync is already running for this source." (store.ts:588,
\* postgres-store.ts:690) is what an operator is told of a running job: some
\* call is working on it.
RunningJobIsWorkedOn == \A j \in Running : \E c \in Callers : call[c].pc # "idle" /\ call[c].job = j
=============================================================================
