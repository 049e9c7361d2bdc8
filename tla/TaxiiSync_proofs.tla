--------------------------- MODULE TaxiiSync_proofs ---------------------------
(***************************************************************************)
(* Proofs about TAXII synchronization, for any sources, indicators,        *)
(* callers and limits and either store: one running job per source, what   *)
(* the attempts of a job tell, that a checkpoint misses nothing, that      *)
(* every call ends, and the refinement of the collection mirror.           *)
(***************************************************************************)
EXTENDS TaxiiSync, FiniteSetTheorems, SequenceTheorems, WellFoundedInduction, TLAPS

-----------------------------------------------------------------------------
(* The inductive invariant.                                                *)

\* A call that works on a job.
Working(c) == call[c].pc \in {"fetch", "page", "finish"}

\* Nothing was fetched yet.
Fresh(k) == k.pages = 0 /\ k.attempt = 1 /\ k.sent = {}

\* What a call knows of its source and of the page it is at, and that the job
\* it works on runs and is its own.
CallsOK ==
  /\ \A c \in Callers :
       /\ call[c].pc # "idle" => call[c].source \in Sources
       /\ call[c].pc \in {"requested", "opened"} => Fresh(call[c])
       /\ call[c].pc \in {"fetch", "page"} => call[c].pages < MaxPages
       /\ call[c].pc = "opened" =>
            call[c].openedAt <= now /\ call[c].checkpoint <= source[call[c].source].checkpoint
       /\ Working(c) =>
            /\ call[c].job \in Running
            /\ jobs[call[c].job].source = call[c].source
  /\ \A c, d \in Callers : Working(c) /\ Working(d) /\ call[c].job = call[d].job => c = d

\* A job started in the past, from a checkpoint that was not ahead of today's.
JobsOK ==
  /\ \A j \in DOMAIN jobs : jobs[j].startedAt <= now
  /\ \A j \in Running :
       /\ jobs[j].before <= source[jobs[j].source].checkpoint
       /\ dataStore # "postgres" => source[jobs[j].source].checkpoint <= jobs[j].startedAt
  /\ \A j, k \in Running : jobs[j].source = jobs[k].source => j = k

\* A checkpoint is the start of a job of its source.
CheckpointsOK ==
  \A s \in Sources : source[s].checkpoint # NoCheckpoint =>
    \E j \in DOMAIN jobs : jobs[j].source = s /\ jobs[j].startedAt = source[s].checkpoint

\* The indicators of a page are held in these versions or newer ones.
HeldAll(page) == \A x \in page : x[2] <= indicators[x[1]]

\* What a call has to bring: added after the checkpoint its job started from,
\* and not after its start.
Due(c, i, v) ==
  LET at == collection[call[c].source][i][v]
  IN  at # NotAdded /\ jobs[call[c].job].before < at /\ at <= jobs[call[c].job].startedAt

\* What was delivered is held, and a call at its last page has all that is due.
PagesOK ==
  /\ \A d \in deliveries : HeldAll(d.page)
  /\ \A c \in Callers :
       /\ call[c].pc \in {"fetch", "page"} => HeldAll(call[c].sent)
       /\ call[c].pc = "page" =>
            \A x \in call[c].page : collection[call[c].source][x[1]][x[2]] # NotAdded
       /\ call[c].pc = "page" /\ call[c].more = "no" =>
            \A i \in Indicators, v \in Versions :
              Due(c, i, v) => <<i, v>> \in call[c].page \cup call[c].sent
       /\ call[c].pc = "finish" /\ call[c].outcome = "succeeded" =>
            \A i \in Indicators, v \in Versions : Due(c, i, v) => v <= indicators[i]

\* The attempts of a job up to page p.
Received(A, p) ==
  /\ \A n \in 1..p : \E b \in A : b.page = n /\ b.ok
  /\ \A a \in A : a.page <= p

\* Every page up to the one being fetched was received, and its attempts so far
\* failed.
Fetching(A, k) ==
  /\ \A n \in 1..k.pages : \E b \in A : b.page = n /\ b.ok
  /\ \A a \in A : /\ a.page <= k.pages + 1
                  /\ a.page = k.pages + 1 => a.number < k.attempt
  /\ k.attempt > 1 => \E b \in A : b.page = k.pages + 1 /\ b.number = k.attempt - 1 /\ ~b.ok

AttemptsOK ==
  \A c \in Callers :
    LET A == jobs[call[c].job].attempts
    IN  /\ call[c].pc = "fetch" => Fetching(A, call[c])
        /\ call[c].pc = "page" => Received(A, call[c].pages + 1)
        /\ call[c].pc = "finish" /\ call[c].outcome = "succeeded" => Received(A, call[c].pages)

IInv ==
  /\ TypeOK /\ CallsOK /\ JobsOK /\ CheckpointsOK
  /\ PagesOK /\ NothingMissed
  /\ AttemptsOK /\ AttemptsTellTheJob

-----------------------------------------------------------------------------
(* Calls and the jobs they work on.                                        *)

\* A call in its initial state is typed.
LEMMA IdleTyped == IdleCall \in CallType
<1>1. 0 \in Times /\ 0 \in 0..MaxPages /\ 1 \in 1..MaxAttempts
  BY TaxiiBoundsAssumption, LimitsAssumption DEF Times
<1> QED BY <1>1 DEF IdleCall, CallType, NoCheckpoint

\* A call that is typed has typed fields.
LEMMA CallFields ==
  ASSUME TypeOK, NEW c \in Callers
  PROVE  /\ call[c].pc \in {"idle", "requested", "opened", "fetch", "page", "finish"}
         /\ call[c].source \in Sources \cup {NoSource} /\ call[c].openedAt \in Times
         /\ call[c].checkpoint \in Times \cup {NoCheckpoint} /\ call[c].job \in Nat
         /\ call[c].pages \in 0..MaxPages /\ call[c].attempt \in 1..MaxAttempts
         /\ call[c].sent \subseteq PageObjects /\ call[c].page \subseteq PageObjects
         /\ call[c].more \in {"no", "next", "again"} /\ call[c].outcome \in {"succeeded", "failed"}
<1>1. call[c] \in CallType
  BY DEF TypeOK
<1> QED BY <1>1 DEF CallType

\* So has a job.
LEMMA JobFields ==
  ASSUME TypeOK, NEW j \in DOMAIN jobs
  PROVE  /\ DOMAIN jobs = 1..Len(jobs) /\ jobs[j] \in JobType
         /\ jobs[j].source \in Sources /\ jobs[j].status \in {"running", "succeeded", "failed"}
         /\ jobs[j].startedAt \in Times /\ jobs[j].before \in Times \cup {NoCheckpoint}
         /\ jobs[j].pages \in 0..MaxPages /\ jobs[j].attempts \subseteq AttemptType
<1>1. DOMAIN jobs = 1..Len(jobs) /\ jobs \in Seq(JobType)
  BY LenProperties DEF TypeOK
<1>2. jobs[j] \in JobType
  BY <1>1, ElementOfSeq
<1> QED BY <1>1, <1>2 DEF JobType

\* What a call may do without touching a job: start, look at its source, or
\* give up, before or while it works on its job.
Moves(k, l) ==
  \/ l = k
  \/ l.pc = "idle"
  \/ l.pc = "requested" /\ l.source \in Sources /\ Fresh(l)
  \/ /\ k.pc = "requested" /\ l.pc = "opened" /\ l.source = k.source /\ (Fresh(k) => Fresh(l))
     /\ l.openedAt = now /\ l.checkpoint = source[k.source].checkpoint
  \/ /\ k.pc \in {"fetch", "page"} /\ l.pc = "finish" /\ l.outcome = "failed"
     /\ l.job = k.job /\ l.source = k.source

\* Such steps keep the invariant.
LEMMA MovesKeep ==
  ASSUME IInv, UNCHANGED <<now, collection, storeVars, dataStore>>,
         call' \in [Callers -> CallType], toggles' \in Nat, crashes' \in Nat,
         \A c \in Callers : Moves(call[c], call'[c])
  PROVE  IInv'
<1> USE DEF storeVars
<1>1. TypeOK'
  BY DEF IInv, TypeOK
<1>2. Running' = Running /\ jobs' = jobs /\ source' = source
  BY DEF Running
<1>3. CallsOK'
  <2>1. \A c \in Callers :
          /\ call'[c].pc # "idle" => call'[c].source \in Sources
          /\ call'[c].pc \in {"requested", "opened"} => Fresh(call'[c])
          /\ call'[c].pc \in {"fetch", "page"} => call'[c].pages < MaxPages
          /\ call'[c].pc = "opened" =>
               call'[c].openedAt <= now /\ call'[c].checkpoint <= source[call'[c].source].checkpoint
    <3> SUFFICES ASSUME NEW c \in Callers
                 PROVE  /\ call'[c].pc # "idle" => call'[c].source \in Sources
                        /\ call'[c].pc \in {"requested", "opened"} => Fresh(call'[c])
                        /\ call'[c].pc \in {"fetch", "page"} => call'[c].pages < MaxPages
                        /\ call'[c].pc = "opened" =>
                             call'[c].openedAt <= now /\ call'[c].checkpoint <= source[call'[c].source].checkpoint
      OBVIOUS
    <3>1. Moves(call[c], call'[c])
      OBVIOUS
    <3>2. now \in Int /\ \A s \in Sources : source[s].checkpoint \in Int
      BY DEF IInv, TypeOK, Times, NoCheckpoint
    <3> QED BY <3>1, <3>2 DEF Moves, IInv, CallsOK
  <2>2. \A c \in Callers : Working(c)' => Working(c) /\ call'[c].job = call[c].job /\ call'[c].source = call[c].source
    BY DEF Moves, Working
  <2> QED BY <1>2, <2>1, <2>2 DEF IInv, CallsOK, Working, Fresh
<1>4. JobsOK' /\ CheckpointsOK' /\ NothingMissed' /\ AttemptsTellTheJob'
  BY <1>2 DEF IInv, JobsOK, CheckpointsOK, NothingMissed, AttemptsTellTheJob
<1>5. \A c \in Callers :
        call'[c].pc \in {"fetch", "page"} \/ (call'[c].pc = "finish" /\ call'[c].outcome = "succeeded")
          => call'[c] = call[c]
  BY DEF Moves
<1>6. PagesOK'
  BY <1>2, <1>5 DEF IInv, PagesOK, HeldAll, Due
<1>7. AttemptsOK'
  BY <1>2, <1>5 DEF IInv, AttemptsOK
<1> QED BY <1>1, <1>3, <1>4, <1>6, <1>7 DEF IInv

\* Requests, refusals and failures only move calls.
LEMMA CallSteps ==
  ASSUME IInv, NEW c \in Callers,
         \/ \E s \in Sources : RequestSync(c, s)
         \/ OpenJob(c) \/ RefuseJob(c) \/ SaveFails(c) \/ FinishFails(c) \/ Restart
  PROVE  IInv'
<1> USE DEF IInv
<1>1. /\ \A k \in CallType, s \in Sources :
           /\ [IdleCall EXCEPT !.pc = "requested", !.source = s] \in CallType
           /\ [k EXCEPT !.pc = "opened", !.openedAt = now, !.checkpoint = source[s].checkpoint] \in CallType
      /\ \A k \in CallType : [k EXCEPT !.pc = "finish", !.outcome = "failed"] \in CallType
  <2>1. now \in Times /\ \A s \in Sources : source[s].checkpoint \in Times \cup {NoCheckpoint}
    BY DEF TypeOK
  <2> QED BY <2>1, IdleTyped DEF CallType
<1>2. call[c] \in CallType /\ toggles \in Nat /\ crashes \in Nat /\ call \in [Callers -> CallType]
  BY DEF TypeOK
<1>3. ASSUME NEW s \in Sources, RequestSync(c, s) PROVE IInv'
  <2>1. \A d \in Callers : Moves(call[d], call'[d])
    BY <1>2, <1>3 DEF RequestSync, Moves, IdleCall, Fresh
  <2>2. call' \in [Callers -> CallType]
    BY <1>1, <1>2, <1>3 DEF RequestSync
  <2> QED BY <1>2, <1>3, <2>1, <2>2, MovesKeep DEF RequestSync
<1>4. CASE OpenJob(c)
  <2>0. call[c].source \in Sources
    BY <1>4 DEF CallsOK, OpenJob
  <2>1. \A d \in Callers : Moves(call[d], call'[d])
    BY <1>2, <1>4 DEF OpenJob, Moves, CallType, Fresh
  <2>2. call' \in [Callers -> CallType]
    BY <1>1, <1>2, <1>4, <2>0 DEF OpenJob
  <2> QED BY <1>2, <1>4, <2>1, <2>2, MovesKeep DEF OpenJob
<1>5. CASE RefuseJob(c) \/ FinishFails(c)
  <2>1. call' = [call EXCEPT ![c] = IdleCall]
    BY <1>5 DEF RefuseJob, FinishFails
  <2>2. \A d \in Callers : Moves(call[d], call'[d])
    BY <1>2, <2>1 DEF Moves, IdleCall
  <2>3. call' \in [Callers -> CallType]
    BY <1>2, <2>1, IdleTyped
  <2>4. UNCHANGED <<now, collection, storeVars, dataStore>> /\ toggles' \in Nat /\ crashes' \in Nat
    BY <1>2, <1>5 DEF RefuseJob, FinishFails
  <2> QED BY <2>2, <2>3, <2>4, MovesKeep
<1>6. CASE SaveFails(c)
  <2>1. \A d \in Callers : Moves(call[d], call'[d])
    BY <1>2, <1>6 DEF SaveFails, Moves, CallType
  <2>2. call' \in [Callers -> CallType]
    BY <1>1, <1>2, <1>6 DEF SaveFails
  <2>3. UNCHANGED <<now, collection, storeVars, dataStore>> /\ toggles' \in Nat /\ crashes' \in Nat
    BY <1>2, <1>6 DEF SaveFails
  <2> QED BY <2>1, <2>2, <2>3, MovesKeep
<1>7. CASE Restart
  <2>1. \A d \in Callers : Moves(call[d], call'[d])
    BY <1>7 DEF Restart, Moves, IdleCall
  <2>2. call' \in [Callers -> CallType]
    BY <1>7, IdleTyped DEF Restart
  <2>3. UNCHANGED <<now, collection, storeVars, dataStore>> /\ toggles' \in Nat /\ crashes' \in Nat
    BY <1>2, <1>7 DEF Restart
  <2> QED BY <2>1, <2>2, <2>3, MovesKeep
<1> QED BY <1>3, <1>4, <1>5, <1>6, <1>7

-----------------------------------------------------------------------------
(* The environment.                                                        *)

\* Time passes.
LEMMA TickStep == IInv /\ Tick => IInv'
<1> SUFFICES ASSUME IInv, Tick PROVE IInv'
  OBVIOUS
<1> USE DEF IInv, Tick, storeVars
<1>1. now \in Nat /\ now' = now + 1 /\ now' \in Times /\ Running' = Running
  BY TaxiiBoundsAssumption DEF TypeOK, Times, Running
<1>2. TypeOK'
  BY <1>1 DEF TypeOK
<1>3. JobsOK'
  <2>1. \A j \in DOMAIN jobs : jobs[j].startedAt \in Nat
    BY JobFields DEF Times
  <2> QED BY <1>1, <2>1 DEF JobsOK
<1>4. CallsOK'
  <2>1. \A c \in Callers : call[c].openedAt \in Nat
    BY CallFields DEF Times
  <2> QED BY <1>1, <2>1 DEF CallsOK, Working, Fresh
<1>5. CheckpointsOK' /\ NothingMissed' /\ AttemptsTellTheJob' /\ AttemptsOK'
  BY <1>1 DEF CheckpointsOK, NothingMissed, AttemptsTellTheJob, AttemptsOK
<1>6. PagesOK'
  BY <1>1 DEF PagesOK, HeldAll, Due
<1> QED BY <1>2, <1>3, <1>4, <1>5, <1>6

\* Whatever the status of a source.
LEMMA SetSourceStatusStep ==
  ASSUME IInv, NEW s \in Sources, SetSourceStatus(s)
  PROVE  IInv'
<1> USE DEF IInv, SetSourceStatus
<1>1. PICK status \in {"active", "disabled"} : source' = [source EXCEPT ![s].status = status]
  OBVIOUS
<1>2. /\ source' \in [Sources -> [status : {"active", "disabled"}, checkpoint : Times \cup {NoCheckpoint}]]
      /\ \A r \in Sources : source'[r].checkpoint = source[r].checkpoint
  BY <1>1 DEF TypeOK
<1>3. TypeOK'
  BY <1>2 DEF TypeOK
<1>4. Running' = Running /\ \A j \in DOMAIN jobs : jobs[j].source \in Sources
  BY JobFields DEF Running
<1>5. CallsOK'
  BY <1>2, <1>4 DEF CallsOK, Working, Fresh
<1>6. JobsOK'
  BY <1>2, <1>4 DEF JobsOK, Running
<1>7. CheckpointsOK' /\ NothingMissed'
  BY <1>2 DEF CheckpointsOK, NothingMissed
<1>8. PagesOK' /\ AttemptsTellTheJob' /\ AttemptsOK'
  BY DEF PagesOK, HeldAll, Due, AttemptsTellTheJob, AttemptsOK
<1> QED BY <1>3, <1>5, <1>6, <1>7, <1>8

\* What a server adds now is later than every checkpoint and due to no job.
LEMMA AddObjectStep ==
  ASSUME IInv, NEW s \in Sources, NEW i \in Indicators, NEW v \in Versions, AddObject(s, i, v)
  PROVE  IInv'
<1> USE DEF IInv, storeVars
<1>1. /\ collection' = [collection EXCEPT ![s][i][v] = now]
      /\ collection[s][i][v] = NotAdded
      /\ UNCHANGED <<now, storeVars, call, toggles, crashes, dataStore>>
  BY DEF AddObject
<1>2. /\ collection' \in [Sources -> [Indicators -> [Versions -> Times \cup {NotAdded}]]]
      /\ \A r \in Sources, j \in Indicators, w \in Versions :
           collection'[r][j][w] = IF r = s /\ j = i /\ w = v THEN now ELSE collection[r][j][w]
  <2>1. collection \in [Sources -> [Indicators -> [Versions -> Times \cup {NotAdded}]]] /\ now \in Times
    BY DEF TypeOK
  <2> QED BY <1>1, <2>1
<1>3. TypeOK'
  BY <1>1, <1>2 DEF TypeOK
<1>4. Running' = Running
  BY <1>1 DEF Running
<1>5. CallsOK' /\ JobsOK' /\ CheckpointsOK' /\ AttemptsTellTheJob' /\ AttemptsOK'
  BY <1>1, <1>4 DEF CallsOK, JobsOK, CheckpointsOK, AttemptsTellTheJob, AttemptsOK, Working, Fresh
<1>6. now \in Nat /\ \A j \in DOMAIN jobs : jobs[j].startedAt \in Nat /\ (jobs[j].source = s => jobs[j].startedAt < now)
  BY JobFields DEF AddObject, TypeOK, Times
<1>7. source[s].checkpoint < now
  BY <1>6 DEF CheckpointsOK, NoCheckpoint
<1>8. NothingMissed'
  <2>1. \A r \in Sources : source[r].checkpoint \in Int
    BY DEF TypeOK, Times, NoCheckpoint
  <2> QED BY <1>1, <1>2, <1>6, <1>7, <2>1 DEF NothingMissed
<1>9. PagesOK'
  <2>1. \A c \in Callers : Working(c) => call[c].source \in Sources /\ call[c].job \in DOMAIN jobs /\ jobs[call[c].job].source = call[c].source
    BY DEF CallsOK, Working, Running
  <2>2. ASSUME NEW c \in Callers, Working(c), NEW j \in Indicators, NEW w \in Versions, Due(c, j, w)'
        PROVE  Due(c, j, w)
    <3>1. call[c].source \in Sources /\ jobs[call[c].job].startedAt \in Nat
          /\ (call[c].source = s => ~(now <= jobs[call[c].job].startedAt))
      BY <1>6, <2>1, <2>2
    <3> QED BY <1>1, <1>2, <2>2, <3>1 DEF Due
  <2>3. \A c \in Callers : call[c].pc = "page" =>
          \A x \in call[c].page : collection'[call[c].source][x[1]][x[2]] # NotAdded
    <3> SUFFICES ASSUME NEW c \in Callers, call[c].pc = "page", NEW x \in call[c].page
                 PROVE  collection'[call[c].source][x[1]][x[2]] # NotAdded
      OBVIOUS
    <3>1. x \in Indicators \X Versions /\ call[c].source \in Sources
      BY <2>1, CallFields DEF PageObjects, Working
    <3>2. collection[call[c].source][x[1]][x[2]] # NotAdded
      BY DEF PagesOK
    <3> QED BY <1>2, <1>6, <3>1, <3>2 DEF NotAdded
  <2>4. \A c \in Callers : call[c].pc = "page" \/ call[c].pc = "finish" => Working(c)
    BY DEF Working
  <2> QED BY <1>1, <2>2, <2>3, <2>4 DEF PagesOK, HeldAll
<1> QED BY <1>3, <1>5, <1>8, <1>9

-----------------------------------------------------------------------------
(* The job of a call.                                                      *)

\* The checkpoint of a source is not ahead of the clock.
LEMMA CheckpointsPast ==
  ASSUME TypeOK, JobsOK, CheckpointsOK, NEW s \in Sources
  PROVE  source[s].checkpoint \in Times \cup {NoCheckpoint} /\ source[s].checkpoint <= now
<1>1. source[s].checkpoint \in Times \cup {NoCheckpoint} /\ now \in Nat
  BY DEF TypeOK, Times
<1>2. CASE source[s].checkpoint = NoCheckpoint
  BY <1>1, <1>2 DEF NoCheckpoint
<1>3. CASE source[s].checkpoint # NoCheckpoint
  BY <1>1, <1>3 DEF CheckpointsOK, JobsOK
<1> QED BY <1>1, <1>2, <1>3

\* A job is created when none of its source runs, from a checkpoint that is not
\* ahead of today's.
LEMMA CreateJobStep ==
  ASSUME IInv, NEW c \in Callers, CreateJob(c)
  PROVE  IInv'
<1> USE DEF IInv
<1> DEFINE n == Len(jobs) + 1
           s == call[c].source
           new == NewJob(c)
<1>1. /\ call[c].pc = "opened" /\ RunningFor(s) = {}
      /\ jobs' = Append(jobs, new)
      /\ call' = [call EXCEPT ![c] = [@ EXCEPT !.pc = "fetch", !.job = n]]
      /\ UNCHANGED <<now, collection, source, deliveries, indicators, toggles, crashes, dataStore>>
  BY DEF CreateJob
<1>2. /\ s \in Sources /\ Fresh(call[c])
      /\ call[c].openedAt <= now /\ call[c].checkpoint <= source[s].checkpoint
  BY <1>1 DEF CallsOK
<1>3. source[s].checkpoint \in Times \cup {NoCheckpoint} /\ source[s].checkpoint <= now
  BY <1>2, CheckpointsPast
<1>4. now \in Times /\ call[c].openedAt \in Times /\ call[c].checkpoint \in Times \cup {NoCheckpoint}
  BY CallFields DEF TypeOK
<1>5. /\ new \in JobType /\ new.source = s /\ new.status = "running"
      /\ new.startedAt <= now /\ new.before <= source[s].checkpoint /\ new.attempts = {}
      /\ dataStore # "postgres" => new.startedAt = now
  <2> DEFINE start == IF dataStore = "postgres" THEN call[c].openedAt ELSE now
             before == IF dataStore = "postgres" THEN source[s].checkpoint ELSE call[c].checkpoint
  <2>1. /\ start \in Times /\ start <= now /\ (dataStore # "postgres" => start = now)
        /\ before \in Times \cup {NoCheckpoint} /\ before <= source[s].checkpoint
    BY <1>2, <1>3, <1>4 DEF Times, NoCheckpoint
  <2>2. new = [source |-> s, status |-> "running", startedAt |-> start, before |-> before,
               after |-> NoCheckpoint, pages |-> 0, attempts |-> {}]
    BY DEF NewJob
  <2>3. 0 \in 0..MaxPages /\ {} \in SUBSET AttemptType /\ NoCheckpoint \in Times \cup {NoCheckpoint}
    BY LimitsAssumption
  <2> HIDE DEF start, before, new
  <2> QED BY <1>2, <2>1, <2>2, <2>3 DEF JobType
<1>6. /\ jobs \in Seq(JobType) /\ jobs' \in Seq(JobType)
      /\ DOMAIN jobs = 1..Len(jobs) /\ DOMAIN jobs' = 1..n /\ Len(jobs) \in Nat
      /\ jobs'[n] = new /\ \A j \in DOMAIN jobs : jobs'[j] = jobs[j]
  <2>1. jobs \in Seq(JobType)
    BY DEF TypeOK
  <2> HIDE DEF new
  <2> QED BY <1>1, <1>5, <2>1, AppendProperties, LenProperties
<1> HIDE DEF new
<1>7. n \notin DOMAIN jobs /\ n \in DOMAIN jobs' /\ n \in Nat /\ DOMAIN jobs' = DOMAIN jobs \cup {n}
  BY <1>6
<1>8. Running' = Running \cup {n}
  BY <1>5, <1>6, <1>7 DEF Running
<1>9. /\ call' \in [Callers -> CallType]
      /\ call'[c].pc = "fetch" /\ call'[c].job = n /\ call'[c].source = s /\ Fresh(call'[c])
      /\ \A d \in Callers \ {c} : call'[d] = call[d]
  <2>1. call \in [Callers -> CallType] /\ call[c] \in CallType
    BY DEF TypeOK
  <2>2. [call[c] EXCEPT !.pc = "fetch", !.job = n] \in CallType
    BY <1>7, <2>1 DEF CallType
  <2> QED BY <1>1, <1>2, <2>1, <2>2 DEF Fresh, CallType
<1> HIDE DEF n
<1>10. \A d \in Callers \ {c} : Working(d) => call[d].job \in DOMAIN jobs
  BY DEF CallsOK, Running
<1>11. TypeOK'
  BY <1>1, <1>6, <1>9 DEF TypeOK
<1>12. CallsOK'
  <2>1. \A d \in Callers \ {c} : Working(d)' <=> Working(d)
    BY <1>9 DEF Working
  <2>2. \A d \in Callers \ {c} : Working(d) => jobs'[call[d].job] = jobs[call[d].job] /\ call[d].job # n
    BY <1>6, <1>7, <1>10
  <2>3. 0 < MaxPages
    BY LimitsAssumption
  <2>4. \A d \in Callers \ {c} :
          /\ call'[d].pc # "idle" => call'[d].source \in Sources
          /\ call'[d].pc \in {"requested", "opened"} => Fresh(call'[d])
          /\ call'[d].pc \in {"fetch", "page"} => call'[d].pages < MaxPages
          /\ call'[d].pc = "opened" =>
               call'[d].openedAt <= now' /\ call'[d].checkpoint <= source'[call'[d].source].checkpoint
          /\ Working(d) => call'[d].job \in Running' /\ jobs'[call'[d].job].source = call'[d].source
    BY <1>1, <1>8, <1>9, <2>2 DEF CallsOK
  <2>5. /\ call'[c].source \in Sources /\ Fresh(call'[c]) /\ call'[c].pages < MaxPages
        /\ call'[c].job \in Running' /\ jobs'[call'[c].job].source = call'[c].source
    BY <1>2, <1>5, <1>6, <1>8, <1>9, <2>3 DEF Fresh
  <2>6. \A d, e \in Callers : Working(d)' /\ Working(e)' /\ call'[d].job = call'[e].job => d = e
    BY <1>9, <2>1, <2>2 DEF CallsOK
  <2>7. \A d \in Callers :
          /\ call'[d].pc # "idle" => call'[d].source \in Sources
          /\ call'[d].pc \in {"requested", "opened"} => Fresh(call'[d])
          /\ call'[d].pc \in {"fetch", "page"} => call'[d].pages < MaxPages
          /\ call'[d].pc = "opened" =>
               call'[d].openedAt <= now' /\ call'[d].checkpoint <= source'[call'[d].source].checkpoint
          /\ Working(d)' => call'[d].job \in Running' /\ jobs'[call'[d].job].source = call'[d].source
    BY <1>9, <2>1, <2>4, <2>5
  <2> QED BY <2>6, <2>7 DEF CallsOK, Fresh
<1>13. JobsOK'
  <2>1. \A j \in DOMAIN jobs' : jobs'[j].startedAt <= now
    BY <1>5, <1>6, <1>7 DEF JobsOK
  <2>2. \A j \in Running' : /\ jobs'[j].before <= source[jobs'[j].source].checkpoint
                            /\ dataStore # "postgres" => source[jobs'[j].source].checkpoint <= jobs'[j].startedAt
    <3>1. \A j \in Running : jobs'[j] = jobs[j]
      BY <1>6 DEF Running
    <3> QED BY <1>3, <1>5, <1>6, <1>8, <3>1 DEF JobsOK
  <2>3. \A j \in Running : jobs'[j] = jobs[j] /\ jobs[j].source # s
    BY <1>1, <1>6 DEF Running, RunningFor
  <2>4. \A j, k \in Running' : jobs'[j].source = jobs'[k].source => j = k
    BY <1>5, <1>6, <1>8, <2>3 DEF JobsOK
  <2> QED BY <1>1, <2>1, <2>2, <2>4 DEF JobsOK
<1>14. CheckpointsOK' /\ NothingMissed'
  BY <1>1, <1>6, <1>7 DEF CheckpointsOK, NothingMissed
<1>15. \A d \in Callers \ {c} : call[d].pc \in {"fetch", "page", "finish"} =>
         call'[d] = call[d] /\ jobs'[call[d].job] = jobs[call[d].job]
  BY <1>6, <1>9, <1>10 DEF Working
<1>16. PagesOK'
  <2>1. \A d \in deliveries' : HeldAll(d.page)'
    BY <1>1 DEF PagesOK, HeldAll
  <2>2. \A d \in Callers \ {c} :
          /\ call'[d].pc \in {"fetch", "page"} => HeldAll(call[d].sent)'
          /\ call'[d].pc = "page" =>
               \A x \in call'[d].page : collection'[call'[d].source][x[1]][x[2]] # NotAdded
          /\ call'[d].pc = "page" /\ call'[d].more = "no" =>
               \A i \in Indicators, v \in Versions :
                 Due(d, i, v)' => <<i, v>> \in call'[d].page \cup call'[d].sent
          /\ call'[d].pc = "finish" /\ call'[d].outcome = "succeeded" =>
               \A i \in Indicators, v \in Versions : Due(d, i, v)' => v <= indicators'[i]
    BY <1>1, <1>9, <1>15 DEF PagesOK, HeldAll, Due
  <2>3. HeldAll(call[c].sent)'
    BY <1>9 DEF HeldAll, Fresh
  <2> QED BY <1>9, <2>1, <2>2, <2>3 DEF PagesOK
<1>17. AttemptsOK'
  <2>1. Fetching(jobs'[n].attempts, call'[c])
    BY <1>5, <1>6, <1>9 DEF Fetching, Fresh
  <2> QED BY <1>9, <1>15, <2>1 DEF AttemptsOK
<1>18. AttemptsTellTheJob'
  <2> SUFFICES ASSUME NEW j \in DOMAIN jobs'
               PROVE  /\ \A a \in jobs'[j].attempts :
                           /\ a.number > 1 => \E b \in jobs'[j].attempts : b.page = a.page /\ b.number = a.number - 1 /\ ~b.ok
                           /\ a.page > 1 => \E b \in jobs'[j].attempts : b.page = a.page - 1 /\ b.ok
                           /\ \A b \in jobs'[j].attempts : a.page = b.page /\ a.number = b.number => a = b
                      /\ jobs'[j].status = "succeeded" =>
                           {a.page : a \in {b \in jobs'[j].attempts : b.ok}} = 1..jobs'[j].pages
    BY DEF AttemptsTellTheJob
  <2>1. CASE j \in DOMAIN jobs
    BY <1>6, <2>1 DEF AttemptsTellTheJob
  <2>2. CASE j = n
    BY <1>5, <1>6, <2>2
  <2> QED BY <1>7, <2>1, <2>2
<1> QED BY <1>11, <1>12, <1>13, <1>14, <1>16, <1>17, <1>18

-----------------------------------------------------------------------------
(* Attempts.                                                               *)

\* An attempt is recorded with the job of the call and continues its story:
\* the one before it failed, and the page before was received.
LEMMA AttemptRecorded ==
  ASSUME IInv, NEW c \in Callers, call[c].pc = "fetch", NEW ok \in BOOLEAN, AppendAttempt(c, ok)
  PROVE  LET k == call[c]
             A == jobs'[k.job].attempts
         IN  /\ jobs' \in Seq(JobType) /\ DOMAIN jobs' = DOMAIN jobs /\ Running' = Running
             /\ \A j \in DOMAIN jobs :
                  /\ jobs'[j].source = jobs[j].source /\ jobs'[j].status = jobs[j].status
                  /\ jobs'[j].startedAt = jobs[j].startedAt /\ jobs'[j].before = jobs[j].before
                  /\ j # k.job => jobs'[j] = jobs[j]
             /\ AttemptsTellTheJob'
             /\ ok => Received(A, k.pages + 1)
             /\ ~ok => /\ \A n \in 1..k.pages : \E b \in A : b.page = n /\ b.ok
                       /\ \A b \in A : b.page <= k.pages + 1 /\ (b.page = k.pages + 1 => b.number <= k.attempt)
                       /\ \E b \in A : b.page = k.pages + 1 /\ b.number = k.attempt /\ ~b.ok
<1> USE DEF IInv
<1> DEFINE k == call[c]
           A == jobs[k.job].attempts
           a == [page |-> k.pages + 1, number |-> k.attempt, ok |-> ok]
<1>1. /\ k.job \in DOMAIN jobs /\ k.job \in Running /\ k.pages < MaxPages
      /\ k.pages \in 0..MaxPages /\ k.attempt \in 1..MaxAttempts
  BY CallFields DEF CallsOK, Working, Running
<1>2. jobs \in Seq(JobType) /\ jobs[k.job] \in JobType /\ A \subseteq AttemptType
  BY <1>1, JobFields DEF TypeOK
<1>3. a \in AttemptType
  BY <1>1, LimitsAssumption DEF AttemptType
<1>4. jobs' = [jobs EXCEPT ![k.job].attempts = A \cup {a}]
  BY DEF AppendAttempt
<1> HIDE DEF a
<1>5. [jobs[k.job] EXCEPT !.attempts = A \cup {a}] \in JobType
  BY <1>2, <1>3 DEF JobType
<1>6. jobs' \in Seq(JobType) /\ DOMAIN jobs' = DOMAIN jobs
  BY <1>1, <1>2, <1>4, <1>5, ExceptSeq
<1>7. /\ \A j \in DOMAIN jobs : j # k.job => jobs'[j] = jobs[j]
      /\ jobs'[k.job] = [jobs[k.job] EXCEPT !.attempts = A \cup {a}]
  BY <1>1, <1>4
<1>8. /\ jobs'[k.job].source = jobs[k.job].source /\ jobs'[k.job].status = jobs[k.job].status
      /\ jobs'[k.job].startedAt = jobs[k.job].startedAt /\ jobs'[k.job].before = jobs[k.job].before
      /\ jobs'[k.job].attempts = A \cup {a} /\ jobs[k.job].status = "running"
  BY <1>1, <1>2, <1>7 DEF JobType, Running
<1>9. Running' = Running
  BY <1>1, <1>6, <1>7, <1>8 DEF Running
<1>10. /\ Fetching(A, k)
       /\ \A b \in A : b.page \in Nat /\ b.number \in Nat /\ b.ok \in BOOLEAN
       /\ k.pages \in Nat /\ k.attempt \in Nat
       /\ a.page = k.pages + 1 /\ a.number = k.attempt /\ a.ok = ok
  BY <1>1, <1>2 DEF AttemptsOK, AttemptType, a
<1>11. AttemptsTellTheJob'
  <2> SUFFICES ASSUME NEW j \in DOMAIN jobs
               PROVE  /\ \A x \in jobs'[j].attempts :
                           /\ x.number > 1 => \E b \in jobs'[j].attempts : b.page = x.page /\ b.number = x.number - 1 /\ ~b.ok
                           /\ x.page > 1 => \E b \in jobs'[j].attempts : b.page = x.page - 1 /\ b.ok
                           /\ \A b \in jobs'[j].attempts : x.page = b.page /\ x.number = b.number => x = b
                      /\ jobs'[j].status = "succeeded" =>
                           {x.page : x \in {b \in jobs'[j].attempts : b.ok}} = 1..jobs'[j].pages
    BY <1>6 DEF AttemptsTellTheJob
  <2>1. CASE j # k.job
    BY <1>7, <2>1 DEF AttemptsTellTheJob
  <2>2. CASE j = k.job
    <3>1. \A x \in A : /\ x.number > 1 => \E b \in A : b.page = x.page /\ b.number = x.number - 1 /\ ~b.ok
                       /\ x.page > 1 => \E b \in A : b.page = x.page - 1 /\ b.ok
                       /\ \A b \in A : x.page = b.page /\ x.number = b.number => x = b
      BY <1>1 DEF AttemptsTellTheJob
    <3>2. a.number > 1 => \E b \in A : b.page = a.page /\ b.number = a.number - 1 /\ ~b.ok
      BY <1>10 DEF Fetching
    <3>3. a.page > 1 => \E b \in A : b.page = a.page - 1 /\ b.ok
      <4>1. a.page > 1 => k.pages \in 1..k.pages /\ a.page - 1 = k.pages
        BY <1>10
      <4> QED BY <1>10, <4>1 DEF Fetching
    <3>4. \A b \in A : ~(a.page = b.page /\ a.number = b.number)
      BY <1>10 DEF Fetching
    <3> QED BY <1>8, <2>2, <3>1, <3>2, <3>3, <3>4
  <2> QED BY <2>1, <2>2
<1>12. ok => Received(jobs'[k.job].attempts, k.pages + 1)
  <2> SUFFICES ASSUME ok PROVE Received(A \cup {a}, k.pages + 1)
    BY <1>8
  <2>1. \A n \in 1..(k.pages + 1) : n \in 1..k.pages \/ n = k.pages + 1
    BY <1>10
  <2>2. \A n \in 1..k.pages : \E b \in A \cup {a} : b.page = n /\ b.ok
    BY <1>10 DEF Fetching
  <2>3. \E b \in A \cup {a} : b.page = k.pages + 1 /\ b.ok
    BY <1>10
  <2>4. \A b \in A \cup {a} : b.page <= k.pages + 1
    BY <1>10 DEF Fetching
  <2> QED BY <2>1, <2>2, <2>3, <2>4 DEF Received
<1>13. ~ok => /\ \A n \in 1..k.pages : \E b \in A \cup {a} : b.page = n /\ b.ok
              /\ \A b \in A \cup {a} : b.page <= k.pages + 1 /\ (b.page = k.pages + 1 => b.number <= k.attempt)
              /\ \E b \in A \cup {a} : b.page = k.pages + 1 /\ b.number = k.attempt /\ ~b.ok
  BY <1>10 DEF Fetching
<1> QED BY <1>6, <1>7, <1>8, <1>9, <1>11, <1>12, <1>13

\* What a call that fetches may become with an attempt that is recorded.
LEMMA Fetched ==
  ASSUME IInv, NEW c \in Callers, call[c].pc = "fetch", NEW ok \in BOOLEAN, AppendAttempt(c, ok),
         UNCHANGED <<now, collection, source, deliveries, indicators, toggles, crashes, dataStore>>,
         call' \in [Callers -> CallType], \A d \in Callers \ {c} : call'[d] = call[d],
         call'[c].source = call[c].source, call'[c].job = call[c].job,
         call'[c].pages = call[c].pages, call'[c].sent = call[c].sent,
         \/ ~ok /\ call'[c].pc = "fetch" /\ call'[c].attempt = call[c].attempt + 1
         \/ /\ ok /\ call'[c].pc = "page" /\ call'[c].page \subseteq Remaining(c)
            /\ call'[c].more = "no" => call'[c].page = Remaining(c)
         \/ call'[c].pc = "finish" /\ call'[c].outcome = "failed"
  PROVE  IInv'
<1> USE DEF IInv
<1> DEFINE k == call[c]
<1>1. /\ k.source \in Sources /\ k.job \in Running /\ k.job \in DOMAIN jobs
      /\ jobs[k.job].source = k.source /\ k.pages < MaxPages
  BY DEF CallsOK, Working, Running
<1>2. /\ jobs' \in Seq(JobType) /\ DOMAIN jobs' = DOMAIN jobs /\ Running' = Running
      /\ \A j \in DOMAIN jobs :
           /\ jobs'[j].source = jobs[j].source /\ jobs'[j].status = jobs[j].status
           /\ jobs'[j].startedAt = jobs[j].startedAt /\ jobs'[j].before = jobs[j].before
           /\ j # k.job => jobs'[j] = jobs[j]
      /\ AttemptsTellTheJob'
  BY AttemptRecorded
<1>3. TypeOK'
  BY <1>2 DEF TypeOK
<1>4. \A d \in Callers : Working(d) => call[d].job \in DOMAIN jobs /\ (d # c => call[d].job # k.job)
  BY DEF CallsOK, Working, Running
<1>5. CallsOK'
  <2>1. \A d \in Callers : Working(d)' <=> Working(d)
    BY DEF Working
  <2>2. \A d \in Callers : Working(d) => call'[d].job = call[d].job /\ call'[d].source = call[d].source
    OBVIOUS
  <2>3. \A d \in Callers : Working(d) =>
          call'[d].job \in Running' /\ jobs'[call'[d].job].source = call'[d].source
    BY <1>2, <1>4, <2>2 DEF CallsOK
  <2>4. \A d \in Callers :
          /\ call'[d].pc # "idle" => call'[d].source \in Sources
          /\ call'[d].pc \in {"requested", "opened"} => Fresh(call'[d])
          /\ call'[d].pc \in {"fetch", "page"} => call'[d].pages < MaxPages
          /\ call'[d].pc = "opened" =>
               call'[d].openedAt <= now' /\ call'[d].checkpoint <= source'[call'[d].source].checkpoint
    BY <1>1 DEF CallsOK
  <2>5. \A d, e \in Callers : Working(d)' /\ Working(e)' /\ call'[d].job = call'[e].job => d = e
    BY <2>1, <2>2 DEF CallsOK
  <2> QED BY <2>1, <2>3, <2>4, <2>5 DEF CallsOK, Fresh
<1>6. JobsOK' /\ CheckpointsOK' /\ NothingMissed'
  <2>1. \A j \in Running : j \in DOMAIN jobs
    BY DEF Running
  <2> QED BY <1>2, <2>1 DEF JobsOK, CheckpointsOK, NothingMissed
<1>7. \A d \in Callers, i \in Indicators, v \in Versions : Working(d) /\ Due(d, i, v)' => Due(d, i, v)
  BY <1>2, <1>4 DEF Due
<1>8. PagesOK'
  <2>1. \A d \in deliveries' : HeldAll(d.page)'
    BY DEF PagesOK, HeldAll
  <2>2. \A d \in Callers \ {c} :
          /\ call'[d].pc \in {"fetch", "page"} => HeldAll(call[d].sent)'
          /\ call'[d].pc = "page" =>
               \A x \in call'[d].page : collection'[call'[d].source][x[1]][x[2]] # NotAdded
          /\ call'[d].pc = "page" /\ call'[d].more = "no" =>
               \A i \in Indicators, v \in Versions :
                 Due(d, i, v)' => <<i, v>> \in call'[d].page \cup call'[d].sent
          /\ call'[d].pc = "finish" /\ call'[d].outcome = "succeeded" =>
               \A i \in Indicators, v \in Versions : Due(d, i, v)' => v <= indicators'[i]
    BY <1>7 DEF PagesOK, HeldAll, Working
  <2>3. HeldAll(call[c].sent)'
    BY DEF PagesOK, HeldAll
  <2>4. ASSUME call'[c].pc = "page"
        PROVE  /\ \A x \in call'[c].page : collection'[call'[c].source][x[1]][x[2]] # NotAdded
               /\ call'[c].more = "no" =>
                    \A i \in Indicators, v \in Versions :
                      Due(c, i, v)' => <<i, v>> \in call'[c].page \cup call'[c].sent
    <3>1. call'[c].page \subseteq Remaining(c) /\ (call'[c].more = "no" => call'[c].page = Remaining(c))
      BY <2>4
    <3>2. \A x \in call'[c].page : collection'[call'[c].source][x[1]][x[2]] # NotAdded
      BY <3>1 DEF Remaining, AddedAfter
    <3>3. \A i \in Indicators, v \in Versions :
            Due(c, i, v) => <<i, v>> \in AddedAfter(k.source, jobs[k.job].before)
      BY <1>1, JobFields DEF Due, AddedAfter, TypeOK, Times, NotAdded, NoCheckpoint
    <3> QED BY <1>7, <3>1, <3>2, <3>3 DEF Remaining, Working
  <2> QED BY <2>1, <2>2, <2>3, <2>4 DEF PagesOK
<1>9. AttemptsOK'
  <2>1. \A d \in Callers \ {c} : Working(d) => jobs'[call'[d].job] = jobs[call[d].job] /\ call'[d] = call[d]
    BY <1>2, <1>4
  <2>2. CASE ~ok /\ call'[c].pc = "fetch" /\ call'[c].attempt = call[c].attempt + 1
    <3>1. k.pages \in Nat /\ k.attempt \in Nat /\ \A b \in jobs'[k.job].attempts : b.number \in Nat
      <4>1. jobs'[k.job] \in JobType
        BY <1>1, <1>2, ElementOfSeq, LenProperties
      <4> QED BY <4>1, CallFields DEF JobType, AttemptType
    <3>2. Fetching(jobs'[k.job].attempts, call'[c])
      BY <2>2, <3>1, AttemptRecorded DEF Fetching
    <3> QED BY <2>1, <2>2, <3>2 DEF AttemptsOK, Working
  <2>3. CASE ok /\ call'[c].pc = "page"
    <3>1. Received(jobs'[k.job].attempts, k.pages + 1)
      BY <2>3, AttemptRecorded
    <3> QED BY <2>1, <2>3, <3>1 DEF AttemptsOK, Working
  <2>4. CASE call'[c].pc = "finish" /\ call'[c].outcome = "failed"
    BY <2>1, <2>4 DEF AttemptsOK, Working
  <2> QED BY <2>2, <2>3, <2>4
<1> QED BY <1>2, <1>3, <1>5, <1>6, <1>8, <1>9

\* A page, an invalid one, an attempt that will be made again, the last one.
LEMMA FetchSteps ==
  ASSUME IInv, NEW c \in Callers,
         ReceivePage(c) \/ ReceiveInvalidPage(c) \/ RetryFetch(c) \/ FailFetch(c)
  PROVE  IInv'
<1> USE DEF IInv
<1>1. call \in [Callers -> CallType] /\ call[c] \in CallType
  BY DEF TypeOK
<1>2. CASE ReceivePage(c)
  <2>1. /\ call[c].pc = "fetch" /\ AppendAttempt(c, TRUE)
        /\ UNCHANGED <<now, collection, source, deliveries, indicators, toggles, crashes, dataStore>>
    BY <1>2 DEF ReceivePage
  <2>2. PICK page \in SUBSET Remaining(c), more \in {"no", "next", "again"} :
          /\ page # Remaining(c) => more # "no"
          /\ call' = [call EXCEPT ![c] = [@ EXCEPT !.pc = "page", !.page = page, !.more = more]]
    BY <1>2 DEF ReceivePage
  <2>3. page \subseteq PageObjects
    BY DEF Remaining, AddedAfter, PageObjects
  <2>4. [call[c] EXCEPT !.pc = "page", !.page = page, !.more = more] \in CallType
    BY <1>1, <2>3 DEF CallType
  <2>5. /\ call' \in [Callers -> CallType] /\ \A d \in Callers \ {c} : call'[d] = call[d]
        /\ call'[c] = [call[c] EXCEPT !.pc = "page", !.page = page, !.more = more]
    BY <1>1, <2>2, <2>4
  <2>6. /\ call'[c].source = call[c].source /\ call'[c].job = call[c].job
        /\ call'[c].pages = call[c].pages /\ call'[c].sent = call[c].sent
        /\ call'[c].pc = "page" /\ call'[c].page = page /\ call'[c].more = more
    BY <1>1, <2>5 DEF CallType
  <2> QED BY <2>1, <2>2, <2>5, <2>6, Fetched
<1>3. CASE ReceiveInvalidPage(c) \/ FailFetch(c)
  <2>1. PICK ok \in BOOLEAN : AppendAttempt(c, ok)
    BY <1>3 DEF ReceiveInvalidPage, FailFetch
  <2>2. /\ call[c].pc = "fetch"
        /\ call' = [call EXCEPT ![c] = [@ EXCEPT !.pc = "finish", !.outcome = "failed"]]
        /\ UNCHANGED <<now, collection, source, deliveries, indicators, toggles, crashes, dataStore>>
    BY <1>3 DEF ReceiveInvalidPage, FailFetch
  <2>3. [call[c] EXCEPT !.pc = "finish", !.outcome = "failed"] \in CallType
    BY <1>1 DEF CallType
  <2>4. /\ call' \in [Callers -> CallType] /\ \A d \in Callers \ {c} : call'[d] = call[d]
        /\ call'[c] = [call[c] EXCEPT !.pc = "finish", !.outcome = "failed"]
    BY <1>1, <2>2, <2>3
  <2>5. /\ call'[c].source = call[c].source /\ call'[c].job = call[c].job
        /\ call'[c].pages = call[c].pages /\ call'[c].sent = call[c].sent
        /\ call'[c].pc = "finish" /\ call'[c].outcome = "failed"
    BY <1>1, <2>4 DEF CallType
  <2> QED BY <2>1, <2>2, <2>4, <2>5, Fetched
<1>4. CASE RetryFetch(c)
  <2>1. /\ call[c].pc = "fetch" /\ AppendAttempt(c, FALSE)
        /\ UNCHANGED <<now, collection, source, deliveries, indicators, toggles, crashes, dataStore>>
        /\ call' = [call EXCEPT ![c].attempt = @ + 1]
    BY <1>4 DEF RetryFetch
  <2>2. call[c].attempt + 1 \in 1..MaxAttempts
    BY <1>4, CallFields, LimitsAssumption DEF RetryFetch
  <2>3. [call[c] EXCEPT !.attempt = call[c].attempt + 1] \in CallType
    BY <1>1, <2>2 DEF CallType
  <2>4. /\ call' \in [Callers -> CallType] /\ \A d \in Callers \ {c} : call'[d] = call[d]
        /\ call'[c] = [call[c] EXCEPT !.attempt = call[c].attempt + 1]
    BY <1>1, <2>1, <2>3
  <2>5. /\ call'[c].source = call[c].source /\ call'[c].job = call[c].job
        /\ call'[c].pages = call[c].pages /\ call'[c].sent = call[c].sent
        /\ call'[c].pc = "fetch" /\ call'[c].attempt = call[c].attempt + 1
    BY <1>1, <2>1, <2>4 DEF CallType
  <2> QED BY <2>1, <2>4, <2>5, Fetched
<1> QED BY <1>2, <1>3, <1>4

-----------------------------------------------------------------------------
(* Ingestion.                                                              *)

\* A non-empty set of naturals has a least element.
LEMMA NatMinimum ==
  ASSUME NEW T, T \subseteq Nat, T # {}
  PROVE  \E x \in T : \A y \in T : x <= y
<1>1. PICK x \in T : \A y \in T : ~ (<<y, x>> \in OpToRel(<, Nat))
  BY NatLessThanWellFounded, WFMin
<1>2. \A y \in T : ~(y < x)
  BY <1>1, Zenon DEF OpToRel
<1> QED BY <1>2

\* A finite set of versions has a newest one: the one with the fewest above it.
LEMMA NewestIs ==
  ASSUME NEW V, V \subseteq Nat, IsFiniteSet(V), V # {}
  PROVE  Newest(V) \in V /\ \A w \in V : w <= Newest(V)
<1> DEFINE Above(v) == {w \in V : w > v}
           T == {Cardinality(Above(v)) : v \in V}
<1>1. \A v \in V : IsFiniteSet(Above(v)) /\ Cardinality(Above(v)) \in Nat
  BY FS_Subset, FS_CardinalityType
<1>2. \E t \in T : \A u \in T : t <= u
  <2>1. T \subseteq Nat /\ T # {}
    BY <1>1
  <2> HIDE DEF T
  <2> QED BY <2>1, NatMinimum
<1>3. PICK v \in V : \A w \in V : Cardinality(Above(v)) <= Cardinality(Above(w))
  BY <1>2
<1>4. \A w \in V : w <= v
  <2> SUFFICES ASSUME NEW w \in V, w > v PROVE FALSE
    OBVIOUS
  <2>0. v \in Nat /\ w \in Nat /\ \A x \in V : x \in Nat
    OBVIOUS
  <2>1. Above(w) \subseteq Above(v) /\ w \in Above(v) /\ w \notin Above(w)
    <3>1. \A x \in V : x > w => x > v
      BY <2>0
    <3>2. ~(w > w)
      BY <2>0
    <3> QED BY <3>1, <3>2
  <2>2. Cardinality(Above(w)) <= Cardinality(Above(v)) /\ Cardinality(Above(w)) # Cardinality(Above(v))
    <3>1. Above(w) \in SUBSET Above(v) /\ Above(w) # Above(v) /\ IsFiniteSet(Above(v))
      BY <1>1, <2>1
    <3> HIDE DEF Above
    <3> QED BY <3>1, FS_Subset
  <2> QED BY <1>1, <1>3, <2>2
<1> QED BY <1>4, Zenon DEF Newest

\* Merging a page only replaces versions by newer ones out of the page, after
\* which the page is held.
LEMMA Merged ==
  ASSUME TypeOK, NEW page \in SUBSET PageObjects
  PROVE  /\ Merge(page) \in [Indicators -> Versions \cup {0}]
         /\ \A i \in Indicators :
              /\ indicators[i] <= Merge(page)[i]
              /\ Merge(page)[i] = indicators[i] \/ <<i, Merge(page)[i]>> \in page
         /\ \A x \in page : x[2] <= Merge(page)[x[1]]
<1> SUFFICES ASSUME NEW i \in Indicators
             PROVE  /\ Merge(page)[i] \in Versions \cup {0} /\ indicators[i] <= Merge(page)[i]
                    /\ Merge(page)[i] = indicators[i] \/ <<i, Merge(page)[i]>> \in page
                    /\ \A v \in Versions : <<i, v>> \in page => v <= Merge(page)[i]
  <2>1. \A x \in page : x[1] \in Indicators /\ x[2] \in Versions /\ x = <<x[1], x[2]>>
    BY DEF PageObjects
  <2>2. Merge(page) = [i_1 \in Indicators |-> Merge(page)[i_1]]
    BY DEF Merge
  <2> QED BY <2>1, <2>2
<1> DEFINE B == {v \in Versions : <<i, v>> \in page}
           V == {indicators[i]} \cup B
<1>1. V \subseteq Nat /\ IsFiniteSet(V) /\ V # {} /\ V \subseteq Versions \cup {0}
  <2>1. IsFiniteSet(B)
    BY VersionsAssumption, FS_Subset
  <2>2. IsFiniteSet({indicators[i]})
    BY FS_Singleton
  <2>3. IsFiniteSet(V)
    BY <2>1, <2>2, FS_Union
  <2>4. indicators[i] \in Versions \cup {0}
    BY DEF TypeOK
  <2>5. V \subseteq Versions \cup {0} /\ V # {}
    BY <2>4
  <2> HIDE DEF V
  <2> QED BY <2>3, <2>5, VersionsAssumption
<1>2. Newest(V) \in V /\ \A w \in V : w <= Newest(V)
  <2> HIDE DEF V
  <2> QED BY <1>1, NewestIs
<1>3. Merge(page)[i] = Newest(V)
  BY DEF Merge
<1> QED BY <1>1, <1>2, <1>3

\* Versions are numbers, and so is what is held of an indicator.
LEMMA HeldIsNat ==
  ASSUME NEW held \in [Indicators -> Versions \cup {0}]
  PROVE  held \in [Indicators -> Nat]
<1>1. Versions \cup {0} \subseteq Nat
  BY VersionsAssumption
<1>2. \A i \in Indicators : held[i] \in Nat
  BY <1>1
<1> QED BY <1>2

\* After a page the call ends its job or fetches the next page.
LEMMA NextAfterPage ==
  ASSUME IInv, NEW c \in Callers, call[c].pc = "page"
  PROVE  LET k == call[c]
             l == AfterPage(k)
         IN  /\ l \in CallType /\ l.source = k.source /\ l.job = k.job /\ l.pages = k.pages + 1
             /\ \/ l.pc = "finish" /\ (l.outcome = "succeeded" => k.more = "no")
                \/ l.pc = "fetch" /\ l.pages < MaxPages /\ l.attempt = 1 /\ l.sent = k.sent \cup k.page
<1> DEFINE k == call[c]
<1>1. /\ k \in CallType /\ k.pages < MaxPages /\ k.pages \in 0..MaxPages /\ MaxPages \in Nat
      /\ k.more \in {"no", "next", "again"} /\ 1 \in 1..MaxAttempts
  BY CallFields, LimitsAssumption DEF IInv, TypeOK, CallsOK
<1>2. k.pages + 1 \in 0..MaxPages
  BY <1>1
<1>3. \A outcome \in {"succeeded", "failed"} :
        /\ EndWith(k, outcome) \in CallType /\ EndWith(k, outcome).source = k.source
        /\ EndWith(k, outcome).job = k.job /\ EndWith(k, outcome).pages = k.pages + 1
        /\ EndWith(k, outcome).pc = "finish" /\ EndWith(k, outcome).outcome = outcome
  BY <1>1, <1>2 DEF EndWith, CallType
<1>4. /\ FetchNext(k) \in CallType /\ FetchNext(k).source = k.source /\ FetchNext(k).job = k.job
      /\ FetchNext(k).pages = k.pages + 1 /\ FetchNext(k).pc = "fetch"
      /\ FetchNext(k).attempt = 1 /\ FetchNext(k).sent = k.sent \cup k.page
  BY <1>1, <1>2 DEF FetchNext, CallType
<1>5. CASE k.more = "no"
  <2>1. AfterPage(k) = EndWith(k, "succeeded")
    BY <1>5 DEF AfterPage
  <2> QED BY <1>3, <1>5, <2>1
<1>6. CASE k.more = "again" \/ (k.more = "next" /\ k.pages + 1 >= MaxPages)
  <2>1. AfterPage(k) = EndWith(k, "failed")
    BY <1>1, <1>6 DEF AfterPage
  <2> QED BY <1>3, <2>1
<1>7. CASE k.more = "next" /\ k.pages + 1 < MaxPages
  <2>1. AfterPage(k) = FetchNext(k)
    BY <1>1, <1>7 DEF AfterPage
  <2> QED BY <1>4, <1>7, <2>1
<1> QED BY <1>1, <1>2, <1>5, <1>6, <1>7

\* Ingesting a page leaves no indicator at an older version and holds the page,
\* also when it was delivered before.
LEMMA Ingested ==
  ASSUME IInv, NEW c \in Callers, IngestPage(c)
  PROVE  /\ indicators' \in [Indicators -> Versions \cup {0}]
         /\ \A i \in Indicators :
              /\ indicators[i] <= indicators'[i]
              /\ indicators'[i] = indicators[i] \/ <<i, indicators'[i]>> \in call[c].page
         /\ \A x \in call[c].page : x[2] <= indicators'[x[1]]
<1> DEFINE delivery == [source |-> call[c].source, page |-> call[c].page]
<1>1. TypeOK /\ call[c].page \in SUBSET PageObjects /\ \A d \in deliveries : HeldAll(d.page)
  BY CallFields DEF IInv, PagesOK
<1>2. indicators \in [Indicators -> Nat]
  BY <1>1, HeldIsNat DEF TypeOK
<1>3. CASE delivery \in deliveries
  <2>1. indicators' = indicators
    BY <1>3 DEF IngestPage
  <2>2. HeldAll(call[c].page)
    BY <1>1, <1>3
  <2> QED BY <1>1, <1>2, <2>1, <2>2 DEF HeldAll, TypeOK
<1>4. CASE delivery \notin deliveries
  <2>1. indicators' = Merge(call[c].page)
    BY <1>4 DEF IngestPage
  <2> QED BY <1>1, <2>1, Merged
<1> QED BY <1>3, <1>4

\* What was held is held, since versions only grow.
LEMMA StillHeld ==
  ASSUME TypeOK, NEW page \in SUBSET PageObjects, HeldAll(page),
         indicators' \in [Indicators -> Versions \cup {0}],
         \A i \in Indicators : indicators[i] <= indicators'[i]
  PROVE  HeldAll(page)'
<1>1. \A x \in page : x[1] \in Indicators /\ x[2] \in Nat
  BY VersionsAssumption DEF PageObjects
<1>2. indicators \in [Indicators -> Nat] /\ indicators' \in [Indicators -> Nat]
  BY HeldIsNat DEF TypeOK
<1> QED BY <1>1, <1>2 DEF HeldAll

\* A page that is ingested is held, and after the last one nothing is due.
LEMMA IngestPageStep ==
  ASSUME IInv, NEW c \in Callers, IngestPage(c)
  PROVE  IInv'
<1> USE DEF IInv
<1> DEFINE k == call[c]
           l == AfterPage(k)
           delivery == [source |-> k.source, page |-> k.page]
<1>1. /\ k.pc = "page" /\ deliveries' = deliveries \cup {delivery} /\ call' = [call EXCEPT ![c] = l]
      /\ UNCHANGED <<now, collection, source, jobs, toggles, crashes, dataStore>>
  BY DEF IngestPage
<1>2. /\ l \in CallType /\ l.source = k.source /\ l.job = k.job /\ l.pages = k.pages + 1
      /\ \/ l.pc = "finish" /\ (l.outcome = "succeeded" => k.more = "no")
         \/ l.pc = "fetch" /\ l.pages < MaxPages /\ l.attempt = 1 /\ l.sent = k.sent \cup k.page
  BY <1>1, NextAfterPage
<1> HIDE DEF l
<1>3. /\ indicators' \in [Indicators -> Versions \cup {0}]
      /\ \A i \in Indicators : indicators[i] <= indicators'[i]
      /\ \A x \in k.page : x[2] <= indicators'[x[1]]
  BY Ingested
<1>4. /\ call' \in [Callers -> CallType] /\ call'[c] = l /\ \A d \in Callers \ {c} : call'[d] = call[d]
      /\ k.source \in Sources /\ k.page \subseteq PageObjects /\ k.sent \subseteq PageObjects
      /\ Running' = Running
  BY <1>1, <1>2, CallFields DEF TypeOK, CallsOK, Running
<1>5. TypeOK'
  BY <1>1, <1>3, <1>4 DEF TypeOK
<1>6. CallsOK'
  <2>1. \A d \in Callers : (Working(d)' <=> Working(d)) /\ call'[d].job = call[d].job /\ call'[d].source = call[d].source
    BY <1>1, <1>2, <1>4 DEF Working
  <2>2. \A d \in Callers :
          /\ call'[d].pc # "idle" => call'[d].source \in Sources
          /\ call'[d].pc \in {"requested", "opened"} => Fresh(call'[d])
          /\ call'[d].pc \in {"fetch", "page"} => call'[d].pages < MaxPages
          /\ call'[d].pc = "opened" =>
               call'[d].openedAt <= now' /\ call'[d].checkpoint <= source'[call'[d].source].checkpoint
    BY <1>1, <1>2, <1>4 DEF CallsOK
  <2> QED BY <1>1, <1>4, <2>1, <2>2 DEF CallsOK, Fresh
<1>7. JobsOK' /\ CheckpointsOK' /\ AttemptsTellTheJob'
  BY <1>1, <1>4 DEF JobsOK, CheckpointsOK, AttemptsTellTheJob
<1>8. indicators \in [Indicators -> Nat] /\ indicators' \in [Indicators -> Nat] /\ Versions \subseteq Nat
  BY <1>3, HeldIsNat, VersionsAssumption DEF TypeOK
<1>9. NothingMissed'
  <2>1. \A i \in Indicators, v \in Versions :
          v <= indicators[i] /\ indicators[i] <= indicators'[i] => v <= indicators'[i]
    BY <1>8
  <2> QED BY <1>1, <1>3, <2>1 DEF NothingMissed
<1>10. PagesOK'
  <2>1. \A d \in deliveries' : HeldAll(d.page)'
    <3>1. \A d \in deliveries : d.page \in SUBSET PageObjects
      BY DEF TypeOK
    <3>2. \A d \in deliveries : HeldAll(d.page)'
      BY <1>3, <3>1, StillHeld DEF PagesOK
    <3>3. \A x \in delivery.page : x[2] <= indicators'[x[1]]
      BY <1>3
    <3>4. \A d \in deliveries : \A x \in d.page : x[2] <= indicators'[x[1]]
      BY <3>2 DEF HeldAll
    <3> QED BY <1>1, <3>3, <3>4 DEF HeldAll
  <2>2. \A d \in Callers, i \in Indicators, v \in Versions : Due(d, i, v)' => Due(d, i, v)
    BY <1>1, <1>2, <1>4 DEF Due
  <2>3. \A d \in Callers \ {c} :
          /\ call'[d].pc \in {"fetch", "page"} => \A x \in call'[d].sent : x[2] <= indicators'[x[1]]
          /\ call'[d].pc = "page" =>
               \A x \in call'[d].page : collection'[call'[d].source][x[1]][x[2]] # NotAdded
          /\ call'[d].pc = "page" /\ call'[d].more = "no" =>
               \A i \in Indicators, v \in Versions :
                 Due(d, i, v)' => <<i, v>> \in call'[d].page \cup call'[d].sent
          /\ call'[d].pc = "finish" /\ call'[d].outcome = "succeeded" =>
               \A i \in Indicators, v \in Versions : Due(d, i, v)' => v <= indicators'[i]
    <3> SUFFICES ASSUME NEW d \in Callers \ {c}
          PROVE
          /\ call'[d].pc \in {"fetch", "page"} => \A x \in call'[d].sent : x[2] <= indicators'[x[1]]
          /\ call'[d].pc = "page" =>
               \A x \in call'[d].page : collection'[call'[d].source][x[1]][x[2]] # NotAdded
          /\ call'[d].pc = "page" /\ call'[d].more = "no" =>
               \A i \in Indicators, v \in Versions :
                 Due(d, i, v)' => <<i, v>> \in call'[d].page \cup call'[d].sent
          /\ call'[d].pc = "finish" /\ call'[d].outcome = "succeeded" =>
               \A i \in Indicators, v \in Versions : Due(d, i, v)' => v <= indicators'[i]
      OBVIOUS
    <3>1. call'[d] = call[d] /\ call[d].sent \in SUBSET PageObjects
      BY <1>4, CallFields
    <3>2. HeldAll(call[d].sent) => \A x \in call[d].sent : x[2] <= indicators'[x[1]]
      <4>1. \A x \in call[d].sent : x[1] \in Indicators /\ x[2] \in Nat
        BY <3>1, VersionsAssumption DEF PageObjects
      <4> QED BY <1>3, <1>8, <4>1 DEF HeldAll
    <3>3. call[d].pc = "finish" /\ call[d].outcome = "succeeded" =>
            \A i \in Indicators, v \in Versions : Due(d, i, v)' => v <= indicators'[i]
      BY <1>3, <1>8, <2>2 DEF PagesOK
    <3> QED BY <1>1, <2>2, <3>1, <3>2, <3>3 DEF PagesOK
  <2>4. \A x \in k.page \cup k.sent : x[2] <= indicators'[x[1]]
    <3>1. \A x \in k.sent : x[1] \in Indicators /\ x[2] \in Nat /\ x[2] <= indicators[x[1]]
      BY <1>1, <1>4, VersionsAssumption DEF PagesOK, HeldAll, PageObjects
    <3> QED BY <1>3, <1>8, <3>1
  <2>5. l.pc = "finish" /\ l.outcome = "succeeded" =>
          \A i \in Indicators, v \in Versions : Due(c, i, v)' => v <= indicators'[i]
    <3> SUFFICES ASSUME l.pc = "finish", l.outcome = "succeeded",
                        NEW i \in Indicators, NEW v \in Versions, Due(c, i, v)'
                 PROVE  v <= indicators'[i]
      OBVIOUS
    <3>1. <<i, v>> \in k.page \cup k.sent
      BY <1>1, <1>2, <2>2 DEF PagesOK
    <3>2. <<i, v>>[2] <= indicators'[<<i, v>>[1]]
      BY <2>4, <3>1
    <3> QED BY <3>2
  <2>6. l.pc = "fetch" => \A x \in l.sent : x[2] <= indicators'[x[1]]
    BY <1>2, <2>4
  <2>7. l.pc # "page"
    BY <1>2
  <2> QED BY <1>4, <2>1, <2>3, <2>5, <2>6, <2>7 DEF PagesOK, HeldAll
<1>11. AttemptsOK'
  <2> DEFINE A == jobs[k.job].attempts
  <2>1. Received(A, k.pages + 1)
    BY <1>1 DEF AttemptsOK
  <2>2. l.pc = "fetch" => Fetching(A, l)
    <3>1. \A a \in A : a.page \in Nat
      <4>1. k.job \in DOMAIN jobs
        BY <1>1 DEF CallsOK, Working, Running
      <4> QED BY <4>1, JobFields DEF AttemptType
    <3>2. k.pages \in Nat
      BY CallFields
    <3> QED BY <1>2, <2>1, <3>1, <3>2 DEF Received, Fetching
  <2>3. \A d \in Callers \ {c} : jobs'[call'[d].job] = jobs[call[d].job] /\ call'[d] = call[d]
    BY <1>1, <1>4
  <2>4. l.pc = "finish" => Received(A, l.pages)
    BY <1>2, <2>1
  <2>5. jobs'[call'[c].job].attempts = A
    BY <1>1, <1>2, <1>4
  <2> HIDE DEF A
  <2> QED BY <1>2, <1>4, <2>2, <2>3, <2>4, <2>5 DEF AttemptsOK
<1> QED BY <1>5, <1>6, <1>7, <1>9, <1>10, <1>11

-----------------------------------------------------------------------------
(* The end of a job.                                                       *)

\* However the store decides, the checkpoint after a job that succeeds is the
\* later one of that before and the start of the job: it never moves back, and
\* what was added up to it is held.
LEMMA CheckpointMoves ==
  ASSUME IInv, NEW c \in Callers, Working(c)
  PROVE  LET s == call[c].source
             t == jobs[call[c].job].startedAt
             new == NextCheckpoint(s, t)
         IN  /\ s \in Sources /\ new \in Times \cup {NoCheckpoint} /\ source[s].checkpoint <= new
             /\ new = source[s].checkpoint \/ (new = t /\ source[s].checkpoint < t)
<1> DEFINE s == call[c].source
           t == jobs[call[c].job].startedAt
           old == source[s].checkpoint
<1>1. /\ s \in Sources /\ call[c].job \in Running /\ call[c].job \in DOMAIN jobs
      /\ jobs[call[c].job].source = s
  BY DEF IInv, CallsOK, Running, Working
<1>2. t \in Times /\ old \in Times \cup {NoCheckpoint} /\ t \in Int /\ old \in Int
  BY <1>1, JobFields DEF IInv, TypeOK, Times, NoCheckpoint
<1>3. dataStore # "postgres" => old <= t
  BY <1>1 DEF IInv, JobsOK
<1>4. NextCheckpoint(s, t) = IF dataStore = "postgres" /\ old >= t THEN old ELSE t
  BY DEF NextCheckpoint
<1> HIDE DEF s, t, old
<1>5. /\ NextCheckpoint(s, t) \in Times \cup {NoCheckpoint} /\ old <= NextCheckpoint(s, t)
      /\ NextCheckpoint(s, t) = old \/ (NextCheckpoint(s, t) = t /\ old < t)
  BY <1>2, <1>3, <1>4
<1> QED BY <1>1, <1>5 DEF s, t, old

\* A job that ends was the one of its source, and a checkpoint it moves is
\* complete, since the last page left nothing due.
LEMMA FinishJobStep ==
  ASSUME IInv, NEW c \in Callers, FinishJob(c)
  PROVE  IInv'
<1> USE DEF IInv
<1> DEFINE k == call[c]
           j == k.job
           s == k.source
           t == jobs[j].startedAt
           done == [jobs[j] EXCEPT !.status = k.outcome, !.pages = k.pages,
                                   !.after = IF k.outcome = "succeeded" THEN t ELSE NoCheckpoint]
           new == IF k.outcome = "succeeded" THEN NextCheckpoint(s, t) ELSE source[s].checkpoint
<1>1. /\ k.pc = "finish" /\ jobs' = [jobs EXCEPT ![j] = done] /\ call' = [call EXCEPT ![c] = IdleCall]
      /\ UNCHANGED <<now, collection, deliveries, indicators, toggles, crashes, dataStore>>
  BY DEF FinishJob
<1>2. /\ s \in Sources /\ j \in Running /\ j \in DOMAIN jobs /\ jobs[j].source = s
      /\ k.outcome \in {"succeeded", "failed"} /\ k.pages \in 0..MaxPages
  BY <1>1, CallFields DEF CallsOK, Working, Running
<1>3. jobs[j] \in JobType /\ t \in Times /\ jobs \in Seq(JobType) /\ DOMAIN jobs = 1..Len(jobs)
  BY <1>2, JobFields DEF TypeOK
<1>4. /\ done \in JobType /\ done.source = s /\ done.startedAt = t /\ done.status = k.outcome
      /\ done.attempts = jobs[j].attempts /\ done.pages = k.pages /\ done.before = jobs[j].before
  BY <1>2, <1>3 DEF JobType, NoCheckpoint
<1> HIDE DEF done
<1>5. /\ jobs' \in Seq(JobType) /\ DOMAIN jobs' = DOMAIN jobs
      /\ jobs'[j] = done /\ \A i \in DOMAIN jobs : i # j => jobs'[i] = jobs[i]
  BY <1>1, <1>2, <1>3, <1>4, ExceptSeq
<1>6. Running' = Running \ {j}
  BY <1>2, <1>4, <1>5 DEF Running
<1>7. /\ new \in Times \cup {NoCheckpoint} /\ source[s].checkpoint <= new
      /\ new = source[s].checkpoint \/ (new = t /\ source[s].checkpoint < t /\ k.outcome = "succeeded")
  <2>1. source[s].checkpoint \in Times \cup {NoCheckpoint} /\ source[s].checkpoint <= source[s].checkpoint
    BY <1>2 DEF TypeOK, Times, NoCheckpoint
  <2>2. Working(c)
    BY <1>1 DEF Working
  <2> QED BY <2>1, <2>2, CheckpointMoves
<1>8. /\ source' \in [Sources -> [status : {"active", "disabled"}, checkpoint : Times \cup {NoCheckpoint}]]
      /\ source'[s].checkpoint = new
      /\ \A r \in Sources : r # s => source'[r].checkpoint = source[r].checkpoint
  <2>1. source \in [Sources -> [status : {"active", "disabled"}, checkpoint : Times \cup {NoCheckpoint}]]
    BY DEF TypeOK
  <2>2. CASE k.outcome = "succeeded"
    <3>1. source' = [source EXCEPT ![s].checkpoint = new]
      BY <2>2 DEF FinishJob
    <3> HIDE DEF new
    <3> QED BY <1>2, <1>7, <2>1, <3>1
  <2>3. CASE k.outcome # "succeeded"
    <3>1. source' = source /\ new = source[s].checkpoint
      BY <2>3 DEF FinishJob
    <3> QED BY <2>1, <3>1
  <2> QED BY <2>2, <2>3
<1> HIDE DEF new
<1>9. \A r \in Sources : /\ source[r].checkpoint \in Int /\ source'[r].checkpoint \in Int
                         /\ source[r].checkpoint <= source'[r].checkpoint
  <2>1. \A r \in Sources : source[r].checkpoint \in Int /\ source'[r].checkpoint \in Int
    BY <1>8 DEF TypeOK, Times, NoCheckpoint
  <2> QED BY <1>7, <1>8, <2>1
<1>10. /\ call' \in [Callers -> CallType] /\ call'[c].pc = "idle" /\ ~Working(c)'
       /\ \A d \in Callers \ {c} : call'[d] = call[d] /\ (Working(d)' <=> Working(d))
  <2>1. call \in [Callers -> CallType] /\ IdleCall.pc = "idle"
    BY DEF TypeOK, IdleCall
  <2> QED BY <1>1, <2>1, IdleTyped DEF Working
<1>11. \A d \in Callers \ {c} : Working(d) => /\ call[d].job # j /\ call[d].job \in Running'
                                              /\ jobs'[call[d].job] = jobs[call[d].job]
  <2>1. \A d \in Callers : Working(d) => call[d].job \in Running /\ call[d].job \in DOMAIN jobs
    BY DEF CallsOK, Running
  <2>2. Working(c)
    BY <1>1 DEF Working
  <2>3. \A d \in Callers \ {c} : Working(d) => call[d].job # j
    BY <2>2 DEF CallsOK
  <2> QED BY <1>5, <1>6, <2>1, <2>3
<1>12. TypeOK'
  BY <1>1, <1>5, <1>8, <1>10 DEF TypeOK
<1>13. CallsOK'
  <2>1. \A d \in Callers \ {c} :
          /\ call'[d].pc # "idle" => call'[d].source \in Sources
          /\ call'[d].pc \in {"requested", "opened"} => Fresh(call'[d])
          /\ call'[d].pc \in {"fetch", "page"} => call'[d].pages < MaxPages
          /\ Working(d)' => call'[d].job \in Running' /\ jobs'[call'[d].job].source = call'[d].source
    BY <1>10, <1>11 DEF CallsOK
  <2>2. \A d \in Callers \ {c} : call'[d].pc = "opened" =>
          call'[d].openedAt <= now' /\ call'[d].checkpoint <= source'[call'[d].source].checkpoint
    <3> SUFFICES ASSUME NEW d \in Callers \ {c}, call[d].pc = "opened"
                 PROVE  call[d].openedAt <= now /\ call[d].checkpoint <= source'[call[d].source].checkpoint
      BY <1>1, <1>10
    <3>1. /\ call[d].source \in Sources /\ call[d].openedAt <= now
          /\ call[d].checkpoint <= source[call[d].source].checkpoint
      BY DEF CallsOK
    <3>2. call[d].checkpoint \in Int
      BY CallFields DEF Times, NoCheckpoint
    <3> QED BY <1>9, <3>1, <3>2
  <2>3. \A d, e \in Callers : Working(d)' /\ Working(e)' /\ call'[d].job = call'[e].job => d = e
    BY <1>10 DEF CallsOK
  <2> QED BY <1>10, <2>1, <2>2, <2>3 DEF CallsOK, Fresh
<1>14. JobsOK'
  <2>1. \A i \in DOMAIN jobs' : jobs'[i].startedAt <= now
    BY <1>2, <1>4, <1>5 DEF JobsOK
  <2>2. \A i \in Running' : i \in Running /\ i \in DOMAIN jobs /\ jobs'[i] = jobs[i] /\ jobs[i].source # s
                            /\ jobs[i].source \in Sources /\ jobs[i].before \in Int
    <3> SUFFICES ASSUME NEW i \in Running'
                 PROVE  i \in Running /\ i \in DOMAIN jobs /\ jobs'[i] = jobs[i] /\ jobs[i].source # s
                        /\ jobs[i].source \in Sources /\ jobs[i].before \in Int
      OBVIOUS
    <3>1. i \in Running /\ i # j /\ i \in DOMAIN jobs
      BY <1>6 DEF Running
    <3>2. jobs[i].source # s
      BY <1>2, <3>1 DEF JobsOK
    <3> QED BY <1>5, <3>1, <3>2, JobFields DEF Times, NoCheckpoint
  <2> QED BY <1>1, <1>8, <2>1, <2>2 DEF JobsOK
<1>15. CheckpointsOK'
  BY <1>2, <1>4, <1>5, <1>7, <1>8 DEF CheckpointsOK
<1>16. NothingMissed'
  <2> SUFFICES ASSUME NEW r \in Sources, NEW i \in Indicators, NEW v \in Versions,
                      collection[r][i][v] # NotAdded, collection[r][i][v] <= source'[r].checkpoint
               PROVE  v <= indicators[i]
    BY <1>1 DEF NothingMissed
  <2>1. CASE source'[r].checkpoint = source[r].checkpoint
    BY <2>1 DEF NothingMissed
  <2>2. CASE source'[r].checkpoint # source[r].checkpoint
    <3>1. r = s /\ source'[r].checkpoint = t /\ k.outcome = "succeeded"
      BY <1>7, <1>8, <2>2
    <3>2. CASE collection[s][i][v] <= source[s].checkpoint
      BY <3>1, <3>2 DEF NothingMissed
    <3>3. CASE ~(collection[s][i][v] <= source[s].checkpoint)
      <4>1. /\ collection[s][i][v] \in Int /\ source[s].checkpoint \in Int
            /\ jobs[j].before \in Int /\ jobs[j].before <= source[s].checkpoint
        BY <1>2, <1>9, JobFields DEF TypeOK, JobsOK, Times, NoCheckpoint, NotAdded
      <4>2. Due(c, i, v)
        BY <3>1, <3>3, <4>1 DEF Due
      <4> QED BY <1>1, <3>1, <4>2 DEF PagesOK
    <3> QED BY <3>2, <3>3
  <2> QED BY <2>1, <2>2
<1>17. PagesOK'
  <2>1. \A d \in Callers \ {c}, i \in Indicators, v \in Versions : Working(d) => (Due(d, i, v)' <=> Due(d, i, v))
    BY <1>1, <1>10, <1>11 DEF Due
  <2>2. \A d \in deliveries' : HeldAll(d.page)'
    BY <1>1 DEF PagesOK, HeldAll
  <2>3. \A d \in Callers \ {c} :
          /\ call'[d].pc \in {"fetch", "page"} => HeldAll(call[d].sent)'
          /\ call'[d].pc = "page" =>
               \A x \in call'[d].page : collection'[call'[d].source][x[1]][x[2]] # NotAdded
          /\ call'[d].pc = "page" /\ call'[d].more = "no" =>
               \A i \in Indicators, v \in Versions :
                 Due(d, i, v)' => <<i, v>> \in call'[d].page \cup call'[d].sent
          /\ call'[d].pc = "finish" /\ call'[d].outcome = "succeeded" =>
               \A i \in Indicators, v \in Versions : Due(d, i, v)' => v <= indicators'[i]
    BY <1>1, <1>10, <2>1 DEF PagesOK, HeldAll, Working
  <2> QED BY <1>10, <2>2, <2>3 DEF PagesOK
<1>18. AttemptsOK'
  BY <1>10, <1>11 DEF AttemptsOK, Working
<1>19. AttemptsTellTheJob'
  <2> DEFINE A == jobs[j].attempts
  <2>1. k.outcome = "succeeded" => {a.page : a \in {b \in A : b.ok}} = 1..k.pages
    <3> SUFFICES ASSUME Received(A, k.pages) PROVE {a.page : a \in {b \in A : b.ok}} = 1..k.pages
      BY <1>1 DEF AttemptsOK
    <3>1. \A a \in A : a.page \in 1..MaxPages
      BY <1>3 DEF JobType, AttemptType
    <3>2. \A a \in A : a.page \in 1..k.pages
      BY <1>2, <3>1, LimitsAssumption DEF Received
    <3> QED BY <3>2 DEF Received
  <2> SUFFICES ASSUME NEW i \in DOMAIN jobs
               PROVE  /\ \A x \in jobs'[i].attempts :
                           /\ x.number > 1 => \E b \in jobs'[i].attempts : b.page = x.page /\ b.number = x.number - 1 /\ ~b.ok
                           /\ x.page > 1 => \E b \in jobs'[i].attempts : b.page = x.page - 1 /\ b.ok
                           /\ \A b \in jobs'[i].attempts : x.page = b.page /\ x.number = b.number => x = b
                      /\ jobs'[i].status = "succeeded" =>
                           {x.page : x \in {b \in jobs'[i].attempts : b.ok}} = 1..jobs'[i].pages
    BY <1>5 DEF AttemptsTellTheJob
  <2>2. CASE i # j
    BY <1>5, <2>2 DEF AttemptsTellTheJob
  <2>3. CASE i = j
    <3>1. \A x \in A : /\ x.number > 1 => \E b \in A : b.page = x.page /\ b.number = x.number - 1 /\ ~b.ok
                       /\ x.page > 1 => \E b \in A : b.page = x.page - 1 /\ b.ok
                       /\ \A b \in A : x.page = b.page /\ x.number = b.number => x = b
      BY <1>2 DEF AttemptsTellTheJob
    <3> QED BY <1>4, <1>5, <2>1, <2>3, <3>1
  <2> QED BY <2>2, <2>3
<1> QED BY <1>12, <1>13, <1>14, <1>15, <1>16, <1>17, <1>18, <1>19

-----------------------------------------------------------------------------
(* The invariant.                                                          *)

\* The state the synchronization starts in.
LEMMA InitEstablishes == Init => IInv
<1> SUFFICES ASSUME Init PROVE IInv
  OBVIOUS
<1> USE DEF Init
<1>1. /\ jobs = << >> /\ jobs \in Seq(JobType) /\ DOMAIN jobs = {} /\ Running = {}
      /\ \A c \in Callers : call[c] = IdleCall /\ call[c].pc = "idle"
  BY EmptySeq DEF Running, IdleCall
<1>2. TypeOK
  <2>1. 0 \in Times /\ 0 \in Nat
    BY TaxiiBoundsAssumption DEF Times
  <2> QED BY <1>1, <2>1, IdleTyped DEF TypeOK
<1>3. CallsOK /\ AttemptsOK
  BY <1>1 DEF CallsOK, AttemptsOK, Working
<1>4. JobsOK /\ CheckpointsOK /\ AttemptsTellTheJob
  BY <1>1 DEF JobsOK, CheckpointsOK, AttemptsTellTheJob
<1>5. PagesOK
  BY <1>1 DEF PagesOK
<1>6. NothingMissed
  BY DEF NothingMissed
<1> QED BY <1>2, <1>3, <1>4, <1>5, <1>6 DEF IInv

\* A restart stops every call.
LEMMA RestartStep == IInv /\ Restart => IInv'
<1> SUFFICES ASSUME IInv, Restart PROVE IInv'
  OBVIOUS
<1>1. \A d \in Callers : Moves(call[d], call'[d])
  BY DEF Restart, Moves, IdleCall
<1>2. /\ call' \in [Callers -> CallType] /\ toggles' \in Nat /\ crashes' \in Nat
      /\ UNCHANGED <<now, collection, storeVars, dataStore>>
  BY IdleTyped DEF Restart, IInv, TypeOK
<1> QED BY <1>1, <1>2, MovesKeep

\* Every step keeps the invariant.
LEMMA NextKeeps == IInv /\ [Next]_vars => IInv'
<1> SUFFICES ASSUME IInv, [Next]_vars PROVE IInv'
  OBVIOUS
<1>1. ASSUME NEW s \in Sources, NEW i \in Indicators, NEW v \in Versions, AddObject(s, i, v)
      PROVE  IInv'
  BY <1>1, AddObjectStep
<1>2. ASSUME NEW s \in Sources, SetSourceStatus(s) PROVE IInv'
  BY <1>2, SetSourceStatusStep
<1>3. ASSUME NEW s \in Sources, NEW c \in Callers, RequestSync(c, s) PROVE IInv'
  BY <1>3, CallSteps
<1>4. ASSUME NEW c \in Callers, SyncStep(c) PROVE IInv'
  BY <1>4, CallSteps, CreateJobStep, FetchSteps, IngestPageStep, FinishJobStep DEF SyncStep
<1>5. ASSUME NEW c \in Callers, SaveFails(c) \/ FinishFails(c) PROVE IInv'
  BY <1>5, CallSteps
<1>6. CASE UNCHANGED vars
  <2>1. \A d \in Callers : Moves(call[d], call'[d])
    BY <1>6 DEF vars, Moves
  <2>2. /\ call' \in [Callers -> CallType] /\ toggles' \in Nat /\ crashes' \in Nat
        /\ UNCHANGED <<now, collection, storeVars, dataStore>>
    BY <1>6 DEF vars, storeVars, IInv, TypeOK
  <2> QED BY <2>1, <2>2, MovesKeep
<1> QED BY <1>1, <1>2, <1>3, <1>4, <1>5, <1>6, TickStep, RestartStep DEF Next

\* The invariant holds of the synchronization.
LEMMA Inductive == Spec => []IInv
<1> QED BY InitEstablishes, NextKeeps, PTL DEF Spec

\* No restart and no overlap of calls lets two jobs of a
\* source run or a job lose an attempt it has made.
THEOREM JobsAlwaysTell == Spec => []JobsTellTheSync
<1>1. ASSUME IInv PROVE OneRunningJob
  <2> SUFFICES ASSUME NEW s \in Sources PROVE Cardinality(RunningFor(s)) <= 1
    BY DEF OneRunningJob
  <2>1. \A j, k \in RunningFor(s) : j = k
    BY <1>1 DEF IInv, JobsOK, RunningFor
  <2>2. CASE RunningFor(s) = {}
    BY <2>2, FS_EmptySet
  <2>3. CASE RunningFor(s) # {}
    <3>1. PICK j \in RunningFor(s) : RunningFor(s) = {j}
      BY <2>1, <2>3
    <3> QED BY <3>1, FS_Singleton
  <2> QED BY <2>2, <2>3
<1>2. IInv => JobsTellTheSync
  BY <1>1 DEF IInv, JobsTellTheSync
<1> QED BY <1>2, Inductive, PTL

\* Whatever pages the servers send, and whichever calls fail half-way, what was
\* added up to a checkpoint is held.
THEOREM NothingIsMissed == Spec => []NothingMissed
<1>1. IInv => NothingMissed
  BY DEF IInv
<1> QED BY <1>1, Inductive, PTL

-----------------------------------------------------------------------------
(* Progress.                                                               *)

\* The pages left, each with its work.
LEMMA PagesLeft ==
  ASSUME NEW p \in 0..MaxPages
  PROVE  /\ PageWork \in Nat /\ PageWork > MaxAttempts
         /\ (MaxPages - p) * PageWork \in Nat /\ MaxPages * PageWork \in Nat
         /\ p < MaxPages => /\ (MaxPages - p - 1) * PageWork \in Nat
                            /\ (MaxPages - p) * PageWork = (MaxPages - p - 1) * PageWork + PageWork
<1>1. PageWork \in Nat /\ PageWork > MaxAttempts /\ MaxPages \in Nat /\ p \in Nat /\ p <= MaxPages
  BY LimitsAssumption DEF PageWork
<1>2. \A m, n \in Nat : m * n \in Nat
  OBVIOUS
<1>3. \A m, n \in Nat : (m + 1) * n = m * n + n
  OBVIOUS
<1>4. MaxPages - p \in Nat
  BY <1>1
<1>5. p < MaxPages => MaxPages - p - 1 \in Nat /\ MaxPages - p = (MaxPages - p - 1) + 1
  BY <1>1
<1> QED BY <1>1, <1>2, <1>3, <1>4, <1>5

\* What a step of a call makes of it.
Progress(k, l) ==
  \/ l.pc = "idle"
  \/ k.pc = "requested" /\ l.pc = "opened"
  \/ k.pc = "opened" /\ l.pc = "fetch" /\ l.pages = 0 /\ l.attempt = 1
  \/ k.pc = "fetch" /\ l.pc = "page" /\ l.pages = k.pages
  \/ k.pc = "fetch" /\ l.pc = "fetch" /\ l.pages = k.pages /\ l.attempt = k.attempt + 1
  \/ k.pc = "page" /\ l.pc = "fetch" /\ l.pages = k.pages + 1 /\ l.attempt = 1
  \/ k.pc \in {"fetch", "page"} /\ l.pc = "finish"

\* Such a step leaves less to do.
LEMMA LessWork ==
  ASSUME NEW k \in CallType, NEW l \in CallType, k.pc # "idle", Progress(k, l),
         k.pc \in {"fetch", "page"} => k.pages < MaxPages
  PROVE  WorkLeft(l) < WorkLeft(k)
<1>1. /\ k.pc \in {"requested", "opened", "fetch", "page", "finish"}
      /\ k.pages \in 0..MaxPages /\ k.pages \in Nat /\ k.attempt \in Nat /\ k.attempt >= 1
      /\ MaxPages \in Nat /\ MaxAttempts \in Nat /\ k.attempt <= MaxAttempts
  BY LimitsAssumption DEF CallType
<1> DEFINE all == MaxPages * PageWork
           left == (MaxPages - k.pages) * PageWork
           next == (MaxPages - k.pages - 1) * PageWork
<1>2. /\ PageWork \in Nat /\ PageWork > MaxAttempts /\ all \in Nat /\ left \in Nat
      /\ k.pages < MaxPages => next \in Nat /\ left = next + PageWork
  BY <1>1, PagesLeft
<1>3. /\ k.pc = "requested" => WorkLeft(k) = all + 3
      /\ k.pc = "opened" => WorkLeft(k) = all + 2
      /\ k.pc = "fetch" => WorkLeft(k) = left + 2 - k.attempt
      /\ k.pc = "page" => WorkLeft(k) = next + 2
      /\ k.pc = "finish" => WorkLeft(k) = 1
  BY DEF WorkLeft
<1>4. /\ l.pc = "idle" => WorkLeft(l) = 0
      /\ l.pc = "opened" => WorkLeft(l) = all + 2
      /\ l.pc = "page" /\ l.pages = k.pages => WorkLeft(l) = next + 2
      /\ l.pc = "fetch" /\ l.pages = k.pages => WorkLeft(l) = left + 2 - l.attempt
      /\ l.pc = "finish" => WorkLeft(l) = 1
  BY DEF WorkLeft
<1>5. l.pc = "fetch" /\ l.pages = 0 => WorkLeft(l) = all + 2 - l.attempt
  <2>1. MaxPages - 0 = MaxPages
    BY <1>1
  <2> QED BY <2>1 DEF WorkLeft
<1>6. l.pc = "fetch" /\ l.pages = k.pages + 1 => WorkLeft(l) = next + 2 - l.attempt
  <2>1. MaxPages - (k.pages + 1) = MaxPages - k.pages - 1
    BY <1>1
  <2> QED BY <2>1 DEF WorkLeft
<1> HIDE DEF all, left, next
<1>7. WorkLeft(k) \in Nat /\ WorkLeft(k) > 0
  BY <1>1, <1>2, <1>3
<1>8. CASE l.pc = "idle"
  BY <1>4, <1>7, <1>8
<1>9. CASE k.pc \in {"requested", "opened"} /\ l.pc # "idle"
  BY <1>2, <1>3, <1>4, <1>5, <1>9 DEF Progress
<1>10. CASE k.pc = "fetch" /\ l.pc # "idle"
  BY <1>1, <1>2, <1>3, <1>4, <1>10 DEF Progress
<1>11. CASE k.pc = "page" /\ l.pc # "idle"
  BY <1>1, <1>2, <1>3, <1>4, <1>6, <1>11 DEF Progress
<1> QED BY <1>1, <1>8, <1>9, <1>10, <1>11 DEF Progress

\* The steps of a call do no other.
LEMMA StepsProgress ==
  ASSUME TypeOK, NEW c \in Callers, CallsOK,
         SyncStep(c) \/ SaveFails(c) \/ FinishFails(c)
  PROVE  Progress(call[c], call'[c]) /\ \A d \in Callers \ {c} : call'[d] = call[d]
<1>1. call \in [Callers -> CallType] /\ call[c] \in CallType /\ IdleCall.pc = "idle"
  BY DEF TypeOK, IdleCall
<1>2. CASE OpenJob(c)
  BY <1>1, <1>2 DEF OpenJob, Progress, CallType
<1>3. CASE CreateJob(c)
  <2>1. Fresh(call[c])
    BY <1>3 DEF CreateJob, CallsOK
  <2> QED BY <1>1, <1>3, <2>1 DEF CreateJob, Progress, CallType, Fresh
<1>4. CASE RefuseJob(c) \/ FinishJob(c) \/ FinishFails(c)
  <2>1. call' = [call EXCEPT ![c] = IdleCall]
    BY <1>4 DEF RefuseJob, FinishJob, FinishFails
  <2> QED BY <1>1, <2>1 DEF Progress
<1>5. CASE ReceivePage(c)
  <2>1. PICK page, more : call[c].pc = "fetch" /\
          call' = [call EXCEPT ![c] = [@ EXCEPT !.pc = "page", !.page = page, !.more = more]]
    BY <1>5 DEF ReceivePage
  <2> QED BY <1>1, <2>1 DEF Progress, CallType
<1>6. CASE ReceiveInvalidPage(c) \/ FailFetch(c) \/ SaveFails(c)
  <2>1. /\ call[c].pc \in {"fetch", "page"}
        /\ call' = [call EXCEPT ![c] = [@ EXCEPT !.pc = "finish", !.outcome = "failed"]]
    BY <1>6 DEF ReceiveInvalidPage, FailFetch, SaveFails
  <2> QED BY <1>1, <2>1 DEF Progress, CallType
<1>7. CASE RetryFetch(c)
  BY <1>1, <1>7 DEF RetryFetch, Progress, CallType
<1>8. CASE IngestPage(c)
  <2>1. call[c].pc = "page" /\ call' = [call EXCEPT ![c] = AfterPage(call[c])]
    BY <1>8 DEF IngestPage
  <2>2. AfterPage(call[c]).pc = "finish" \/
          (/\ AfterPage(call[c]).pc = "fetch" /\ AfterPage(call[c]).attempt = 1
           /\ AfterPage(call[c]).pages = call[c].pages + 1)
    <3>1. /\ call[c].pages < MaxPages /\ call[c].pages \in Nat /\ MaxPages \in Nat
          /\ call[c].more \in {"no", "next", "again"}
      BY <1>1, <2>1, LimitsAssumption DEF CallType, CallsOK
    <3>2. \/ \E o \in {"succeeded", "failed"} : AfterPage(call[c]) = EndWith(call[c], o)
          \/ AfterPage(call[c]) = FetchNext(call[c])
      BY <3>1 DEF AfterPage
    <3>3. \A o : EndWith(call[c], o).pc = "finish"
      BY <1>1 DEF EndWith, CallType
    <3>4. /\ FetchNext(call[c]).pc = "fetch" /\ FetchNext(call[c]).attempt = 1
          /\ FetchNext(call[c]).pages = call[c].pages + 1
      BY <1>1 DEF FetchNext, CallType
    <3> QED BY <3>2, <3>3, <3>4
  <2> QED BY <1>1, <2>1, <2>2 DEF Progress
<1> QED BY <1>2, <1>3, <1>4, <1>5, <1>6, <1>7, <1>8 DEF SyncStep

\* Every step of a call, whatever the servers answer, leaves it less to do.
THEOREM CallsProgress == Spec => EveryStepIsProgress
<1>1. ASSUME IInv, IInv', [Next]_vars, NEW c \in Callers, call[c].pc # "idle", call'[c] # call[c]
      PROVE  WorkLeft(call'[c]) < WorkLeft(call[c])
  <2>1. /\ call[c] \in CallType /\ call'[c] \in CallType /\ TypeOK /\ CallsOK
        /\ call[c].pc \in {"fetch", "page"} => call[c].pages < MaxPages
    BY <1>1 DEF IInv, TypeOK, CallsOK
  <2>2. ASSUME Progress(call[c], call'[c]) PROVE WorkLeft(call'[c]) < WorkLeft(call[c])
    BY <1>1, <2>1, <2>2, LessWork
  <2>3. ASSUME NEW d \in Callers, SyncStep(d) \/ SaveFails(d) \/ FinishFails(d)
        PROVE  Progress(call[c], call'[c])
    BY <1>1, <2>1, <2>3, StepsProgress
  <2>4. CASE Restart
    BY <2>2, <2>4 DEF Restart, Progress, IdleCall
  <2>5. ~Tick /\ ~UNCHANGED vars
    BY <1>1 DEF Tick, vars
  <2>6. ASSUME NEW s \in Sources
        PROVE  /\ ~SetSourceStatus(s)
               /\ \A i \in Indicators, v \in Versions : ~AddObject(s, i, v)
               /\ \A d \in Callers : ~RequestSync(d, s)
    BY <1>1 DEF SetSourceStatus, AddObject, RequestSync, IInv, TypeOK
  <2> QED BY <1>1, <2>2, <2>3, <2>4, <2>5, <2>6 DEF Next
<1>2. IInv /\ IInv' /\ [Next]_vars =>
        [\A c \in Callers :
           call[c].pc # "idle" /\ call'[c] # call[c] => WorkLeft(call'[c]) < WorkLeft(call[c])]_vars
  BY <1>1
<1> QED BY <1>2, Inductive, PTL DEF Spec, EveryStepIsProgress

-----------------------------------------------------------------------------
(* The mirror.                                                             *)

\* The mirror starts empty.
LEMMA InitRefines == Init => Mirror!MirrorInit
<1> SUFFICES ASSUME Init PROVE Mirror!MirrorInit
  OBVIOUS
<1>1. [s \in Sources |-> source[s].checkpoint] = [s \in Sources |-> NoCheckpoint]
  BY DEF Init
<1> QED BY <1>1 DEF Init, Mirror!MirrorInit, Mirror!NotAdded, Mirror!NoCheckpoint, NotAdded, NoCheckpoint

\* The checkpoints as the mirror sees them.
Checkpoints == [s \in Sources |-> source[s].checkpoint]

\* What leaves the collections, the indicators and the checkpoints alone.
LEMMA MirrorStutters ==
  ASSUME UNCHANGED <<collection, indicators>>,
         \A s \in Sources : source'[s].checkpoint = source[s].checkpoint
  PROVE  UNCHANGED Mirror!mirrorVars
<1>1. [s \in Sources |-> source[s].checkpoint]' = [s \in Sources |-> source[s].checkpoint]
  OBVIOUS
<1> QED BY <1>1 DEF Mirror!mirrorVars

\* What a server adds is published after every checkpoint.
LEMMA AddObjectRefines ==
  ASSUME IInv, NEW s \in Sources, NEW i \in Indicators, NEW v \in Versions, AddObject(s, i, v)
  PROVE  Mirror!MirrorNext
<1>1. /\ collection' = [collection EXCEPT ![s][i][v] = now] /\ collection[s][i][v] = NotAdded
      /\ UNCHANGED <<source, indicators>>
  BY DEF AddObject, storeVars
<1>2. collection'[s][i][v] = now
  BY <1>1 DEF IInv, TypeOK
<1>3. source[s].checkpoint < now
  <2>1. now \in Nat
    BY DEF IInv, TypeOK, Times
  <2> QED BY <2>1 DEF AddObject, IInv, CheckpointsOK, NoCheckpoint
<1>4. Mirror!Publish(s, i, v, collection'[s][i][v])
  BY <1>1, <1>2, <1>3 DEF Mirror!Publish, Mirror!Added, Mirror!NotAdded, NotAdded
<1> QED BY <1>4 DEF Mirror!MirrorNext

\* A page is copied.
LEMMA IngestPageRefines ==
  ASSUME IInv, NEW c \in Callers, IngestPage(c)
  PROVE  Mirror!MirrorNext
<1> DEFINE s == call[c].source
<1>1. /\ call[c].pc = "page" /\ s \in Sources /\ call[c].page \subseteq PageObjects
      /\ UNCHANGED <<collection, source>>
  BY CallFields DEF IngestPage, IInv, CallsOK
<1>2. /\ indicators' \in [Indicators -> Versions \cup {0}]
      /\ \A i \in Indicators :
           /\ indicators[i] <= indicators'[i]
           /\ indicators'[i] = indicators[i] \/ <<i, indicators'[i]>> \in call[c].page
  BY Ingested
<1>3. indicators \in [Indicators -> Nat] /\ indicators' \in [Indicators -> Nat]
  BY <1>2, HeldIsNat DEF IInv, TypeOK
<1>4. \A x \in call[c].page : collection[s][x[1]][x[2]] # NotAdded
  BY <1>1 DEF IInv, PagesOK
<1>5. \A i \in Indicators : indicators'[i] # indicators[i] =>
        indicators'[i] > indicators[i] /\ collection[s][i][indicators'[i]] # NotAdded
  <2> SUFFICES ASSUME NEW i \in Indicators, indicators'[i] # indicators[i]
               PROVE  indicators'[i] > indicators[i] /\ collection[s][i][indicators'[i]] # NotAdded
    OBVIOUS
  <2>1. indicators'[i] > indicators[i]
    <3>1. indicators[i] \in Nat /\ indicators'[i] \in Nat /\ indicators[i] <= indicators'[i]
      BY <1>2, <1>3
    <3> QED BY <3>1
  <2>2. collection[s][<<i, indicators'[i]>>[1]][<<i, indicators'[i]>>[2]] # NotAdded
    BY <1>2, <1>4
  <2> QED BY <2>1, <2>2
<1>6. Mirror!Copy(s)
  BY <1>1, <1>2, <1>5 DEF Mirror!Copy, Mirror!Added, Mirror!NotAdded, NotAdded
<1> QED BY <1>1, <1>6 DEF Mirror!MirrorNext

\* A job that ends leaves the checkpoint of its source or moves it forward, to
\* a time up to which the mirror is complete.
LEMMA FinishJobRefines ==
  ASSUME IInv, IInv', NEW c \in Callers, FinishJob(c)
  PROVE  Mirror!MirrorNext \/ UNCHANGED Mirror!mirrorVars
<1> DEFINE s == call[c].source
           new == NextCheckpoint(s, jobs[call[c].job].startedAt)
<1>1. call[c].pc = "finish" /\ UNCHANGED <<collection, indicators>>
  BY DEF FinishJob
<1>2. /\ s \in Sources /\ new \in Times \cup {NoCheckpoint}
      /\ new = source[s].checkpoint \/ source[s].checkpoint < new
  <2>1. Working(c)
    BY <1>1 DEF Working
  <2> QED BY <2>1, CheckpointMoves
<1>3. CASE call[c].outcome # "succeeded"
  <2>1. source' = source
    BY <1>3 DEF FinishJob
  <2> QED BY <1>1, <2>1, MirrorStutters
<1>4. CASE call[c].outcome = "succeeded"
  <2>1. source' = [source EXCEPT ![s].checkpoint = new]
    BY <1>4 DEF FinishJob
  <2> HIDE DEF new
  <2>2. /\ source'[s].checkpoint = new
        /\ \A r \in Sources : r # s => source'[r].checkpoint = source[r].checkpoint
    BY <1>2, <2>1 DEF IInv, TypeOK
  <2>3. CASE new = source[s].checkpoint
    BY <1>1, <2>2, <2>3, MirrorStutters
  <2>4. CASE source[s].checkpoint < new
    <3>1. Checkpoints' = [Checkpoints EXCEPT ![s] = new]
      BY <1>2, <2>2 DEF Checkpoints
    <3>2. Checkpoints[s] < new /\ Checkpoints'[s] = new
      BY <1>2, <2>2, <2>4 DEF Checkpoints
    <3>3. \A i \in Indicators, v \in Versions :
            collection[s][i][v] # NotAdded /\ collection[s][i][v] <= new => v <= indicators[i]
      BY <1>1, <1>2, <2>2 DEF IInv, NothingMissed
    <3> QED BY <1>1, <1>2, <3>1, <3>2, <3>3
            DEF Mirror!MirrorNext, Mirror!Advance, Mirror!CompleteTo, Mirror!Added,
                Mirror!NotAdded, NotAdded, Checkpoints
  <2> QED BY <1>2, <2>3, <2>4
<1> QED BY <1>3, <1>4

\* Every step is one of the mirror or leaves it alone.
LEMMA StepRefines == IInv /\ IInv' /\ [Next]_vars => [Mirror!MirrorNext]_(Mirror!mirrorVars)
<1> SUFFICES ASSUME IInv, IInv', [Next]_vars
             PROVE  Mirror!MirrorNext \/ UNCHANGED Mirror!mirrorVars
  OBVIOUS
<1>1. ASSUME NEW c \in Callers, SyncStep(c)
      PROVE  Mirror!MirrorNext \/ UNCHANGED Mirror!mirrorVars
  <2>1. CASE IngestPage(c)
    BY <2>1, IngestPageRefines
  <2>2. CASE FinishJob(c)
    BY <2>2, FinishJobRefines
  <2>3. CASE ~IngestPage(c) /\ ~FinishJob(c)
    <3>1. UNCHANGED <<collection, indicators, source>>
      BY <1>1, <2>3, Zenon
         DEF SyncStep, OpenJob, CreateJob, RefuseJob, ReceivePage, ReceiveInvalidPage, RetryFetch,
             FailFetch, storeVars
    <3> QED BY <3>1, MirrorStutters
  <2> QED BY <2>1, <2>2, <2>3
<1>2. ASSUME NEW s \in Sources, SetSourceStatus(s) PROVE UNCHANGED Mirror!mirrorVars
  <2>1. \A r \in Sources : source'[r].checkpoint = source[r].checkpoint
    BY <1>2 DEF SetSourceStatus, IInv, TypeOK
  <2> QED BY <1>2, <2>1, MirrorStutters DEF SetSourceStatus
<1>3. CASE \/ Tick \/ Restart \/ UNCHANGED vars
           \/ \E c \in Callers : SaveFails(c) \/ FinishFails(c) \/ \E s \in Sources : RequestSync(c, s)
  <2>1. UNCHANGED <<collection, indicators, source>>
    BY <1>3, Zenon DEF Tick, Restart, vars, SaveFails, FinishFails, RequestSync, storeVars
  <2> QED BY <2>1, MirrorStutters
<1>4. ASSUME NEW s \in Sources, NEW i \in Indicators, NEW v \in Versions, AddObject(s, i, v)
      PROVE  Mirror!MirrorNext
  BY <1>4, AddObjectRefines
<1> QED BY <1>1, <1>2, <1>3, <1>4 DEF Next

\* The synchronization implements the mirror, for any number of sources, calls
\* and failures and for either store.
THEOREM Refinement == Spec => ImplementsMirror
<1> QED BY InitRefines, StepRefines, Inductive, PTL DEF Spec, ImplementsMirror, Mirror!MirrorSpec
=============================================================================
