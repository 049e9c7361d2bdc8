------------------------ MODULE AuditAnchoring_proofs ------------------------
(***************************************************************************)
(* Proofs about audit anchoring, for any organizations, runners, store and *)
(* bounds: the type invariant, what a confirmed anchor and an included     *)
(* event stand for, the refinement of the audit ledger, and, for distinct  *)
(* timestamps, that the events included are a beginning of the log.        *)
(***************************************************************************)
EXTENDS AuditAnchoring, SequenceTheorems, WellFoundedInduction, TLAPS

-----------------------------------------------------------------------------
(* The inductive invariant.                                                *)

OnChainAfter(c, batch) ==
  \E k \in DOMAIN auditBatches : c < k /\ auditBatches[k] = batch

OnChain == UNION {auditBatches[k] : k \in DOMAIN auditBatches}

\* No event is dated after the clock.
EventTimes == \A e \in EventIds : events[e].at <= now

\* What a call of runAnchorBatch knows at each of its awaits: the id it read
\* is not beyond the chain's end, and once its transaction is mined the batch
\* stands at that id or later.
RunOK(run) ==
  /\ run \in RunState
  /\ run.pc # "idle" => run.org \in Orgs /\ run.batch # {}
  /\ run.pc \in {"counted", "sent"} => run.chainId <= Len(auditBatches)
  /\ run.pc = "sent" =>
        /\ run.nonce \in DOMAIN txs
        /\ txs[run.nonce].root = run.batch
        /\ txs[run.nonce].state = "mined" => OnChainAfter(run.chainId, run.batch)
  /\ run.pc = "settled" /\ run.status = "confirmed" => OnChainAfter(run.chainId, run.batch)

RunInv == \A r \in Runners : RunOK(runner[r])

AnchorOK(a) ==
  /\ a.status = "confirmed" => a.eventIds = a.root /\ OnChainAfter(a.chainId, a.root)
  /\ a.eventIds \subseteq OnChain

AnchorInv == \A i \in AnchorIds : AnchorOK(anchors[i])

IInv == TypeOK /\ EventTimes /\ RunInv /\ AnchorInv

-----------------------------------------------------------------------------
(* The window of a batch: a non-empty batch of past events has a first and *)
(* a last timestamp.                                                       *)

\* A non-empty set of naturals has a least element.
LEMMA NatMinimum ==
  ASSUME NEW T, T \subseteq Nat, T # {}
  PROVE  \E x \in T : \A y \in T : x <= y
<1>1. PICK x \in T : \A y \in T : ~ (<<y, x>> \in OpToRel(<, Nat))
  BY NatLessThanWellFounded, WFMin
<1>2. \A y \in T : ~(y < x)
  BY <1>1, Zenon DEF OpToRel
<1> QED BY <1>2

\* The start and the end that runAnchorBatch takes from a listed batch are times,
\* those of its first and its last event.
LEMMA WindowIsTimes ==
  ASSUME TypeOK, EventTimes, NEW batch, batch \subseteq EventIds, batch # {}
  PROVE  /\ BatchStart(batch) \in Nat /\ BatchEnd(batch) \in Nat
         /\ IsStart(BatchStart(batch), batch) /\ IsEnd(BatchEnd(batch), batch)
<1> DEFINE T == {events[e].at : e \in batch}
           U == {now - t : t \in T}
<1>1. now \in Nat /\ \A e \in batch : events[e].at \in 0..now
  <2>1. \A e \in batch : events[e] \in [org: Orgs, at: Nat]
    BY ElementOfSeq, LenProperties DEF TypeOK, EventIds
  <2> QED BY <2>1 DEF TypeOK, EventTimes, EventIds
<1>2. T \subseteq 0..now /\ T # {}
  BY <1>1
<1>3. U \subseteq Nat /\ U # {}
  BY <1>1, <1>2
<1>4. \E x \in T : \A y \in T : x <= y
  <2>1. T \subseteq Nat /\ T # {}
    BY <1>1, <1>2
  <2> HIDE DEF T
  <2> QED BY <2>1, NatMinimum
<1>5. \E x \in U : \A y \in U : x <= y
  <2> HIDE DEF U
  <2> QED BY <1>3, NatMinimum
<1>6. \E t \in 0..now : IsStart(t, batch)
  <2>1. PICK x \in T : \A y \in T : x <= y
    BY <1>4
  <2>2. PICK e \in batch : x = events[e].at
    BY <2>1
  <2> QED BY <1>1, <2>1, <2>2 DEF IsStart
<1>7. \E t \in 0..now : IsEnd(t, batch)
  <2>1. PICK x \in U : \A y \in U : x <= y
    BY <1>5
  <2>2. PICK e \in batch : x = now - events[e].at
    BY <2>1
  <2>3. \A d \in batch : now - events[d].at \in U
    OBVIOUS
  <2>4. \A d \in batch : now - events[e].at <= now - events[d].at
    BY <2>1, <2>2, <2>3
  <2>5. \A d \in batch : events[d].at <= events[e].at
    BY <1>1, <2>4
  <2> QED BY <1>1, <2>5 DEF IsEnd
<1>8. BatchStart(batch) \in 0..now /\ IsStart(BatchStart(batch), batch)
  BY <1>6, Zenon DEF BatchStart
<1>9. BatchEnd(batch) \in 0..now /\ IsEnd(BatchEnd(batch), batch)
  BY <1>7, Zenon DEF BatchEnd
<1> QED BY <1>1, <1>8, <1>9

-----------------------------------------------------------------------------
(* Preservation, one lemma per kind of step.                               *)

\* The empty stores and the empty chain satisfy the inductive invariant.
LEMMA InitIInv == Init => IInv
<1> SUFFICES ASSUME Init PROVE IInv
  OBVIOUS
<1>1. IdleRun \in RunState
  BY DEF IdleRun, RunState, NoBatchId
<1>2. TypeOK
  BY <1>1, EmptySeq DEF Init, TypeOK
<1>3. EventIds = {} /\ AnchorIds = {}
  BY DEF Init, EventIds, AnchorIds
<1>4. RunInv
  BY <1>1 DEF Init, RunInv, RunOK, IdleRun
<1> QED BY <1>2, <1>3, <1>4 DEF IInv, EventTimes, AnchorInv

\* The clock dates no event later than itself.
LEMMA TickIInv == IInv /\ Tick => IInv'
<1> SUFFICES ASSUME IInv, Tick PROVE IInv'
  OBVIOUS
<1>1. TypeOK'
  BY DEF IInv, Tick, TypeOK, RunState, Anchors, Txs, EventIds
<1>2. EventTimes'
  <2>1. \A e \in EventIds : events[e] \in [org: Orgs, at: Nat]
    BY ElementOfSeq, LenProperties DEF IInv, TypeOK, EventIds
  <2> QED BY <2>1 DEF IInv, TypeOK, Tick, EventTimes, EventIds
<1>3. RunInv' /\ AnchorInv'
  BY DEF IInv, Tick, RunInv, RunOK, RunState, EventIds, AnchorInv, AnchorOK, AnchorIds,
         OnChainAfter, OnChain
<1> QED BY <1>1, <1>2, <1>3 DEF IInv

\* A new audit event adds an id; nothing that named the old ids changes.
LEMMA RecordAuditEventIInv ==
  ASSUME NEW o \in Orgs, IInv, RecordAuditEvent(o)
  PROVE  IInv'
<1> DEFINE event == [org |-> o, at |-> now]
<1>1. /\ events \in Seq([org: Orgs, at: Nat])
      /\ event \in [org: Orgs, at: Nat]
      /\ events' = Append(events, event)
  BY DEF IInv, TypeOK, RecordAuditEvent
<1>2. /\ events' \in Seq([org: Orgs, at: Nat])
      /\ EventIds = 1..Len(events)
      /\ EventIds' = 1..(Len(events) + 1)
      /\ Len(events) \in Nat
      /\ \A e \in EventIds : events'[e] = events[e]
      /\ events'[Len(events) + 1] = event
  BY <1>1, AppendProperties, LenProperties DEF EventIds
<1>3. EventIds \subseteq EventIds'
  BY <1>2
<1>4. TypeOK'
  <2>1. RunState \subseteq RunState' /\ Anchors \subseteq Anchors' /\ Txs \subseteq Txs'
        /\ SUBSET EventIds \subseteq SUBSET EventIds'
    BY <1>3 DEF RunState, Anchors, Txs
  <2>2. /\ Seq(Anchors) \subseteq Seq(Anchors')
        /\ Seq(Txs) \subseteq Seq(Txs')
        /\ Seq(SUBSET EventIds) \subseteq Seq(SUBSET EventIds')
    BY <2>1, SeqMonotonic
  <2> QED BY <1>2, <2>1, <2>2 DEF IInv, TypeOK, RecordAuditEvent
<1>5. EventTimes'
  BY <1>2 DEF IInv, TypeOK, EventTimes, RecordAuditEvent
<1>6. RunInv'
  BY <1>3 DEF IInv, RecordAuditEvent, RunInv, RunOK, RunState, OnChainAfter
<1>7. AnchorInv'
  BY DEF IInv, RecordAuditEvent, AnchorInv, AnchorOK, AnchorIds, OnChainAfter, OnChain
<1> QED BY <1>4, <1>5, <1>6, <1>7 DEF IInv

\* A step that only moves one runner keeps the invariant when that runner's
\* new state is typed and knows no more than it may.
LEMMA RunnerStepIInv ==
  ASSUME NEW r \in Runners, NEW run, IInv, RunOK(run),
         runner' = [runner EXCEPT ![r] = run],
         UNCHANGED <<now, events, anchors, txs, auditBatches, dataStore>>,
         failures' \in Nat
  PROVE  IInv'
<1>1. TypeOK'
  BY DEF IInv, TypeOK, RunOK, RunState, Anchors, Txs, EventIds
<1>2. EventTimes' /\ AnchorInv'
  BY DEF IInv, EventTimes, EventIds, AnchorInv, AnchorOK, AnchorIds, OnChainAfter, OnChain
<1>3. RunInv'
  <2> SUFFICES ASSUME NEW q \in Runners PROVE RunOK(runner[q])'
    BY DEF RunInv
  <2>1. RunOK(runner'[q])
    BY DEF IInv, TypeOK, RunInv
  <2> QED BY <2>1 DEF RunOK, OnChainAfter, RunState, EventIds
<1> QED BY <1>1, <1>2, <1>3 DEF IInv

\* Field by field, what moving a runner does to its state.
LEMMA MovedRun ==
  ASSUME NEW run \in RunState, NEW p, NEW v
  PROVE  /\ [run EXCEPT !.pc = p, !.chainId = v] =
              [pc |-> p, org |-> run.org, batch |-> run.batch, chainId |-> v,
               nonce |-> run.nonce, status |-> run.status]
         /\ [run EXCEPT !.pc = p, !.nonce = v] =
              [pc |-> p, org |-> run.org, batch |-> run.batch, chainId |-> run.chainId,
               nonce |-> v, status |-> run.status]
<1> DEFINE moved == [run EXCEPT !.pc = p]
<1>1. moved = [pc |-> p, org |-> run.org, batch |-> run.batch, chainId |-> run.chainId,
               nonce |-> run.nonce, status |-> run.status]
  BY DEF RunState
<1>2. /\ [run EXCEPT !.pc = p, !.chainId = v] = [moved EXCEPT !.chainId = v]
      /\ [run EXCEPT !.pc = p, !.nonce = v] = [moved EXCEPT !.nonce = v]
  OBVIOUS
<1> HIDE DEF moved
<1> QED BY <1>1, <1>2

\* Settling keeps everything but the place and the outcome of the run.
LEMMA SettledRun ==
  ASSUME NEW run \in RunState, NEW v
  PROVE  [run EXCEPT !.pc = "settled", !.status = v] =
            [pc |-> "settled", org |-> run.org, batch |-> run.batch, chainId |-> run.chainId,
             nonce |-> run.nonce, status |-> v]
<1> DEFINE moved == [run EXCEPT !.pc = "settled"]
<1>1. moved = [pc |-> "settled", org |-> run.org, batch |-> run.batch,
               chainId |-> run.chainId, nonce |-> run.nonce, status |-> run.status]
  BY DEF RunState
<1>2. [run EXCEPT !.pc = "settled", !.status = v] = [moved EXCEPT !.status = v]
  OBVIOUS
<1> HIDE DEF moved
<1> QED BY <1>1, <1>2

\* Listing the events, reading the count, failing and settling only move the
\* calling runner, to a state that knows no more than it may.
LEMMA RunnerStepsIInv ==
  ASSUME NEW r \in Runners, IInv,
         \/ \E o \in Orgs : ListEvents(r, o)
         \/ ReadBatchCount(r)
         \/ RpcFails(r)
         \/ ConfirmationTimesOut(r)
         \/ ObserveRevert(r)
         \/ ObserveReceipt(r)
  PROVE  IInv'
<1>1. /\ RunOK(runner[r]) /\ runner[r] \in RunState
      /\ failures \in Nat /\ Len(auditBatches) \in Nat
  BY LenProperties DEF IInv, RunInv, RunOK, TypeOK
<1>2. ASSUME NEW o \in Orgs, ListEvents(r, o) PROVE IInv'
  <2> DEFINE run == [pc |-> "listed", org |-> o, batch |-> Unanchored(o),
                     chainId |-> NoBatchId, nonce |-> 0, status |-> "failed"]
  <2>1. Unanchored(o) \subseteq EventIds /\ Unanchored(o) # {}
    BY <1>2 DEF Unanchored, ListEvents
  <2>2. RunOK(run)
    BY <2>1 DEF RunOK, RunState, NoBatchId
  <2>3. runner' = [runner EXCEPT ![r] = run]
    BY <1>2, Zenon DEF ListEvents
  <2> QED BY <1>1, <1>2, <2>2, <2>3, RunnerStepIInv DEF ListEvents
<1>3. CASE ReadBatchCount(r)
  <2> DEFINE run == [pc |-> "counted", org |-> runner[r].org, batch |-> runner[r].batch,
                     chainId |-> Len(auditBatches), nonce |-> runner[r].nonce,
                     status |-> runner[r].status]
  <2>1. RunOK(run)
    BY <1>1, <1>3 DEF ReadBatchCount, RunOK, RunState
  <2>2. runner' = [runner EXCEPT ![r] = [runner[r] EXCEPT !.pc = "counted",
                                                          !.chainId = Len(auditBatches)]]
    BY <1>3 DEF ReadBatchCount
  <2>3. runner' = [runner EXCEPT ![r] = run]
    BY <1>1, <2>2, MovedRun, Zenon
  <2> QED BY <1>1, <1>3, <2>1, <2>3, RunnerStepIInv DEF ReadBatchCount
<1>4. ASSUME NEW s \in {"failed", "confirmed"},
             runner' = [runner EXCEPT ![r].pc = "settled", ![r].status = s]
      PROVE  \E run : /\ runner' = [runner EXCEPT ![r] = run]
                      /\ run.pc = "settled" /\ run.status = s /\ run.chainId = runner[r].chainId
                      /\ run.batch = runner[r].batch /\ run.org = runner[r].org
                      /\ run \in RunState
  <2> DEFINE run == [pc |-> "settled", org |-> runner[r].org, batch |-> runner[r].batch,
                     chainId |-> runner[r].chainId, nonce |-> runner[r].nonce, status |-> s]
  <2>1. runner' = [runner EXCEPT ![r] = [runner[r] EXCEPT !.pc = "settled", !.status = s]]
    BY <1>4
  <2>2. [runner[r] EXCEPT !.pc = "settled", !.status = s] = run
    BY <1>1, SettledRun, Zenon
  <2>4. runner' = [runner EXCEPT ![r] = run]
    BY <2>1, <2>2, Zenon
  <2>3. run \in RunState
    BY <1>1 DEF RunState
  <2> WITNESS run
  <2> QED BY <2>3, <2>4
<1>5. CASE RpcFails(r) \/ ConfirmationTimesOut(r) \/ ObserveRevert(r)
  <2>1. runner' = [runner EXCEPT ![r].pc = "settled", ![r].status = "failed"]
    BY <1>5, Zenon DEF RpcFails, ConfirmationTimesOut, ObserveRevert, Fail
  <2>2. PICK run : /\ runner' = [runner EXCEPT ![r] = run]
                   /\ run.pc = "settled" /\ run.status = "failed"
                   /\ run.batch = runner[r].batch /\ run.org = runner[r].org
                   /\ run \in RunState
    BY <1>4, <2>1
  <2>3. RunOK(run)
    BY <1>1, <1>5, <2>2 DEF RpcFails, ConfirmationTimesOut, ObserveRevert, RunOK
  <2>4. failures' \in Nat
    BY <1>1, <1>5 DEF RpcFails, ConfirmationTimesOut, ObserveRevert
  <2> QED BY <1>5, <2>2, <2>3, <2>4, RunnerStepIInv
          DEF RpcFails, ConfirmationTimesOut, ObserveRevert
<1>6. CASE ObserveReceipt(r)
  <2>1. runner' = [runner EXCEPT ![r].pc = "settled", ![r].status = "confirmed"]
    BY <1>6, Zenon DEF ObserveReceipt
  <2>2. PICK run : /\ runner' = [runner EXCEPT ![r] = run]
                   /\ run.pc = "settled" /\ run.status = "confirmed"
                   /\ run.chainId = runner[r].chainId
                   /\ run.batch = runner[r].batch /\ run.org = runner[r].org
                   /\ run \in RunState
    BY <1>4, <2>1
  <2>3. RunOK(run)
    BY <1>1, <1>6, <2>2 DEF ObserveReceipt, RunOK
  <2> QED BY <1>1, <1>6, <2>2, <2>3, RunnerStepIInv DEF ObserveReceipt
<1> QED BY <1>2, <1>3, <1>5, <1>6

\* Submit appends the run's transaction and hands it the nonce; the other
\* runs' transactions keep their places.
LEMMA SubmitIInv ==
  ASSUME NEW r \in Runners, IInv, Submit(r)
  PROVE  IInv'
<1> DEFINE tx == [root |-> runner[r].batch, state |-> "pending"]
           run == [pc |-> "sent", org |-> runner[r].org, batch |-> runner[r].batch,
                   chainId |-> runner[r].chainId, nonce |-> Len(txs) + 1,
                   status |-> runner[r].status]
<1>1. /\ runner \in [Runners -> RunState]
      /\ runner[r] \in RunState
      /\ txs \in Seq(Txs)
      /\ \A q \in Runners : RunOK(runner[q])
  BY DEF IInv, TypeOK, RunInv
<1>2. tx \in Txs
  BY <1>1 DEF RunState, Txs
<1>3. /\ txs' \in Seq(Txs)
      /\ DOMAIN txs = 1..Len(txs)
      /\ DOMAIN txs' = 1..(Len(txs) + 1)
      /\ Len(txs) \in Nat
      /\ \A n \in DOMAIN txs : txs'[n] = txs[n]
      /\ txs'[Len(txs) + 1] = tx
  BY <1>1, <1>2, AppendProperties, LenProperties DEF Submit
<1>4. runner' = [runner EXCEPT ![r] = run] /\ run \in RunState
  <2>1. runner' = [runner EXCEPT ![r] = [runner[r] EXCEPT !.pc = "sent", !.nonce = Len(txs) + 1]]
    BY DEF Submit
  <2>2. runner' = [runner EXCEPT ![r] = run]
    BY <1>1, <2>1, MovedRun, Zenon
  <2> QED BY <1>1, <1>3, <2>2 DEF RunState
<1>5. TypeOK'
  <2>1. runner' \in [Runners -> RunState]
    BY <1>1, <1>4
  <2> QED BY <1>3, <2>1 DEF IInv, TypeOK, Submit, RunState, Anchors, Txs, EventIds
<1>6. EventTimes' /\ AnchorInv'
  BY DEF Submit, IInv, EventTimes, EventIds, AnchorInv, AnchorOK, AnchorIds, OnChainAfter, OnChain
<1>7. RunInv'
  <2> SUFFICES ASSUME NEW q \in Runners PROVE RunOK(runner[q])'
    BY DEF RunInv
  <2>1. CASE q # r
    <3>1. runner'[q] = runner[q] /\ RunOK(runner[q])
      BY <1>1, <1>4, <2>1
    <3>2. auditBatches' = auditBatches /\ events' = events
      BY DEF Submit
    <3> QED BY <1>3, <3>1, <3>2 DEF RunOK, OnChainAfter, RunState, EventIds
  <2>2. CASE q = r
    <3>1. runner'[q] = run
      BY <1>1, <1>4, <2>2
    <3>2. runner[r].pc = "counted"
      BY DEF Submit
    <3>3. run.nonce \in DOMAIN txs' /\ txs'[run.nonce] = tx
      BY <1>3
    <3>4. auditBatches' = auditBatches /\ events' = events
      BY DEF Submit
    <3> QED BY <1>1, <1>4, <3>1, <3>2, <3>3, <3>4 DEF RunOK, OnChainAfter, RunState, EventIds
  <2> QED BY <2>1, <2>2
<1> QED BY <1>5, <1>6, <1>7 DEF IInv

\* A mined batch is appended to the chain: whatever stood at an id or later
\* still does, and the mined run's batch stands at the id it read or later.
LEMMA MineIInv ==
  ASSUME NEW n \in DOMAIN txs, IInv, Mine(n)
  PROVE  IInv'
<1> DEFINE tx == [root |-> txs[n].root, state |-> "mined"]
<1>1. /\ txs \in Seq(Txs) /\ n \in 1..Len(txs) /\ txs[n] \in Txs /\ tx \in Txs
      /\ DOMAIN txs = 1..Len(txs)
      /\ auditBatches \in Seq(SUBSET EventIds) /\ txs[n].root \in SUBSET EventIds
  <2>1. txs \in Seq(Txs) /\ auditBatches \in Seq(SUBSET EventIds)
    BY DEF IInv, TypeOK
  <2>2. n \in 1..Len(txs) /\ DOMAIN txs = 1..Len(txs)
    BY <2>1, LenProperties
  <2>3. txs[n] \in Txs
    BY <2>1, <2>2, ElementOfSeq
  <2> QED BY <2>1, <2>2, <2>3 DEF Txs
<1>2. txs' = [txs EXCEPT ![n] = tx]
  <2>1. [txs[n] EXCEPT !.state = "mined"] = tx
    BY <1>1 DEF Txs
  <2>2. txs' = [txs EXCEPT ![n] = [txs[n] EXCEPT !.state = "mined"]]
    BY DEF Mine
  <2> QED BY <2>1, <2>2, Zenon
<1>3. /\ txs' \in Seq(Txs) /\ DOMAIN txs' = DOMAIN txs
      /\ \A m \in DOMAIN txs : txs'[m] = IF m = n THEN tx ELSE txs[m]
  BY <1>1, <1>2, ExceptSeq
<1>4. auditBatches' = Append(auditBatches, txs[n].root)
  BY DEF Mine
<1>5. /\ auditBatches' \in Seq(SUBSET EventIds)
      /\ DOMAIN auditBatches = 1..Len(auditBatches) /\ Len(auditBatches) \in Nat
      /\ DOMAIN auditBatches' = 1..(Len(auditBatches) + 1)
      /\ Len(auditBatches') = Len(auditBatches) + 1
      /\ \A k \in DOMAIN auditBatches : auditBatches'[k] = auditBatches[k]
      /\ auditBatches'[Len(auditBatches) + 1] = txs[n].root
  BY <1>1, <1>4, AppendProperties, LenProperties
<1>6. UNCHANGED <<now, events, anchors, runner, failures, dataStore>>
  BY DEF Mine
<1>7. TypeOK'
  BY <1>3, <1>5, <1>6 DEF IInv, TypeOK, RunState, Anchors, Txs, EventIds
<1>8. \A c \in Int : \A b : OnChainAfter(c, b) => OnChainAfter(c, b)'
  BY <1>5 DEF OnChainAfter
<1>9. EventTimes' /\ AnchorInv'
  <2>1. OnChain \subseteq OnChain'
    BY <1>5 DEF OnChain
  <2>2. \A i \in AnchorIds : anchors[i] \in Anchors
    BY ElementOfSeq, LenProperties DEF IInv, TypeOK, AnchorIds
  <2> QED BY <1>6, <1>8, <2>1, <2>2
          DEF IInv, EventTimes, EventIds, AnchorInv, AnchorOK, AnchorIds, Anchors
<1>10. RunInv'
  <2> SUFFICES ASSUME NEW q \in Runners PROVE RunOK(runner[q])'
    BY DEF RunInv
  <2> DEFINE run == runner[q]
  <2>1. RunOK(run) /\ run \in RunState
    BY DEF IInv, RunInv, RunOK
  <2>2. CASE run.pc = "sent" /\ run.nonce = n
    <3>1. run.chainId <= Len(auditBatches) /\ run.batch = txs[n].root /\ run.chainId \in Int
      BY <2>1, <2>2 DEF RunOK, RunState
    <3>2. OnChainAfter(run.chainId, run.batch)'
      <4>1. Len(auditBatches) + 1 \in DOMAIN auditBatches'
        BY <1>5
      <4> QED BY <1>5, <1>6, <3>1, <4>1 DEF OnChainAfter
    <3> QED BY <1>3, <1>5, <1>6, <2>1, <2>2, <3>1, <3>2 DEF RunOK, RunState, EventIds
  <2>3. CASE ~(run.pc = "sent" /\ run.nonce = n)
    <3>1. run.chainId \in Int
      BY <2>1 DEF RunState
    <3>2. OnChainAfter(run.chainId, run.batch) => OnChainAfter(run.chainId, run.batch)'
      BY <1>6, <1>8, <3>1
    <3> QED BY <1>3, <1>5, <1>6, <2>1, <2>3, <3>1, <3>2 DEF RunOK, RunState, EventIds
  <2> QED BY <2>2, <2>3
<1> QED BY <1>7, <1>9, <1>10 DEF IInv

\* A reverted transaction puts nothing on the chain.
LEMMA RevertIInv ==
  ASSUME NEW n \in DOMAIN txs, IInv, Revert(n)
  PROVE  IInv'
<1> DEFINE tx == [root |-> txs[n].root, state |-> "reverted"]
<1>1. txs \in Seq(Txs) /\ n \in 1..Len(txs) /\ DOMAIN txs = 1..Len(txs)
  BY LenProperties DEF IInv, TypeOK
<1>2. txs[n] \in Txs /\ tx \in Txs
  <2>1. txs[n] \in Txs
    BY <1>1, ElementOfSeq
  <2> QED BY <2>1 DEF Txs
<1>3. txs' = [txs EXCEPT ![n] = tx]
  <2>1. [txs[n] EXCEPT !.state = "reverted"] = tx
    BY <1>2 DEF Txs
  <2>2. txs' = [txs EXCEPT ![n] = [txs[n] EXCEPT !.state = "reverted"]]
    BY DEF Revert
  <2> QED BY <2>1, <2>2, Zenon
<1>4. /\ txs' \in Seq(Txs) /\ DOMAIN txs' = DOMAIN txs
      /\ \A m \in DOMAIN txs : txs'[m] = IF m = n THEN tx ELSE txs[m]
  BY <1>1, <1>2, <1>3, ExceptSeq
<1>5. UNCHANGED <<now, events, anchors, runner, auditBatches, dataStore>> /\ failures' = failures + 1
  BY DEF Revert
<1>6. TypeOK'
  BY <1>4, <1>5 DEF IInv, TypeOK, RunState, Anchors, Txs, EventIds
<1>7. EventTimes' /\ AnchorInv'
  BY <1>5 DEF IInv, EventTimes, EventIds, AnchorInv, AnchorOK, AnchorIds, OnChainAfter, OnChain
<1>8. RunInv'
  <2> SUFFICES ASSUME NEW q \in Runners PROVE RunOK(runner[q])'
    BY DEF RunInv
  <2>1. RunOK(runner[q])
    BY DEF IInv, RunInv
  <2> QED BY <1>4, <1>5, <2>1 DEF RunOK, OnChainAfter, RunState, EventIds
<1> QED BY <1>6, <1>7, <1>8 DEF IInv

-----------------------------------------------------------------------------
(* Recording the anchor.                                                   *)

\* What a settled run records is an anchor that keeps the invariant.
LEMMA NewAnchorOK ==
  ASSUME NEW r \in Runners, IInv, runner[r].pc = "settled"
  PROVE  NewAnchor(r) \in Anchors /\ AnchorOK(NewAnchor(r))
<1> DEFINE run == runner[r]
<1>1. RunOK(run) /\ run \in RunState /\ run.org \in Orgs /\ run.batch # {}
      /\ run.batch \subseteq EventIds
  BY DEF IInv, RunInv, RunOK, RunState
<1>2. BatchStart(run.batch) \in Nat /\ BatchEnd(run.batch) \in Nat
  BY <1>1, WindowIsTimes DEF IInv
<1>3. Confirmed(r) => OnChainAfter(run.chainId, run.batch) /\ run.batch \subseteq OnChain
  BY <1>1 DEF RunOK, Confirmed, OnChainAfter, OnChain
<1>4. NewAnchor(r) \in Anchors
  BY <1>1, <1>2 DEF NewAnchor, Anchors, RunState, NoBatchId
<1>5. AnchorOK(NewAnchor(r))
  BY <1>3 DEF NewAnchor, AnchorOK, Confirmed
<1> QED BY <1>4, <1>5

\* Object.assign keeps the invariant too: a failed run leaves the old events
\* under a failed anchor, a confirmed one replaces root and events together.
LEMMA MergedOK ==
  ASSUME NEW old \in Anchors, NEW new \in Anchors, AnchorOK(old), AnchorOK(new)
  PROVE  Merged(old, new) \in Anchors /\ AnchorOK(Merged(old, new))
<1>1. CASE new.status = "confirmed"
  BY <1>1 DEF Merged
<1>2. CASE new.status # "confirmed"
  <2> DEFINE rooted == [old EXCEPT !.root = new.root]
             merged == [org |-> old.org, start |-> old.start, end |-> old.end,
                        root |-> new.root, chainId |-> old.chainId,
                        status |-> new.status, eventIds |-> old.eventIds]
  <2>1. rooted = [org |-> old.org, start |-> old.start, end |-> old.end, root |-> new.root,
                  chainId |-> old.chainId, status |-> old.status, eventIds |-> old.eventIds]
    BY DEF Anchors
  <2>2. [old EXCEPT !.root = new.root, !.status = new.status] = [rooted EXCEPT !.status = new.status]
    OBVIOUS
  <2>3. [rooted EXCEPT !.status = new.status] = merged
    <3> HIDE DEF rooted
    <3> QED BY <2>1
  <2>4. Merged(old, new) = merged
    BY <1>2, <2>2, <2>3, Zenon DEF Merged
  <2>5. merged \in Anchors /\ AnchorOK(merged)
    BY <1>2 DEF Anchors, AnchorOK
  <2> HIDE DEF merged
  <2> QED BY <2>4, <2>5
<1> QED BY <1>1, <1>2

\* Appending or replacing one anchor by one that is right keeps them all right.
LEMMA StoredAnchor ==
  ASSUME NEW a \in Anchors, IInv, AnchorOK(a),
         \/ anchors' = Append(anchors, a)
         \/ \E i \in AnchorIds : anchors' = [anchors EXCEPT ![i] = a]
         \/ anchors' = anchors
  PROVE  /\ anchors' \in Seq(Anchors)
         /\ \A i \in DOMAIN anchors' : AnchorOK(anchors'[i])
<1>1. /\ anchors \in Seq(Anchors) /\ AnchorIds = 1..Len(anchors) /\ Len(anchors) \in Nat
      /\ \A i \in AnchorIds : AnchorOK(anchors[i])
  BY LenProperties DEF IInv, TypeOK, AnchorInv, AnchorIds
<1>2. CASE anchors' = Append(anchors, a)
  <2>1. /\ anchors' \in Seq(Anchors)
        /\ DOMAIN anchors' = 1..(Len(anchors) + 1)
        /\ \A i \in 1..Len(anchors) : anchors'[i] = anchors[i]
        /\ anchors'[Len(anchors) + 1] = a
    BY <1>1, <1>2, AppendProperties, LenProperties
  <2> QED BY <1>1, <2>1
<1>3. ASSUME NEW i \in AnchorIds, anchors' = [anchors EXCEPT ![i] = a]
      PROVE  /\ anchors' \in Seq(Anchors)
             /\ \A j \in DOMAIN anchors' : AnchorOK(anchors'[j])
  <2>1. /\ anchors' \in Seq(Anchors)
        /\ DOMAIN anchors' = 1..Len(anchors)
        /\ \A j \in 1..Len(anchors) : anchors'[j] = IF j = i THEN a ELSE anchors[j]
    BY <1>1, <1>3, ExceptSeq, LenProperties
  <2> QED BY <1>1, <2>1
<1>4. CASE anchors' = anchors
  BY <1>1, <1>4 DEF AnchorIds
<1> QED BY <1>2, <1>3, <1>4

\* Every way of recording a run's outcome keeps the invariant.
LEMMA RecordIInv ==
  ASSUME NEW r \in Runners, IInv,
         RecordInMemory(r) \/ RecordFailureInPostgres(r) \/ RecordSuccessInPostgres(r)
  PROVE  IInv'
<1>1. /\ runner[r].pc = "settled"
      /\ runner' = [runner EXCEPT ![r] = IdleRun]
      /\ UNCHANGED <<now, events, txs, auditBatches, failures, dataStore>>
  BY Zenon DEF RecordInMemory, RecordFailureInPostgres, RecordSuccessInPostgres, Finish
<1>2. NewAnchor(r) \in Anchors /\ AnchorOK(NewAnchor(r))
  BY <1>1, NewAnchorOK
<1>3. \A i \in AnchorIds : anchors[i] \in Anchors /\ AnchorOK(anchors[i])
  BY ElementOfSeq, LenProperties DEF IInv, TypeOK, AnchorIds, AnchorInv
<1>4. /\ anchors' \in Seq(Anchors)
      /\ \A i \in DOMAIN anchors' : AnchorOK(anchors'[i])
  <2>1. CASE anchors' = Append(anchors, NewAnchor(r)) \/ anchors' = anchors
    BY <1>2, <2>1, StoredAnchor
  <2>2. CASE \E i \in AnchorIds : anchors' = [anchors EXCEPT ![i] = NewAnchor(r)]
    BY <1>2, <2>2, StoredAnchor
  <2>3. CASE \E i \in AnchorIds : anchors' = [anchors EXCEPT ![i] = Merged(@, NewAnchor(r))]
    <3>1. PICK i \in AnchorIds : anchors' = [anchors EXCEPT ![i] = Merged(anchors[i], NewAnchor(r))]
      BY <2>3
    <3>2. /\ Merged(anchors[i], NewAnchor(r)) \in Anchors
          /\ AnchorOK(Merged(anchors[i], NewAnchor(r)))
      BY <1>2, <1>3, MergedOK
    <3> QED BY <3>1, <3>2, StoredAnchor
  <2> QED BY <2>1, <2>2, <2>3, Zenon
          DEF RecordInMemory, RecordFailureInPostgres, RecordSuccessInPostgres
<1>5. TypeOK'
  <2>1. IdleRun \in RunState
    BY DEF IdleRun, RunState, NoBatchId
  <2> QED BY <1>1, <1>4, <2>1 DEF IInv, TypeOK, RunState, Anchors, Txs, EventIds
<1>6. EventTimes' /\ AnchorInv'
  BY <1>1, <1>4 DEF IInv, EventTimes, EventIds, AnchorInv, AnchorOK, AnchorIds, OnChainAfter, OnChain
<1>7. RunInv'
  <2> SUFFICES ASSUME NEW q \in Runners PROVE RunOK(runner[q])'
    BY DEF RunInv
  <2>1. RunOK(IdleRun)
    BY DEF RunOK, IdleRun, RunState, NoBatchId
  <2>2. RunOK(runner'[q])
    BY <1>1, <2>1 DEF IInv, TypeOK, RunInv
  <2> QED BY <1>1, <2>2 DEF RunOK, OnChainAfter, RunState, EventIds
<1> QED BY <1>5, <1>6, <1>7 DEF IInv

-----------------------------------------------------------------------------
(* Theorems.                                                               *)

\* Every step, and stuttering, keeps the inductive invariant.
LEMMA NextIInv == IInv /\ [Next]_vars => IInv'
<1> SUFFICES ASSUME IInv, [Next]_vars PROVE IInv'
  OBVIOUS
<1>1. CASE Tick
  BY <1>1, TickIInv
<1>2. CASE \E o \in Orgs : RecordAuditEvent(o)
  BY <1>2, RecordAuditEventIInv
<1>3. CASE \E r \in Runners, o \in Orgs : ListEvents(r, o)
  BY <1>3, RunnerStepsIInv
<1>4. ASSUME NEW r \in Runners, RunStep(r) PROVE IInv'
  BY <1>4, RunnerStepsIInv, SubmitIInv, RecordIInv DEF RunStep
<1>5. CASE ChainStep
  BY <1>5, MineIInv, RevertIInv DEF ChainStep
<1>6. CASE UNCHANGED vars
  BY <1>6 DEF vars, IInv, TypeOK, RunState, Anchors, Txs, EventTimes, EventIds, RunInv, RunOK,
              OnChainAfter, AnchorInv, AnchorOK, AnchorIds, OnChain
<1> QED BY <1>1, <1>2, <1>3, <1>4, <1>5, <1>6 DEF Next

\* What holds of every reachable state, for any number of organizations and of
\* overlapping runs, either store and any bounds.
THEOREM Invariant == Spec => []IInv
<1> QED BY InitIInv, NextIInv, PTL DEF Spec

\* Every variable keeps its type: in particular a batch, a transaction and an
\* anchor name only events that exist.
THEOREM TypeCorrect == Spec => []TypeOK
<1>1. IInv => TypeOK
  BY DEF IInv
<1> QED BY Invariant, <1>1, PTL

\* The events verifyAuditBatch is handed for a confirmed anchor are those its
\* root was built from, whatever runs overwrote the anchor of the window.
THEOREM RootRecomputes == Spec => []ConfirmedRootRecomputes
<1>1. IInv => ConfirmedRootRecomputes
  BY DEF IInv, AnchorInv, AnchorOK, ConfirmedRootRecomputes, BatchEvents
<1> QED BY Invariant, <1>1, PTL

\* The batch of a confirmed anchor is on the chain at the id it remembers or
\* later, however the runs that read the count interleaved.
THEOREM BatchAtOrAfterId == Spec => []ConfirmedBatchAtOrAfterId
<1>1. IInv => ConfirmedBatchAtOrAfterId
  BY DEF IInv, AnchorInv, AnchorOK, OnChainAfter, ConfirmedBatchAtOrAfterId
<1> QED BY Invariant, <1>1, PTL

\* An event is off the unanchored list only if the chain has it.
LEMMA IncludedOnChain == IInv => IncludedEvents \subseteq OnChain
  BY DEF IInv, AnchorInv, AnchorOK, IncludedEvents

\* Failed, timed-out and reverted runs never take an event off the list of
\* unanchored events without a batch on the chain that contains it.
THEOREM IncludedAreOnChain == Spec => []IncludedEventsAreOnChain
<1>1. IInv => IncludedEventsAreOnChain
  BY IncludedOnChain DEF OnChain, IncludedEventsAreOnChain
<1> QED BY Invariant, <1>1, PTL

\* The three together: what the store says of confirmed anchors and of included
\* events is true of the chain.
THEOREM Truthful == Spec => []AnchorsAreTruthful
<1>1. ConfirmedRootRecomputes /\ ConfirmedBatchAtOrAfterId /\ IncludedEventsAreOnChain => AnchorsAreTruthful
  BY DEF AnchorsAreTruthful
<1> QED BY RootRecomputes, BatchAtOrAfterId, IncludedAreOnChain, <1>1, PTL

-----------------------------------------------------------------------------
(* Refinement.                                                             *)

\* Every step of the runs, the stores and the chain is a step of the ledger
\* or leaves it alone.
LEMMA StepRefines == IInv /\ IInv' /\ [Next]_vars => [Ledger!LedgerNext]_(Ledger!ledgerVars)
<1> SUFFICES ASSUME IInv, IInv', [Next]_vars
             PROVE  [Ledger!LedgerNext]_(Ledger!ledgerVars)
  OBVIOUS
<1> USE DEF Ledger!LedgerNext, Ledger!ledgerVars
<1>1. CASE \E o \in Orgs : RecordAuditEvent(o)
  <2>1. PICK o \in Orgs : RecordAuditEvent(o)
    BY <1>1
  <2>2. /\ events \in Seq([org: Orgs, at: Nat])
        /\ [org |-> o, at |-> now] \in [org: Orgs, at: Nat]
    BY DEF IInv, TypeOK
  <2>3. Len(events') = Len(events) + 1
    BY <2>1, <2>2, AppendProperties DEF RecordAuditEvent
  <2>4. UNCHANGED <<auditBatches, anchors>>
    BY <2>1 DEF RecordAuditEvent
  <2> QED BY <2>3, <2>4 DEF Ledger!RecordEvent, IncludedEvents, AnchorIds
<1>2. ASSUME NEW n \in DOMAIN txs, Mine(n) PROVE Ledger!Publish
  <2>1. /\ txs \in Seq(Txs) /\ auditBatches \in Seq(SUBSET EventIds)
        /\ EventIds = 1..Len(events)
    BY LenProperties DEF IInv, TypeOK, EventIds
  <2>2. txs[n].root \in SUBSET EventIds
    <3>1. n \in 1..Len(txs)
      BY <2>1, LenProperties
    <3>2. txs[n] \in Txs
      BY <2>1, <3>1, ElementOfSeq
    <3> QED BY <3>2 DEF Txs
  <2>3. auditBatches' = Append(auditBatches, txs[n].root)
    BY <1>2 DEF Mine
  <2>4. /\ Len(auditBatches) \in Nat /\ DOMAIN auditBatches = 1..Len(auditBatches)
        /\ DOMAIN auditBatches' = 1..(Len(auditBatches) + 1)
        /\ \A k \in 1..Len(auditBatches) : auditBatches'[k] = auditBatches[k]
        /\ auditBatches'[Len(auditBatches) + 1] = txs[n].root
    BY <2>1, <2>2, <2>3, AppendProperties, LenProperties
  <2>5. OnChain' = OnChain \union txs[n].root
    <3>1. OnChain' \subseteq OnChain \union txs[n].root
      BY <2>4 DEF OnChain
    <3>2. OnChain \subseteq OnChain'
      BY <2>4 DEF OnChain
    <3>3. Len(auditBatches) + 1 \in DOMAIN auditBatches'
      BY <2>4
    <3>4. txs[n].root \subseteq OnChain'
      BY <2>4, <3>3 DEF OnChain
    <3> QED BY <3>1, <3>2, <3>4
  <2>6. UNCHANGED <<Len(events), IncludedEvents>>
    BY <1>2 DEF Mine, IncludedEvents, AnchorIds
  <2> QED BY <2>1, <2>2, <2>5, <2>6 DEF Ledger!Publish, OnChain
<1>3. ASSUME NEW r \in Runners,
             RecordInMemory(r) \/ RecordFailureInPostgres(r) \/ RecordSuccessInPostgres(r)
      PROVE  Ledger!Anchor
  <2>1. UNCHANGED <<events, auditBatches>>
    BY <1>3, Zenon DEF RecordInMemory, RecordFailureInPostgres, RecordSuccessInPostgres
  <2>2. IncludedEvents' \subseteq OnChain'
    BY IncludedOnChain DEF IncludedEvents, AnchorIds, OnChain, IInv, AnchorInv, AnchorOK
  <2>3. IncludedEvents' \subseteq OnChain
    BY <2>1, <2>2 DEF OnChain
  <2> QED BY <2>1, <2>3 DEF Ledger!Anchor, OnChain
<1>4. ASSUME UNCHANGED <<events, anchors, auditBatches>>
      PROVE  UNCHANGED Ledger!ledgerVars
  BY <1>4 DEF IncludedEvents, AnchorIds
<1>5. ASSUME NEW r \in Runners, RunStep(r)
      PROVE  [Ledger!LedgerNext]_(Ledger!ledgerVars)
  BY <1>3, <1>4, <1>5, Zenon
     DEF RunStep, ReadBatchCount, Submit, RpcFails, ConfirmationTimesOut, ObserveRevert,
         ObserveReceipt
<1>6. ASSUME NEW n \in DOMAIN txs, Revert(n) PROVE UNCHANGED Ledger!ledgerVars
  BY <1>4, <1>6, Zenon DEF Revert
<1>7. CASE ChainStep
  BY <1>2, <1>6, <1>7 DEF ChainStep
<1>8. CASE Tick
  BY <1>4, <1>8, Zenon DEF Tick
<1>9. ASSUME NEW r \in Runners, NEW o \in Orgs, ListEvents(r, o)
      PROVE  UNCHANGED Ledger!ledgerVars
  BY <1>4, <1>9, Zenon DEF ListEvents
<1>10. CASE UNCHANGED vars
  BY <1>4, <1>10, Zenon DEF vars
<1> QED BY <1>1, <1>5, <1>7, <1>8, <1>9, <1>10 DEF Next

\* An event counts as anchored only after a batch that contains it was
\* published, and a published batch stays: the implementation refines the
\* audit ledger.
THEOREM Refinement == Spec => ImplementsLedger
<1>1. Init => Ledger!LedgerInit
  <2> SUFFICES ASSUME Init PROVE Ledger!LedgerInit
    OBVIOUS
  <2>1. Len(events) = 0
    BY EmptySeq DEF Init
  <2>2. DOMAIN auditBatches = {} /\ DOMAIN anchors = {}
    BY DEF Init
  <2> QED BY <2>1, <2>2 DEF Ledger!LedgerInit, IncludedEvents, AnchorIds
<1> QED BY <1>1, Invariant, StepRefines, PTL DEF Spec, ImplementsLedger, Ledger!LedgerSpec

-----------------------------------------------------------------------------
(* What is included is included in order.                                  *)

\* The events a set of events of o spans are in the set.
Contiguous(S, o) ==
  /\ \A e \in S : events[e].org = o
  /\ \A e, f \in S, d \in EventIds : events[d].org = o /\ e < d /\ d < f => d \in S

\* What comes before an event of a listed batch is in the batch, or is included
\* and comes before the whole batch.
Uninterrupted(batch, o) ==
  /\ \A e \in batch : events[e].org = o
  /\ \A e \in batch, d \in EventIds :
       events[d].org = o /\ d < e /\ d \notin batch => d \in IncludedEvents /\ \A f \in batch : d < f

\* Whatever comes before an included event of its organization is included, and
\* the batches of the runs and of the anchors are stretches of the log.
StretchesOK ==
  /\ \A e \in IncludedEvents, d \in EventIds :
       events[d].org = events[e].org /\ d < e => d \in IncludedEvents
  /\ \A r \in Runners : runner[r].pc # "idle" => Uninterrupted(runner[r].batch, runner[r].org)
  /\ \A i \in AnchorIds : Contiguous(anchors[i].eventIds, anchors[i].org)

TimesInOrder == \A d, e \in EventIds : d <= e => events[d].at <= events[e].at

\* An anchor that includes events has their window; in PostgreSQL none does.
WindowOK(a) ==
  /\ a.eventIds # {} => IsStart(a.start, a.eventIds) /\ IsEnd(a.end, a.eventIds)
  /\ a.status = "confirmed" => a.eventIds # {}
  /\ dataStore = "postgres" => a.eventIds = {}

OrderInv ==
  /\ TimesInOrder
  /\ \A i \in AnchorIds : WindowOK(anchors[i])
  /\ DistinctTimestamps => StretchesOK

\* The times of the events of the log, and what an event of it is.
LEMMA Log ==
  ASSUME IInv
  PROVE  /\ Len(events) \in Nat /\ EventIds = 1 .. Len(events) /\ now \in Nat
         /\ \A e \in EventIds : events[e] \in [org: Orgs, at: Nat] /\ events[e].at \in 0 .. now
<1>1. events \in Seq([org: Orgs, at: Nat]) /\ now \in Nat
  BY DEF IInv, TypeOK
<1>2. Len(events) \in Nat /\ EventIds = 1 .. Len(events)
  BY <1>1, LenProperties DEF EventIds
<1>3. \A e \in EventIds : events[e] \in [org: Orgs, at: Nat]
  BY <1>1, <1>2, ElementOfSeq
<1> QED BY <1>1, <1>2, <1>3 DEF IInv, EventTimes

\* Two stretches of the log of one organization that start at one time and end
\* at one time are one.
LEMMA SameWindowSameEvents ==
  ASSUME IInv, TimesInOrder, DistinctTimestamps, NEW o, NEW s, NEW t,
         NEW A \in SUBSET EventIds, Contiguous(A, o), IsStart(s, A), IsEnd(t, A),
         NEW B \in SUBSET EventIds, Contiguous(B, o), IsStart(s, B), IsEnd(t, B)
  PROVE  A \subseteq B
<1>1. PICK a \in A \cap B : events[a].at = s
  <2>1. PICK a \in A : events[a].at = s
    BY DEF IsStart
  <2>2. PICK b \in B : events[b].at = s
    BY DEF IsStart
  <2>3. a = b
    BY <2>1, <2>2 DEF DistinctTimestamps, Contiguous
  <2> QED BY <2>1, <2>2, <2>3
<1>2. PICK z \in A \cap B : events[z].at = t
  <2>1. PICK c \in A : events[c].at = t
    BY DEF IsEnd
  <2>2. PICK b \in B : events[b].at = t
    BY DEF IsEnd
  <2>3. c = b
    BY <2>1, <2>2 DEF DistinctTimestamps, Contiguous
  <2> QED BY <2>1, <2>2, <2>3
<1>3. \A e \in EventIds : e \in Int /\ events[e].at \in Int
  BY Log
<1> SUFFICES ASSUME NEW e \in A PROVE e \in B
  OBVIOUS
<1>4. s <= events[e].at /\ events[e].at <= t
  BY DEF IsStart, IsEnd
<1>5. events[e].org = o /\ events[a].org = o /\ events[z].org = o
  BY DEF Contiguous
<1>6. a = e \/ a < e
  <2> SUFFICES ASSUME e < a PROVE a = e
    BY <1>3
  <2>1. events[e].at <= events[a].at
    BY <1>3 DEF TimesInOrder
  <2>2. events[e].at = events[a].at
    BY <1>1, <1>3, <1>4, <2>1
  <2> QED BY <1>5, <2>2 DEF DistinctTimestamps
<1>7. z = e \/ e < z
  <2> SUFFICES ASSUME z < e PROVE z = e
    BY <1>3
  <2>1. events[z].at <= events[e].at
    BY <1>3 DEF TimesInOrder
  <2>2. events[e].at = events[z].at
    BY <1>2, <1>3, <1>4, <2>1
  <2> QED BY <1>5, <2>2 DEF DistinctTimestamps
<1> QED BY <1>5, <1>6, <1>7 DEF Contiguous

\* An uninterrupted batch is a stretch of the log.
LEMMA BatchContiguous ==
  ASSUME IInv, NEW o, NEW batch \in SUBSET EventIds, Uninterrupted(batch, o)
  PROVE  Contiguous(batch, o)
<1>1. \A d, e \in EventIds : ~(d < e /\ e < d)
  BY Log
<1> QED BY <1>1 DEF Contiguous, Uninterrupted

\* A listed batch is uninterrupted.
LEMMA ListedUninterrupted ==
  ASSUME IInv, StretchesOK, NEW o \in Orgs
  PROVE  Uninterrupted(Unanchored(o), o)
<1>1. \A d, e \in EventIds : d = e \/ d < e \/ e < d
  BY Log
<1>2. ASSUME NEW e \in Unanchored(o), NEW d \in EventIds, events[d].org = o, d \notin Unanchored(o), NEW f \in Unanchored(o)
      PROVE  d < f
  <2>1. d \in IncludedEvents
    BY <1>2 DEF Unanchored
  <2>2. f \in EventIds /\ events[f].org = o /\ f \notin IncludedEvents
    BY DEF Unanchored
  <2>3. ~(f < d)
    BY <1>2, <2>1, <2>2 DEF StretchesOK
  <2> QED BY <1>1, <2>1, <2>2, <2>3
<1> QED BY <1>2 DEF Uninterrupted, Unanchored

\* The events of anchors and batches are events.
LEMMA NamedEvents ==
  ASSUME IInv
  PROVE  /\ \A r \in Runners : runner[r].batch \in SUBSET EventIds
         /\ \A i \in AnchorIds : anchors[i] \in Anchors /\ anchors[i].eventIds \in SUBSET EventIds
         /\ IncludedEvents \subseteq EventIds
<1>1. \A r \in Runners : runner[r] \in RunState
  BY DEF IInv, TypeOK
<1>2. anchors \in Seq(Anchors)
  BY DEF IInv, TypeOK
<1>3. \A i \in AnchorIds : anchors[i] \in Anchors
  BY <1>2, ElementOfSeq, LenProperties DEF AnchorIds
<1> QED BY <1>1, <1>3 DEF RunState, Anchors, IncludedEvents

\* A step that records no event and no anchor keeps the order if every batch it
\* leaves a runner with is an old one or uninterrupted.
LEMMA OrderApart ==
  ASSUME OrderInv, UNCHANGED <<events, anchors, dataStore>>,
         \A r \in Runners : \/ runner'[r].pc = "idle"
                            \/ /\ runner[r].pc # "idle"
                               /\ runner'[r].batch = runner[r].batch /\ runner'[r].org = runner[r].org
                            \/ StretchesOK => Uninterrupted(runner'[r].batch, runner'[r].org)
  PROVE  OrderInv'
<1>1. EventIds' = EventIds /\ AnchorIds' = AnchorIds /\ IncludedEvents' = IncludedEvents
  BY DEF EventIds, AnchorIds, IncludedEvents
<1>2. TimesInOrder' /\ (DistinctTimestamps' => DistinctTimestamps)
  BY <1>1 DEF OrderInv, TimesInOrder, DistinctTimestamps
<1>3. \A i \in AnchorIds' : WindowOK(anchors[i])'
  BY <1>1 DEF OrderInv, WindowOK, IsStart, IsEnd
<1>4. ASSUME StretchesOK PROVE StretchesOK'
  <2>1. \A r \in Runners : runner'[r].pc # "idle" => Uninterrupted(runner'[r].batch, runner'[r].org)
    BY <1>4 DEF StretchesOK
  <2>2. ASSUME NEW r \in Runners, runner'[r].pc # "idle" PROVE Uninterrupted(runner[r].batch, runner[r].org)'
    BY <1>1, <2>1, <2>2 DEF Uninterrupted
  <2>3. \A i \in AnchorIds' : Contiguous(anchors[i].eventIds, anchors[i].org)'
    BY <1>1, <1>4 DEF StretchesOK, Contiguous
  <2>4. (\A e \in IncludedEvents, d \in EventIds :
           events[d].org = events[e].org /\ d < e => d \in IncludedEvents)'
    BY <1>1, <1>4 DEF StretchesOK
  <2> QED BY <2>2, <2>3, <2>4 DEF StretchesOK
<1> QED BY <1>2, <1>3, <1>4 DEF OrderInv

\* A new event is the last of the log and is included in nothing.
LEMMA RecordAuditEventOrder ==
  ASSUME IInv, OrderInv, NEW o \in Orgs, RecordAuditEvent(o)
  PROVE  OrderInv' /\ IncludedEvents' = IncludedEvents /\ (DistinctTimestamps' => DistinctTimestamps)
<1> DEFINE n == Len(events) + 1
<1>1. /\ events \in Seq([org: Orgs, at: Nat])
      /\ [org |-> o, at |-> now] \in [org: Orgs, at: Nat]
      /\ events' = Append(events, [org |-> o, at |-> now])
      /\ UNCHANGED <<anchors, runner, dataStore>>
  BY DEF IInv, TypeOK, RecordAuditEvent
<1>2. /\ EventIds' = 1 .. n /\ n \in Nat /\ EventIds = 1 .. (n - 1)
      /\ \A e \in EventIds : events'[e] = events[e]
      /\ events'[n] = [org |-> o, at |-> now]
  BY <1>1, AppendProperties, LenProperties DEF EventIds
<1>3. /\ EventIds \subseteq EventIds' /\ n \notin EventIds
      /\ \A d \in EventIds' : d \in EventIds \/ d = n
      /\ \A e \in EventIds : ~(n < e) /\ ~(n <= e)
  BY <1>2
<1> HIDE DEF n
<1>4. IncludedEvents' = IncludedEvents /\ AnchorIds' = AnchorIds
  BY <1>1 DEF IncludedEvents, AnchorIds
<1>5. DistinctTimestamps' => DistinctTimestamps
  BY <1>2, <1>3 DEF DistinctTimestamps
<1>6. TimesInOrder'
  <2>1. \A e \in EventIds : events[e].at <= now
    BY DEF IInv, EventTimes
  <2>2. n <= n /\ now <= now
    BY <1>2, Log
  <2> QED BY <1>2, <1>3, <2>1, <2>2 DEF OrderInv, TimesInOrder
<1>7. \A i \in AnchorIds' : WindowOK(anchors[i])'
  BY <1>1, <1>2, <1>4, NamedEvents DEF OrderInv, WindowOK, IsStart, IsEnd
<1>8. ASSUME StretchesOK PROVE StretchesOK'
  <2>1. ASSUME NEW r \in Runners, runner[r].pc # "idle" PROVE Uninterrupted(runner[r].batch, runner[r].org)'
    <3>1. Uninterrupted(runner[r].batch, runner[r].org) /\ runner[r].batch \in SUBSET EventIds
      BY <1>8, <2>1, NamedEvents DEF StretchesOK
    <3>2. PICK B \in SUBSET EventIds : B = runner[r].batch
      BY <3>1
    <3>3. PICK p : p = runner[r].org
      OBVIOUS
    <3>4. Uninterrupted(B, p)
      BY <3>1, <3>2, <3>3
    <3>5. /\ \A e \in B : e \in EventIds /\ events'[e] = events[e]
          /\ \A e \in B, d \in EventIds' : d < e => d \in EventIds /\ events'[d] = events[d]
      BY <1>2, <1>3
    <3>6. Uninterrupted(B, p)'
      BY <1>4, <3>4, <3>5 DEF Uninterrupted
    <3>7. runner'[r].batch = B /\ runner'[r].org = p
      BY <1>1, <3>2, <3>3
    <3> QED BY <3>6, <3>7
  <2>2. ASSUME NEW i \in AnchorIds PROVE Contiguous(anchors[i].eventIds, anchors[i].org)'
    <3>1. Contiguous(anchors[i].eventIds, anchors[i].org) /\ anchors[i].eventIds \in SUBSET EventIds
      BY <1>8, NamedEvents DEF StretchesOK
    <3>2. PICK B \in SUBSET EventIds : B = anchors[i].eventIds
      BY <3>1
    <3>3. PICK p : p = anchors[i].org
      OBVIOUS
    <3>4. Contiguous(B, p)
      BY <3>1, <3>2, <3>3
    <3>5. /\ \A e \in B : e \in EventIds /\ events'[e] = events[e]
          /\ \A e \in B, d \in EventIds' : d < e => d \in EventIds /\ events'[d] = events[d]
      BY <1>2, <1>3
    <3>6. Contiguous(B, p)'
      BY <3>4, <3>5 DEF Contiguous
    <3>7. anchors'[i].eventIds = B /\ anchors'[i].org = p
      BY <1>1, <3>2, <3>3
    <3> QED BY <3>6, <3>7
  <2>3. (\A e \in IncludedEvents, d \in EventIds :
           events[d].org = events[e].org /\ d < e => d \in IncludedEvents)'
    <3>1. \A e \in IncludedEvents, d \in EventIds : events[d].org = events[e].org /\ d < e => d \in IncludedEvents
      BY <1>8 DEF StretchesOK
    <3> QED BY <1>2, <1>3, <1>4, <3>1, NamedEvents
  <2> QED BY <1>1, <1>4, <2>1, <2>2, <2>3 DEF StretchesOK
<1> QED BY <1>4, <1>5, <1>6, <1>7, <1>8 DEF OrderInv

\* What a settled run records of its batch: the batch, if it was confirmed, and
\* its window.
LEMMA NewAnchorWindow ==
  ASSUME IInv, NEW r \in Runners, runner[r].pc = "settled"
  PROVE  LET a == NewAnchor(r) batch == runner[r].batch IN
         /\ batch \in SUBSET EventIds /\ batch # {} /\ a.org = runner[r].org
         /\ IsStart(a.start, batch) /\ IsEnd(a.end, batch)
         /\ a.status = runner[r].status /\ a.status \in {"failed", "confirmed"}
         /\ a.eventIds = IF a.status = "confirmed" THEN batch ELSE {}
<1>1. runner[r] \in RunState /\ runner[r].batch # {} /\ runner[r].batch \subseteq EventIds
  BY DEF IInv, RunInv, RunOK, RunState
<1>2. IsStart(BatchStart(runner[r].batch), runner[r].batch) /\ IsEnd(BatchEnd(runner[r].batch), runner[r].batch)
  BY <1>1, WindowIsTimes DEF IInv
<1> QED BY <1>1, <1>2 DEF NewAnchor, Confirmed, RunState

\* An anchor takes its place or is added to the others: either way the events
\* included are those of the others and its own.
LEMMA StoredEvents ==
  ASSUME IInv, NEW a \in Anchors,
         \/ anchors' = Append(anchors, a)
         \/ \E i \in AnchorIds : anchors' = [anchors EXCEPT ![i] = a] /\ anchors[i].eventIds \subseteq a.eventIds
  PROVE  /\ \A i \in DOMAIN anchors' : anchors'[i] = a \/ (i \in AnchorIds /\ anchors'[i] = anchors[i])
         /\ IncludedEvents' = IncludedEvents \cup a.eventIds
<1>1. anchors \in Seq(Anchors) /\ AnchorIds = 1 .. Len(anchors) /\ Len(anchors) \in Nat
  BY LenProperties DEF IInv, TypeOK, AnchorIds
<1>2. CASE anchors' = Append(anchors, a)
  <2>1. /\ DOMAIN anchors' = 1 .. (Len(anchors) + 1)
        /\ \A i \in 1 .. Len(anchors) : anchors'[i] = anchors[i]
        /\ anchors'[Len(anchors) + 1] = a
    BY <1>1, <1>2, AppendProperties, LenProperties
  <2>2. PICK n \in DOMAIN anchors' : n = Len(anchors) + 1
    BY <1>1, <2>1
  <2>3. /\ \A i \in AnchorIds : i \in DOMAIN anchors' /\ anchors'[i] = anchors[i]
        /\ \A i \in DOMAIN anchors' : i = n \/ i \in AnchorIds
        /\ anchors'[n] = a
    BY <1>1, <2>1, <2>2
  <2> QED BY <2>3 DEF IncludedEvents, AnchorIds
<1>3. ASSUME NEW i \in AnchorIds, anchors' = [anchors EXCEPT ![i] = a], anchors[i].eventIds \subseteq a.eventIds
      PROVE  /\ \A j \in DOMAIN anchors' : anchors'[j] = a \/ (j \in AnchorIds /\ anchors'[j] = anchors[j])
             /\ IncludedEvents' = IncludedEvents \cup a.eventIds
  <2>1. /\ DOMAIN anchors' = AnchorIds
        /\ \A j \in AnchorIds : anchors'[j] = IF j = i THEN a ELSE anchors[j]
    BY <1>3 DEF AnchorIds
  <2> QED BY <1>3, <2>1 DEF IncludedEvents, AnchorIds
<1> QED BY <1>2, <1>3

\* An anchor of no events, of those of the run or of those of an anchor there
\* is keeps the order, if what it replaces has no other events.
LEMMA StoredOrder ==
  ASSUME IInv, OrderInv, NEW r \in Runners, runner[r].pc = "settled",
         runner' = [runner EXCEPT ![r] = IdleRun], UNCHANGED <<events, dataStore>>,
         NEW a \in Anchors, WindowOK(a), a.org = runner[r].org,
         \/ a.eventIds \in {{}, runner[r].batch}
         \/ \E i \in AnchorIds : a.eventIds = anchors[i].eventIds /\ a.org = anchors[i].org,
         \/ anchors' = Append(anchors, a)
         \/ \E i \in AnchorIds : /\ anchors' = [anchors EXCEPT ![i] = a]
                                 /\ DistinctTimestamps => anchors[i].eventIds \subseteq a.eventIds
  PROVE  OrderInv' /\ (DistinctTimestamps => IncludedEvents \subseteq IncludedEvents')
<1> DEFINE batch == runner[r].batch
           o == runner[r].org
<1>1. \A i \in DOMAIN anchors' : anchors'[i] = a \/ (i \in AnchorIds /\ anchors'[i] = anchors[i])
  <2>1. anchors \in Seq(Anchors)
    BY DEF IInv, TypeOK
  <2> QED BY <2>1, AppendProperties, LenProperties DEF AnchorIds
<1>2. DistinctTimestamps => IncludedEvents' = IncludedEvents \cup a.eventIds
  BY StoredEvents
<1>3. EventIds' = EventIds
  BY DEF EventIds
<1>4. TimesInOrder' /\ (DistinctTimestamps' => DistinctTimestamps)
  BY <1>3 DEF OrderInv, TimesInOrder, DistinctTimestamps
<1>5. ASSUME NEW i \in AnchorIds' PROVE WindowOK(anchors[i])'
  <2>1. PICK b : b = anchors'[i]
    OBVIOUS
  <2>2. WindowOK(b)
    BY <1>1, <1>5, <2>1 DEF OrderInv, AnchorIds
  <2>3. WindowOK(b)'
    BY <2>2 DEF WindowOK, IsStart, IsEnd
  <2> QED BY <2>1, <2>3
<1>6. ASSUME DistinctTimestamps PROVE StretchesOK'
  <2>1. StretchesOK /\ Uninterrupted(batch, o) /\ IncludedEvents' = IncludedEvents \cup a.eventIds
    BY <1>2, <1>6 DEF OrderInv, StretchesOK
  <2>2. ASSUME NEW e \in IncludedEvents', NEW d \in EventIds', (events[d].org = events[e].org)', d < e
        PROVE  d \in IncludedEvents'
    <3>1. CASE e \in IncludedEvents
      BY <1>3, <2>1, <2>2, <3>1 DEF StretchesOK
    <3>2. CASE e \in a.eventIds /\ a.eventIds = batch
      BY <1>3, <2>1, <2>2, <3>2 DEF Uninterrupted
    <3>3. CASE \E i \in AnchorIds : a.eventIds = anchors[i].eventIds
      <4>1. a.eventIds \subseteq IncludedEvents
        BY <3>3 DEF IncludedEvents
      <4> QED BY <2>1, <2>2, <3>1, <4>1
    <3> QED BY <2>1, <2>2, <3>1, <3>2, <3>3
  <2>3. ASSUME NEW q \in Runners, runner'[q].pc # "idle" PROVE Uninterrupted(runner[q].batch, runner[q].org)'
    <3>1. runner'[q] = runner[q]
      <4>1. runner \in [Runners -> RunState] /\ IdleRun.pc = "idle"
        BY DEF IInv, TypeOK, IdleRun
      <4> QED BY <2>3, <4>1
    <3>2. PICK B : B = runner[q].batch
      OBVIOUS
    <3>3. PICK p : p = runner[q].org
      OBVIOUS
    <3>4. Uninterrupted(B, p)
      BY <2>1, <2>3, <3>1, <3>2, <3>3 DEF StretchesOK
    <3>5. Uninterrupted(B, p)'
      BY <1>3, <2>1, <3>4 DEF Uninterrupted
    <3> QED BY <3>1, <3>2, <3>3, <3>5
  <2>4. ASSUME NEW i \in AnchorIds' PROVE Contiguous(anchors[i].eventIds, anchors[i].org)'
    <3>1. PICK S : S = anchors'[i].eventIds
      OBVIOUS
    <3>2. PICK p : p = anchors'[i].org
      OBVIOUS
    <3>3. Contiguous(S, p)
      <4>1. CASE i \in AnchorIds /\ anchors'[i] = anchors[i]
        BY <2>1, <3>1, <3>2, <4>1 DEF StretchesOK
      <4>2. CASE anchors'[i] = a /\ a.eventIds = {}
        BY <3>1, <4>2 DEF Contiguous
      <4>3. CASE anchors'[i] = a /\ a.eventIds = batch
        <5>1. Contiguous(batch, o)
          BY <2>1, BatchContiguous, NamedEvents
        <5> QED BY <3>1, <3>2, <4>3, <5>1
      <4>4. CASE anchors'[i] = a /\ \E j \in AnchorIds : a.eventIds = anchors[j].eventIds /\ a.org = anchors[j].org
        BY <2>1, <3>1, <3>2, <4>4 DEF StretchesOK
      <4> QED BY <1>1, <2>4, <4>1, <4>2, <4>3, <4>4 DEF AnchorIds
    <3>4. Contiguous(S, p)'
      BY <1>3, <3>3 DEF Contiguous
    <3> QED BY <3>1, <3>2, <3>4
  <2> QED BY <2>2, <2>3, <2>4 DEF StretchesOK
<1> QED BY <1>2, <1>4, <1>5, <1>6 DEF OrderInv

\* Whatever a run records over or beside the anchors, no event it replaces is
\* lost when timestamps are distinct.
LEMMA RecordOrder ==
  ASSUME IInv, OrderInv, NEW r \in Runners,
         RecordInMemory(r) \/ RecordFailureInPostgres(r) \/ RecordSuccessInPostgres(r)
  PROVE  OrderInv' /\ (DistinctTimestamps => IncludedEvents \subseteq IncludedEvents')
<1> DEFINE batch == runner[r].batch
<1>1. /\ runner[r].pc = "settled"
      /\ runner' = [runner EXCEPT ![r] = IdleRun]
      /\ UNCHANGED <<events, dataStore>>
  BY Zenon DEF RecordInMemory, RecordFailureInPostgres, RecordSuccessInPostgres, Finish
<1>2. PICK a : a = NewAnchor(r)
  OBVIOUS
<1>3. /\ batch \in SUBSET EventIds /\ batch # {} /\ a.org = runner[r].org
      /\ IsStart(a.start, batch) /\ IsEnd(a.end, batch)
      /\ a.status \in {"failed", "confirmed"} /\ a.status = runner[r].status
      /\ a.eventIds = IF a.status = "confirmed" THEN batch ELSE {}
      /\ a \in Anchors
  BY <1>1, <1>2, NewAnchorWindow, NewAnchorOK
<1>4. dataStore = "memory" \/ a.status = "failed" => WindowOK(a)
  BY <1>3 DEF WindowOK
<1>5. CASE anchors' = anchors
  <2>1. runner \in [Runners -> RunState] /\ IdleRun.pc = "idle"
    BY DEF IInv, TypeOK, IdleRun
  <2>2. \A q \in Runners : runner'[q].pc = "idle" \/ runner'[q] = runner[q]
    BY <1>1, <2>1
  <2>3. OrderInv'
    BY <1>1, <1>5, <2>2, OrderApart
  <2> QED BY <1>5, <2>3 DEF IncludedEvents, AnchorIds
<1>6. CASE anchors' = Append(anchors, a) /\ (dataStore = "memory" \/ a.status = "failed")
  BY <1>1, <1>3, <1>4, <1>6, StoredOrder
<1>7. ASSUME NEW i \in AnchorIds, anchors' = [anchors EXCEPT ![i] = a], dataStore = "postgres", a.status = "failed"
      PROVE  OrderInv' /\ (DistinctTimestamps => IncludedEvents \subseteq IncludedEvents')
  <2>1. anchors[i].eventIds = {}
    BY <1>7 DEF OrderInv, WindowOK
  <2> QED BY <1>1, <1>3, <1>4, <1>7, <2>1, StoredOrder
<1>8. ASSUME NEW i \in AnchorIds, SameWindow(anchors[i], a), anchors' = [anchors EXCEPT ![i] = Merged(anchors[i], a)],
             dataStore = "memory"
      PROVE  OrderInv' /\ (DistinctTimestamps => IncludedEvents \subseteq IncludedEvents')
  <2>1. /\ anchors[i] \in Anchors /\ AnchorOK(anchors[i]) /\ WindowOK(anchors[i])
        /\ anchors[i].eventIds \in SUBSET EventIds
    BY NamedEvents DEF IInv, AnchorInv, OrderInv
  <2>2. CASE a.status = "confirmed"
    <3>1. Merged(anchors[i], a) = a
      BY <2>2 DEF Merged
    <3>2. ASSUME DistinctTimestamps PROVE anchors[i].eventIds \subseteq a.eventIds
      <4>1. Contiguous(anchors[i].eventIds, a.org)
        BY <1>8, <3>2 DEF OrderInv, StretchesOK, SameWindow
      <4>2. Contiguous(batch, a.org)
        <5>1. Uninterrupted(batch, a.org)
          BY <1>1, <1>3, <3>2 DEF OrderInv, StretchesOK
        <5> QED BY <1>3, <5>1, BatchContiguous
      <4>3. CASE anchors[i].eventIds # {}
        <5>1. IsStart(a.start, anchors[i].eventIds) /\ IsEnd(a.end, anchors[i].eventIds)
          BY <1>8, <2>1, <4>3 DEF WindowOK, SameWindow
        <5>2. TimesInOrder
          BY DEF OrderInv
        <5>3. anchors[i].eventIds \subseteq batch
          BY <1>3, <2>1, <3>2, <4>1, <4>2, <5>1, <5>2, SameWindowSameEvents
        <5> QED BY <1>3, <2>2, <5>3
      <4> QED BY <4>3
    <3> QED BY <1>1, <1>3, <1>4, <1>8, <3>1, <3>2, StoredOrder
  <2>3. CASE a.status = "failed"
    <3>1. PICK m : m = Merged(anchors[i], a)
      OBVIOUS
    <3>2. m = [anchors[i] EXCEPT !.root = a.root, !.status = a.status]
      BY <2>3, <3>1 DEF Merged
    <3>3. /\ m.eventIds = anchors[i].eventIds /\ m.org = anchors[i].org /\ m.start = anchors[i].start
          /\ m.end = anchors[i].end /\ m.status = "failed"
      BY <2>1, <2>3, <3>2 DEF Anchors
    <3>4. m \in Anchors
      <4>1. a \in Anchors /\ AnchorOK(a)
        BY <1>1, <1>2, NewAnchorOK
      <4> QED BY <2>1, <3>1, <4>1, MergedOK
    <3>5. WindowOK(m)
      BY <2>1, <3>3 DEF WindowOK
    <3>6. m.org = runner[r].org
      BY <1>3, <1>8, <3>3 DEF SameWindow
    <3> QED BY <1>1, <1>8, <3>1, <3>3, <3>4, <3>5, <3>6, StoredOrder
  <2> QED BY <1>3, <2>2, <2>3
<1>9. CASE RecordInMemory(r)
  BY <1>2, <1>6, <1>8, <1>9 DEF RecordInMemory
<1>10. CASE RecordFailureInPostgres(r)
  <2>1. a.status = "failed"
    BY <1>3, <1>10 DEF RecordFailureInPostgres, Confirmed
  <2> QED BY <1>2, <1>6, <1>7, <1>10, <2>1 DEF RecordFailureInPostgres
<1>11. CASE RecordSuccessInPostgres(r)
  BY <1>5, <1>11 DEF RecordSuccessInPostgres
<1> QED BY <1>9, <1>10, <1>11

\* Every step keeps the order and, when timestamps are distinct, the events
\* that are included.
LEMMA OrderStep ==
  ASSUME IInv, OrderInv, [Next]_vars
  PROVE  OrderInv' /\ (DistinctTimestamps' => IncludedEvents \subseteq IncludedEvents')
<1>1. runner \in [Runners -> RunState]
  BY DEF IInv, TypeOK
<1>2. ASSUME UNCHANGED <<events, anchors, dataStore>>, OrderInv'
      PROVE  IncludedEvents \subseteq IncludedEvents'
  BY <1>2 DEF IncludedEvents, AnchorIds
<1>3. ASSUME UNCHANGED <<events, anchors, dataStore, runner>>
      PROVE  OrderInv'
  BY <1>3, OrderApart
<1>4. ASSUME UNCHANGED <<events, anchors, dataStore>>, NEW r \in Runners, NEW run,
             runner' = [runner EXCEPT ![r] = run], runner[r].pc # "idle",
             run.batch = runner[r].batch, run.org = runner[r].org
      PROVE  OrderInv'
  <2>1. \A q \in Runners : runner'[q].pc = "idle" \/ (/\ runner[q].pc # "idle"
                                                     /\ runner'[q].batch = runner[q].batch
                                                     /\ runner'[q].org = runner[q].org)
    BY <1>1, <1>4
  <2> QED BY <1>4, <2>1, OrderApart
<1>5. CASE Tick
  BY <1>2, <1>3, <1>5 DEF Tick
<1>6. ASSUME NEW o \in Orgs, RecordAuditEvent(o)
      PROVE  OrderInv' /\ (DistinctTimestamps' => IncludedEvents \subseteq IncludedEvents')
  BY <1>6, RecordAuditEventOrder
<1>7. ASSUME NEW r \in Runners, NEW o \in Orgs, ListEvents(r, o)
      PROVE  OrderInv' /\ (DistinctTimestamps' => IncludedEvents \subseteq IncludedEvents')
  <2> DEFINE run == [pc |-> "listed", org |-> o, batch |-> Unanchored(o),
                     chainId |-> NoBatchId, nonce |-> 0, status |-> "failed"]
  <2>1. /\ runner' = [runner EXCEPT ![r] = run] /\ UNCHANGED <<events, anchors, dataStore>>
    BY <1>7, Zenon DEF ListEvents
  <2>2. run.batch = Unanchored(o) /\ run.org = o
    OBVIOUS
  <2>3. StretchesOK => Uninterrupted(run.batch, run.org)
    BY <2>2, ListedUninterrupted
  <2>4. \A q \in Runners : runner'[q] = IF q = r THEN run ELSE runner[q]
    BY <1>1, <2>1
  <2> HIDE DEF run
  <2>5. \A q \in Runners : \/ runner'[q].pc = "idle"
                           \/ /\ runner[q].pc # "idle"
                              /\ runner'[q].batch = runner[q].batch /\ runner'[q].org = runner[q].org
                           \/ StretchesOK => Uninterrupted(runner'[q].batch, runner'[q].org)
    BY <2>3, <2>4
  <2>6. OrderInv'
    BY <2>1, <2>5, OrderApart
  <2> QED BY <1>2, <2>1, <2>6
<1>8. ASSUME NEW r \in Runners, RunStep(r)
      PROVE  OrderInv' /\ (DistinctTimestamps' => IncludedEvents \subseteq IncludedEvents')
  <2>1. runner[r] \in RunState
    BY <1>1
  <2>2. CASE ReadBatchCount(r)
    <3>1. PICK run : run = [runner[r] EXCEPT !.pc = "counted", !.chainId = Len(auditBatches)]
      OBVIOUS
    <3>2. runner' = [runner EXCEPT ![r] = run] /\ runner[r].pc # "idle" /\ UNCHANGED <<events, anchors, dataStore>>
      BY <2>2, <3>1 DEF ReadBatchCount
    <3>3. run.batch = runner[r].batch /\ run.org = runner[r].org
      BY <2>1, <3>1, MovedRun
    <3> QED BY <1>2, <1>4, <3>2, <3>3
  <2>3. CASE Submit(r)
    <3>1. PICK run : run = [runner[r] EXCEPT !.pc = "sent", !.nonce = Len(txs) + 1]
      OBVIOUS
    <3>2. runner' = [runner EXCEPT ![r] = run] /\ runner[r].pc # "idle" /\ UNCHANGED <<events, anchors, dataStore>>
      BY <2>3, <3>1 DEF Submit
    <3>3. run.batch = runner[r].batch /\ run.org = runner[r].org
      BY <2>1, <3>1, MovedRun
    <3> QED BY <1>2, <1>4, <3>2, <3>3
  <2>4. CASE RpcFails(r) \/ ConfirmationTimesOut(r) \/ ObserveRevert(r) \/ ObserveReceipt(r)
    <3>1. PICK s : runner' = [runner EXCEPT ![r] = [runner[r] EXCEPT !.pc = "settled", !.status = s]]
      BY <2>4 DEF RpcFails, ConfirmationTimesOut, ObserveRevert, ObserveReceipt, Fail
    <3>2. PICK run : run = [runner[r] EXCEPT !.pc = "settled", !.status = s]
      OBVIOUS
    <3>3. run.batch = runner[r].batch /\ run.org = runner[r].org
      BY <2>1, <3>2, SettledRun
    <3>4. runner[r].pc # "idle" /\ UNCHANGED <<events, anchors, dataStore>>
      BY <2>4 DEF RpcFails, ConfirmationTimesOut, ObserveRevert, ObserveReceipt
    <3> QED BY <1>2, <1>4, <3>1, <3>2, <3>3, <3>4
  <2>5. CASE RecordInMemory(r) \/ RecordFailureInPostgres(r) \/ RecordSuccessInPostgres(r)
    <3>1. UNCHANGED events
      BY <2>5 DEF RecordInMemory, RecordFailureInPostgres, RecordSuccessInPostgres
    <3>2. DistinctTimestamps' => DistinctTimestamps
      BY <3>1 DEF DistinctTimestamps, EventIds
    <3> QED BY <2>5, <3>2, RecordOrder
  <2> QED BY <1>8, <2>2, <2>3, <2>4, <2>5 DEF RunStep
<1>9. CASE ChainStep
  BY <1>2, <1>3, <1>9 DEF ChainStep, Mine, Revert
<1>10. CASE UNCHANGED vars
  BY <1>2, <1>3, <1>10 DEF vars
<1> QED BY <1>5, <1>6, <1>7, <1>8, <1>9, <1>10 DEF Next

\* The order holds throughout.
LEMMA Order == Spec => []OrderInv
<1>1. Init => OrderInv
  <2> SUFFICES ASSUME Init PROVE OrderInv
    OBVIOUS
  <2>1. EventIds = {} /\ AnchorIds = {} /\ IncludedEvents = {} /\ \A r \in Runners : runner[r].pc = "idle"
    BY EmptySeq DEF Init, EventIds, AnchorIds, IncludedEvents, IdleRun
  <2> QED BY <2>1 DEF OrderInv, TimesInOrder, StretchesOK
<1>2. IInv /\ OrderInv /\ [Next]_vars => OrderInv'
  BY OrderStep
<1> QED BY <1>1, <1>2, Invariant, PTL DEF Spec

\* When timestamps are distinct, the anchor getMerkleProof finds by the time of
\* an included event includes the event, for any runs, organizations and
\* failures: every confirmed anchor is of a stretch of the log.
THEOREM ProofAnchor == Spec => []ProofAnchorIncludesEvent
<1>1. IInv /\ OrderInv => ProofAnchorIncludesEvent
  <2> SUFFICES ASSUME IInv, OrderInv, DistinctTimestamps, NEW i \in AnchorIds, NEW e \in IncludedEvents, Spans(i, e)
               PROVE  e \in anchors[i].eventIds
    BY DEF ProofAnchorIncludesEvent, IsProofAnchor, BatchEvents
  <2>1. e \in EventIds
    BY NamedEvents
  <2>2. PICK S \in SUBSET EventIds : S = anchors[i].eventIds
    BY NamedEvents
  <2>3. /\ S # {} /\ IsStart(anchors[i].start, S) /\ IsEnd(anchors[i].end, S)
        /\ Contiguous(S, anchors[i].org) /\ events[e].org = anchors[i].org
        /\ anchors[i].start <= events[e].at /\ events[e].at <= anchors[i].end
    BY <2>2 DEF OrderInv, WindowOK, StretchesOK, Spans
  <2>4. PICK a \in S : events[a].at = anchors[i].start
    BY <2>3 DEF IsStart
  <2>5. PICK z \in S : events[z].at = anchors[i].end
    BY <2>3 DEF IsEnd
  <2>6. \A d \in EventIds : d \in Int /\ events[d].at \in Int
    BY Log
  <2>7. a \in EventIds /\ z \in EventIds /\ events[a].org = events[e].org /\ events[z].org = events[e].org
    BY <2>3 DEF Contiguous
  <2>8. a = e \/ a < e
    <3> SUFFICES ASSUME e < a PROVE a = e
      BY <2>1, <2>6, <2>7
    <3>1. events[e].at <= events[a].at
      BY <2>1, <2>6, <2>7 DEF OrderInv, TimesInOrder
    <3>2. events[e].at = events[a].at
      BY <2>1, <2>3, <2>4, <2>6, <2>7, <3>1
    <3> QED BY <2>1, <2>7, <3>2 DEF DistinctTimestamps
  <2>9. z = e \/ e < z
    <3> SUFFICES ASSUME z < e PROVE z = e
      BY <2>1, <2>6, <2>7
    <3>1. events[z].at <= events[e].at
      BY <2>1, <2>6, <2>7 DEF OrderInv, TimesInOrder
    <3>2. events[e].at = events[z].at
      BY <2>1, <2>3, <2>5, <2>6, <2>7, <3>1
    <3> QED BY <2>1, <2>7, <3>2 DEF DistinctTimestamps
  <2> QED BY <2>1, <2>2, <2>3, <2>4, <2>5, <2>8, <2>9 DEF Contiguous
<1> QED BY <1>1, Invariant, Order, PTL

\* When timestamps are distinct, no run, overlapping or failed, takes an
\* included event out of the anchors: anchors of one window are of one batch.
THEOREM StaysIncluded == Spec => IncludedStaysIncluded
<1>1. IInv /\ OrderInv /\ [Next]_vars
        => [DistinctTimestamps' => IncludedEvents \subseteq IncludedEvents']_vars
  BY OrderStep
<1> QED BY <1>1, Invariant, Order, PTL DEF Spec, IncludedStaysIncluded
=============================================================================
