---------------------------- MODULE AuditAnchoring ----------------------------
(***************************************************************************)
(* Anchoring of audit events on the MST chain: the runs of                 *)
(* AuditAnchorService.runAnchorBatch (the interval sweep of server.ts and  *)
(* the manual route, which may overlap), the two stores that remember the  *)
(* anchors, the transactions the single signer sends and the contract that *)
(* numbers the batches it accepts.                                         *)
(*                                                                         *)
(* A Merkle root is modelled by the set of events it commits to: a batch   *)
(* has no duplicates and a fixed order, so for a collision-free hash root  *)
(* and set determine each other.                                           *)
(***************************************************************************)
EXTENDS Integers, Sequences, FiniteSets

CONSTANTS
  Orgs,         \* organizations
  NoOrg,        \* the organization of a runner that is not running
  Runners,      \* concurrent callers of runAnchorBatch: sweep tasks and requests
  DataStores,   \* which CascadiaStore the API may run on: "memory", "postgres"
  MaxTime,      \* bound: milliseconds the clock may advance
  MaxEvents,    \* bound: audit events
  MaxTxs,       \* bound: transactions sent
  MaxFailures   \* bound: RPC failures, timeouts and reverts

ASSUME NoOrgAssumption == NoOrg \notin Orgs
ASSUME DataStoresAssumption == DataStores \subseteq {"memory", "postgres"}
ASSUME BoundsAssumption ==
  /\ MaxTime \in Nat
  /\ MaxEvents \in Nat
  /\ MaxTxs \in Nat
  /\ MaxFailures \in Nat

VARIABLES
  dataStore,     \* the CascadiaStore in use
  now,           \* the API's clock, in milliseconds
  events,        \* audit_events: [org, at], the id is the position
  anchors,       \* audit_batch_anchors, the id is the position
  runner,        \* the state of each runAnchorBatch call
  txs,           \* transactions in nonce order: [root, state]
  auditBatches,  \* the contract's auditBatches; auditBatchCount is its length
  failures       \* failures so far (bound)

vars == <<now, events, anchors, runner, txs, auditBatches, failures, dataStore>>

-----------------------------------------------------------------------------
(* Reading the store.                                                      *)

EventIds == DOMAIN events
AnchorIds == DOMAIN anchors

\* chain_batch_id is NULL.
NoBatchId == -1

IncludedEvents == UNION {anchors[i].eventIds : i \in AnchorIds}

\* listUnanchoredAuditEvents: whatever its status, an anchor that includes an
\* event takes it off the list.
Unanchored(o) == {e \in EventIds : events[e].org = o} \ IncludedEvents

\* events[0].occurredAt and events.at(-1).occurredAt of the sorted listing.
IsStart(t, batch) == /\ \E e \in batch : events[e].at = t
                     /\ \A e \in batch : t <= events[e].at
IsEnd(t, batch) == /\ \E e \in batch : events[e].at = t
                   /\ \A e \in batch : events[e].at <= t
BatchStart(batch) == CHOOSE t \in 0..now : IsStart(t, batch)
BatchEnd(batch) == CHOOSE t \in 0..now : IsEnd(t, batch)

IdleRun == [pc |-> "idle", org |-> NoOrg, batch |-> {},
            chainId |-> NoBatchId, nonce |-> 0, status |-> "failed"]

-----------------------------------------------------------------------------
Init ==
  /\ dataStore \in DataStores
  /\ now = 0
  /\ events = << >>
  /\ anchors = << >>
  /\ runner = [r \in Runners |-> IdleRun]
  /\ txs = << >>
  /\ auditBatches = << >>
  /\ failures = 0

Tick ==
  /\ now < MaxTime
  /\ now' = now + 1
  /\ UNCHANGED <<events, anchors, runner, txs, auditBatches, failures, dataStore>>

\* Any mutating operation of the API appends its audit event.
RecordAuditEvent(o) ==
  /\ Len(events) < MaxEvents
  /\ events' = Append(events, [org |-> o, at |-> now])
  /\ UNCHANGED <<now, anchors, runner, txs, auditBatches, failures, dataStore>>

\* runAnchorBatch lists the events; an empty list ends the call at once.
ListEvents(r, o) ==
  /\ runner[r].pc = "idle"
  /\ Len(txs) + Cardinality({q \in Runners : runner[q].pc \in {"listed", "counted"}}) < MaxTxs
  /\ Unanchored(o) # {}
  /\ runner' = [runner EXCEPT ![r] =
                  [pc |-> "listed", org |-> o, batch |-> Unanchored(o),
                   chainId |-> NoBatchId, nonce |-> 0, status |-> "failed"]]
  /\ UNCHANGED <<now, events, anchors, txs, auditBatches, failures, dataStore>>

\* readContract("auditBatchCount"): the id the batch will have if no other
\* transaction gets in before it.
ReadBatchCount(r) ==
  /\ runner[r].pc = "listed"
  /\ runner' = [runner EXCEPT ![r].pc = "counted", ![r].chainId = Len(auditBatches)]
  /\ UNCHANGED <<now, events, anchors, txs, auditBatches, failures, dataStore>>

\* submitTransaction: the signer's next nonce goes to the mempool.
Submit(r) ==
  /\ runner[r].pc = "counted"
  /\ txs' = Append(txs, [root |-> runner[r].batch, state |-> "pending"])
  /\ runner' = [runner EXCEPT ![r].pc = "sent", ![r].nonce = Len(txs) + 1]
  /\ UNCHANGED <<now, events, anchors, auditBatches, failures, dataStore>>

\* The catch of runAnchorBatch: whatever failed, a failed anchor is recorded.
Fail(r) == runner' = [runner EXCEPT ![r].pc = "settled", ![r].status = "failed"]

\* The count cannot be read, or the node refuses the transaction.
RpcFails(r) ==
  /\ runner[r].pc \in {"listed", "counted"}
  /\ failures < MaxFailures
  /\ Fail(r)
  /\ failures' = failures + 1
  /\ UNCHANGED <<now, events, anchors, txs, auditBatches, dataStore>>

\* Slip: a transaction that was sent is taken for confirmed.
ConfirmationTimesOut_Optimistic(r) ==
  /\ runner[r].pc = "sent"
  /\ txs[runner[r].nonce].state # "reverted"
  /\ failures < MaxFailures
  /\ runner' = [runner EXCEPT ![r].pc = "settled", ![r].status = "confirmed"]
  /\ failures' = failures + 1
  /\ UNCHANGED <<now, events, anchors, txs, auditBatches, dataStore>>

\* waitForConfirmation gives up (no receipt, not deep enough, or the node is
\* unreachable); the transaction stays where it is, mined or not.
ConfirmationTimesOut(r) ==
  /\ runner[r].pc = "sent"
  /\ txs[runner[r].nonce].state # "reverted"
  /\ failures < MaxFailures
  /\ Fail(r)
  /\ failures' = failures + 1
  /\ UNCHANGED <<now, events, anchors, txs, auditBatches, dataStore>>

ObserveRevert(r) ==
  /\ runner[r].pc = "sent"
  /\ txs[runner[r].nonce].state = "reverted"
  /\ Fail(r)
  /\ UNCHANGED <<now, events, anchors, txs, auditBatches, failures, dataStore>>

ObserveReceipt(r) ==
  /\ runner[r].pc = "sent"
  /\ txs[runner[r].nonce].state = "mined"
  /\ runner' = [runner EXCEPT ![r].pc = "settled", ![r].status = "confirmed"]
  /\ UNCHANGED <<now, events, anchors, txs, auditBatches, failures, dataStore>>

-----------------------------------------------------------------------------
(* The chain: one signer, so transactions are mined in nonce order.        *)

NextToMine(n) ==
  /\ n \in DOMAIN txs
  /\ txs[n].state = "pending"
  /\ \A m \in DOMAIN txs : m < n => txs[m].state # "pending"

\* anchorAuditBatch stores the root under the current count.
Mine(n) ==
  /\ NextToMine(n)
  /\ auditBatches' = Append(auditBatches, txs[n].root)
  /\ txs' = [txs EXCEPT ![n].state = "mined"]
  /\ UNCHANGED <<now, events, anchors, runner, failures, dataStore>>

Revert(n) ==
  /\ NextToMine(n)
  /\ failures < MaxFailures
  /\ txs' = [txs EXCEPT ![n].state = "reverted"]
  /\ failures' = failures + 1
  /\ UNCHANGED <<now, events, anchors, runner, auditBatches, dataStore>>

-----------------------------------------------------------------------------
(* createAuditBatchAnchor.                                                 *)

Confirmed(r) == runner[r].status = "confirmed"

\* Slip: a failed run passes its event ids too.
NewAnchor_FailedIncludes(r) ==
  [org      |-> runner[r].org,
   start    |-> BatchStart(runner[r].batch),
   end      |-> BatchEnd(runner[r].batch),
   root     |-> runner[r].batch,
   chainId  |-> IF Confirmed(r) THEN runner[r].chainId ELSE NoBatchId,
   status   |-> runner[r].status,
   eventIds |-> runner[r].batch]

NewAnchor(r) ==
  [org      |-> runner[r].org,
   start    |-> BatchStart(runner[r].batch),
   end      |-> BatchEnd(runner[r].batch),
   root     |-> runner[r].batch,
   chainId  |-> IF Confirmed(r) THEN runner[r].chainId ELSE NoBatchId,
   status   |-> runner[r].status,
   eventIds |-> IF Confirmed(r) THEN runner[r].batch ELSE {}]

\* Slip: anchors are matched by the start of their window.
SameWindow_StartOnly(a, b) == a.org = b.org /\ a.start = b.start

SameWindow(a, b) == a.org = b.org /\ a.start = b.start /\ a.end = b.end

\* Slip: the new root is stored, the events of the old one kept.
Merged_KeepsEvents(old, new) == [new EXCEPT !.eventIds = old.eventIds]

\* Object.assign over the anchor of the same window: fields a failed run does
\* not supply, and its events, keep the values of the run before it.
Merged(old, new) ==
  IF new.status = "confirmed"
  THEN new
  ELSE [old EXCEPT !.root = new.root, !.status = new.status]

Finish(r) == runner' = [runner EXCEPT ![r] = IdleRun]

RecordInMemory(r) ==
  /\ dataStore = "memory"
  /\ runner[r].pc = "settled"
  /\ \/ \E i \in AnchorIds :
          /\ SameWindow(anchors[i], NewAnchor(r))
          /\ anchors' = [anchors EXCEPT ![i] = Merged(@, NewAnchor(r))]
     \/ /\ \A i \in AnchorIds : ~SameWindow(anchors[i], NewAnchor(r))
        /\ anchors' = Append(anchors, NewAnchor(r))
  /\ Finish(r)
  /\ UNCHANGED <<now, events, txs, auditBatches, failures, dataStore>>

\* ON CONFLICT DO UPDATE: the row of the window takes the new values.
RecordFailureInPostgres(r) ==
  /\ dataStore = "postgres"
  /\ runner[r].pc = "settled"
  /\ ~Confirmed(r)
  /\ \/ \E i \in AnchorIds :
          /\ SameWindow(anchors[i], NewAnchor(r))
          /\ anchors' = [anchors EXCEPT ![i] = NewAnchor(r)]
     \/ /\ \A i \in AnchorIds : ~SameWindow(anchors[i], NewAnchor(r))
        /\ anchors' = Append(anchors, NewAnchor(r))
  /\ Finish(r)
  /\ UNCHANGED <<now, events, txs, auditBatches, failures, dataStore>>

\* A confirmed batch also updates audit_events, which the trigger
\* audit_events_append_only refuses: the transaction rolls back, and the
\* rejected promise leaves runAnchorBatch, its try block being over.
RecordSuccessInPostgres(r) ==
  /\ dataStore = "postgres"
  /\ runner[r].pc = "settled"
  /\ Confirmed(r)
  /\ Finish(r)
  /\ UNCHANGED <<now, events, anchors, txs, auditBatches, failures, dataStore>>

RunStep(r) ==
  \/ ReadBatchCount(r)
  \/ Submit(r)
  \/ RpcFails(r)
  \/ ConfirmationTimesOut(r)
  \/ ObserveRevert(r)
  \/ ObserveReceipt(r)
  \/ RecordInMemory(r)
  \/ RecordFailureInPostgres(r)
  \/ RecordSuccessInPostgres(r)

ChainStep == \E n \in DOMAIN txs : Mine(n) \/ Revert(n)

Next ==
  \/ Tick
  \/ \E o \in Orgs : RecordAuditEvent(o)
  \/ \E r \in Runners, o \in Orgs : ListEvents(r, o)
  \/ \E r \in Runners : RunStep(r)
  \/ ChainStep

Spec == Init /\ [][Next]_vars

\* setInterval starts a sweep over every organization again and again, every
\* await of a run is bounded by a timeout, and the chain keeps mining.
Fairness ==
  /\ \A o \in Orgs : WF_vars(\E r \in Runners : ListEvents(r, o))
  /\ \A r \in Runners : WF_vars(RunStep(r))
  /\ WF_vars(\E n \in DOMAIN txs : Mine(n))

FairSpec == Spec /\ Fairness

-----------------------------------------------------------------------------
(* Read-only operations.                                                   *)

\* listAuditEventsForBatch, the events whose tree verifyAuditBatch rebuilds.
BatchEvents(i) == anchors[i].eventIds

\* verifyAuditBatch: the contract answers an unknown id with a zero root.
VerifyMatches(i) ==
  LET id == IF anchors[i].chainId = NoBatchId THEN i - 1 ELSE anchors[i].chainId
  IN  /\ id < Len(auditBatches)
      /\ auditBatches[id + 1] = BatchEvents(i)

\* Slip: any anchor will do, confirmed or not.
Spans_AnyStatus(i, e) ==
  /\ anchors[i].org = events[e].org
  /\ anchors[i].start <= events[e].at
  /\ events[e].at <= anchors[i].end

\* getMerkleProof takes the newest confirmed anchor whose window spans the
\* event's timestamp.
Spans(i, e) ==
  /\ anchors[i].org = events[e].org
  /\ anchors[i].status = "confirmed"
  /\ anchors[i].start <= events[e].at
  /\ events[e].at <= anchors[i].end

IsProofAnchor(i, e) == Spans(i, e) /\ \A j \in AnchorIds : Spans(j, e) => j <= i

-----------------------------------------------------------------------------
(* Properties.                                                             *)

RunState ==
  [pc: {"idle", "listed", "counted", "sent", "settled"}, org: Orgs \union {NoOrg},
   batch: SUBSET EventIds, chainId: Int, nonce: Nat, status: {"failed", "confirmed"}]

Anchors ==
  [org: Orgs, start: Nat, end: Nat, root: SUBSET EventIds, chainId: Int,
   status: {"failed", "confirmed"}, eventIds: SUBSET EventIds]

Txs == [root: SUBSET EventIds, state: {"pending", "mined", "reverted"}]

\* Every variable holds a value of its type; a run, an anchor, a transaction
\* and a batch on the chain name only events that exist.
TypeOK ==
  /\ dataStore \in DataStores
  /\ now \in Nat
  /\ events \in Seq([org: Orgs, at: Nat])
  /\ anchors \in Seq(Anchors)
  /\ runner \in [Runners -> RunState]
  /\ txs \in Seq(Txs)
  /\ auditBatches \in Seq(SUBSET EventIds)
  /\ failures \in Nat

\* A confirmed anchor recomputes to its own root: the events the store hands
\* to verifyAuditBatch are those the stored root was built from, even after
\* other runs overwrote the anchor of the same window (createAuditBatchAnchor).
ConfirmedRootRecomputes ==
  \A i \in AnchorIds : anchors[i].status = "confirmed" => BatchEvents(i) = anchors[i].root

\* The id a confirmed anchor remembers was read before its transaction was
\* mined, so its batch is on the chain at that id or later, never before it
\* (runAnchorBatch reads auditBatchCount first and waits for the receipt).
ConfirmedBatchAtOrAfterId ==
  \A i \in AnchorIds :
     anchors[i].status = "confirmed" =>
        \E k \in DOMAIN auditBatches :
           /\ anchors[i].chainId < k
           /\ auditBatches[k] = anchors[i].root

\* An event leaves the list of unanchored events only when a batch on the
\* chain contains it; failed, timed-out and reverted runs leave it listed.
IncludedEventsAreOnChain ==
  IncludedEvents \subseteq UNION {auditBatches[k] : k \in DOMAIN auditBatches}

\* The store tells the truth about the chain, whatever runs overlapped, failed
\* or came late: of a confirmed anchor, and of the events that are off the list.
AnchorsAreTruthful ==
  /\ ConfirmedRootRecomputes
  /\ ConfirmedBatchAtOrAfterId
  /\ IncludedEventsAreOnChain

\* No two events of one organization carry the same millisecond.
DistinctTimestamps ==
  \A d, e \in EventIds : events[d].org = events[e].org /\ events[d].at = events[e].at => d = e

\* When timestamps are distinct, the anchor getMerkleProof picks by time
\* window for an event that some anchor includes is one that includes it,
\* whatever runs overlapped.
ProofAnchorIncludesEvent ==
  DistinctTimestamps =>
     \A i \in AnchorIds, e \in IncludedEvents :
        IsProofAnchor(i, e) => e \in BatchEvents(i)

\* When timestamps are distinct, an included event stays included: no later
\* run, overlapping or failed, puts it back on the list of unanchored events.
IncludedStaysIncluded ==
  [][DistinctTimestamps' => IncludedEvents \subseteq IncludedEvents']_vars

\* The sweep retries until it succeeds: every audit event ends up in a batch
\* on the chain, through RPC failures, timeouts and reverts.  (PostgreSQL, where
\* no success is recorded, would use up any bound on transactions.)
EveryEventReachesChain ==
  \A e \in 1..MaxEvents :
     (e \in EventIds /\ dataStore = "memory") ~> (\E k \in DOMAIN auditBatches : e \in auditBatches[k])

\* Claims of the documentation and of the responses.

\* "Audit events are represented by SHA-256 Merkle roots": the batch the
\* evidence page verifies on the chain is the one that was anchored.
EveryConfirmedAnchorVerifies ==
  \A i \in AnchorIds : anchors[i].status = "confirmed" => VerifyMatches(i)

\* An anchored batch is recorded: with distinct timestamps and no failure so
\* far, a store at rest has every event of every batch on the chain included in
\* an anchor ("MST Testnet anchoring for audit batches", README.md:78).
SuccessfulRunsAreRecorded ==
  /\ failures = 0
  /\ DistinctTimestamps
  /\ \A r \in Runners : runner[r].pc = "idle"
  => UNION {auditBatches[k] : k \in DOMAIN auditBatches} \subseteq IncludedEvents

Ledger == INSTANCE AuditLedger
            WITH recorded  <- Len(events),
                 published <- UNION {auditBatches[k] : k \in DOMAIN auditBatches},
                 anchored  <- IncludedEvents

\* The runs, stores and chain implement the audit ledger: events are anchored
\* only after they were published, and publication is permanent.
ImplementsLedger == Ledger!LedgerSpec
=============================================================================
