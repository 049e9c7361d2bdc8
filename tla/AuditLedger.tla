----------------------------- MODULE AuditLedger -----------------------------
(***************************************************************************)
(* What audit anchoring promises, with everything about runs, RPC calls,   *)
(* transactions and storage left out: an audit event is recorded, a batch  *)
(* of recorded events is published on the chain, and an event counts as    *)
(* anchored only once some published batch contains it.  Publication is    *)
(* permanent.  Anchoring is not: a later batch may take an anchor's place. *)
(***************************************************************************)
EXTENDS Naturals

VARIABLES recorded,   \* how many audit events exist; their ids are 1..recorded
          published,  \* the events some batch on the chain contains
          anchored    \* the events the store counts as included in an anchor

ledgerVars == <<recorded, published, anchored>>

LedgerInit ==
  /\ recorded = 0
  /\ published = {}
  /\ anchored = {}

RecordEvent ==
  /\ recorded' = recorded + 1
  /\ UNCHANGED <<published, anchored>>

Publish ==
  \E batch \in SUBSET (1..recorded) :
     /\ published' = published \union batch
     /\ UNCHANGED <<recorded, anchored>>

Anchor ==
  /\ anchored' \subseteq published
  /\ UNCHANGED <<recorded, published>>

LedgerNext == RecordEvent \/ Publish \/ Anchor

LedgerSpec == LedgerInit /\ [][LedgerNext]_ledgerVars
=============================================================================
