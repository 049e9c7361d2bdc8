----------------------------- MODULE DecisionProof -----------------------------
(***************************************************************************)
(* On-chain proofs of response decisions: the wallets the operators prove  *)
(* they hold, the submitAnchor calls of DecisionProofService, the proofs the store    *)
(* keeps and the decision records of the contract.  Extends                *)
(* ResponseDecision, whose scenarios hold the decisions.                   *)
(*                                                                         *)
(* A decision is named <<i, k>>: the k-th decision of scenario i.  Its     *)
(* canonical record is the decision together with its option's figures,    *)
(* and its evidence hash is modelled by that record: the hash is           *)
(* collision free.                                                         *)
(***************************************************************************)
EXTENDS ResponseDecision

CONSTANTS
  Wallets,        \* wallet addresses
  NoWallet,       \* no address registered
  Submitters,     \* concurrent submitAnchor calls, and concurrent wallet verifications
  MaxChallenges,  \* bound: wallet challenges
  MaxSubmissions, \* bound: submitAnchor calls that reach the chain client
  MaxFaults       \* bound: RPC failures and confirmation timeouts

ASSUME NoWalletAssumption == NoWallet \notin Wallets
ASSUME ProofBoundsAssumption ==
  MaxChallenges \in Nat /\ MaxSubmissions \in Nat /\ MaxFaults \in Nat

VARIABLES
  wallet,           \* identity_users.wallet_address
  challenges,       \* walletChallenges: the number of the pending one, 0 is none
  issued,           \* the challenges so far: for whom, which address, times used
  registering,      \* the challenge each wallet verification has taken, 0 is none
  proofs,           \* decision_proofs: a set, one element per decision id
  decisionRecords,  \* the contract's decisionRecords, likewise
  mempool,          \* recordDecision transactions not mined yet, by nonce
  call,             \* the state of each submitAnchor call
  submissions, faults  \* so far (bounds)

walletVars == <<wallet, challenges, issued, registering>>
proofVars == <<walletVars, proofs, decisionRecords, mempool, call, submissions, faults>>
allVars == <<responseVars, proofVars>>

Decisions == UNION {{<<i, k>> : k \in DOMAIN scenarios[i].decisions} : i \in DOMAIN scenarios}

DecisionOf(d) == scenarios[d[1]].decisions[d[2]]

\* buildCanonicalRecord and hashRecord.
EvidenceHash(d) == [decision |-> d, option |-> scenarios[d[1]].options[DecisionOf(d).option],
                    actor |-> DecisionOf(d).actor]

ProofsOf(d) == {p \in proofs : p.decision = d}
RecordsOf(d) == {r \in decisionRecords : r.decision = d}

IdleCall == [pc |-> "idle"]

\* requestSignature: the wallet a signature has to come from.  A stored proof
\* answers before the operator's current wallet is looked at.
ApproverWallet(d) ==
  IF ProofsOf(d) # {} THEN (CHOOSE p \in ProofsOf(d) : TRUE).wallet
  ELSE wallet[DecisionOf(d).actor]

ProofInit ==
  /\ ResponseInit
  /\ wallet = [u \in Users |-> NoWallet]
  /\ challenges = [u \in Users |-> 0] /\ issued = << >>
  /\ registering = [c \in Submitters |-> 0]
  /\ proofs = {}
  /\ decisionRecords = {}
  /\ mempool = << >>
  /\ call = [c \in Submitters |-> IdleCall]
  /\ submissions = 0 /\ faults = 0

-----------------------------------------------------------------------------
(* Wallets.                                                                *)

otherVars == <<responseVars, proofs, decisionRecords, mempool, call, submissions, faults>>

\* A new challenge for a user replaces the one before it.
IssueChallenge(u, w) ==
  /\ Len(issued) < MaxChallenges
  /\ issued' = Append(issued, [user |-> u, wallet |-> w, uses |-> 0])
  /\ challenges' = [challenges EXCEPT ![u] = Len(issued) + 1]
  /\ UNCHANGED <<otherVars, wallet, registering>>

\* Five minutes have passed.
ExpireChallenge(u) ==
  /\ challenges[u] # 0
  /\ challenges' = [challenges EXCEPT ![u] = 0]
  /\ UNCHANGED <<otherVars, wallet, issued, registering>>

\* Slip: the challenge is dropped when the address is stored.
VerifyWallet_Keeps(c, u) ==
  /\ registering[c] = 0 /\ challenges[u] # 0
  /\ registering' = [registering EXCEPT ![c] = challenges[u]]
  /\ UNCHANGED <<otherVars, wallet, issued, challenges>>

\* The holder of the address signed the pending challenge; the challenge is
\* taken before the first await.
VerifyWallet(c, u) ==
  /\ registering[c] = 0 /\ challenges[u] # 0
  /\ registering' = [registering EXCEPT ![c] = challenges[u]]
  /\ challenges' = [challenges EXCEPT ![u] = 0]
  /\ UNCHANGED <<otherVars, wallet, issued>>

\* setWalletAddress: refused while another user has the address, by the check
\* or, if two passed it at once, by the unique index.
SetWalletAddress(c) ==
  /\ registering[c] # 0
  /\ LET x == issued[registering[c]] IN
     IF \E v \in Users \ {x.user} : wallet[v] = x.wallet
     THEN UNCHANGED <<wallet, issued>>
     ELSE /\ wallet' = [wallet EXCEPT ![x.user] = x.wallet]
          /\ issued' = [issued EXCEPT ![registering[c]].uses = @ + 1]
  /\ registering' = [registering EXCEPT ![c] = 0]
  /\ UNCHANGED <<otherVars, challenges>>

-----------------------------------------------------------------------------
(* Submissions.                                                            *)

\* submitAnchor up to the transaction: only an approval is anchored, and the
\* signature over the evidence hash comes from the approving wallet.
RequestAnchor(c, d, signer) ==
  /\ call[c].pc = "idle"
  /\ submissions < MaxSubmissions
  /\ ProofsOf(d) = {} => DecisionOf(d).decision = "approve"
  /\ ApproverWallet(d) \in Wallets
  /\ signer = ApproverWallet(d)
  /\ call' = [call EXCEPT ![c] = [pc |-> "checked", decision |-> d, wallet |-> signer,
                                  hash |-> EvidenceHash(d), signer |-> signer,
                                  id |-> submissions]]
  /\ submissions' = submissions + 1
  /\ UNCHANGED <<responseVars, walletVars, proofs, decisionRecords, mempool, faults>>

Goto(c, pc) == call' = [call EXCEPT ![c].pc = pc]

\* The contract accepts a decision it has no record of, with a signature that
\* recovers to the approver it is given.
Acceptable(t) == RecordsOf(t.decision) = {} /\ t.signer = t.wallet

Transaction(c) == [caller |-> c, id |-> call[c].id, decision |-> call[c].decision,
                   hash |-> call[c].hash, wallet |-> call[c].wallet, signer |-> call[c].signer]

\* Sending estimates gas first, so a call that would revert now is refused.
Send(c) ==
  /\ call[c].pc = "checked"
  /\ Acceptable(Transaction(c))
  /\ mempool' = Append(mempool, Transaction(c))
  /\ Goto(c, "sent")
  /\ UNCHANGED <<responseVars, walletVars, proofs, decisionRecords, submissions, faults>>

SendRefused(c) ==
  /\ call[c].pc = "checked"
  /\ ~Acceptable(Transaction(c))
  /\ Goto(c, "failed")
  /\ UNCHANGED <<responseVars, walletVars, proofs, decisionRecords, mempool, submissions, faults>>

\* The node cannot be reached, before the transaction is out or after.
ChainUnreachable(c) ==
  /\ call[c].pc \in {"checked", "sent"}
  /\ faults < MaxFaults
  /\ Goto(c, "failed")
  /\ faults' = faults + 1
  /\ UNCHANGED <<responseVars, walletVars, proofs, decisionRecords, mempool, submissions>>

\* The API restarts over its durable store; transactions that are out stay out,
\* wallet challenges are lost.
Restart ==
  /\ faults < MaxFaults
  /\ (\E c \in Submitters : call[c].pc # "idle" \/ registering[c] # 0)
       \/ \E u \in Users : challenges[u] # 0
  /\ call' = [c \in Submitters |-> IdleCall]
  /\ challenges' = [u \in Users |-> 0]
  /\ registering' = [c \in Submitters |-> 0]
  /\ faults' = faults + 1
  /\ UNCHANGED <<responseVars, wallet, issued, proofs, decisionRecords, mempool, submissions>>

\* The receipt reaches the caller, unless it stopped waiting.
Receipt(t, pc) ==
  LET waiting == call[t.caller].pc = "sent" /\ call[t.caller].id = t.id
  IN  call' = [call EXCEPT ![t.caller].pc = IF waiting THEN pc ELSE @]

\* recordDecision.
MineDecision(t) ==
  /\ Acceptable(t)
  /\ decisionRecords' = decisionRecords
                          \union {[decision |-> t.decision, hash |-> t.hash, wallet |-> t.wallet]}
  /\ Receipt(t, "mined")
  /\ mempool' = Tail(mempool)
  /\ UNCHANGED <<responseVars, walletVars, proofs, submissions, faults>>

\* Between estimate and execution another transaction recorded the decision.
RevertDecision(t) ==
  /\ ~Acceptable(t)
  /\ Receipt(t, "failed")
  /\ mempool' = Tail(mempool)
  /\ UNCHANGED <<responseVars, walletVars, proofs, decisionRecords, submissions, faults>>

ProofFor(c, status) == [decision |-> call[c].decision, hash |-> call[c].hash,
                        wallet |-> call[c].wallet, status |-> status]

\* Slip: the status is taken from whatever the caller found, mined or not.
SaveProof_AlwaysConfirmed(c) ==
  /\ call[c].pc \in {"mined", "failed"}
  /\ proofs' = (proofs \ ProofsOf(call[c].decision)) \union {ProofFor(c, "confirmed")}
  /\ call' = [call EXCEPT ![c] = IdleCall]
  /\ UNCHANGED <<responseVars, walletVars, decisionRecords, mempool, submissions, faults>>

\* saveDecisionProof replaces the proof of the decision, whatever it said.
SaveProof(c) ==
  /\ call[c].pc \in {"mined", "failed"}
  /\ proofs' = (proofs \ ProofsOf(call[c].decision))
                 \union {ProofFor(c, IF call[c].pc = "mined" THEN "confirmed" ELSE "failed")}
  /\ call' = [call EXCEPT ![c] = IdleCall]
  /\ UNCHANGED <<responseVars, walletVars, decisionRecords, mempool, submissions, faults>>

SubmitterStep(c) == Send(c) \/ SendRefused(c) \/ ChainUnreachable(c) \/ SaveProof(c)

ProofNext ==
  \/ ResponseNext /\ UNCHANGED proofVars
  \/ \E u \in Users :
       \/ \E w \in Wallets : IssueChallenge(u, w)
       \/ ExpireChallenge(u)
       \/ \E c \in Submitters : VerifyWallet(c, u)
  \/ \E c \in Submitters : SetWalletAddress(c)
  \/ \E c \in Submitters, d \in Decisions, signer \in Wallets : RequestAnchor(c, d, signer)
  \/ \E c \in Submitters : SubmitterStep(c)
  \/ Restart
  \/ mempool # << >> /\ (MineDecision(Head(mempool)) \/ RevertDecision(Head(mempool)))

ProofSpec == ProofInit /\ [][ProofNext]_allVars

-----------------------------------------------------------------------------
(* Properties.                                                             *)

\* verifyProof: the hash recomputed from the store is the one on the chain.
VerifiesOnChain(d) == \E r \in RecordsOf(d) : r.hash = EvidenceHash(d)

\* The wallets, proofs, records, transactions and calls name decisions that
\* exist, and there is at most one proof and one record of each decision.
ProofTypeOK ==
  /\ ResponseTypeOK
  /\ wallet \in [Users -> Wallets \union {NoWallet}]
  /\ \A d \in Decisions : Cardinality(ProofsOf(d)) <= 1 /\ Cardinality(RecordsOf(d)) <= 1
  /\ \A x \in proofs \union decisionRecords : x.decision \in Decisions
  /\ \A n \in DOMAIN mempool : mempool[n].decision \in Decisions
  /\ \A c \in Submitters : call[c].pc # "idle" => call[c].decision \in Decisions

\* A challenge registers its wallet once, also when it is answered twice at the
\* same time, and only for the user it was issued to; no two users have one
\* address, although several verifications are in flight.
WalletsAreProved ==
  /\ \A n \in DOMAIN issued : issued[n].uses <= 1
  /\ \A u \in Users : wallet[u] # NoWallet =>
       /\ \A v \in Users \ {u} : wallet[v] # wallet[u]
       /\ \E n \in DOMAIN issued : issued[n] = [user |-> u, wallet |-> wallet[u], uses |-> 1]

\* A confirmed proof verifies: the contract has the decision's hash under the
\* approver's wallet, however submissions of the decision overlapped.
ConfirmedProofVerifies ==
  \A p \in proofs : p.status = "confirmed" =>
     /\ VerifiesOnChain(p.decision)
     /\ \E r \in RecordsOf(p.decision) : r.wallet = p.wallet

\* Only approvals reach the chain, and the record still recomputes from the
\* stored scenario, which later decisions changed.
RecordsAreApprovals ==
  \A r \in decisionRecords :
     DecisionOf(r.decision).decision = "approve" /\ r.hash = EvidenceHash(r.decision)

\* Store and contract agree: there is one proof and one record of a decision at
\* most, a confirmed proof verifies, and what is on the chain is an approval.
ProofsVerify ==
  /\ ProofTypeOK
  /\ ConfirmedProofVerifies
  /\ RecordsAreApprovals

\* "immutable decision evidence" (docs/phase-3-response-decisions.md:10): a proof that was confirmed stays confirmed.
ConfirmedProofStays ==
  [][\A p \in proofs : p.status = "confirmed" => p \in proofs']_allVars
=============================================================================
