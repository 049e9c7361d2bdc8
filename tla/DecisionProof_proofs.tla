------------------------- MODULE DecisionProof_proofs --------------------------
(***************************************************************************)
(* Proofs about response decisions and their proofs on the chain, for any  *)
(* operators, policies, candidate lists, concurrent simulations, wallets,  *)
(* overlapping submissions, faults and bounds.  Of the decisions: the type *)
(* invariant, the quorum, the finality of a rejection, the policy that is  *)
(* met, and the permanence of evidence.  Of the proofs: a user's address   *)
(* is proved and nobody else's, and what the store confirms verifies on    *)
(* the chain.                                                              *)
(***************************************************************************)
EXTENDS DecisionProof, SequenceTheorems, FiniteSetTheorems, TLAPS

-----------------------------------------------------------------------------
(* Response decisions: what each scenario satisfies by itself.             *)

\* All decisions are about the selected option, which passed its policy, each
\* by another operator in an allowed role, approvals only where the policy
\* asks operators; the status says what the decisions add up to.
DecidedOK(s) ==
  /\ s.selected \in DOMAIN s.options
  /\ s.options[s.selected].eligible
  /\ \A k \in DOMAIN s.decisions :
       /\ s.decisions[k].option = s.selected
       /\ s.decisions[k].role \in s.options[s.selected].roles
       /\ s.decisions[k].decision = "approve" => s.options[s.selected].mode = "operator_approved"
  /\ \A j, k \in DOMAIN s.decisions : s.decisions[j].actor = s.decisions[k].actor => j = k
  /\ s.decisions # << >>
  /\ s.status = StatusAfter(s.options[s.selected], s.selected, s.decisions)

ScenarioOK(s) ==
  \/ s.selected = NoOption /\ s.decisions = << >> /\ s.status \in {"awaiting_decision", "blocked"}
  \/ DecidedOK(s)

ResponseInv == ResponseTypeOK /\ \A i \in DOMAIN scenarios : ScenarioOK(scenarios[i])

-----------------------------------------------------------------------------
(* Lemmas.                                                                 *)

\* The record of a scored option is typed, whatever the policy.
LEMMA ScoreOptionType ==
  ASSUME NEW c \in CandidateRecord, NEW p \in PolicyRecord
  PROVE  ScoreOption(c, p) \in OptionRecord
BY DEF CandidateRecord, PolicyRecord, ScoreOption, Eligible, OptionRecord, PolicyModes

\* One decision that may be made leaves the scenario typed and consistent.
LEMMA DecidedIsOK ==
  ASSUME NEW s \in ScenarioRecord, NEW o, NEW u \in Users, NEW role \in Roles,
         NEW d \in {"approve", "reject"}, ScenarioOK(s), MayDecide(s, o, u, role, d)
  PROVE  /\ Decided(s, o, u, role, d) \in ScenarioRecord
         /\ DecidedOK(Decided(s, o, u, role, d))
         /\ s.status \notin Final
         /\ \A k \in DOMAIN s.decisions : Decided(s, o, u, role, d).decisions[k] = s.decisions[k]
         /\ Decided(s, o, u, role, d).options = s.options
<1> DEFINE decision == [option |-> o, actor |-> u, role |-> role, decision |-> d]
           decisions == Append(s.decisions, decision)
           t == Decided(s, o, u, role, d)
<1>1. /\ s.options \in Seq(OptionRecord) /\ s.decisions \in Seq(DecisionRecord)
      /\ o \in DOMAIN s.options /\ s.options[o].eligible /\ s.selected \in {NoOption, o}
      /\ \A k \in VotesFor(o, s.decisions) : s.decisions[k].actor # u
      /\ role \in s.options[o].roles
      /\ d = "approve" => s.options[o].mode = "operator_approved"
      /\ s.status \notin Final
  BY DEF ScenarioRecord, MayDecide
<1>2. o \in Nat \ {0}
  <2>1. DOMAIN s.options = 1..Len(s.options) /\ Len(s.options) \in Nat
    BY <1>1, LenProperties
  <2> QED BY <1>1, <2>1
<1>3. decision \in DecisionRecord
  BY <1>2 DEF DecisionRecord
<1>4. /\ decisions \in Seq(DecisionRecord)
      /\ decisions # << >>
      /\ DOMAIN s.decisions = 1..Len(s.decisions) /\ Len(s.decisions) \in Nat
      /\ DOMAIN decisions = 1..(Len(s.decisions) + 1)
      /\ \A k \in 1..Len(s.decisions) : decisions[k] = s.decisions[k]
      /\ decisions[Len(s.decisions) + 1] = decision
  <2> HIDE DEF decision
  <2> QED BY <1>1, <1>3, AppendProperties, LenProperties
<1>5. t = [options |-> s.options, selected |-> o, decisions |-> decisions,
           status |-> StatusAfter(s.options[o], o, decisions)]
  BY DEF Decided
<1>6. StatusAfter(s.options[o], o, decisions) \in Statuses
  BY DEF StatusAfter, Statuses
<1>7. t \in ScenarioRecord
  <2> HIDE DEF decisions, t
  <2> QED BY <1>1, <1>2, <1>4, <1>5, <1>6 DEF ScenarioRecord
<1>8. \A k \in DOMAIN s.decisions : s.decisions[k].option = o /\ s.decisions[k].actor # u
  <2>1. \A k \in DOMAIN s.decisions : s.decisions[k].option = o
    BY <1>1, EmptySeq, <1>2, <1>4 DEF ScenarioOK, DecidedOK, NoOption
  <2> QED BY <1>1, <2>1 DEF VotesFor
<1>9. \A k \in DOMAIN s.decisions :
        /\ s.decisions[k].role \in s.options[o].roles
        /\ s.decisions[k].decision = "approve" => s.options[o].mode = "operator_approved"
        /\ \A j \in DOMAIN s.decisions : s.decisions[j].actor = s.decisions[k].actor => j = k
  BY <1>1, <1>2, <1>4 DEF ScenarioOK, DecidedOK, NoOption
<1>10. DecidedOK(t)
  <2>1. \A k \in DOMAIN decisions :
          /\ decisions[k].option = o
          /\ decisions[k].role \in s.options[o].roles
          /\ decisions[k].decision = "approve" => s.options[o].mode = "operator_approved"
    <3> HIDE DEF decisions
    <3> QED BY <1>1, <1>4, <1>8, <1>9
  <2>2. \A j, k \in DOMAIN decisions : decisions[j].actor = decisions[k].actor => j = k
    <3>1. decision.actor = u
      OBVIOUS
    <3>2. \A j, k \in 1..Len(s.decisions) : decisions[j].actor = decisions[k].actor => j = k
      <4> HIDE DEF decisions
      <4> QED BY <1>4, <1>9
    <3>3. \A k \in 1..Len(s.decisions) : decisions[k].actor # u
      <4> HIDE DEF decisions
      <4> QED BY <1>4, <1>8
    <3>4. \A k \in DOMAIN decisions :
            \/ k \in 1..Len(s.decisions)
            \/ k = Len(s.decisions) + 1 /\ decisions[k].actor = u
      <4> HIDE DEF decisions, decision
      <4> QED BY <1>4, <3>1
    <3> SUFFICES ASSUME NEW j \in DOMAIN decisions, NEW k \in DOMAIN decisions,
                        decisions[j].actor = decisions[k].actor
                 PROVE  j = k
      OBVIOUS
    <3> HIDE DEF decisions, decision
    <3>5. CASE j \in 1..Len(s.decisions) /\ k \in 1..Len(s.decisions)
      BY <3>2, <3>5
    <3>6. CASE j = Len(s.decisions) + 1 /\ k = Len(s.decisions) + 1
      BY <3>6
    <3> QED BY <3>3, <3>4, <3>5, <3>6
  <2> HIDE DEF decisions, t
  <2> QED BY <1>1, <1>4, <1>5, <2>1, <2>2 DEF DecidedOK
<1> HIDE DEF decisions
<1> QED BY <1>1, <1>4, <1>5, <1>7, <1>10

-----------------------------------------------------------------------------
(* Preservation.                                                           *)

\* The empty store satisfies the invariant.
LEMMA ResponseInitInv == ResponseInit => ResponseInv
<1> SUFFICES ASSUME ResponseInit PROVE ResponseInv
  OBVIOUS
<1>1. NoPolicy \in PolicyRecord
  BY DEF NoPolicy, PolicyRecord
<1>2. ResponseTypeOK
  BY <1>1, EmptySeq DEF ResponseInit, ResponseTypeOK
<1>3. DOMAIN scenarios = {}
  BY DEF ResponseInit
<1> QED BY <1>2, <1>3 DEF ResponseInv

\* Configuring a policy and scoring candidates leave the scenarios alone.
LEMMA PolicyAndScoringInv ==
  ASSUME ResponseInv,
         \/ \E a \in ActionTypes, p \in Policies : UpsertPolicy(a, p)
         \/ \E s \in Simulators, candidates \in Candidates : ScoreCandidates(s, candidates)
  PROVE  ResponseInv' /\ scenarios' = scenarios
<1>1. ASSUME NEW a \in ActionTypes, NEW p \in Policies, UpsertPolicy(a, p)
      PROVE  ResponseInv' /\ scenarios' = scenarios
  BY <1>1, PoliciesAssumption DEF UpsertPolicy, ResponseInv, ResponseTypeOK
<1>2. ASSUME NEW s \in Simulators, NEW candidates \in Candidates, ScoreCandidates(s, candidates)
      PROVE  ResponseInv' /\ scenarios' = scenarios
  <2> DEFINE options == [k \in DOMAIN candidates |->
                           ScoreOption(candidates[k], policies[candidates[k].action])]
  <2>1. candidates \in Seq(CandidateRecord)
    BY CandidatesAssumption
  <2>2. DOMAIN candidates = 1..Len(candidates) /\ Len(candidates) \in Nat
    BY <2>1, LenProperties
  <2>3. \A k \in DOMAIN candidates :
          ScoreOption(candidates[k], policies[candidates[k].action]) \in OptionRecord
    <3> SUFFICES ASSUME NEW k \in DOMAIN candidates
                 PROVE  ScoreOption(candidates[k], policies[candidates[k].action]) \in OptionRecord
      OBVIOUS
    <3>1. candidates[k] \in CandidateRecord
      BY <2>1, <2>2, ElementOfSeq
    <3>2. policies[candidates[k].action] \in PolicyRecord
      BY <3>1 DEF CandidateRecord, ResponseInv, ResponseTypeOK
    <3> QED BY <3>1, <3>2, ScoreOptionType
  <2>4. options \in Seq(OptionRecord)
    <3> HIDE DEF OptionRecord
    <3>1. options \in [1..Len(candidates) -> OptionRecord]
      BY <2>2, <2>3
    <3> HIDE DEF options
    <3>2. options \in UNION {[1..n -> OptionRecord] : n \in Nat}
      BY <2>2, <3>1
    <3> QED BY <3>2, SeqDef, Zenon
  <2>5. simulating' \in [Simulators -> Seq(OptionRecord)]
    <3> HIDE DEF OptionRecord
    <3> QED BY <1>2, <2>4, Zenon DEF ScoreCandidates, ResponseInv, ResponseTypeOK
  <2>6. UNCHANGED <<policies, scenarios, upserts>>
    BY <1>2 DEF ScoreCandidates
  <2> QED BY <2>5, <2>6 DEF ResponseInv, ResponseTypeOK
<1> QED BY <1>1, <1>2

\* Saving a simulation adds a scenario nobody decided yet.
LEMMA SaveScenarioInv ==
  ASSUME NEW s \in Simulators, ResponseInv, SaveScenario(s)
  PROVE  /\ ResponseInv'
         /\ \A i \in DOMAIN scenarios : i \in DOMAIN scenarios' /\ scenarios'[i] = scenarios[i]
<1> DEFINE fresh == [options |-> simulating[s], selected |-> NoOption, decisions |-> << >>,
                     status |-> IF \E o \in DOMAIN simulating[s] : simulating[s][o].eligible
                                THEN "awaiting_decision" ELSE "blocked"]
<1>1. fresh \in ScenarioRecord /\ ScenarioOK(fresh)
  <2>1. simulating[s] \in Seq(OptionRecord) /\ << >> \in Seq(DecisionRecord)
    BY EmptySeq DEF ResponseInv, ResponseTypeOK
  <2> HIDE DEF OptionRecord, DecisionRecord
  <2> QED BY <2>1 DEF ScenarioRecord, ScenarioOK, NoOption, Statuses
<1>2. scenarios' = Append(scenarios, fresh)
  BY DEF SaveScenario
<1> HIDE DEF fresh
<1>3. /\ scenarios' \in Seq(ScenarioRecord)
      /\ DOMAIN scenarios = 1..Len(scenarios) /\ Len(scenarios) \in Nat
      /\ DOMAIN scenarios' = 1..(Len(scenarios) + 1)
      /\ \A i \in DOMAIN scenarios : scenarios'[i] = scenarios[i]
      /\ scenarios'[Len(scenarios) + 1] = fresh
  BY <1>1, <1>2, AppendProperties, LenProperties DEF ResponseInv, ResponseTypeOK
<1>4. simulating' \in [Simulators -> Seq(OptionRecord)]
  <2>1. << >> \in Seq(OptionRecord)
    BY EmptySeq
  <2> HIDE DEF OptionRecord
  <2> QED BY <2>1, Zenon DEF SaveScenario, ResponseInv, ResponseTypeOK
<1>5. UNCHANGED <<policies, upserts>>
  BY DEF SaveScenario
<1>6. \A i \in DOMAIN scenarios' : ScenarioOK(scenarios'[i])
  BY <1>1, <1>3 DEF ResponseInv
<1> QED BY <1>3, <1>4, <1>5, <1>6 DEF ResponseInv, ResponseTypeOK

\* A decision changes one scenario, adds to its decisions, and never touches a
\* final one.
LEMMA RecordDecisionInv ==
  ASSUME NEW i \in DOMAIN scenarios, NEW o, NEW u \in Users, NEW role \in Roles,
         NEW d \in {"approve", "reject"}, ResponseInv, RecordDecision(i, o, u, role, d)
  PROVE  /\ ResponseInv'
         /\ DOMAIN scenarios' = DOMAIN scenarios
         /\ \A j \in DOMAIN scenarios :
              /\ scenarios'[j].options = scenarios[j].options
              /\ \A k \in DOMAIN scenarios[j].decisions :
                   scenarios'[j].decisions[k] = scenarios[j].decisions[k]
              /\ scenarios[j].status \in Final => scenarios'[j] = scenarios[j]
<1> DEFINE t == Decided(scenarios[i], o, u, role, d)
<1>1. /\ scenarios \in Seq(ScenarioRecord) /\ i \in 1..Len(scenarios)
      /\ DOMAIN scenarios = 1..Len(scenarios)
  BY LenProperties DEF ResponseInv, ResponseTypeOK
<1>2. scenarios[i] \in ScenarioRecord /\ ScenarioOK(scenarios[i])
  BY <1>1, ElementOfSeq DEF ResponseInv
<1>3. /\ t \in ScenarioRecord /\ DecidedOK(t) /\ scenarios[i].status \notin Final
      /\ \A k \in DOMAIN scenarios[i].decisions : t.decisions[k] = scenarios[i].decisions[k]
      /\ t.options = scenarios[i].options
  BY <1>2, DecidedIsOK DEF RecordDecision
<1>4. scenarios' = [scenarios EXCEPT ![i] = t]
  BY DEF RecordDecision
<1> HIDE DEF t
<1>5. /\ scenarios' \in Seq(ScenarioRecord) /\ DOMAIN scenarios' = DOMAIN scenarios
      /\ \A j \in DOMAIN scenarios : scenarios'[j] = IF j = i THEN t ELSE scenarios[j]
  BY <1>1, <1>3, <1>4, ExceptSeq
<1>6. \A j \in DOMAIN scenarios' : ScenarioOK(scenarios'[j])
  BY <1>3, <1>5 DEF ResponseInv, ScenarioOK
<1>7. UNCHANGED <<policies, simulating, upserts>>
  BY DEF RecordDecision
<1> QED BY <1>3, <1>5, <1>6, <1>7 DEF ResponseInv, ResponseTypeOK

\* What a step may do to the scenarios that exist.
EvidenceKept ==
  \A i \in DOMAIN scenarios :
     /\ scenarios'[i].options = scenarios[i].options
     /\ \A k \in DOMAIN scenarios[i].decisions :
          scenarios'[i].decisions[k] = scenarios[i].decisions[k]
     /\ scenarios[i].status \in Final => scenarios'[i] = scenarios[i]

\* Every step keeps the invariant and the evidence.
LEMMA ResponseNextInv ==
  ResponseInv /\ [ResponseNext]_responseVars => ResponseInv' /\ EvidenceKept
<1> SUFFICES ASSUME ResponseInv, [ResponseNext]_responseVars
             PROVE  ResponseInv' /\ EvidenceKept
  OBVIOUS
<1>1. CASE \/ \E a \in ActionTypes, p \in Policies : UpsertPolicy(a, p)
           \/ \E s \in Simulators, candidates \in Candidates : ScoreCandidates(s, candidates)
  BY <1>1, PolicyAndScoringInv DEF EvidenceKept
<1>2. CASE \E s \in Simulators : SaveScenario(s)
  BY <1>2, SaveScenarioInv DEF EvidenceKept
<1>3. CASE DecideSomewhere
  BY <1>3, RecordDecisionInv DEF DecideSomewhere, EvidenceKept
<1>4. CASE UNCHANGED responseVars
  BY <1>4 DEF responseVars, ResponseInv, ResponseTypeOK, EvidenceKept
<1> QED BY <1>1, <1>2, <1>3, <1>4 DEF ResponseNext

-----------------------------------------------------------------------------
(* Theorems.                                                               *)

\* What holds of every reachable state of the response workflow.
THEOREM ResponseInvariant == ResponseSpec => []ResponseInv
BY ResponseInitInv, ResponseNextInv, PTL DEF ResponseSpec

\* Policies, simulations in flight and scenarios keep their schemas.
THEOREM ResponseTypeCorrect == ResponseSpec => []ResponseTypeOK
<1>1. ResponseInv => ResponseTypeOK
  BY DEF ResponseInv
<1> QED BY <1>1, ResponseInvariant, PTL

\* Whatever the policies, however many operators: an approved scenario has its
\* quorum of distinct operators in allowed roles and no rejection.
THEOREM Quorum == ResponseSpec => []ApprovalHasQuorum
<1>1. ResponseInv => ApprovalHasQuorum
  <2> SUFFICES ASSUME ResponseInv, NEW i \in DOMAIN scenarios, scenarios[i].status = "approved"
      PROVE  LET s == scenarios[i] IN
             /\ s.selected \in DOMAIN s.options
             /\ s.options[s.selected].eligible
             /\ s.options[s.selected].mode = "operator_approved"
             /\ Cardinality(Approvers(s.selected, s.decisions)) >= s.options[s.selected].required
             /\ \A k \in DOMAIN s.decisions :
                  /\ s.decisions[k].role \in s.options[s.selected].roles
                  /\ s.decisions[k].decision = "approve"
    BY DEF ApprovalHasQuorum
  <2> DEFINE s == scenarios[i]
  <2>1. s \in ScenarioRecord
    BY ElementOfSeq, LenProperties DEF ResponseInv, ResponseTypeOK
  <2>2. DecidedOK(s)
    BY DEF ResponseInv, ScenarioOK
  <2>3. /\ ~Rejected(s.selected, s.decisions)
        /\ Cardinality(Approvers(s.selected, s.decisions)) >= s.options[s.selected].required
    BY <2>2 DEF DecidedOK, StatusAfter
  <2>4. \A k \in DOMAIN s.decisions : s.decisions[k].decision = "approve"
    <3>1. \A k \in DOMAIN s.decisions : s.decisions[k] \in DecisionRecord
      BY <2>1, ElementOfSeq, LenProperties DEF ScenarioRecord
    <3>2. \A k \in DOMAIN s.decisions : s.decisions[k].decision # "reject"
      BY <2>2, <2>3 DEF DecidedOK, Rejected, VotesFor
    <3> QED BY <3>1, <3>2 DEF DecisionRecord
  <2>5. s.options[s.selected].mode = "operator_approved"
    <3>1. 1 \in DOMAIN s.decisions
      <4>1. s.decisions \in Seq(DecisionRecord) /\ s.decisions # << >>
        BY <2>1, <2>2 DEF ScenarioRecord, DecidedOK
      <4> QED BY <4>1, EmptySeq, LenProperties
    <3> QED BY <2>2, <2>4, <3>1 DEF DecidedOK
  <2> QED BY <2>2, <2>3, <2>4, <2>5 DEF DecidedOK
<1> QED BY <1>1, ResponseInvariant, PTL

\* A scenario is rejected exactly when somebody rejected it, its decisions are
\* about one option, and no operator decided twice.
THEOREM OneVote == ResponseSpec => []OneVoteOneOption
<1>1. ResponseInv => OneVoteOneOption
  <2> SUFFICES ASSUME ResponseInv, NEW i \in DOMAIN scenarios
      PROVE  LET s == scenarios[i] IN
             /\ s.status = "rejected" <=> \E k \in DOMAIN s.decisions : s.decisions[k].decision = "reject"
             /\ \A j, k \in DOMAIN s.decisions :
                  /\ s.decisions[j].option = s.selected
                  /\ s.decisions[j].actor = s.decisions[k].actor => j = k
    BY DEF OneVoteOneOption
  <2>1. CASE DecidedOK(scenarios[i])
    BY <2>1 DEF DecidedOK, StatusAfter, Rejected, VotesFor
  <2>2. CASE scenarios[i].decisions = << >> /\ scenarios[i].status \in {"awaiting_decision", "blocked"}
    BY <2>2
  <2> QED BY <2>1, <2>2 DEF ResponseInv, ScenarioOK
<1> QED BY <1>1, ResponseInvariant, PTL

\* Options and decisions are never changed, and a final scenario never again.
THEOREM Evidence == ResponseSpec => DecisionsAreEvidence
<1>1. ResponseInv /\ [ResponseNext]_responseVars => [EvidenceKept]_responseVars
  BY ResponseNextInv
<1>2. ResponseSpec => [][EvidenceKept]_responseVars
  BY <1>1, ResponseInvariant, PTL DEF ResponseSpec
<1> QED BY <1>2, PTL DEF DecisionsAreEvidence, EvidenceKept

-----------------------------------------------------------------------------
(* One policy change.                                                      *)

\* An option that passed was scored under the policy its action has now.
FollowsPolicy(option) ==
  option.eligible =>
    LET p == policies[option.action] IN
    /\ option.mode = "operator_approved" => p.mode = "operator_approved"
    /\ option.required = p.minApprovals
    /\ option.roles = p.roles

\* Until the first change nothing passes, and until the second what passed
\* follows the policy there is.
OptionOK(option) ==
  /\ upserts = 0 => ~option.eligible
  /\ upserts <= 1 => FollowsPolicy(option)

PolicyInv ==
  /\ upserts = 0 => policies = [a \in ActionTypes |-> NoPolicy]
  /\ \A s \in Simulators : \A k \in DOMAIN simulating[s] : OptionOK(simulating[s][k])
  /\ \A i \in DOMAIN scenarios : \A k \in DOMAIN scenarios[i].options :
       OptionOK(scenarios[i].options[k])

\* A change of a policy leaves what passed under one change following it; other
\* steps leave the policies alone.
LEMMA OptionStaysOK ==
  ASSUME ResponseInv, [ResponseNext]_responseVars, NEW option, OptionOK(option)
  PROVE  OptionOK(option)'
<1>0. upserts \in Nat
  BY DEF ResponseInv, ResponseTypeOK
<1>1. CASE \E a \in ActionTypes, p \in Policies : UpsertPolicy(a, p)
  <2>1. upserts' = upserts + 1
    BY <1>1 DEF UpsertPolicy
  <2> QED
    BY <1>0, <2>1 DEF OptionOK, FollowsPolicy
<1>2. CASE UNCHANGED <<policies, upserts>>
  BY <1>2 DEF OptionOK, FollowsPolicy
<1> QED
  BY <1>1, <1>2 DEF ResponseNext, ScoreCandidates, SaveScenario, DecideSomewhere, RecordDecision,
                    responseVars

\* An option is scored under the policy it is read with.
LEMMA ScoredIsOK ==
  ASSUME PolicyInv, NEW c \in CandidateRecord
  PROVE  OptionOK(ScoreOption(c, policies[c.action]))
<1>1. FollowsPolicy(ScoreOption(c, policies[c.action]))
  BY DEF FollowsPolicy, ScoreOption
<1>2. upserts = 0 => ~ScoreOption(c, policies[c.action]).eligible
  BY DEF PolicyInv, ScoreOption, Eligible, NoPolicy, CandidateRecord
<1> QED
  BY <1>1, <1>2 DEF OptionOK

\* Options that passed keep following the policy of their action.
LEMMA PolicyNextInv ==
  ResponseInv /\ PolicyInv /\ [ResponseNext]_responseVars => PolicyInv'
<1> SUFFICES ASSUME ResponseInv, PolicyInv, [ResponseNext]_responseVars
             PROVE  PolicyInv'
  OBVIOUS
<1>0. upserts \in Nat /\ ResponseTypeOK
  BY DEF ResponseInv, ResponseTypeOK
<1>1. ASSUME NEW s \in Simulators, NEW k \in DOMAIN simulating'[s]
      PROVE  OptionOK(simulating'[s][k])
  <2>1. CASE simulating'[s] = simulating[s]
    BY <2>1 DEF PolicyInv
  <2>2. ASSUME NEW r \in Simulators, NEW candidates \in Candidates, ScoreCandidates(r, candidates),
               simulating'[s] # simulating[s]
        PROVE  OptionOK(simulating'[s][k])
    <3>1. simulating'[s] = [j \in DOMAIN candidates |->
                              ScoreOption(candidates[j], policies[candidates[j].action])]
      BY <1>0, <2>2 DEF ScoreCandidates, ResponseTypeOK
    <3>2. candidates[k] \in CandidateRecord
      BY <3>1, CandidatesAssumption, ElementOfSeq, LenProperties
    <3> QED
      BY <3>1, <3>2, ScoredIsOK
  <2>3. CASE \E r \in Simulators : SaveScenario(r)
    BY <1>0, <2>1, <2>3 DEF SaveScenario, ResponseTypeOK
  <2>4. CASE ~\E r \in Simulators : SaveScenario(r)
    <3>1. CASE \E r \in Simulators, candidates \in Candidates : ScoreCandidates(r, candidates)
      BY <2>1, <2>2, <3>1, Zenon
    <3> QED
      BY <2>1, <2>4, <3>1 DEF ResponseNext, UpsertPolicy, DecideSomewhere, RecordDecision, responseVars
  <2> QED
    BY <2>3, <2>4
<1>2. ASSUME NEW i \in DOMAIN scenarios', NEW k \in DOMAIN scenarios'[i].options
      PROVE  OptionOK(scenarios'[i].options[k])
  <2>1. ASSUME NEW r \in Simulators, SaveScenario(r)
        PROVE  OptionOK(scenarios'[i].options[k])
    <3>1. PICK x : x.options = simulating[r] /\ scenarios' = Append(scenarios, x)
      BY <2>1 DEF SaveScenario
    <3>2. (i \in DOMAIN scenarios /\ scenarios'[i] = scenarios[i]) \/ scenarios'[i] = x
      BY <1>0, <3>1, LenProperties DEF ResponseTypeOK
    <3> QED
      BY <3>1, <3>2 DEF PolicyInv
  <2>2. CASE DecideSomewhere
    <3>1. i \in DOMAIN scenarios /\ scenarios'[i].options = scenarios[i].options
      BY <2>2, RecordDecisionInv DEF DecideSomewhere
    <3> QED
      BY <3>1 DEF PolicyInv
  <2>3. CASE scenarios' = scenarios
    BY <2>3 DEF PolicyInv
  <2> QED
    BY <2>1, <2>2, <2>3 DEF ResponseNext, UpsertPolicy, ScoreCandidates, responseVars
<1>3. upserts' = 0 => policies' = [a \in ActionTypes |-> NoPolicy]
  <2>1. CASE \E a \in ActionTypes, p \in Policies : UpsertPolicy(a, p)
    <3>1. upserts' = upserts + 1
      BY <2>1 DEF UpsertPolicy
    <3> QED
      BY <1>0, <3>1
  <2>2. CASE UNCHANGED <<policies, upserts>>
    BY <2>2 DEF PolicyInv
  <2> QED
    BY <2>1, <2>2 DEF ResponseNext, ScoreCandidates, SaveScenario, DecideSomewhere, RecordDecision,
                      responseVars
<1>4. \A x : OptionOK(x) => OptionOK(x)'
  BY OptionStaysOK
<1> QED
  BY <1>1, <1>2, <1>3, <1>4 DEF PolicyInv

\* While policies are set once at most, an approval meets the policy that its
\* action has, however long before it was read.
THEOREM MeetsOnlyPolicy == ResponseSpec => []ApprovalMeetsOnlyPolicy
<1>1. ResponseInit => PolicyInv
  BY DEF ResponseInit, PolicyInv
<1>2. ResponseSpec => []PolicyInv
  BY <1>1, PolicyNextInv, ResponseInvariant, PTL DEF ResponseSpec
<1>3. ResponseInv /\ ApprovalHasQuorum /\ PolicyInv => ApprovalMeetsOnlyPolicy
  <2> SUFFICES ASSUME ApprovalHasQuorum, PolicyInv, upserts <= 1,
                      NEW i \in DOMAIN scenarios, scenarios[i].status = "approved"
               PROVE  LET s == scenarios[i]
                      IN  MeetsPolicy(s, policies[s.options[s.selected].action])
    BY DEF ApprovalMeetsOnlyPolicy
  <2> DEFINE s == scenarios[i]
             option == s.options[s.selected]
  <2>1. /\ s.selected \in DOMAIN s.options /\ option.eligible /\ option.mode = "operator_approved"
        /\ Cardinality(Approvers(s.selected, s.decisions)) >= option.required
        /\ \A k \in DOMAIN s.decisions : s.decisions[k].role \in option.roles
    BY DEF ApprovalHasQuorum
  <2>2. OptionOK(option)
    BY <2>1 DEF PolicyInv
  <2>3. FollowsPolicy(option)
    BY <2>2 DEF OptionOK
  <2> QED
    BY <2>1, <2>3 DEF FollowsPolicy, MeetsPolicy
<1> QED
  BY <1>2, <1>3, ResponseInvariant, Quorum, PTL

-----------------------------------------------------------------------------
(* Decision proofs: the inductive invariant.                               *)

Challenge == [user : Users, wallet : Wallets, uses : {0, 1}]

\* A challenge is pending or taken at most once, and has not been used then.
ChallengesOK ==
  /\ issued \in Seq(Challenge)
  /\ challenges \in [Users -> 0..Len(issued)]
  /\ registering \in [Submitters -> 0..Len(issued)]
  /\ \A u \in Users : challenges[u] # 0 =>
       /\ issued[challenges[u]].user = u /\ issued[challenges[u]].uses = 0
       /\ \A c \in Submitters : registering[c] # challenges[u]
  /\ \A c \in Submitters : registering[c] # 0 =>
       /\ issued[registering[c]].uses = 0
       /\ \A b \in Submitters \ {c} : registering[b] # registering[c]

WalletInv ==
  /\ wallet \in [Users -> Wallets \union {NoWallet}]
  /\ ChallengesOK
  /\ WalletsAreProved

\* The evidence hash of a decision is modelled by the record it is computed from.
Name == Nat \X Nat
Hash == [decision : Name, option : OptionRecord, actor : Users]

CallRecord == [pc : {"checked", "sent", "mined", "failed"}, decision : Name, wallet : Wallets,
               hash : Hash, signer : Wallets, id : Nat]
TransactionRecord == [caller : Submitters, id : Nat, decision : Name, hash : Hash,
                      wallet : Wallets, signer : Wallets]
ChainRecord == [decision : Name, hash : Hash, wallet : Wallets]
ProofRecord == [decision : Name, hash : Hash, wallet : Wallets, status : {"confirmed", "failed"}]

ChainTypes ==
  /\ proofs \subseteq ProofRecord
  /\ decisionRecords \subseteq ChainRecord
  /\ mempool \in Seq(TransactionRecord)
  /\ call \in [Submitters -> {IdleCall} \union CallRecord]
  /\ submissions \in Nat

\* What is about to go to the chain, is on its way, is there, or is stored about
\* it is the hash of an approval that exists.
HashesApproval(x) ==
  /\ x.decision \in Decisions
  /\ DecisionOf(x.decision).decision = "approve"
  /\ x.hash = EvidenceHash(x.decision)

HashesOK ==
  /\ \A p \in proofs : HashesApproval(p)
  /\ \A r \in decisionRecords : HashesApproval(r)
  /\ \A n \in DOMAIN mempool : HashesApproval(mempool[n])
  /\ \A c \in Submitters : call[c].pc # "idle" => HashesApproval(call[c])

\* A record of the decision with the wallet.
Recorded(x) == \E r \in decisionRecords : r.decision = x.decision /\ r.wallet = x.wallet

\* What was told to be mined, or confirmed, is recorded; a decision has one
\* record and one proof.
RecordsOK ==
  /\ \A p \in proofs : p.status = "confirmed" => Recorded(p)
  /\ \A c \in Submitters : call[c].pc = "mined" => Recorded(call[c])
  /\ \A p, q \in proofs : p.decision = q.decision => p = q
  /\ \A p, q \in decisionRecords : p.decision = q.decision => p = q

\* A transaction that its caller may still wait for is the caller's.
TransactionsOK ==
  /\ \A n \in DOMAIN mempool :
       LET t == mempool[n]
           k == call[t.caller]
       IN /\ t.id < submissions
          /\ k.pc # "idle" /\ k.id = t.id => k.decision = t.decision /\ k.wallet = t.wallet
  /\ \A c \in Submitters : call[c].pc # "idle" => call[c].id < submissions

ProofInv ==
  /\ ResponseInv
  /\ WalletInv
  /\ ChainTypes /\ HashesOK /\ RecordsOK /\ TransactionsOK

-----------------------------------------------------------------------------
(* Decisions and their hashes.                                             *)

\* A decision is the k-th of a scenario.
LEMMA DecisionNames ==
  ASSUME NEW d
  PROVE  d \in Decisions <=> \E i \in DOMAIN scenarios : \E k \in DOMAIN scenarios[i].decisions :
                               d = <<i, k>>
BY DEF Decisions

\* Names and hashes of decisions are typed.
LEMMA DecisionTypes ==
  ASSUME ResponseInv, NEW d \in Decisions
  PROVE  d \in Name /\ EvidenceHash(d) \in Hash /\ DecisionOf(d) \in DecisionRecord
<1>0. PICK i \in DOMAIN scenarios : \E k \in DOMAIN scenarios[i].decisions : d = <<i, k>>
  BY DecisionNames
<1>1. PICK k \in DOMAIN scenarios[i].decisions : d = <<i, k>>
  BY <1>0
<1>2. /\ scenarios \in Seq(ScenarioRecord) /\ i \in Nat
      /\ scenarios[i] \in ScenarioRecord
  BY <1>1, ElementOfSeq, LenProperties DEF ResponseInv, ResponseTypeOK
<1>3. /\ scenarios[i].decisions \in Seq(DecisionRecord) /\ scenarios[i].options \in Seq(OptionRecord)
  BY <1>2 DEF ScenarioRecord
<1>4. k \in Nat /\ scenarios[i].decisions[k] \in DecisionRecord
  BY <1>1, <1>3, ElementOfSeq, LenProperties
<1>5. DecidedOK(scenarios[i])
  <2>1. scenarios[i].decisions # << >>
    BY <1>1
  <2> QED
    BY <1>1, <2>1 DEF ResponseInv, ScenarioOK
<1>6. scenarios[i].decisions[k].option \in DOMAIN scenarios[i].options
  BY <1>1, <1>5 DEF DecidedOK
<1>7. scenarios[i].options[scenarios[i].decisions[k].option] \in OptionRecord
  BY <1>3, <1>6, ElementOfSeq, LenProperties
<1>8. d \in Name /\ DecisionOf(d) = scenarios[i].decisions[k]
  BY <1>1, <1>2, <1>4 DEF Name, DecisionOf
<1>9. EvidenceHash(d) = [decision |-> d, option |-> scenarios[i].options[scenarios[i].decisions[k].option],
                         actor |-> scenarios[i].decisions[k].actor]
  BY <1>1, <1>8 DEF EvidenceHash
<1>10. scenarios[i].decisions[k].actor \in Users
  BY <1>4 DEF DecisionRecord
<1> HIDE DEF OptionRecord
<1> QED
  BY <1>4, <1>7, <1>8, <1>9, <1>10 DEF Hash

\* A scenario is only added to by a step of the response workflow.
LEMMA ScenariosGrow ==
  ASSUME ResponseInv, [ResponseNext]_responseVars, NEW i \in DOMAIN scenarios
  PROVE  /\ i \in DOMAIN scenarios'
         /\ DOMAIN scenarios[i].decisions \subseteq DOMAIN scenarios'[i].decisions
         /\ \A k \in DOMAIN scenarios[i].decisions :
              scenarios'[i].decisions[k] = scenarios[i].decisions[k]
         /\ scenarios'[i].options = scenarios[i].options
<1>1. /\ scenarios'[i].options = scenarios[i].options
      /\ \A k \in DOMAIN scenarios[i].decisions :
           scenarios'[i].decisions[k] = scenarios[i].decisions[k]
  BY ResponseNextInv DEF EvidenceKept
<1>2. /\ i \in DOMAIN scenarios'
      /\ DOMAIN scenarios[i].decisions \subseteq DOMAIN scenarios'[i].decisions
  <2>1. CASE scenarios' = scenarios
    BY <2>1
  <2>2. CASE \E s \in Simulators : SaveScenario(s)
    BY <2>2, SaveScenarioInv
  <2>3. ASSUME NEW j \in DOMAIN scenarios, NEW u \in Users, NEW role \in Roles,
               NEW a \in {"approve", "reject"}, NEW o \in DOMAIN scenarios[j].options,
               RecordDecision(j, o, u, role, a)
        PROVE  /\ i \in DOMAIN scenarios'
               /\ DOMAIN scenarios[i].decisions \subseteq DOMAIN scenarios'[i].decisions
    <3>1. scenarios' = [scenarios EXCEPT ![j] = Decided(scenarios[j], o, u, role, a)]
      BY <2>3 DEF RecordDecision
    <3> DEFINE x == [option |-> o, actor |-> u, role |-> role, decision |-> a]
    <3>3. /\ scenarios[j].decisions \in Seq(DecisionRecord) /\ scenarios[j].options \in Seq(OptionRecord)
      <4>1. scenarios \in Seq(ScenarioRecord)
        BY DEF ResponseInv, ResponseTypeOK
      <4>2. scenarios[j] \in ScenarioRecord
        BY <4>1, ElementOfSeq, LenProperties
      <4> QED
        BY <4>2, Zenon DEF ScenarioRecord
    <3>4. x \in DecisionRecord
      BY <3>3, LenProperties DEF DecisionRecord
    <3>5. Decided(scenarios[j], o, u, role, a).decisions = Append(scenarios[j].decisions, x)
      BY DEF Decided
    <3> HIDE DEF x
    <3>6. DOMAIN scenarios[j].decisions \subseteq DOMAIN Append(scenarios[j].decisions, x)
      BY <3>3, <3>4, LenProperties, AppendProperties
    <3> QED
      BY <3>1, <3>5, <3>6
  <2>4. CASE DecideSomewhere
    BY <2>3, <2>4, Zenon DEF DecideSomewhere
  <2> QED
    BY <2>1, <2>2, <2>4 DEF ResponseNext, UpsertPolicy, ScoreCandidates, responseVars
<1> QED
  BY <1>1, <1>2

\* The canonical record of a decision is never another one later.
LEMMA HashesStay ==
  ASSUME ResponseInv, [ResponseNext]_responseVars, NEW x, HashesApproval(x)
  PROVE  HashesApproval(x)'
<1>0. PICK i \in DOMAIN scenarios : \E k \in DOMAIN scenarios[i].decisions : x.decision = <<i, k>>
  BY DecisionNames DEF HashesApproval
<1>1. PICK k \in DOMAIN scenarios[i].decisions : x.decision = <<i, k>>
  BY <1>0
<1>2. /\ i \in DOMAIN scenarios' /\ k \in DOMAIN scenarios'[i].decisions
      /\ scenarios'[i].decisions[k] = scenarios[i].decisions[k]
      /\ scenarios'[i].options = scenarios[i].options
  BY <1>1, ScenariosGrow
<1>3. (x.decision \in Decisions)'
  BY <1>1, <1>2 DEF Decisions
<1>4. DecisionOf(x.decision)' = DecisionOf(x.decision)
  BY <1>1, <1>2 DEF DecisionOf
<1>5. EvidenceHash(x.decision)' = EvidenceHash(x.decision)
  BY <1>1, <1>2, <1>4 DEF EvidenceHash
<1> QED
  BY <1>3, <1>4, <1>5 DEF HashesApproval

-----------------------------------------------------------------------------
(* Wallets.                                                                *)

\* What the wallet steps leave alone keeps what is said of it.
LEMMA WalletStepsApart ==
  ASSUME ProofInv, UNCHANGED otherVars
  PROVE  ResponseInv' /\ ChainTypes' /\ HashesOK' /\ RecordsOK' /\ TransactionsOK'
<1> USE DEF ProofInv, otherVars, responseVars
<1>1. ResponseInv'
  BY DEF ResponseInv, ResponseTypeOK
<1>2. ChainTypes'
  BY DEF ChainTypes
<1>3. HashesOK'
  <2>1. \A x : HashesApproval(x) => HashesApproval(x)'
    BY HashesStay
  <2> QED
    BY <2>1 DEF HashesOK
<1>4. RecordsOK'
  BY DEF RecordsOK, Recorded
<1>5. TransactionsOK'
  BY DEF TransactionsOK
<1> QED
  BY <1>1, <1>2, <1>3, <1>4, <1>5

\* A new challenge replaces the pending one of the user.
LEMMA IssueInv ==
  ASSUME ProofInv, NEW u \in Users, NEW w \in Wallets, IssueChallenge(u, w)
  PROVE  WalletInv'
<1> DEFINE x == [user |-> u, wallet |-> w, uses |-> 0]
<1> USE DEF ProofInv, WalletInv
<1>1. issued \in Seq(Challenge) /\ x \in Challenge
  BY DEF ChallengesOK, Challenge
<1>2. /\ issued' = Append(issued, x) /\ wallet' = wallet /\ registering' = registering
      /\ challenges' = [challenges EXCEPT ![u] = Len(issued) + 1]
  BY DEF IssueChallenge
<1>3. /\ issued' \in Seq(Challenge) /\ Len(issued') = Len(issued) + 1 /\ Len(issued) \in Nat
      /\ \A n \in 1..Len(issued) : issued'[n] = issued[n]
      /\ issued'[Len(issued) + 1] = x
      /\ DOMAIN issued = 1..Len(issued) /\ DOMAIN issued' = 1..(Len(issued) + 1)
  <2> HIDE DEF x
  <2> QED
    BY <1>1, <1>2, AppendProperties, LenProperties
<1>4. x.user = u /\ x.uses = 0
  OBVIOUS
<1> HIDE DEF x
<1>5. /\ challenges' \in [Users -> 0..Len(issued')] /\ registering' \in [Submitters -> 0..Len(issued')]
      /\ challenges'[u] = Len(issued) + 1 /\ \A v \in Users \ {u} : challenges'[v] = challenges[v]
  BY <1>2, <1>3 DEF ChallengesOK
<1>6. ChallengesOK'
  <2>1. ASSUME NEW v \in Users, challenges'[v] # 0
        PROVE  /\ issued'[challenges'[v]].user = v /\ issued'[challenges'[v]].uses = 0
               /\ \A c \in Submitters : registering'[c] # challenges'[v]
    <3>1. CASE v = u
      BY <1>2, <1>3, <1>4, <1>5, <3>1 DEF ChallengesOK
    <3>2. CASE v # u
      BY <1>2, <1>3, <1>5, <2>1, <3>2 DEF ChallengesOK
    <3> QED
      BY <3>1, <3>2
  <2>2. ASSUME NEW c \in Submitters, registering'[c] # 0
        PROVE  /\ issued'[registering'[c]].uses = 0
               /\ \A b \in Submitters \ {c} : registering'[b] # registering'[c]
    BY <1>2, <1>3, <2>2 DEF ChallengesOK
  <2> QED
    BY <1>3, <1>5, <2>1, <2>2 DEF ChallengesOK
<1>7. WalletsAreProved'
  <2>1. \A n \in DOMAIN issued' : issued'[n].uses <= 1
    BY <1>3, <1>4 DEF WalletsAreProved
  <2> QED
    BY <1>2, <1>3, <2>1 DEF WalletsAreProved
<1> QED
  BY <1>2, <1>6, <1>7

\* A pending challenge is lost, by time, a restart or an answer that takes it.
LEMMA DropInv ==
  ASSUME ProofInv, wallet' = wallet, issued' = issued,
         challenges' \in [Users -> 0..Len(issued)],
         \A u \in Users : challenges'[u] \in {challenges[u], 0},
         registering' \in [Submitters -> 0..Len(issued)],
         \A c \in Submitters : registering'[c] \in {registering[c], 0}
  PROVE  WalletInv'
BY DEF ProofInv, WalletInv, ChallengesOK, WalletsAreProved

\* One answer takes the pending challenge.
LEMMA VerifyInv ==
  ASSUME ProofInv, NEW c \in Submitters, NEW u \in Users, VerifyWallet(c, u)
  PROVE  WalletInv'
<1> USE DEF ProofInv, WalletInv
<1>1. /\ wallet' = wallet /\ issued' = issued /\ registering[c] = 0 /\ challenges[u] # 0
      /\ registering' = [registering EXCEPT ![c] = challenges[u]]
      /\ challenges' = [challenges EXCEPT ![u] = 0]
  BY DEF VerifyWallet
<1>2. Len(issued) \in Nat
  BY LenProperties DEF ChallengesOK
<1>3. /\ registering' \in [Submitters -> 0..Len(issued)] /\ challenges' \in [Users -> 0..Len(issued)]
      /\ registering'[c] = challenges[u] /\ challenges'[u] = 0
      /\ \A b \in Submitters \ {c} : registering'[b] = registering[b]
      /\ \A v \in Users \ {u} : challenges'[v] = challenges[v]
  BY <1>1, <1>2 DEF ChallengesOK
<1>4. \A v \in Users \ {u} : challenges[v] # 0 => challenges[v] # challenges[u]
  BY <1>1 DEF ChallengesOK
<1>5. ASSUME NEW v \in Users, challenges'[v] # 0
      PROVE  /\ issued[challenges'[v]].user = v /\ issued[challenges'[v]].uses = 0
             /\ \A b \in Submitters : registering'[b] # challenges'[v]
  BY <1>3, <1>4, <1>5 DEF ChallengesOK
<1>6. ASSUME NEW a \in Submitters, registering'[a] # 0
      PROVE  /\ issued[registering'[a]].uses = 0
             /\ \A b \in Submitters \ {a} : registering'[b] # registering'[a]
  <2>1. CASE a = c
    BY <1>1, <1>3, <2>1 DEF ChallengesOK
  <2>2. CASE a # c
    BY <1>1, <1>3, <1>6, <2>2 DEF ChallengesOK
  <2> QED
    BY <2>1, <2>2
<1> QED
  BY <1>1, <1>3, <1>5, <1>6 DEF ChallengesOK, WalletsAreProved

\* The address is stored for the user the challenge was issued to, unless
\* another user has it.
LEMMA SetWalletInv ==
  ASSUME ProofInv, NEW c \in Submitters, SetWalletAddress(c)
  PROVE  WalletInv'
<1> DEFINE n == registering[c]
           x == issued[n]
           y == [x EXCEPT !.uses = x.uses + 1]
<1> USE DEF ProofInv, WalletInv
<1>1. /\ issued \in Seq(Challenge) /\ DOMAIN issued = 1..Len(issued) /\ Len(issued) \in Nat
      /\ n \in 1..Len(issued) /\ x \in Challenge /\ x.uses = 0
  BY LenProperties, ElementOfSeq DEF ChallengesOK, SetWalletAddress
<1>2. CASE UNCHANGED <<wallet, issued>>
  BY <1>1, <1>2, DropInv DEF SetWalletAddress, ChallengesOK
<1>3. CASE /\ ~\E v \in Users \ {x.user} : wallet[v] = x.wallet
           /\ wallet' = [wallet EXCEPT ![x.user] = x.wallet]
           /\ issued' = [issued EXCEPT ![n].uses = @ + 1]
  <2>1. /\ y \in Challenge /\ y.user = x.user /\ y.wallet = x.wallet /\ y.uses = 1
        /\ y = [user |-> x.user, wallet |-> x.wallet, uses |-> 1]
    BY <1>1 DEF Challenge
  <2>2. issued' = [issued EXCEPT ![n] = y]
    BY <1>3
  <2> HIDE DEF n, y, x
  <2>3. /\ issued' \in Seq(Challenge) /\ Len(issued') = Len(issued) /\ DOMAIN issued' = DOMAIN issued
        /\ issued'[n] = y /\ \A m \in DOMAIN issued \ {n} : issued'[m] = issued[m]
    BY <1>1, <2>1, <2>2, ExceptSeq
  <2>4. /\ registering' = [registering EXCEPT ![c] = 0] /\ challenges' = challenges
    BY DEF SetWalletAddress
  <2>5. /\ registering' \in [Submitters -> 0..Len(issued)] /\ registering'[c] = 0
        /\ \A b \in Submitters \ {c} : registering'[b] = registering[b] /\ registering'[b] # n
    BY <1>1, <2>4 DEF ChallengesOK, n
  <2>6. \A v \in Users : challenges'[v] # n
    BY <1>1, <2>4 DEF ChallengesOK, n
  <2>7. ChallengesOK'
    BY <1>1, <2>3, <2>4, <2>5, <2>6 DEF ChallengesOK
  <2>8. x.user \in Users /\ x.wallet \in Wallets
    BY <1>1 DEF Challenge
  <2>9. /\ wallet' \in [Users -> Wallets \union {NoWallet}] /\ wallet'[x.user] = x.wallet
        /\ \A v \in Users \ {x.user} : wallet'[v] = wallet[v] /\ wallet[v] # x.wallet
    BY <1>3, <2>8
  <2>10. \A m \in DOMAIN issued' : issued'[m].uses <= 1
    BY <1>1, <2>1, <2>3 DEF WalletsAreProved
  <2>11. ASSUME NEW u \in Users, wallet'[u] # NoWallet
         PROVE  /\ \A v \in Users \ {u} : wallet'[v] # wallet'[u]
                /\ \E m \in DOMAIN issued' :
                     issued'[m] = [user |-> u, wallet |-> wallet'[u], uses |-> 1]
    <3>1. CASE u = x.user
      BY <1>1, <2>1, <2>3, <2>9, <3>1
    <3>2. CASE u # x.user
      <4>1. PICK m \in DOMAIN issued : issued[m] = [user |-> u, wallet |-> wallet[u], uses |-> 1]
        BY <2>9, <2>11, <3>2 DEF WalletsAreProved
      <4>2. m # n
        BY <1>1, <4>1 DEF x
      <4> QED
        BY <2>3, <2>9, <2>11, <3>2, <4>1, <4>2 DEF WalletsAreProved
    <3> QED
      BY <3>1, <3>2
  <2> QED
    BY <2>7, <2>9, <2>10, <2>11 DEF WalletsAreProved
<1> QED
  BY <1>2, <1>3 DEF SetWalletAddress

-----------------------------------------------------------------------------
(* Submissions.                                                            *)

chainVars == <<proofs, decisionRecords, mempool, call, submissions>>

\* A step of the chain or of a submission is apart from the decisions and the
\* wallets, which it only reads.
LEMMA ChainStepsApart ==
  ASSUME ProofInv, UNCHANGED <<responseVars, walletVars>>
  PROVE  /\ ResponseInv' /\ WalletInv'
         /\ \A x : HashesApproval(x) => HashesApproval(x)'
<1>1. ResponseInv'
  BY DEF ProofInv, responseVars, ResponseInv, ResponseTypeOK
<1>2. WalletInv'
  BY DEF ProofInv, walletVars, WalletInv, ChallengesOK, WalletsAreProved
<1>3. \A x : HashesApproval(x) => HashesApproval(x)'
  BY HashesStay DEF ProofInv
<1> QED
  BY <1>1, <1>2, <1>3

\* A submission of an approval begins; its number is new.
LEMMA RequestInv ==
  ASSUME ProofInv, NEW c \in Submitters, NEW d \in Decisions, NEW w \in Wallets,
         RequestAnchor(c, d, w)
  PROVE  ProofInv'
<1> DEFINE k == [pc |-> "checked", decision |-> d, wallet |-> w, hash |-> EvidenceHash(d),
                 signer |-> w, id |-> submissions]
<1> USE DEF ProofInv
<1>1. /\ call' = [call EXCEPT ![c] = k] /\ submissions' = submissions + 1
      /\ call[c].pc = "idle"
      /\ UNCHANGED <<responseVars, walletVars, proofs, decisionRecords, mempool>>
  BY DEF RequestAnchor
<1>2. /\ d \in Name /\ EvidenceHash(d) \in Hash /\ submissions \in Nat
  BY DecisionTypes DEF ChainTypes
<1>3. k \in CallRecord
  BY <1>2 DEF CallRecord
<1>4. HashesApproval(k)
  <2>1. DecisionOf(d).decision = "approve"
    BY DEF RequestAnchor, ProofsOf, HashesOK, HashesApproval
  <2> QED
    BY <2>1 DEF HashesApproval
<1>5. k.pc = "checked" /\ k.id = submissions
  OBVIOUS
<1> HIDE DEF k
<1>6. call'[c] = k /\ \A b \in Submitters \ {c} : call'[b] = call[b]
  BY <1>1 DEF ChainTypes
<1>7. ChainTypes'
  BY <1>1, <1>2, <1>3, <1>6 DEF ChainTypes
<1>8. ResponseInv' /\ WalletInv' /\ \A x : HashesApproval(x) => HashesApproval(x)'
  BY <1>1, ChainStepsApart
<1>9. HashesOK'
  BY <1>1, <1>4, <1>6, <1>8 DEF HashesOK
<1>10. RecordsOK'
  BY <1>1, <1>5, <1>6 DEF RecordsOK, Recorded
<1>11. TransactionsOK'
  <2>1. \A n \in DOMAIN mempool : mempool[n] \in TransactionRecord
    BY ElementOfSeq, LenProperties DEF ChainTypes
  <2>2. \A n \in DOMAIN mempool : mempool[n].id \in Nat /\ mempool[n].caller \in Submitters
    BY <2>1 DEF TransactionRecord
  <2>3. \A b \in Submitters : call[b].pc # "idle" => call[b].id \in Nat
    BY DEF ChainTypes, CallRecord, IdleCall
  <2>4. ASSUME NEW n \in DOMAIN mempool
        PROVE  /\ mempool[n].id < submissions'
               /\ call'[mempool[n].caller].pc # "idle" /\ call'[mempool[n].caller].id = mempool[n].id
                    => /\ call'[mempool[n].caller].decision = mempool[n].decision
                       /\ call'[mempool[n].caller].wallet = mempool[n].wallet
    BY <1>1, <1>2, <1>5, <1>6, <2>2 DEF TransactionsOK
  <2>5. \A b \in Submitters : call'[b].pc # "idle" => call'[b].id < submissions'
    BY <1>1, <1>2, <1>5, <1>6, <2>3 DEF TransactionsOK
  <2> QED
    BY <1>1, <2>4, <2>5 DEF TransactionsOK
<1> QED
  BY <1>7, <1>8, <1>9, <1>10, <1>11

\* A submission moves on: its transaction may go out, nothing is mined by it.
LEMMA GotoInv ==
  ASSUME ProofInv, NEW c \in Submitters, NEW pc \in {"checked", "sent", "mined", "failed"},
         call[c].pc # "idle", Goto(c, pc), pc = "mined" => Recorded(call[c]),
         UNCHANGED <<proofs, decisionRecords, submissions>>,
         \A x : HashesApproval(x) => HashesApproval(x)'
  PROVE  /\ call' \in [Submitters -> {IdleCall} \union CallRecord]
         /\ \A b \in Submitters : call'[b].pc # "idle" => HashesApproval(call[b])'
         /\ RecordsOK'
         /\ \A b \in Submitters : /\ call'[b].pc = "idle" <=> call[b].pc = "idle"
                                  /\ call'[b].pc # "idle" =>
                                       /\ call'[b].id = call[b].id
                                       /\ call'[b].decision = call[b].decision
                                       /\ call'[b].wallet = call[b].wallet
<1> DEFINE k == [call[c] EXCEPT !.pc = pc]
<1> USE DEF ProofInv
<1>1. call[c] \in CallRecord
  BY DEF ChainTypes, IdleCall
<1>2. /\ call' = [call EXCEPT ![c] = k] /\ call'[c] = k
      /\ \A b \in Submitters \ {c} : call'[b] = call[b]
  BY DEF Goto, ChainTypes
<1>3. k \in CallRecord
  BY <1>1 DEF CallRecord
<1>4. /\ k.pc = pc /\ k.id = call[c].id /\ k.decision = call[c].decision /\ k.wallet = call[c].wallet
      /\ k.hash = call[c].hash
  BY <1>1 DEF CallRecord
<1> HIDE DEF k
<1>5. call' \in [Submitters -> {IdleCall} \union CallRecord]
  BY <1>2, <1>3 DEF ChainTypes
<1>6. HashesApproval(k)
  BY <1>4 DEF HashesOK, HashesApproval
<1>7. \A b \in Submitters : call'[b].pc # "idle" => HashesApproval(call'[b])
  BY <1>2, <1>6 DEF HashesOK
<1>8. RecordsOK'
  BY <1>2, <1>4 DEF RecordsOK, Recorded
<1> QED
  BY <1>2, <1>4, <1>5, <1>7, <1>8

\* A transaction goes out once, or not; the node may not answer.
LEMMA SubmitInv ==
  ASSUME ProofInv, NEW c \in Submitters, Send(c) \/ SendRefused(c) \/ ChainUnreachable(c)
  PROVE  ProofInv'
<1> USE DEF ProofInv
<1>1. /\ UNCHANGED <<responseVars, walletVars>> /\ UNCHANGED <<proofs, decisionRecords, submissions>>
      /\ call[c].pc # "idle"
  BY DEF Send, SendRefused, ChainUnreachable
<1>2. ResponseInv' /\ WalletInv' /\ \A x : HashesApproval(x) => HashesApproval(x)'
  BY <1>1, ChainStepsApart
<1>3. PICK pc \in {"sent", "failed"} : Goto(c, pc)
  BY DEF Send, SendRefused, ChainUnreachable
<1>4. /\ call' \in [Submitters -> {IdleCall} \union CallRecord]
      /\ \A b \in Submitters : call'[b].pc # "idle" => HashesApproval(call[b])'
      /\ RecordsOK'
      /\ \A b \in Submitters : /\ call'[b].pc = "idle" <=> call[b].pc = "idle"
                               /\ call'[b].pc # "idle" =>
                                    /\ call'[b].id = call[b].id
                                    /\ call'[b].decision = call[b].decision
                                    /\ call'[b].wallet = call[b].wallet
  BY <1>1, <1>2, <1>3, GotoInv
<1>5. \A n \in DOMAIN mempool : mempool[n] \in TransactionRecord /\ mempool[n].caller \in Submitters
  <2>1. \A n \in DOMAIN mempool : mempool[n] \in TransactionRecord
    BY ElementOfSeq, LenProperties DEF ChainTypes
  <2> QED
    BY <2>1 DEF TransactionRecord
<1>6. CASE Send(c)
  <2> DEFINE t == Transaction(c)
  <2>1. call[c] \in CallRecord
    BY <1>1 DEF ChainTypes, IdleCall
  <2>2. /\ t \in TransactionRecord /\ t.caller = c /\ t.id = call[c].id
        /\ t.decision = call[c].decision /\ t.wallet = call[c].wallet /\ t.hash = call[c].hash
    BY <2>1 DEF Transaction, TransactionRecord, CallRecord
  <2>3. mempool' = Append(mempool, t)
    BY <1>6 DEF Send
  <2> HIDE DEF t
  <2>4. /\ mempool' \in Seq(TransactionRecord)
        /\ \A n \in DOMAIN mempool' : (n \in DOMAIN mempool /\ mempool'[n] = mempool[n])
                                       \/ mempool'[n] = t
    BY <2>2, <2>3, AppendProperties, LenProperties DEF ChainTypes
  <2>5. HashesApproval(t)
    BY <1>1, <2>2 DEF HashesOK, HashesApproval
  <2>6. \A n \in DOMAIN mempool' : HashesApproval(mempool'[n])
    BY <2>4, <2>5 DEF HashesOK
  <2>7. ChainTypes' /\ HashesOK'
    <3>1. ChainTypes'
      BY <1>1, <1>4, <2>4 DEF ChainTypes
    <3> QED
      BY <1>1, <1>2, <1>4, <2>6, <3>1 DEF HashesOK
  <2>8. ASSUME NEW n \in DOMAIN mempool'
        PROVE  LET x == mempool'[n]
                   k == call'[x.caller]
               IN /\ x.id < submissions
                  /\ k.pc # "idle" /\ k.id = x.id => k.decision = x.decision /\ k.wallet = x.wallet
    <3>1. CASE mempool'[n] = t
      BY <1>1, <1>4, <2>2, <3>1 DEF TransactionsOK
    <3>2. CASE n \in DOMAIN mempool /\ mempool'[n] = mempool[n]
      BY <1>4, <1>5, <3>2 DEF TransactionsOK
    <3> QED
      BY <2>4, <3>1, <3>2
  <2>9. TransactionsOK'
    BY <1>1, <1>4, <2>8 DEF TransactionsOK
  <2> QED
    BY <1>2, <1>4, <2>7, <2>9
<1>7. CASE mempool' = mempool
  <2>1. ChainTypes' /\ HashesOK'
    <3>1. ChainTypes'
      BY <1>1, <1>4, <1>7 DEF ChainTypes
    <3> QED
      BY <1>1, <1>2, <1>4, <1>7, <3>1 DEF HashesOK
  <2>2. TransactionsOK'
    BY <1>1, <1>4, <1>5, <1>7 DEF TransactionsOK
  <2> QED
    BY <1>2, <1>4, <2>1, <2>2
<1> QED
  BY <1>6, <1>7 DEF SendRefused, ChainUnreachable

\* A restart forgets the submissions and the challenges that wait.
LEMMA RestartInv ==
  ASSUME ProofInv, Restart
  PROVE  ProofInv'
<1> USE DEF ProofInv
<1>1. /\ UNCHANGED <<responseVars, wallet, issued, proofs, decisionRecords, mempool, submissions>>
      /\ call' = [c \in Submitters |-> IdleCall]
      /\ challenges' = [u \in Users |-> 0] /\ registering' = [c \in Submitters |-> 0]
  BY DEF Restart
<1>2. ResponseInv'
  BY <1>1 DEF responseVars, ResponseInv, ResponseTypeOK
<1>3. WalletInv'
  <2>1. Len(issued) \in Nat
    BY LenProperties DEF WalletInv, ChallengesOK
  <2> QED
    BY <1>1, <2>1, DropInv
<1>4. ChainTypes'
  BY <1>1 DEF ChainTypes
<1>5. HashesOK'
  <2>1. \A x : HashesApproval(x) => HashesApproval(x)'
    BY <1>1, HashesStay
  <2> QED
    BY <1>1, <2>1 DEF HashesOK, IdleCall
<1>6. RecordsOK' /\ TransactionsOK'
  <2>1. \A n \in DOMAIN mempool : mempool[n] \in TransactionRecord
    BY ElementOfSeq, LenProperties DEF ChainTypes
  <2>2. \A n \in DOMAIN mempool : mempool[n].caller \in Submitters
    BY <2>1 DEF TransactionRecord
  <2> QED
    BY <1>1, <2>2 DEF RecordsOK, Recorded, TransactionsOK, IdleCall
<1> QED
  BY <1>2, <1>3, <1>4, <1>5, <1>6

\* The oldest transaction is executed: the record it makes is the decision's
\* only one, and its caller, if it waits, is told.
LEMMA MineInv ==
  ASSUME ProofInv, mempool # << >>,
         MineDecision(Head(mempool)) \/ RevertDecision(Head(mempool))
  PROVE  ProofInv'
<1> DEFINE t == Head(mempool)
           r == [decision |-> t.decision, hash |-> t.hash, wallet |-> t.wallet]
           k == call[t.caller]
<1> USE DEF ProofInv
<1>1. /\ UNCHANGED <<responseVars, walletVars>> /\ UNCHANGED <<proofs, submissions>>
      /\ mempool' = Tail(mempool)
  BY DEF MineDecision, RevertDecision
<1>2. ResponseInv' /\ WalletInv' /\ \A x : HashesApproval(x) => HashesApproval(x)'
  BY <1>1, ChainStepsApart
<1>3. /\ mempool \in Seq(TransactionRecord) /\ t = mempool[1] /\ 1 \in DOMAIN mempool
      /\ mempool' \in Seq(TransactionRecord)
      /\ \A n \in DOMAIN mempool' : \E m \in DOMAIN mempool : mempool'[n] = mempool[m]
  <2>1. mempool \in Seq(TransactionRecord)
    BY DEF ChainTypes
  <2>2. /\ Len(mempool) \in Nat \ {0} /\ DOMAIN mempool = 1..Len(mempool)
        /\ t = mempool[1] /\ mempool' \in Seq(TransactionRecord)
        /\ Len(mempool') = Len(mempool) - 1 /\ DOMAIN mempool' = 1..(Len(mempool) - 1)
        /\ \A n \in 1..(Len(mempool) - 1) : mempool'[n] = mempool[n + 1]
    BY <1>1, <2>1, HeadTailProperties, LenProperties, EmptySeq
  <2>3. ASSUME NEW n \in DOMAIN mempool'
        PROVE  \E m \in DOMAIN mempool : mempool'[n] = mempool[m]
    <3>1. n + 1 \in DOMAIN mempool /\ mempool'[n] = mempool[n + 1]
      BY <2>2
    <3> QED
      BY <3>1
  <2> QED
    BY <2>1, <2>2, <2>3
<1>4. \A n \in DOMAIN mempool : mempool[n] \in TransactionRecord /\ mempool[n].caller \in Submitters
  <2>1. \A n \in DOMAIN mempool : mempool[n] \in TransactionRecord
    BY <1>3, ElementOfSeq, LenProperties
  <2> QED
    BY <2>1 DEF TransactionRecord
<1>5. PICK pc \in {"mined", "failed"} :
        /\ call' = [call EXCEPT ![t.caller].pc =
                      IF call[t.caller].pc = "sent" /\ call[t.caller].id = t.id THEN pc ELSE @]
        /\ pc = "mined" => Acceptable(t) /\ decisionRecords' = decisionRecords \union {r}
        /\ pc = "failed" => decisionRecords' = decisionRecords
  BY DEF MineDecision, RevertDecision, Receipt
<1>6. /\ t \in TransactionRecord /\ t.caller \in Submitters /\ HashesApproval(t)
      /\ k \in {IdleCall} \union CallRecord
      /\ k.pc # "idle" /\ k.id = t.id => k.decision = t.decision /\ k.wallet = t.wallet
  BY <1>3, <1>4 DEF ChainTypes, HashesOK, TransactionsOK
<1>7. /\ r \in ChainRecord /\ r.decision = t.decision /\ r.wallet = t.wallet /\ HashesApproval(r)
  BY <1>6 DEF TransactionRecord, ChainRecord, HashesApproval
<1>8. \A x : Recorded(x) => Recorded(x)'
  BY <1>5 DEF Recorded
<1>9. pc = "mined" => \A q \in decisionRecords : q.decision # r.decision
  BY <1>5, <1>7 DEF Acceptable, RecordsOf
<1> HIDE DEF t, r
<1>10. /\ decisionRecords' \subseteq ChainRecord
       /\ \A p \in decisionRecords' : HashesApproval(p)
       /\ \A p, q \in decisionRecords' : p.decision = q.decision => p = q
  BY <1>5, <1>7, <1>9 DEF ChainTypes, HashesOK, RecordsOK
<1>11. /\ \A p, q \in proofs' : p.decision = q.decision => p = q
       /\ \A p \in proofs' : p.status = "confirmed" => Recorded(p)'
  BY <1>1, <1>8 DEF RecordsOK
<1>12. \A n \in DOMAIN mempool' : HashesApproval(mempool'[n])
  BY <1>3 DEF HashesOK
<1>13. /\ call' \in [Submitters -> {IdleCall} \union CallRecord]
       /\ \A b \in Submitters : call'[b].pc # "idle" => HashesApproval(call'[b])
       /\ \A b \in Submitters : call'[b].pc = "mined" => Recorded(call[b])'
       /\ \A b \in Submitters : /\ call'[b].pc = "idle" <=> call[b].pc = "idle"
                                /\ call'[b].pc # "idle" => /\ call'[b].id = call[b].id
                                                         /\ call'[b].decision = call[b].decision
                                                         /\ call'[b].wallet = call[b].wallet
  <2>1. CASE k.pc = "sent" /\ k.id = t.id
    <3> DEFINE m == [k EXCEPT !.pc = pc]
    <3>1. k \in CallRecord
      BY <1>6, <2>1 DEF IdleCall
    <3>2. /\ m \in CallRecord /\ m.pc = pc /\ m.id = k.id /\ m.decision = k.decision
          /\ m.wallet = k.wallet /\ m.hash = k.hash
      BY <3>1 DEF CallRecord
    <3>3. call' = [call EXCEPT ![t.caller] = m]
      BY <1>5, <2>1
    <3> HIDE DEF m
    <3>4. call'[t.caller] = m /\ \A b \in Submitters \ {t.caller} : call'[b] = call[b]
      BY <1>6, <3>3 DEF ChainTypes
    <3>5. HashesApproval(m)
      BY <1>6, <2>1, <3>2 DEF HashesOK, HashesApproval
    <3>6. pc = "mined" => \E q \in decisionRecords' : q.decision = m.decision /\ q.wallet = m.wallet
      BY <1>5, <1>6, <1>7, <2>1, <3>2
    <3>7. \A b \in Submitters : call'[b].pc = "mined" => Recorded(call[b])'
      <4>1. ASSUME NEW b \in Submitters, b # t.caller, call'[b].pc = "mined"
            PROVE  Recorded(call[b])'
        BY <1>5, <3>4, <4>1 DEF RecordsOK, Recorded
      <4> QED
        BY <3>2, <3>4, <3>6, <4>1 DEF Recorded
    <3>8. call' \in [Submitters -> {IdleCall} \union CallRecord]
      BY <1>6, <3>2, <3>3 DEF ChainTypes
    <3>9. \A b \in Submitters : call'[b].pc # "idle" => HashesApproval(call'[b])
      BY <3>4, <3>5 DEF HashesOK
    <3>10. k.pc # "idle" /\ m.pc # "idle"
      BY <2>1, <3>2
    <3> HIDE DEF k
    <3>11. call[t.caller] = k
      BY DEF k
    <3>12. \A b \in Submitters : /\ call'[b].pc = "idle" <=> call[b].pc = "idle"
                                 /\ call'[b].pc # "idle" => /\ call'[b].id = call[b].id
                                                          /\ call'[b].decision = call[b].decision
                                                          /\ call'[b].wallet = call[b].wallet
      BY <3>2, <3>4, <3>10, <3>11
    <3> QED
      BY <3>7, <3>8, <3>9, <3>12
  <2>2. CASE ~(k.pc = "sent" /\ k.id = t.id)
    <3>1. call' = [call EXCEPT ![t.caller].pc = @]
      BY <1>5, <2>2
    <3>2. call' = call
      <4>1. [k EXCEPT !.pc = @] = k
        BY <1>6 DEF IdleCall, CallRecord
      <4> QED
        BY <1>6, <3>1, <4>1 DEF ChainTypes
    <3>3. \A b \in Submitters : call'[b].pc = "mined" => Recorded(call[b])'
      BY <1>5, <3>2 DEF RecordsOK, Recorded
    <3> QED
      BY <3>2, <3>3 DEF ChainTypes, HashesOK
  <2> QED
    BY <2>1, <2>2
<1>14. ChainTypes'
  BY <1>1, <1>3, <1>10, <1>13 DEF ChainTypes
<1>15. HashesOK'
  <2>1. \A p \in proofs : HashesApproval(p)
    BY DEF HashesOK
  <2> QED
    BY <1>1, <1>2, <1>10, <1>12, <1>13, <2>1 DEF HashesOK
<1>16. RecordsOK'
  BY <1>10, <1>11, <1>13 DEF RecordsOK
<1>17. TransactionsOK'
  <2>1. ASSUME NEW n \in DOMAIN mempool'
        PROVE  LET x == mempool'[n]
                   j == call'[x.caller]
               IN /\ x.id < submissions
                  /\ j.pc # "idle" /\ j.id = x.id => j.decision = x.decision /\ j.wallet = x.wallet
    <3>1. PICK m \in DOMAIN mempool : mempool'[n] = mempool[m]
      BY <1>3
    <3> QED
      BY <1>4, <1>13, <3>1 DEF TransactionsOK
  <2> QED
    BY <1>1, <1>13, <2>1 DEF TransactionsOK
<1> QED
  BY <1>2, <1>14, <1>15, <1>16, <1>17

\* The proof of a decision is replaced by what the submission came to.
LEMMA SaveInv ==
  ASSUME ProofInv, NEW c \in Submitters, SaveProof(c)
  PROVE  ProofInv'
<1> USE DEF ProofInv
<1>1. /\ UNCHANGED <<responseVars, walletVars>>
      /\ UNCHANGED <<decisionRecords, mempool, submissions>>
      /\ call[c].pc \in {"mined", "failed"} /\ call' = [call EXCEPT ![c] = IdleCall]
  BY DEF SaveProof
<1>2. ResponseInv' /\ WalletInv' /\ \A x : HashesApproval(x) => HashesApproval(x)'
  BY <1>1, ChainStepsApart
<1>3. PICK status \in {"confirmed", "failed"} :
        /\ proofs' = (proofs \ ProofsOf(call[c].decision)) \union {ProofFor(c, status)}
        /\ status = "confirmed" => call[c].pc = "mined"
  BY DEF SaveProof
<1> DEFINE p == ProofFor(c, status)
<1>4. call[c] \in CallRecord /\ HashesApproval(call[c])
  BY <1>1 DEF ChainTypes, IdleCall, HashesOK
<1>5. /\ p \in ProofRecord /\ p.decision = call[c].decision /\ p.hash = call[c].hash
      /\ p.wallet = call[c].wallet /\ p.status = status
  BY <1>3, <1>4 DEF ProofFor, ProofRecord, CallRecord
<1> HIDE DEF p
<1>6. proofs' = {q \in proofs : q.decision # p.decision} \union {p}
  BY <1>3, <1>5 DEF ProofsOf, p
<1>7. /\ call' \in [Submitters -> {IdleCall} \union CallRecord] /\ call'[c].pc = "idle"
      /\ \A b \in Submitters \ {c} : call'[b] = call[b]
  BY <1>1 DEF ChainTypes, IdleCall
<1>8. ChainTypes'
  BY <1>1, <1>5, <1>6, <1>7 DEF ChainTypes
<1>9. HashesApproval(p)
  BY <1>4, <1>5 DEF HashesApproval
<1>10. HashesOK'
  <2>1. \A q \in proofs' : HashesApproval(q)
    BY <1>6, <1>9 DEF HashesOK
  <2>2. \A r \in decisionRecords' : HashesApproval(r)
    BY <1>1 DEF HashesOK
  <2>3. \A n \in DOMAIN mempool' : HashesApproval(mempool'[n])
    BY <1>1 DEF HashesOK
  <2>4. \A b \in Submitters : call'[b].pc # "idle" => HashesApproval(call'[b])
    BY <1>7 DEF HashesOK
  <2> QED
    BY <1>2, <2>1, <2>2, <2>3, <2>4 DEF HashesOK
<1>11. RecordsOK'
  <2>1. \A x : Recorded(x) <=> Recorded(x)'
    BY <1>1 DEF Recorded
  <2>2. p.status = "confirmed" => Recorded(p)
    BY <1>3, <1>5 DEF RecordsOK, Recorded
  <2>3. \A q \in proofs' : q.status = "confirmed" => Recorded(q)'
    BY <1>6, <2>1, <2>2 DEF RecordsOK
  <2>4. \A b \in Submitters : call'[b].pc = "mined" => Recorded(call[b])'
    BY <1>1, <1>7 DEF RecordsOK, Recorded
  <2>5. \A q, s \in proofs' : q.decision = s.decision => q = s
    BY <1>6 DEF RecordsOK
  <2>6. \A q, s \in decisionRecords' : q.decision = s.decision => q = s
    BY <1>1 DEF RecordsOK
  <2> QED
    BY <2>3, <2>4, <2>5, <2>6 DEF RecordsOK
<1>12. TransactionsOK'
  <2>1. \A n \in DOMAIN mempool : mempool[n] \in TransactionRecord
    BY ElementOfSeq, LenProperties DEF ChainTypes
  <2>2. \A n \in DOMAIN mempool : mempool[n].caller \in Submitters
    BY <2>1 DEF TransactionRecord
  <2> QED
    BY <1>1, <1>7, <2>2 DEF TransactionsOK
<1> QED
  BY <1>2, <1>8, <1>10, <1>11, <1>12

-----------------------------------------------------------------------------
(* The invariant.                                                          *)

\* There are no wallets, submissions and proofs at first.
LEMMA ProofInitInv == ProofInit => ProofInv
<1> SUFFICES ASSUME ProofInit PROVE ProofInv
  OBVIOUS
<1>1. /\ ResponseInit /\ wallet = [u \in Users |-> NoWallet]
      /\ challenges = [u \in Users |-> 0] /\ issued = << >>
      /\ registering = [c \in Submitters |-> 0]
      /\ proofs = {} /\ decisionRecords = {} /\ mempool = << >>
      /\ call = [c \in Submitters |-> IdleCall] /\ submissions = 0
  BY DEF ProofInit
<1>2. ResponseInv
  BY <1>1, ResponseInitInv
<1>3. /\ issued \in Seq(Challenge) /\ Len(issued) = 0 /\ DOMAIN issued = {}
      /\ mempool \in Seq(TransactionRecord) /\ DOMAIN mempool = {}
  BY <1>1, EmptySeq, LenProperties
<1>4. WalletInv
  BY <1>1, <1>3 DEF WalletInv, ChallengesOK, WalletsAreProved
<1>5. ChainTypes
  BY <1>1, <1>3 DEF ChainTypes
<1>6. HashesOK /\ RecordsOK /\ TransactionsOK
  BY <1>1, <1>3 DEF HashesOK, RecordsOK, TransactionsOK, IdleCall
<1> QED
  BY <1>2, <1>4, <1>5, <1>6 DEF ProofInv

\* A step of the response workflow leaves hashes and wallets alone.
LEMMA WorkflowInv ==
  ASSUME ProofInv, ResponseNext, UNCHANGED proofVars
  PROVE  ProofInv'
<1> USE DEF ProofInv, proofVars, walletVars
<1>1. ResponseInv'
  BY ResponseNextInv
<1>2. WalletInv'
  BY DEF WalletInv, ChallengesOK, WalletsAreProved
<1>3. ChainTypes'
  BY DEF ChainTypes
<1>4. HashesOK'
  <2>1. \A x : HashesApproval(x) => HashesApproval(x)'
    BY HashesStay
  <2> QED
    BY <2>1 DEF HashesOK
<1>5. RecordsOK' /\ TransactionsOK'
  BY DEF RecordsOK, Recorded, TransactionsOK
<1> QED
  BY <1>1, <1>2, <1>3, <1>4, <1>5

\* Every step keeps the invariant.
LEMMA ProofNextInv == ProofInv /\ [ProofNext]_allVars => ProofInv'
<1> SUFFICES ASSUME ProofInv, [ProofNext]_allVars PROVE ProofInv'
  OBVIOUS
<1>1. CASE UNCHANGED allVars
  <2>1. UNCHANGED otherVars
    BY <1>1 DEF allVars, proofVars, otherVars
  <2>2. WalletInv'
    BY <1>1 DEF allVars, proofVars, walletVars, ProofInv, WalletInv, ChallengesOK, WalletsAreProved
  <2> QED
    BY <2>1, <2>2, WalletStepsApart DEF ProofInv
<1>2. ASSUME NEW u \in Users, NEW w \in Wallets, IssueChallenge(u, w)
      PROVE  ProofInv'
  <2>1. UNCHANGED otherVars
    BY <1>2 DEF IssueChallenge
  <2> QED
    BY <1>2, <2>1, IssueInv, WalletStepsApart DEF ProofInv
<1>3. ASSUME NEW u \in Users, ExpireChallenge(u)
      PROVE  ProofInv'
  <2>1. UNCHANGED otherVars
    BY <1>3 DEF ExpireChallenge
  <2>2. WalletInv'
    <3>1. /\ wallet' = wallet /\ issued' = issued /\ registering' = registering
          /\ challenges' = [challenges EXCEPT ![u] = 0]
      BY <1>3 DEF ExpireChallenge
    <3>2. Len(issued) \in Nat
      BY LenProperties DEF ProofInv, WalletInv, ChallengesOK
    <3>3. /\ challenges \in [Users -> 0..Len(issued)]
          /\ registering \in [Submitters -> 0..Len(issued)]
      BY DEF ProofInv, WalletInv, ChallengesOK
    <3> QED
      BY <3>1, <3>2, <3>3, DropInv
  <2> QED
    BY <2>1, <2>2, WalletStepsApart DEF ProofInv
<1>4. ASSUME NEW c \in Submitters, NEW u \in Users, VerifyWallet(c, u)
      PROVE  ProofInv'
  <2>1. UNCHANGED otherVars
    BY <1>4 DEF VerifyWallet
  <2> QED
    BY <1>4, <2>1, VerifyInv, WalletStepsApart DEF ProofInv
<1>5. ASSUME NEW c \in Submitters, SetWalletAddress(c)
      PROVE  ProofInv'
  <2>1. UNCHANGED otherVars
    BY <1>5 DEF SetWalletAddress
  <2> QED
    BY <1>5, <2>1, SetWalletInv, WalletStepsApart DEF ProofInv
<1>6. ASSUME NEW c \in Submitters, SubmitterStep(c)
      PROVE  ProofInv'
  BY <1>6, SubmitInv, SaveInv DEF SubmitterStep
<1>7. CASE ResponseNext /\ UNCHANGED proofVars
  BY <1>7, WorkflowInv
<1>8. CASE \E c \in Submitters, d \in Decisions, signer \in Wallets : RequestAnchor(c, d, signer)
  BY <1>8, RequestInv
<1>9. CASE mempool # << >> /\ (MineDecision(Head(mempool)) \/ RevertDecision(Head(mempool)))
  BY <1>9, MineInv
<1>10. CASE Restart
  BY <1>10, RestartInv
<1> QED
  BY <1>1, <1>2, <1>3, <1>4, <1>5, <1>6, <1>7, <1>8, <1>9, <1>10, Zenon DEF ProofNext

\* What every state of wallets, submissions, the store and the contract is like.
THEOREM ProofInvariant == ProofSpec => []ProofInv
<1> QED
  BY ProofInitInv, ProofNextInv, PTL DEF ProofSpec

-----------------------------------------------------------------------------
(* Theorems.                                                               *)

\* A wallet address is one user's, who answered a challenge for it, and a
\* challenge registers it once (IdentityService.verifyWallet).
THEOREM WalletsProved == ProofSpec => []WalletsAreProved
<1>1. ProofInv => WalletsAreProved
  BY DEF ProofInv, WalletInv
<1> QED
  BY <1>1, ProofInvariant, PTL

\* At most one element of a set is about a decision when no two are.
LEMMA OneOf ==
  ASSUME NEW S, NEW d, \A p, q \in S : p.decision = q.decision => p = q
  PROVE  Cardinality({p \in S : p.decision = d}) <= 1
<1> DEFINE T == {p \in S : p.decision = d}
<1>1. CASE T = {}
  BY <1>1, FS_EmptySet
<1>2. CASE T # {}
  <2>1. PICK p \in T : TRUE
    BY <1>2
  <2>2. T = {p}
    BY <2>1
  <2>3. Cardinality({p}) = 1
    BY FS_Singleton
  <2> QED
    BY <2>2, <2>3
<1> QED
  BY <1>1, <1>2

\* The store and the contract agree, however submissions overlap, fail, are
\* mined late or are lost by a restart (DecisionProofService, recordDecision).
THEOREM ProofsAgree == ProofSpec => []ProofsVerify
<1>1. ProofInv => ProofsVerify
  <2> SUFFICES ASSUME ProofInv PROVE ProofsVerify
    OBVIOUS
  <2> USE DEF ProofInv
  <2>1. \A d \in Decisions : Cardinality(ProofsOf(d)) <= 1 /\ Cardinality(RecordsOf(d)) <= 1
    BY OneOf DEF RecordsOK, ProofsOf, RecordsOf
  <2>2. ProofTypeOK
    <3>1. ResponseTypeOK /\ wallet \in [Users -> Wallets \union {NoWallet}]
      BY DEF ResponseInv, WalletInv
    <3>2. /\ \A x \in proofs \union decisionRecords : x.decision \in Decisions
          /\ \A n \in DOMAIN mempool : mempool[n].decision \in Decisions
          /\ \A c \in Submitters : call[c].pc # "idle" => call[c].decision \in Decisions
      BY DEF HashesOK, HashesApproval
    <3> QED
      BY <2>1, <3>1, <3>2 DEF ProofTypeOK
  <2>3. ConfirmedProofVerifies
    <3>1. ASSUME NEW p \in proofs, p.status = "confirmed"
          PROVE  /\ VerifiesOnChain(p.decision)
                 /\ \E r \in RecordsOf(p.decision) : r.wallet = p.wallet
      <4>1. PICK r \in decisionRecords : r.decision = p.decision /\ r.wallet = p.wallet
        BY <3>1 DEF RecordsOK, Recorded
      <4>2. r.hash = EvidenceHash(p.decision)
        BY <4>1 DEF HashesOK, HashesApproval
      <4> QED
        BY <4>1, <4>2 DEF VerifiesOnChain, RecordsOf
    <3> QED
      BY <3>1 DEF ConfirmedProofVerifies
  <2>4. RecordsAreApprovals
    BY DEF HashesOK, HashesApproval, RecordsAreApprovals
  <2> QED
    BY <2>2, <2>3, <2>4 DEF ProofsVerify
<1> QED
  BY <1>1, ProofInvariant, PTL

\* Wallets, submissions and the chain only read the decisions: the workflow
\* under them is the one of ResponseDecision, and its theorems hold here.
THEOREM WorkflowUnderneath == ProofSpec => ResponseSpec
<1>1. ProofInit => ResponseInit
  BY DEF ProofInit
<1>2. [ProofNext]_allVars => [ResponseNext]_responseVars
  BY DEF ProofNext, allVars, otherVars, responseVars, IssueChallenge, ExpireChallenge, VerifyWallet,
         SetWalletAddress, RequestAnchor, SubmitterStep, Send, SendRefused, ChainUnreachable,
         SaveProof, Restart, MineDecision, RevertDecision
<1> QED
  BY <1>1, <1>2, PTL DEF ProofSpec, ResponseSpec
=============================================================================
