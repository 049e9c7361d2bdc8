---------------------------- MODULE ResponseDecision ----------------------------
(***************************************************************************)
(* Governed response decisions: policies per action type, what-if          *)
(* simulations that score candidates against the policies they read, and   *)
(* the operators' approvals and rejections of a stored scenario.           *)
(*                                                                         *)
(* Benefit, impact and residual risk are data of a candidate here; what    *)
(* matters of a policy is whether its gates pass, how many approvals it    *)
(* asks for and from which roles.                                          *)
(***************************************************************************)
EXTENDS Integers, Sequences, FiniteSets

CONSTANTS
  Users,         \* operators
  Roles,         \* roles an operator's session can carry
  ActionTypes,   \* response action types
  Policies,      \* policies an administrator may set
  Candidates,    \* candidate lists a simulation may be asked for
  Simulators,    \* concurrent simulateResponses calls
  MaxScenarios,  \* bound: scenarios
  MaxUpserts     \* bound: policy changes

PolicyModes == {"prohibited", "recommend_only", "operator_approved"}

\* The policy of an action type nobody configured.
NoPolicy == [mode |-> "none", maxImpact |-> 0, minApprovals |-> 1, roles |-> {}, rollback |-> FALSE]

PolicyRecord ==
  [mode: PolicyModes \union {"none"}, maxImpact: Nat, minApprovals: Nat \ {0},
   roles: SUBSET Roles, rollback: BOOLEAN]

\* A candidate: its action, its estimated operational impact and whether it
\* has a rollback plan.
CandidateRecord == [action: ActionTypes, impact: Nat, rollback: BOOLEAN]

ASSUME PoliciesAssumption == Policies \subseteq PolicyRecord
ASSUME CandidatesAssumption == Candidates \subseteq Seq(CandidateRecord) \ {<< >>}
ASSUME ScenarioBoundsAssumption == MaxScenarios \in Nat /\ MaxUpserts \in Nat

\* requireRoles of POST /responses/:scenarioId/decisions.
DecisionRoles == {"organization_admin", "incident_commander", "ot_engineer"}

VARIABLES
  policies,    \* response_policies: the policy of each action type
  simulating,  \* the scored options of each call between its reads and its save
  scenarios,   \* response_scenarios
  upserts      \* policy changes so far (bound)

responseVars == <<policies, simulating, scenarios, upserts>>

-----------------------------------------------------------------------------
(* Scoring a candidate.                                                    *)

Eligible(c, p) ==
  /\ p.mode \in {"recommend_only", "operator_approved"}
  /\ c.impact <= p.maxImpact
  /\ p.rollback => c.rollback

\* Slip: one approval is enough for any option.
ScoreOption_OneApproval(c, p) ==
  [action   |-> c.action,
   eligible |-> Eligible(c, p),
   mode     |-> IF p.mode = "operator_approved" THEN "operator_approved" ELSE "recommend_only",
   required |-> 1,
   roles    |-> p.roles]

ScoreOption(c, p) ==
  [action   |-> c.action,
   eligible |-> Eligible(c, p),
   mode     |-> IF p.mode = "operator_approved" THEN "operator_approved" ELSE "recommend_only",
   required |-> p.minApprovals,
   roles    |-> p.roles]

OptionRecord ==
  [action: ActionTypes, eligible: BOOLEAN, mode: {"recommend_only", "operator_approved"},
   required: Nat \ {0}, roles: SUBSET Roles]

-----------------------------------------------------------------------------
(* Deciding.                                                               *)

\* No option is selected before the first decision.
NoOption == 0

VotesFor(o, decisions) == {k \in DOMAIN decisions : decisions[k].option = o}

Approvers(o, decisions) ==
  {decisions[k].actor : k \in {v \in VotesFor(o, decisions) : decisions[v].decision = "approve"}}

Rejected(o, decisions) == \E k \in VotesFor(o, decisions) : decisions[k].decision = "reject"

\* Slip: the quorum is taken for reached one approval early.
StatusAfter_OneShort(option, o, decisions) ==
  IF Rejected(o, decisions) THEN "rejected"
  ELSE IF Cardinality(Approvers(o, decisions)) + 1 >= option.required THEN "approved"
  ELSE "awaiting_approval"

StatusAfter(option, o, decisions) ==
  IF Rejected(o, decisions) THEN "rejected"
  ELSE IF Cardinality(Approvers(o, decisions)) >= option.required THEN "approved"
  ELSE "awaiting_approval"

Final == {"approved", "rejected"}

\* Slip: a final scenario takes further decisions.
MayDecide_AfterFinal(s, o, u, role, d) ==
  /\ o \in DOMAIN s.options
  /\ s.options[o].eligible
  /\ s.selected \in {NoOption, o}
  /\ \A k \in VotesFor(o, s.decisions) : s.decisions[k].actor # u
  /\ role \in DecisionRoles \intersect s.options[o].roles
  /\ d = "approve" => s.options[o].mode = "operator_approved"

\* Slip: an operator may decide again on the same option.
MayDecide_Repeat(s, o, u, role, d) ==
  /\ o \in DOMAIN s.options
  /\ s.options[o].eligible
  /\ s.selected \in {NoOption, o}
  /\ role \in DecisionRoles \intersect s.options[o].roles
  /\ d = "approve" => s.options[o].mode = "operator_approved"
  /\ s.status \notin Final

\* The checks of applyResponseDecision and of the route in front of it.
MayDecide(s, o, u, role, d) ==
  /\ o \in DOMAIN s.options
  /\ s.options[o].eligible
  /\ s.selected \in {NoOption, o}
  /\ \A k \in VotesFor(o, s.decisions) : s.decisions[k].actor # u
  /\ role \in DecisionRoles \intersect s.options[o].roles
  /\ d = "approve" => s.options[o].mode = "operator_approved"
  /\ s.status \notin Final

\* applyResponseDecision: the scenario with one decision more.
Decided(s, o, u, role, d) ==
  LET decisions == Append(s.decisions, [option |-> o, actor |-> u, role |-> role, decision |-> d])
  IN  [options   |-> s.options,
       selected  |-> o,
       decisions |-> decisions,
       status    |-> StatusAfter(s.options[o], o, decisions)]

-----------------------------------------------------------------------------
ResponseInit ==
  /\ policies = [a \in ActionTypes |-> NoPolicy]
  /\ simulating = [s \in Simulators |-> << >>]
  /\ scenarios = << >>
  /\ upserts = 0

\* upsertResponsePolicy.
UpsertPolicy(a, p) ==
  /\ upserts < MaxUpserts
  /\ policies' = [policies EXCEPT ![a] = p]
  /\ upserts' = upserts + 1
  /\ UNCHANGED <<simulating, scenarios>>

\* simulateResponses reads the policies and scores the candidates.
ScoreCandidates(s, candidates) ==
  /\ simulating[s] = << >>
  /\ Len(scenarios) + Cardinality({q \in Simulators : simulating[q] # << >>}) < MaxScenarios
  /\ simulating' = [simulating EXCEPT ![s] =
                      [k \in DOMAIN candidates |->
                         ScoreOption(candidates[k], policies[candidates[k].action])]]
  /\ UNCHANGED <<policies, scenarios, upserts>>

\* saveResponseScenario: no option passed its policy, no decision to await.
SaveScenario(s) ==
  /\ simulating[s] # << >>
  /\ scenarios' = Append(scenarios,
       [options   |-> simulating[s],
        selected  |-> NoOption,
        decisions |-> << >>,
        status    |-> IF \E o \in DOMAIN simulating[s] : simulating[s][o].eligible
                      THEN "awaiting_decision" ELSE "blocked"])
  /\ simulating' = [simulating EXCEPT ![s] = << >>]
  /\ UNCHANGED <<policies, upserts>>

\* recordResponseDecision: the scenario's row is locked for the whole step.
RecordDecision(i, o, u, role, d) ==
  /\ MayDecide(scenarios[i], o, u, role, d)
  /\ scenarios' = [scenarios EXCEPT ![i] = Decided(scenarios[i], o, u, role, d)]
  /\ UNCHANGED <<policies, simulating, upserts>>

DecideSomewhere ==
  \E i \in DOMAIN scenarios, u \in Users, role \in Roles, d \in {"approve", "reject"} :
     \E o \in DOMAIN scenarios[i].options : RecordDecision(i, o, u, role, d)

ResponseNext ==
  \/ \E a \in ActionTypes, p \in Policies : UpsertPolicy(a, p)
  \/ \E s \in Simulators, candidates \in Candidates : ScoreCandidates(s, candidates)
  \/ \E s \in Simulators : SaveScenario(s)
  \/ DecideSomewhere

ResponseSpec == ResponseInit /\ [][ResponseNext]_responseVars

-----------------------------------------------------------------------------
(* Properties.                                                             *)

Statuses == {"awaiting_decision", "awaiting_approval", "approved", "rejected", "blocked"}

DecisionRecord ==
  [option: Nat \ {0}, actor: Users, role: Roles, decision: {"approve", "reject"}]

ScenarioRecord ==
  [options: Seq(OptionRecord), selected: Nat, decisions: Seq(DecisionRecord), status: Statuses]

\* Policies, simulations in flight and scenarios are what their schemas say.
ResponseTypeOK ==
  /\ policies \in [ActionTypes -> PolicyRecord]
  /\ simulating \in [Simulators -> Seq(OptionRecord)]
  /\ scenarios \in Seq(ScenarioRecord)
  /\ upserts \in Nat

\* An approved scenario selected an eligible, operator-approved option, and
\* as many distinct operators as the option requires approved it, each in an
\* allowed role, and nobody rejected it (applyResponseDecision).
ApprovalHasQuorum ==
  \A i \in DOMAIN scenarios :
     LET s == scenarios[i] IN
     s.status = "approved" =>
        /\ s.selected \in DOMAIN s.options
        /\ s.options[s.selected].eligible
        /\ s.options[s.selected].mode = "operator_approved"
        /\ Cardinality(Approvers(s.selected, s.decisions)) >= s.options[s.selected].required
        /\ \A k \in DOMAIN s.decisions :
             /\ s.decisions[k].role \in s.options[s.selected].roles
             /\ s.decisions[k].decision = "approve"

\* One rejection is final whatever was approved before it, all decisions of a
\* scenario are about one option, and each of its operators decided once.
OneVoteOneOption ==
  \A i \in DOMAIN scenarios :
     LET s == scenarios[i] IN
     /\ s.status = "rejected" <=> \E k \in DOMAIN s.decisions : s.decisions[k].decision = "reject"
     /\ \A j, k \in DOMAIN s.decisions :
          /\ s.decisions[j].option = s.selected
          /\ s.decisions[j].actor = s.decisions[k].actor => j = k

\* Decisions are evidence: a scenario keeps its scored options, its decisions
\* are only ever added to, and a final scenario never changes.
DecisionsAreEvidence ==
  [][\A i \in DOMAIN scenarios :
       /\ scenarios'[i].options = scenarios[i].options
       /\ \A k \in DOMAIN scenarios[i].decisions :
            scenarios'[i].decisions[k] = scenarios[i].decisions[k]
       /\ scenarios[i].status \in Final => scenarios'[i] = scenarios[i]]_responseVars

MeetsPolicy(s, p) ==
  /\ p.mode = "operator_approved"
  /\ Cardinality(Approvers(s.selected, s.decisions)) >= p.minApprovals
  /\ \A k \in DOMAIN s.decisions : s.decisions[k].role \in p.roles

\* While policies are set once and never changed, an approval meets the policy
\* of its action, although simulateResponses reads the policies long before
\* the scenario is saved and decided.
ApprovalMeetsOnlyPolicy ==
  upserts <= 1 =>
    \A i \in DOMAIN scenarios :
       scenarios[i].status = "approved" =>
         LET s == scenarios[i] IN MeetsPolicy(s, policies[s.options[s.selected].action])
=============================================================================
