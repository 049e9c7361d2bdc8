--------------------------- MODULE MCDetectionEngine ---------------------------
(***************************************************************************)
(* An instance of DetectionEngine for TLC: a familiar event and a novel,   *)
(* critical one, a webhook integration that brings both, and a STIX        *)
(* integration with bundles that hold two versions of an indicator.       *)
(***************************************************************************)
EXTENDS DetectionEngine

CONSTANTS siem, stix, login, dumping, both, old, new, x1

MCPayloadsOf == [i \in Integrations |-> IF i = siem THEN {both} ELSE {old, new}]
MCEventsIn == [p \in Payloads |-> IF p = both THEN <<login, dumping>> ELSE << >>]
MCIndicatorsIn ==
  [p \in Payloads |-> IF p = old THEN <<<<x1, 1>>>> ELSE IF p = new THEN <<<<x1, 2>>, <<x1, 1>>>> ELSE << >>]

MCEventOf ==
  [e \in Events |->
    IF e = login
    THEN [source |-> "siem", eventType |-> "successful_authentication", severity |-> "low",
          assets |-> {"known-endpoint"}, observedAt |-> 0, hour |-> 0]
    ELSE [source |-> "edr", eventType |-> "credential_dumping", severity |-> "critical",
          assets |-> {"new-host"}, observedAt |-> 1, hour |-> 1]]

RequestSymmetry == Permutations(Requests)
=============================================================================
