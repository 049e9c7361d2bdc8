--------------------------- MODULE MCIdentityAccess ---------------------------
(***************************************************************************)
(* Instances of IdentityAccess for TLC.                                    *)
(***************************************************************************)
EXTENDS IdentityAccess, TLC

IdentitySymmetry ==
  Permutations(Requests) \cup Permutations(Subjects) \cup Permutations(People) \cup Permutations(Orgs)
=============================================================================
