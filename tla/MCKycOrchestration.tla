------------------------- MODULE MCKycOrchestration -------------------------
(***************************************************************************)
(* Instances of KycOrchestration for TLC.                                  *)
(***************************************************************************)
EXTENDS KycOrchestration, TLC

AllCalls == Requests \union Revocations
RequestSymmetry == Permutations(Requests)
============================================================================
