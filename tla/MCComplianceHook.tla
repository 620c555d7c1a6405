------------------------ MODULE MCComplianceHook ------------------------
(***************************************************************************)
(* Instances of ComplianceHook for TLC.                                    *)
(***************************************************************************)
EXTENDS ComplianceHook, TLC

Thresholds(t1, t2, daily) ==
    [tier1_max |-> t1, tier2_max |-> t2, daily_limit |-> daily]

\* A usable corridor, a stricter one, and one is_valid must refuse.
MCThresholds ==
    {Thresholds(1, 2, 4), Thresholds(0, 1, 3), Thresholds(2, 1, 4)}

UserSymmetry == Permutations(Subjects) \union Permutations(Corridors)
=========================================================================
