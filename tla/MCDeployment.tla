---------------------------- MODULE MCDeployment ----------------------------
(***************************************************************************)
(* Instances of Deployment for TLC.                                        *)
(***************************************************************************)
EXTENDS Deployment, TLC

OperatorSymmetry == Permutations(Operators)

Region(id, cap) == [id |-> id, utilizationCapBps |-> cap]
Corridor(id, region) == [id |-> id, regionId |-> region, tier1Max |-> 1,
                         tier2Max |-> 2, dailyLimit |-> 3]
Tier(id, limit) == [corridorId |-> id, tier1Max |-> 1, tier2Max |-> 2,
                    enhancedDailyLimit |-> limit]

Sound ==
    [regions |-> <<Region("ng", 8000), Region("ke", 0)>>,
     corridors |-> <<Corridor("ngn", "ng"), Corridor("kes", "ke")>>,
     complianceTiers |-> <<Tier("kes", 3), Tier("ngn", 4)>>,
     feeBps |-> 200, defaultUtilizationCapBps |-> 7500]
Small ==
    [regions |-> <<Region("ng", 9500)>>,
     corridors |-> <<Corridor("ngn", "ng")>>,
     complianceTiers |-> <<Tier("ngn", 3)>>,
     feeBps |-> 500, defaultUtilizationCapBps |-> 9500]

\* Accepted by loadDeployConfig; then refused by a contract (a fee too high, a
\* region twice), by the read-back (a tier twice) or by verify-deployment (a
\* corridor twice).
Pricey == [Small EXCEPT !.feeBps = 501]
Twofold == [Small EXCEPT !.regions = @ \o @]
Doubled == [Small EXCEPT !.corridors = @ \o @]
Disagreeing == [Small EXCEPT !.complianceTiers = @ \o <<Tier("ngn", 4)>>]

\* Refused by loadDeployConfig.
Unmapped == [Small EXCEPT !.corridors = <<Corridor("ngn", "ke")>>]
Untiered == [Sound EXCEPT !.complianceTiers = <<Tier("ngn", 3)>>]

AllConfigs == {Sound, Small, Pricey, Twofold, Doubled, Disagreeing, Unmapped,
               Untiered}
=============================================================================
