----------------------------- MODULE MCBringUp -----------------------------
(***************************************************************************)
(* BringUp with one holder key, two agent keys and numbers scaled down     *)
(* from the deployment config: 1 stands for 2 RUSD of the smoke test.      *)
(***************************************************************************)
EXTENDS BringUp

MCCorridorRegion == [c \in Corridors |-> REGION]
MCSymmetry == Permutations(Senders) \cup Permutations(Agents)
MCThresholds == [tier1_max |-> 25, tier2_max |-> 80, daily_limit |-> 100]
=============================================================================
