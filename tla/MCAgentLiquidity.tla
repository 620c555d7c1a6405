-------------------------- MODULE MCAgentLiquidity --------------------------
(***************************************************************************)
(* Instances of AgentLiquidity for TLC.                                    *)
(***************************************************************************)
EXTENDS AgentLiquidity, TLC

\* Requests, the calls that decide and execute them, and pages are interchangeable.
CallSymmetry ==
    Permutations(Executors) \union Permutations(Deciders) \union Permutations(TopUps) \union Permutations(Desks)
============================================================================
