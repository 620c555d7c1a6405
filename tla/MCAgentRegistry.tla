------------------------- MODULE MCAgentRegistry -------------------------
(***************************************************************************)
(* Instances of AgentRegistry for TLC.                                     *)
(***************************************************************************)
EXTENDS AgentRegistry, TLC

\* Agents are interchangeable, and so are regions.
UserSymmetry == Permutations(Agents) \union Permutations(Regions)
==========================================================================
