------------------------- MODULE MCLiquidityPool -------------------------
(***************************************************************************)
(* Instances of LiquidityPool for TLC.                                     *)
(***************************************************************************)
EXTENDS LiquidityPool, TLC

\* Users are interchangeable, and so are regions.
UserSymmetry == Permutations(Users) \union Permutations(Regions)
==========================================================================
