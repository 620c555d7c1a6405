----------------------------- MODULE MCQuoting -----------------------------
(***************************************************************************)
(* Instance of Quoting for TLC: a market that offers a good path beside a  *)
(* worse and a useless one, or nothing that can be used.                   *)
(***************************************************************************)
EXTENDS Quoting, TLC

Path(source, destination) == [source |-> source, destination |-> destination]

GoodOrNoMarket ==
    {{Path(100, 75), Path(0, 900), Path(100, 310)},
     {Path(0, 100), Path(100, 0)}}

SecretSymmetry == Permutations(Secrets)
============================================================================
