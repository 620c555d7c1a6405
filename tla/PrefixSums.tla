---------------------------- MODULE PrefixSums ----------------------------
(***************************************************************************)
(* Sums over an initial segment of the naturals.  The contracts number     *)
(* their records 1, 2, 3, ... and keep running totals beside them; the     *)
(* properties compare a running total with the sum it stands for.          *)
(*                                                                         *)
(* PrefixSum is a recursive function and not a RECURSIVE operator so that  *)
(* the proof modules may reason about it.                                  *)
(***************************************************************************)
EXTENDS Integers

\* f[1] + f[2] + ... + f[n]; 0 when n = 0.
PrefixSum(f, n) ==
    LET s[i \in 0..n] == IF i = 0 THEN 0 ELSE s[i - 1] + f[i]
    IN  s[n]
===========================================================================
