------------------------------ MODULE Sifting ------------------------------
(***************************************************************************)
(* The entries of a sequence that are not in a set, in their order: what   *)
(* SelectSeq does for a test of membership, as a recursive function over   *)
(* the length, so that it can be reasoned about.                           *)
(***************************************************************************)
EXTENDS Naturals, Sequences

Without(seq, dropped) ==
    LET left[n \in 0..Len(seq)] ==
            IF n = 0 THEN << >>
            ELSE IF seq[n] \in dropped THEN left[n - 1]
            ELSE Append(left[n - 1], seq[n])
    IN  left[Len(seq)]
============================================================================
