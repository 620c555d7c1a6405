----------------------------- MODULE MCConsole -----------------------------
(***************************************************************************)
(* Instances of Console for TLC.                                           *)
(***************************************************************************)
EXTENDS Console, TLC

SecretSymmetry == Permutations(Secrets)

\* An operator who loses the role, and an administrator who is removed.
Before == [e \in Emails |-> IF e = "ann" THEN {"operator"} ELSE {"admin", "viewer"}]
After == [Before EXCEPT !["ann"] = {"viewer"}, !["bob"] = Absent]

Lists == {Before, After}
=============================================================================
