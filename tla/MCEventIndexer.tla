-------------------------- MODULE MCEventIndexer --------------------------
(***************************************************************************)
(* Instances of EventIndexer for TLC.                                      *)
(***************************************************************************)
EXTENDS EventIndexer

EscrowAndPool == <<EscrowId, PoolId>>

\* The pool, of a later version, also emits what the decoder does not know.
FewKinds == {<<EscrowId, "created">>, <<EscrowId, "claimed">>, <<EscrowId, "refunded">>,
             <<PoolId, "drawn">>, <<PoolId, "unknown">>}
===========================================================================
