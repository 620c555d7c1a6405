---------------------------- MODULE SorobanInvoke ----------------------------
(***************************************************************************)
(* invoke: how the backend submits a contract call                         *)
(* (backend/src/soroban/rpc.ts).                                           *)
(*                                                                         *)
(* A call is simulated, signed, sent and polled for.  Once it is sent its  *)
(* fate is the network's: it executes in some ledger or its time bound     *)
(* passes, whatever the caller believes by then.  Services extend this     *)
(* module and conjoin its operators to their own steps; an RPC error at    *)
(* any point is the service's to model.                                    *)
(***************************************************************************)
EXTENDS Naturals

CONSTANTS
    Calls,        \* contract calls a behaviour may submit, each at most once
    MaxTimeouts   \* bound: polls that give up

ASSUME TimeoutsAreBounded == MaxTimeouts \in Nat

VARIABLES
    tx,           \* what became of each call
    timeouts      \* polls that gave up so far

TxStates == {"none", "sent", "landed", "failed", "expired"}

NoCalls == tx = [c \in Calls |-> "none"] /\ timeouts = 0

\* A call the simulation accepts is sent; one it refuses changes nothing.
invoke(c) ==
    /\ tx[c] = "none"
    /\ tx' = [tx EXCEPT ![c] = "sent"]
    /\ UNCHANGED timeouts

\* A ledger includes the call, which the contract accepts or not.
execute(c, accepted) ==
    /\ tx[c] = "sent"
    /\ tx' = [tx EXCEPT ![c] = IF accepted THEN "landed" ELSE "failed"]
    /\ UNCHANGED timeouts

\* The time bound of the transaction passes before a ledger includes it.
expire(c) ==
    /\ tx[c] = "sent"
    /\ tx' = [tx EXCEPT ![c] = "expired"]
    /\ UNCHANGED timeouts

\* The caller goes on: the call is confirmed, or POLL_ATTEMPTS looks at it were
\* inconclusive, which is not treated as a failure.
pollForResult(c) ==
    /\ \/ tx[c] = "landed" /\ UNCHANGED timeouts
       \/ /\ tx[c] \in {"sent", "expired"}
          /\ timeouts < MaxTimeouts
          /\ timeouts' = timeouts + 1
    /\ UNCHANGED tx

\* The caller gets an error: the call failed on chain.
poll_failed(c) == tx[c] = "failed" /\ UNCHANGED <<tx, timeouts>>
============================================================================
