-------------------------- MODULE TransferPromise --------------------------
(***************************************************************************)
(* What the escrow promises its users, without the contract: money handed  *)
(* over for a transfer waits in a vault until it is either paid, in time   *)
(* and to someone else, less a cut of bounded size, or given back to the   *)
(* one who sent it, whole.  It happens once.  Nothing else moves money.    *)
(*                                                                         *)
(* RemitEscrow implements this specification: see KeepsPromise there.      *)
(***************************************************************************)
EXTENDS Integers, Sequences

CONSTANTS
    Parties,       \* who may send and who may be paid
    Vault,         \* where the money waits
    Currencies,
    CutLimit,      \* the largest cut, in basis points
    InitialPurse   \* what every party holds of every currency at the start

Outcomes == {"open", "paid", "returned"}

VARIABLES
    promises,   \* a sequence of promises, in the order they were made
    purse,      \* who holds how much of each currency
    clock

promiseVars == <<promises, purse, clock>>

PromiseInit ==
    /\ promises = << >>
    /\ purse = [c \in Currencies |->
                   [p \in Parties \cup {Vault} |-> IF p = Vault THEN 0 ELSE InitialPurse]]
    /\ clock = 0

Moved(held, from, to, amount) ==
    LET taken == [held EXCEPT ![from] = @ - amount]
    IN  [taken EXCEPT ![to] = @ + amount]

Closed(i, outcome) == promises' = [promises EXCEPT ![i].outcome = outcome]

\* The amount leaves the sender's purse as the promise is made, and the promise
\* is open to payment for some time at least.
Make ==
    /\ Len(promises') = Len(promises) + 1
    /\ \E p \in Parties, c \in Currencies :
          LET given == purse[c][p] - purse'[c][p]
              until == promises'[Len(promises) + 1].until
          IN  /\ given > 0 /\ given <= purse[c][p]
              /\ until > clock
              /\ purse' = [purse EXCEPT ![c] = Moved(@, p, Vault, given)]
              /\ promises' = Append(promises,
                    [sender |-> p, currency |-> c, amount |-> given,
                     until |-> until, outcome |-> "open"])
    /\ UNCHANGED clock

\* In time, to someone other than the sender, all but the cut.
Pay ==
    /\ \E i \in DOMAIN promises :
          LET pr == promises[i]
          IN  /\ pr.outcome = "open"
              /\ clock <= pr.until
              /\ \E payee \in Parties \ {pr.sender}, collector \in Parties \cup {Vault},
                    cut \in 0 .. (pr.amount * CutLimit) \div 10000 :
                    purse' = [purse EXCEPT ![pr.currency] =
                                 Moved(Moved(@, Vault, payee, pr.amount - cut),
                                       Vault, collector, cut)]
              /\ Closed(i, "paid")
    /\ UNCHANGED clock

\* The whole amount, back to where it came from.
GiveBack ==
    /\ \E i \in DOMAIN promises :
          LET pr == promises[i]
          IN  /\ pr.outcome = "open"
              /\ purse' = [purse EXCEPT ![pr.currency] =
                              Moved(@, Vault, pr.sender, pr.amount)]
              /\ Closed(i, "returned")
    /\ UNCHANGED clock

TimePasses ==
    /\ clock' = clock + 1
    /\ UNCHANGED <<promises, purse>>

PromiseNext == Make \/ Pay \/ GiveBack \/ TimePasses

PromiseSpec == PromiseInit /\ [][PromiseNext]_promiseVars
=============================================================================
