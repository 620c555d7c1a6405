---------------------------- MODULE RemitEscrow ----------------------------
(***************************************************************************)
(* The commit-reveal transfer escrow: contracts/remit-escrow.              *)
(*                                                                         *)
(* One action per entry point that writes.  A Soroban invocation is atomic *)
(* and an Err or a trap reverts every write of it, cross-contract writes   *)
(* included, so a refused call is no step at all and each error return is  *)
(* a conjunct of the action's guard.                                       *)
(*                                                                         *)
(* The two contracts the escrow calls appear here through their answers:   *)
(* the compliance hook by the verdict of commit_transfer, an input of      *)
(* create_transfer, and each agent registry by the set of agents it would  *)
(* let settle in each corridor, a variable its environment moves.          *)
(*                                                                         *)
(* A definition whose comment starts with "Fault" is no part of the model: *)
(* it is a wrong version of the definition after it, one that a property   *)
(* of this module is shown to notice.                                      *)
(***************************************************************************)
EXTENDS Integers, Sequences, FiniteSets, PrefixSums

CONSTANTS
    Addresses,      \* accounts of senders, agents and treasuries
    Escrow,         \* the escrow's own address, which holds the custody
    Admins,         \* operator keys
    None,           \* an absent Option or storage entry
    Tokens,         \* token contracts a sender may name
    Corridors,
    Registries,     \* agent-registry addresses the admin may wire
    Hooks,          \* compliance-hook addresses the admin may wire
    Reveals,        \* 32-byte claim codes
    Amounts,        \* amounts a caller may pass, valid or not
    FeeLevels,      \* fee_bps values a caller may pass, valid or not
    ExpiryLimits,   \* max_expiry_secs values a caller may pass, valid or not
    Expiries,       \* expiry timestamps a sender may pass
    InitialBalance, \* what every address holds of every token at the start
    U32Max,         \* where the saturating counters stop
    I128Max,        \* where the checked sums and products fail
    MaxTime,        \* bound: the ledger clock stops here
    MaxTransfers    \* bound: transfers created in a behaviour

MAX_FEE_BPS == 500
Accounts == Addresses \union {Escrow}

ASSUME EscrowIsNoUser == Escrow \notin Addresses
ASSUME NoneIsNoValue == None \notin Addresses \union Admins
ASSUME AmountsAreIntegers == Amounts \subseteq Int
ASSUME FeesAreNaturals == FeeLevels \subseteq Nat
ASSUME TimesAreNaturals ==
    Expiries \subseteq Nat /\ ExpiryLimits \subseteq Nat /\ MaxTime \in Nat
ASSUME BoundsAreNaturals ==
    /\ InitialBalance \in Nat /\ MaxTransfers \in Nat
    /\ U32Max \in Nat \ {0} /\ I128Max \in Nat \ {0}

\* SHA-256 of a claim code: no two codes share a digest.
Sha256(reveal) == <<"sha256", reveal>>
Digests == {Sha256(r) : r \in Reveals}

VARIABLES
    admin,             \* DataKey::Admin, None before initialize
    config,            \* DataKey::Config, None before initialize
    stats,             \* DataKey::Stats
    next_id,           \* DataKey::NextId
    transfers,         \* DataKey::Transfer(id): a partial map from ids
    sender_transfers,  \* DataKey::SenderTransfers(sender)
    bal,               \* the token contracts' balances
    settlers,          \* <<agent, corridor>> pairs each registry says yes to
    now                \* env.ledger().timestamp()

vars == <<admin, config, stats, next_id, transfers, sender_transfers,
          bal, settlers, now>>
ledger == <<next_id, transfers, sender_transfers, stats, bal>>

TransferStatus == {"Pending", "Claimed", "Refunded", "Cancelled"}

Transfer ==
    [id : Nat, sender : Addresses, amount : Nat \ {0}, token : Tokens,
     claim_hash : Digests, corridor_id : Corridors, expiry : Nat,
     status : TransferStatus, created_at : Nat, settled_at : Nat,
     claimed_by : Addresses \union {None}]

EscrowConfig ==
    [agent_registry : Registries, compliance_hook : Hooks,
     treasury : Accounts, fee_bps : Nat, paused : BOOLEAN,
     max_expiry_secs : Nat \ {0}]

EscrowStats ==
    [created : Nat, claimed : Nat, refunded : Nat, cancelled : Nat,
     volume_locked : Int, volume_settled : Nat, fees_collected : Nat]

TypeOK ==
    /\ admin \in Admins \union {None}
    /\ IF admin = None THEN config = None ELSE config \in EscrowConfig
    /\ stats \in EscrowStats
    /\ next_id \in Nat
    /\ DOMAIN transfers = 1..next_id
    /\ \A i \in 1..next_id : transfers[i] \in Transfer
    /\ sender_transfers \in [Addresses -> Seq(Nat)]
    /\ bal \in [Tokens -> [Accounts -> Nat]]
    /\ settlers \in [Registries -> SUBSET (Addresses \X Corridors)]
    /\ now \in Nat
----------------------------------------------------------------------------
(* Helpers of the contract. *)

is_pending(t) == t.status = "Pending"
\* Fault: the expiry second itself counts as expired.
has_expired_early(t, time) == time >= t.expiry

has_expired(t, time) == time > t.expiry

saturating_add(n) == IF n < U32Max THEN n + 1 ELSE n

\* Rounded down, in the sender's favour.
fee_for(amount, fee_bps) == (amount * fee_bps) \div 10000

\* checked_mul in fee_for: above this the claim fails with Overflow.
fee_fits(amount, fee_bps) == amount * fee_bps <= I128Max

\* The token contract's transfer; it traps on an uncovered amount.
TokenTransfer(b, token, from, to, amount) ==
    LET debited == [b[token] EXCEPT ![from] = @ - amount]
    IN  [b EXCEPT ![token] = [debited EXCEPT ![to] = @ + amount]]

\* Write transfers[t.id]: persistent().set on a new or an existing key.
set_transfer(t) ==
    transfers' = [i \in DOMAIN transfers \union {t.id} |->
                      IF i = t.id THEN t ELSE transfers[i]]

push_sender_transfer(sender, id) ==
    sender_transfers' = [sender_transfers EXCEPT ![sender] = Append(@, id)]

\* Fault: the payout leaves the record pending.
release_stays_open(t, to, next_status) ==
    /\ bal[t.token][Escrow] >= t.amount
    /\ bal' = TokenTransfer(bal, t.token, Escrow, to, t.amount)
    /\ set_transfer([t EXCEPT !.settled_at = now])

\* Fault: a fee is kept from money that goes back.
release_with_fee(t, to, next_status) ==
    /\ bal[t.token][Escrow] >= t.amount
    /\ bal' = TokenTransfer(bal, t.token, Escrow, to,
                            t.amount - fee_for(t.amount, config.fee_bps))
    /\ set_transfer([t EXCEPT !.status = next_status, !.settled_at = now])

\* Fault: the pause traps money in custody.
release_unless_paused(t, to, next_status) ==
    /\ ~config.paused
    /\ bal[t.token][Escrow] >= t.amount
    /\ bal' = TokenTransfer(bal, t.token, Escrow, to, t.amount)
    /\ set_transfer([t EXCEPT !.status = next_status, !.settled_at = now])

\* Pay the whole amount out of custody and close the record.
release(t, to, next_status) ==
    /\ bal[t.token][Escrow] >= t.amount
    /\ bal' = TokenTransfer(bal, t.token, Escrow, to, t.amount)
    /\ set_transfer([t EXCEPT !.status = next_status, !.settled_at = now])

\* The registry wired into the config must answer true; a registry that
\* cannot be reached or decoded answers nothing and the claim fails closed.
check_agent(agent, corridor) ==
    <<agent, corridor>> \in settlers[config.agent_registry]
----------------------------------------------------------------------------
(* Operator entry points. *)

Initialized == admin # None

Init ==
    /\ admin = None
    /\ config = None
    /\ stats = [created |-> 0, claimed |-> 0, refunded |-> 0, cancelled |-> 0,
                volume_locked |-> 0, volume_settled |-> 0, fees_collected |-> 0]
    /\ next_id = 0
    /\ transfers = << >>
    /\ sender_transfers = [a \in Addresses |-> << >>]
    /\ bal = [t \in Tokens |->
                 [a \in Accounts |-> IF a = Escrow THEN 0 ELSE InitialBalance]]
    /\ settlers = [r \in Registries |-> {}]
    /\ now = 0

initialize(new_admin, registry, hook, treasury, fee_bps, max_expiry_secs) ==
    /\ ~Initialized
    /\ fee_bps <= MAX_FEE_BPS
    /\ max_expiry_secs # 0
    /\ admin' = new_admin
    /\ config' = [agent_registry |-> registry, compliance_hook |-> hook,
                  treasury |-> treasury, fee_bps |-> fee_bps,
                  paused |-> FALSE, max_expiry_secs |-> max_expiry_secs]
    /\ UNCHANGED <<ledger, settlers, now>>

set_admin(new_admin) ==
    /\ Initialized
    /\ admin' = new_admin
    /\ UNCHANGED <<config, ledger, settlers, now>>

\* What the six configuration setters share: require_admin, load_config, set.
write_config(new_config) ==
    /\ Initialized
    /\ config' = new_config
    /\ UNCHANGED <<admin, ledger, settlers, now>>

\* Fault: the new rate is not held to the cap.
set_fee_bps_unchecked(fee_bps) ==
    write_config([config EXCEPT !.fee_bps = fee_bps])

set_fee_bps(fee_bps) ==
    /\ fee_bps <= MAX_FEE_BPS
    /\ write_config([config EXCEPT !.fee_bps = fee_bps])

set_treasury(treasury) ==
    write_config([config EXCEPT !.treasury = treasury])

set_agent_registry(registry) ==
    write_config([config EXCEPT !.agent_registry = registry])

set_compliance_hook(hook) ==
    write_config([config EXCEPT !.compliance_hook = hook])

\* Fault: a zero window is let through.
set_max_expiry_unchecked(secs) ==
    write_config([config EXCEPT !.max_expiry_secs = secs])

set_max_expiry(secs) ==
    /\ secs # 0
    /\ write_config([config EXCEPT !.max_expiry_secs = secs])

set_paused(paused) ==
    write_config([config EXCEPT !.paused = paused])
----------------------------------------------------------------------------
(* The transfer life cycle. *)

\* Verdicts of the hook's commit_transfer: accepted, refused by policy, or an
\* invocation that did not complete.
Verdicts == {"ok", "refused", "failed"}

create_transfer(sender, amount, token, claim_hash, corridor, expiry, verdict) ==
    LET id == next_id + 1
        t  == [id |-> id, sender |-> sender, amount |-> amount,
               token |-> token, claim_hash |-> claim_hash,
               corridor_id |-> corridor, expiry |-> expiry,
               status |-> "Pending", created_at |-> now, settled_at |-> 0,
               claimed_by |-> None]
    IN  /\ Initialized
        /\ ~config.paused
        /\ amount > 0
        /\ expiry > now
        /\ expiry - now <= config.max_expiry_secs
        /\ verdict = "ok"
        /\ bal[token][sender] >= amount
        /\ bal' = TokenTransfer(bal, token, sender, Escrow, amount)
        /\ next_id' = id
        /\ set_transfer(t)
        /\ push_sender_transfer(sender, id)
        /\ stats.volume_locked + amount <= I128Max
        /\ stats' = [stats EXCEPT !.created = saturating_add(@),
                                  !.volume_locked = @ + amount]
        /\ UNCHANGED <<admin, config, settlers, now>>

\* Fault: a settled transfer can be cancelled again.
cancel_transfer_again(sender, id) ==
    /\ id \in DOMAIN transfers
    /\ LET t == transfers[id]
       IN  /\ t.sender = sender
           /\ release(t, t.sender, "Cancelled")
           /\ stats' = [stats EXCEPT !.cancelled = saturating_add(@),
                                     !.volume_locked = @ - t.amount]
    /\ UNCHANGED <<admin, config, next_id, sender_transfers, settlers, now>>

cancel_transfer(sender, id) ==
    /\ id \in DOMAIN transfers
    /\ LET t == transfers[id]
       IN  /\ t.sender = sender
           /\ is_pending(t)
           /\ release(t, t.sender, "Cancelled")
           /\ stats' = [stats EXCEPT !.cancelled = saturating_add(@),
                                     !.volume_locked = @ - t.amount]
    /\ UNCHANGED <<admin, config, next_id, sender_transfers, settlers, now>>

claim_transfer(agent, id, reveal) ==
    /\ Initialized
    /\ id \in DOMAIN transfers
    /\ LET t      == transfers[id]
           fee    == fee_for(t.amount, config.fee_bps)
           payout == t.amount - fee
           paid   == TokenTransfer(bal, t.token, Escrow, agent, payout)
       IN  /\ is_pending(t)
           /\ ~has_expired(t, now)
           /\ t.sender # agent
           /\ Sha256(reveal) = t.claim_hash
           /\ check_agent(agent, t.corridor_id)
           /\ fee_fits(t.amount, config.fee_bps)
           /\ bal[t.token][Escrow] >= payout
           /\ IF fee > 0
              THEN /\ paid[t.token][Escrow] >= fee
                   /\ bal' = TokenTransfer(paid, t.token, Escrow,
                                           config.treasury, fee)
              ELSE bal' = paid
           /\ set_transfer([t EXCEPT !.status = "Claimed",
                                     !.settled_at = now,
                                     !.claimed_by = agent])
           /\ stats.volume_settled + t.amount <= I128Max
           /\ stats.fees_collected + fee <= I128Max
           /\ stats' = [stats EXCEPT !.claimed = saturating_add(@),
                                     !.volume_locked = @ - t.amount,
                                     !.volume_settled = @ + t.amount,
                                     !.fees_collected = @ + fee]
    /\ UNCHANGED <<admin, config, next_id, sender_transfers, settlers, now>>

\* Permissionless: the caller is not an input.
refund_expired(id) ==
    /\ id \in DOMAIN transfers
    /\ LET t == transfers[id]
       IN  /\ is_pending(t)
           /\ has_expired(t, now)
           /\ release(t, t.sender, "Refunded")
           /\ stats' = [stats EXCEPT !.refunded = saturating_add(@),
                                     !.volume_locked = @ - t.amount]
    /\ UNCHANGED <<admin, config, next_id, sender_transfers, settlers, now>>
----------------------------------------------------------------------------
(* The environment. *)

\* A registry changes its mind about one agent in one corridor.
RegistryMoves(registry, agent, corridor) ==
    /\ settlers' \in
          {[settlers EXCEPT ![registry] = @ \union {<<agent, corridor>>}],
           [settlers EXCEPT ![registry] = @ \ {<<agent, corridor>>}]}
    /\ UNCHANGED <<admin, config, ledger, now>>

Tick ==
    /\ now < MaxTime
    /\ now' = now + 1
    /\ UNCHANGED <<admin, config, ledger, settlers>>

Ids == 1..MaxTransfers

Administer ==
    \/ \E a \in Admins, r \in Registries, h \in Hooks, t \in Accounts,
          f \in FeeLevels, m \in ExpiryLimits : initialize(a, r, h, t, f, m)
    \/ \E a \in Admins : set_admin(a)
    \/ \E f \in FeeLevels : set_fee_bps(f)
    \/ \E t \in Accounts : set_treasury(t)
    \/ \E r \in Registries : set_agent_registry(r)
    \/ \E h \in Hooks : set_compliance_hook(h)
    \/ \E m \in ExpiryLimits : set_max_expiry(m)
    \/ \E p \in BOOLEAN : set_paused(p)

Next ==
    \/ Administer
    \/ \E s \in Addresses, m \in Amounts, t \in Tokens, d \in Digests,
          c \in Corridors, e \in Expiries, v \in Verdicts :
             next_id < MaxTransfers /\ create_transfer(s, m, t, d, c, e, v)
    \/ \E s \in Addresses, i \in Ids : cancel_transfer(s, i)
    \/ \E a \in Addresses, i \in Ids, r \in Reveals : claim_transfer(a, i, r)
    \/ \E i \in Ids : refund_expired(i)
    \/ \E g \in Registries, a \in Addresses, c \in Corridors :
             RegistryMoves(g, a, c)
    \/ Tick

Spec == Init /\ [][Next]_vars

\* Ledger time never stops, and someone (the sender, an agent, the operator's
\* keeper: the call needs no signature) eventually submits an open refund.
FairSpec ==
    /\ Spec
    /\ WF_vars(Tick)
    /\ \A i \in Ids : WF_vars(refund_expired(i))
----------------------------------------------------------------------------
(* Properties. *)

PendingAmount(token) ==
    [i \in 1..next_id |->
        IF is_pending(transfers[i]) /\ transfers[i].token = token
        THEN transfers[i].amount ELSE 0]

\* The escrow is solvent in every token: what the token contract says it holds
\* covers everything it still owes on pending transfers.  (More than covers:
\* set_treasury may name the escrow itself, and its fees then stay here.)
CustodyCoversPending ==
    \A k \in Tokens : bal[k][Escrow] >= PrefixSum(PendingAmount(k), next_id)

\* Whatever the fee was set to and reset to between claims, the fees taken so
\* far are at most MAX_FEE_BPS of the volume settled so far.
FeesWithinCap ==
    stats.fees_collected * 10000 <= stats.volume_settled * MAX_FEE_BPS

\* Claims settle inside the window and never to the sender, refunds only after
\* it: the two can race for a transfer but their windows do not overlap.
SettledInWindow ==
    \A i \in 1..next_id :
        LET t == transfers[i]
        IN  /\ t.status # "Pending" => t.settled_at >= t.created_at
            /\ t.status = "Claimed" => /\ t.settled_at <= t.expiry
                                       /\ t.claimed_by \notin {None, t.sender}
            /\ t.status = "Refunded" => t.settled_at > t.expiry
            /\ t.status # "Claimed" => t.claimed_by = None

Terms(t) == <<t.id, t.sender, t.amount, t.token, t.claim_hash,
              t.corridor_id, t.expiry, t.created_at>>

\* The terms of a transfer never change, and a settled record never changes at
\* all: no second payout, no reopening.
SettledIsFinal ==
    [][\A i \in 1..next_id :
          /\ i \in DOMAIN transfers'
          /\ Terms(transfers'[i]) = Terms(transfers[i])
          /\ ~is_pending(transfers[i]) => transfers'[i] = transfers[i]]_vars

\* Money in flight always comes to rest, in whatever state the operator leaves
\* the contract: every pending transfer is eventually claimed or returned.
EveryTransferSettles ==
    \A i \in Ids :
        (i \in DOMAIN transfers /\ is_pending(transfers[i]))
            ~> (i \in DOMAIN transfers /\ ~is_pending(transfers[i]))

OutcomeOf(status) ==
    CASE status = "Pending" -> "open"
      [] status = "Claimed" -> "paid"
      [] status \in {"Refunded", "Cancelled"} -> "returned"

PromiseOf(t) ==
    [sender |-> t.sender, currency |-> t.token, amount |-> t.amount,
     until |-> t.expiry, outcome |-> OutcomeOf(t.status)]
Promises == [i \in 1..next_id |-> PromiseOf(transfers[i])]

Promised == INSTANCE TransferPromise WITH
    Parties <- Addresses, Vault <- Escrow, Currencies <- Tokens,
    CutLimit <- MAX_FEE_BPS, InitialPurse <- InitialBalance,
    purse <- bal, clock <- now, promises <- Promises

\* The contract keeps the promise that TransferPromise states: through every
\* change of fee, treasury, registry and pause, money in custody is paid in time
\* less a bounded cut or goes back whole, once, and no other call moves any.
KeepsPromise == Promised!PromiseSpec
============================================================================
