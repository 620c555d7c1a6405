------------------------------ MODULE Network ------------------------------
(***************************************************************************)
(* The four contracts deployed together over one token: the escrow commits *)
(* each transfer to the compliance hook and asks the registry who may      *)
(* settle; the pool asks the registry whether an agent is authorized and   *)
(* what its bond is.  Each entry point is the component's own action,      *)
(* taken together with the actions of the contracts it calls: a            *)
(* cross-contract call is part of the same atomic invocation.              *)
(*                                                                         *)
(* The network starts as deploy-contracts.ts leaves it: initialised, wired *)
(* and configured.  The modules of the components cover the rest of their  *)
(* entry points.  The token is an asset that the operator issues, with     *)
(* trustlines: an account that does not trust it can receive none, and the *)
(* issuer needs none and can have none.                                    *)
(*                                                                         *)
(* A definition whose comment starts with "Fault" is no part of the model: *)
(* it is a wrong version of the definition after it, one that a property   *)
(* of this module is shown to notice.                                      *)
(***************************************************************************)
EXTENDS Integers, Sequences, FiniteSets, FiniteSetsExt, SequencesExt, PrefixSums

CONSTANTS
    Senders,        \* accounts that send transfers and provide float
    Agents,         \* accounts that register as agents
    Treasury,       \* TREASURY_PUBLIC_KEY, where fees and slashed bonds go
    Escrow, Registry, Hook, Pool,   \* the addresses of the four contracts
    Operator,       \* ADMIN_SECRET_KEY's account: admin of the four contracts, issuer
    AttesterKey,    \* ATTESTER_PUBLIC_KEY, of its own or the operator's
    None,           \* an absent Option or storage entry
    Token,          \* the one token of the deployment
    Regions,
    Corridors,
    CorridorRegion, \* map_corridor calls of the deployment
    Codes,          \* 32-byte claim codes
    Transferred,    \* amounts that transfers are made for
    Bonded,         \* amounts of bond posted, withdrawn and slashed
    Floats,         \* amounts of float deposited, drawn and repaid
    FEE_BPS,        \* fee_bps of the deployment's config
    MIN_BOND,       \* min_bond of every region
    BondLevels,     \* what bonds may add up to
    RATIO_BPS,      \* collateral_ratio_bps of the deployment's config
    Ratios,         \* values that it is set to later
    CAP_BPS,        \* default_utilization_cap_bps
    THRESHOLDS,     \* the tier bands of every corridor
    WINDOW,         \* seconds until a new transfer expires
    SECONDS_PER_DAY,
    MaxTime,        \* bound: the ledger clock stops here
    MaxTransfers,   \* bound: transfers created
    MaxSlashes,     \* bound: slashes of one agent
    MaxMoves        \* bound: deposits and draws, each

I128Max == 100000000
U32Max == 1000
Parties == Senders \cup Agents \cup {Treasury}
Holders == Parties \cup {Escrow, Registry, Pool}

\* Contracts and accounts have addresses of different kinds, and no two
\* contracts share one.
ASSUME ContractsAreDistinct ==
    /\ Escrow \notin Parties \cup {Registry, Pool}
    /\ Registry \notin Parties \cup {Pool}
    /\ Pool \notin Parties
ASSUME PartiesAreFinite ==
    IsFiniteSet(Senders) /\ IsFiniteSet(Agents) /\ IsFiniteSet(Regions)
ASSUME AmountsAreIntegers ==
    Transferred \cup Bonded \cup Floats \cup BondLevels \subseteq Int
ASSUME TimesAreNaturals ==
    MaxTime \in Nat /\ WINDOW \in Nat /\ SECONDS_PER_DAY \in Nat \ {0}

VARIABLES
    e_admin, e_config, e_stats, e_next_id, e_transfers, e_sender_transfers,
    r_admin, r_treasury, r_agents, r_regions, r_region_list, r_region_agents,
    r_corridor_region, r_stats,
    h_admin, h_paused, h_escrow, h_operators, h_thresholds, h_corridor_list,
    h_attestation, h_daily_volume, h_stats, h_log,
    p_admin, p_config, p_pools, p_region_list, p_shares, p_exposure, p_stats,
    token,      \* balances of the token, as the registry and the pool see them
    bal,        \* the same, as the escrow sees them: by token and account
    now,        \* the ledger clock
    trusts,     \* accounts with a trustline
    secured     \* history: draws since whose check the agent has lost no bond

escrowVars == <<e_admin, e_config, e_stats, e_next_id, e_transfers, e_sender_transfers>>
registryVars == <<r_admin, r_treasury, r_agents, r_regions, r_region_list, r_region_agents,
                  r_corridor_region, r_stats>>
hookVars == <<h_admin, h_paused, h_escrow, h_operators, h_thresholds, h_corridor_list,
              h_attestation, h_daily_volume, h_stats, h_log>>
poolVars == <<p_admin, p_config, p_pools, p_region_list, p_shares, p_exposure, p_stats>>
tokenVars == <<token, bal>>
vars == <<escrowVars, registryVars, hookVars, poolVars, tokenVars, now, trusts, secured>>

R == INSTANCE AgentRegistry WITH
    Treasuries <- {Treasury}, Admins <- {Operator}, Amounts <- Bonded,
    MinBonds <- {MIN_BOND}, AgentCaps <- {0}, InitialBalance <- 0,
    admin <- r_admin, treasury <- r_treasury, agents <- r_agents, regions <- r_regions,
    region_list <- r_region_list, region_agents <- r_region_agents,
    corridor_region <- r_corridor_region, stats <- r_stats, bal <- token

\* The pairs that the registry answers check_agent's question about with yes.
Settlers == {p \in Agents \X Corridors : R!is_authorized_for_corridor(p[1], p[2])}

E == INSTANCE RemitEscrow WITH
    Addresses <- Parties \cup {Registry, Pool}, Admins <- {Operator}, Tokens <- {Token},
    Registries <- {Registry}, Hooks <- {Hook}, Reveals <- Codes, Amounts <- Transferred,
    FeeLevels <- {FEE_BPS}, ExpiryLimits <- {WINDOW}, Expiries <- 1 .. MaxTime + WINDOW,
    InitialBalance <- 0,
    admin <- e_admin, config <- e_config, stats <- e_stats, next_id <- e_next_id,
    transfers <- e_transfers, sender_transfers <- e_sender_transfers,
    settlers <- [r \in {Registry} |-> Settlers]

H == INSTANCE ComplianceHook WITH
    Subjects <- Senders, Callers <- {Escrow}, Attesters <- {AttesterKey, Operator},
    Admins <- {Operator},
    Amounts <- Transferred, ThresholdInputs <- {THRESHOLDS},
    Expiries <- 1 .. MaxTime + WINDOW, MaxCommits <- MaxTransfers, MaxPublications <- 10,
    admin <- h_admin, paused <- h_paused, escrow <- h_escrow, operators <- h_operators,
    thresholds <- h_thresholds, corridor_list <- h_corridor_list,
    attestation <- h_attestation, daily_volume <- h_daily_volume, stats <- h_stats,
    log <- h_log

P == INSTANCE LiquidityPool WITH
    Users <- Senders \cup Agents, Admins <- {Operator}, Registries <- {Registry},
    Amounts <- Floats, Bonds <- BondLevels, Caps <- {CAP_BPS}, InitialBalance <- 0,
    admin <- p_admin, config <- p_config, pools <- p_pools, region_list <- p_region_list,
    shares <- p_shares, exposure <- p_exposure, stats <- p_stats, bal <- token

----------------------------------------------------------------------------
(* The deployed network. *)

\* What the contracts' own initialize and add_region ask of the deployment's
\* configuration.
ASSUME ConfigurationIsValid ==
    /\ FEE_BPS \in 0 .. E!MAX_FEE_BPS
    /\ MIN_BOND \in Nat
    /\ P!validate_ratio(RATIO_BPS) /\ Ratios \subseteq Nat
    /\ P!valid_cap(CAP_BPS) /\ CAP_BPS \in Nat

\* A stored record is never mistaken for an absent one.
PoolRecord ==
    [total_deposited : Int, total_drawn : Int, total_shares : Int, depositor_count : Int,
     active : BOOLEAN, utilization_cap_bps : Int]
ASSUME NoneIsNoRecord == None \notin R!Agent \cup PoolRecord

Init ==
    /\ e_admin = Operator
    /\ e_config = [agent_registry |-> Registry, compliance_hook |-> Hook, treasury |-> Treasury,
                   fee_bps |-> FEE_BPS, paused |-> FALSE, max_expiry_secs |-> WINDOW]
    /\ e_stats = [created |-> 0, claimed |-> 0, refunded |-> 0, cancelled |-> 0,
                  volume_locked |-> 0, volume_settled |-> 0, fees_collected |-> 0]
    /\ e_next_id = 0 /\ e_transfers = << >>
    /\ e_sender_transfers = [a \in Parties \cup {Registry, Pool} |-> << >>]
    /\ r_admin = Operator /\ r_treasury = Treasury
    /\ r_agents = [a \in Agents |-> None]
    /\ r_regions = [r \in Regions |-> [min_bond |-> MIN_BOND, max_agents |-> 0, active |-> TRUE]]
    /\ r_region_list = SetToSeq(Regions)
    /\ r_region_agents = [r \in Regions |-> << >>]
    /\ r_corridor_region = CorridorRegion
    /\ r_stats = [total_agents |-> 0, authorized_agents |-> 0, total_bonded |-> 0,
                  total_slashed |-> 0]
    /\ h_admin = Operator /\ h_paused = FALSE /\ h_escrow = Escrow
    /\ h_operators = {AttesterKey}
    /\ h_thresholds = [c \in Corridors |-> THRESHOLDS]
    /\ h_corridor_list = SetToSeq(Corridors)
    /\ h_attestation = [s \in Senders |-> None]
    /\ h_daily_volume = [k \in Senders \X Corridors \X H!Days |-> 0]
    /\ h_stats = [attestations_issued |-> 0, attestations_revoked |-> 0,
                  transfers_committed |-> 0, enhanced_tier_transfers |-> 0]
    /\ h_log = << >>
    /\ p_admin = Operator
    /\ p_config = [agent_registry |-> Registry, collateral_ratio_bps |-> RATIO_BPS,
                   default_utilization_cap_bps |-> CAP_BPS, paused |-> FALSE]
    /\ p_pools = [r \in Regions |->
          [total_deposited |-> 0, total_drawn |-> 0, total_shares |-> 0, depositor_count |-> 0,
           active |-> TRUE, utilization_cap_bps |-> CAP_BPS]]
    /\ p_region_list = SetToSeq(Regions)
    /\ p_shares = [u \in Senders \cup Agents |-> [r \in Regions |-> 0]]
    /\ p_exposure = [u \in Senders \cup Agents |-> [r \in Regions |-> 0]]
    /\ p_stats = [regions_opened |-> Cardinality(Regions), total_deposits |-> 0,
                  total_withdrawals |-> 0, total_draws |-> 0]
    /\ token = [a \in Holders |-> 0]
    /\ bal = [t \in {Token} |-> token]
    /\ now = 0
    /\ trusts = {}
    /\ secured = {}

\* One token, seen through two variables.
seenByEscrow == bal' = [t \in {Token} |-> token']
seenByOthers == token' = bal'[Token]

\* What the issuer is paid is taken out of circulation; the model counts it as
\* the issuer's balance.
trusted(accounts) == accounts \cap Parties \subseteq trusts \cup {Operator}

\* A plain transfer between accounts, and the issuer's mint.
token_transfer(from, to, amount) ==
    /\ trusted({to})
    /\ R!TokenTransfer(from, to, amount)
    /\ seenByEscrow
    /\ UNCHANGED <<escrowVars, registryVars, hookVars, poolVars, now, trusts, secured>>

mint(to, amount) ==
    /\ trusted({to})
    /\ token' = [token EXCEPT ![to] = @ + amount]
    /\ seenByEscrow
    /\ UNCHANGED <<escrowVars, registryVars, hookVars, poolVars, now, trusts, secured>>

change_trust(account) ==
    /\ account # Operator
    /\ trusts' = trusts \cup {account}
    /\ UNCHANGED <<escrowVars, registryVars, hookVars, poolVars, tokenVars, now, secured>>
----------------------------------------------------------------------------
(* Transfers. *)

\* Fault: the escrow only asks the hook, and records nothing there.
create_without_commit(sender, amount, claim_hash, corridor, expiry) ==
    /\ UNCHANGED registryVars
    /\ H!evaluate(sender, amount, corridor)
    /\ E!create_transfer(sender, amount, Token, claim_hash, corridor, expiry, "ok")
    /\ seenByOthers
    /\ UNCHANGED <<hookVars, poolVars, trusts, secured>>

create_transfer(sender, amount, claim_hash, corridor, expiry) ==
    /\ UNCHANGED registryVars
    /\ H!commit_transfer(Escrow, sender, amount, corridor)
    /\ E!create_transfer(sender, amount, Token, claim_hash, corridor, expiry, "ok")
    /\ seenByOthers
    /\ UNCHANGED <<poolVars, trusts, secured>>

claim_transfer(agent, id, reveal) ==
    /\ UNCHANGED registryVars
    /\ trusted({agent, Treasury})
    /\ E!claim_transfer(agent, id, reveal)
    /\ seenByOthers
    /\ UNCHANGED <<hookVars, poolVars, trusts, secured>>

cancel_transfer(sender, id) ==
    /\ UNCHANGED registryVars
    /\ E!cancel_transfer(sender, id)
    /\ seenByOthers
    /\ UNCHANGED <<hookVars, poolVars, trusts, secured>>

refund_expired(id) ==
    /\ UNCHANGED registryVars
    /\ E!refund_expired(id)
    /\ seenByOthers
    /\ UNCHANGED <<hookVars, poolVars, trusts, secured>>

\* Sourced by the operator's key, whoever is enrolled.
publish_attestation(subject, tier, expires_at) ==
    /\ H!publish_attestation(Operator, subject, tier, expires_at)
    /\ UNCHANGED <<escrowVars, registryVars, poolVars, tokenVars, trusts, secured>>
----------------------------------------------------------------------------
(* Bonds. *)

unaffected == UNCHANGED <<escrowVars, hookVars, poolVars, now, trusts>>
without(agent) == {p \in secured : p[1] # agent}

register_agent(agent, region, bond) ==
    /\ R!register_agent(agent, region, bond)
    /\ seenByEscrow
    /\ secured' = without(agent)
    /\ unaffected

authorize_agent(agent) == R!authorize_agent(agent) /\ UNCHANGED <<bal, secured>> /\ unaffected
suspend_agent(agent) == R!suspend_agent(agent) /\ UNCHANGED <<bal, secured>> /\ unaffected
revoke_agent(agent) == R!revoke_agent(agent) /\ UNCHANGED <<bal, secured>> /\ unaffected

slash_agent(agent, amount) ==
    /\ trusted({Treasury})
    /\ R!slash_agent(agent, amount)
    /\ seenByEscrow
    /\ secured' = without(agent)
    /\ unaffected

withdraw_bond(agent, amount) ==
    /\ R!withdraw_bond(agent, amount)
    /\ seenByEscrow
    /\ secured' = without(agent)
    /\ unaffected
----------------------------------------------------------------------------
(* Float. *)

deposit_liquidity(provider, region, amount) ==
    /\ P!deposit_liquidity(provider, region, amount)
    /\ seenByEscrow
    /\ UNCHANGED <<escrowVars, registryVars, hookVars, now, trusts, secured>>

\* registry_authorizes and registry_bond are calls to the registry.
draw_liquidity(agent, region, amount) ==
    /\ trusted({agent})
    /\ P!draw_liquidity(agent, region, amount, R!is_authorized_in(agent, region),
                        R!get_bond(agent))
    /\ seenByEscrow
    /\ secured' = secured \cup {<<agent, region>>}
    /\ UNCHANGED <<escrowVars, registryVars, hookVars, now, trusts>>

repay_liquidity(agent, region, amount) ==
    /\ P!repay_liquidity(agent, region, amount)
    /\ seenByEscrow
    /\ UNCHANGED <<escrowVars, registryVars, hookVars, now, trusts, secured>>

set_collateral_ratio(ratio) ==
    /\ P!set_collateral_ratio(ratio)
    /\ secured' = IF ratio > p_config.collateral_ratio_bps THEN {} ELSE secured
    /\ UNCHANGED <<escrowVars, registryVars, hookVars, bal, now, trusts>>

Tick ==
    /\ H!Tick
    /\ UNCHANGED <<escrowVars, registryVars, poolVars, tokenVars, trusts, secured>>
----------------------------------------------------------------------------
(* Calls that anyone may make while others are at work. *)

Outside ==
    \/ \E s \in Senders, i \in 1 .. MaxTransfers : cancel_transfer(s, i)
    \/ \E i \in 1 .. MaxTransfers : refund_expired(i)
    \/ \E a \in Agents : suspend_agent(a) \/ revoke_agent(a)
    \/ \E a \in Agents, m \in Bonded :
          /\ r_agents[a] # None => r_agents[a].slash_count < MaxSlashes
          /\ slash_agent(a, m)
    \/ \E a \in Agents, m \in Bonded : withdraw_bond(a, m)
    \/ \E s \in Senders, r \in Regions, m \in Floats :
          p_stats.total_deposits < MaxMoves /\ deposit_liquidity(s, r, m)
    \/ \E a \in Agents, r \in Regions, m \in Floats :
          p_stats.total_draws < MaxMoves /\ draw_liquidity(a, r, m)
    \/ \E a \in Agents, r \in Regions, m \in Floats : repay_liquidity(a, r, m)
    \/ \E b \in Ratios : set_collateral_ratio(b)
    \/ Tick
----------------------------------------------------------------------------
(* Properties. *)

\* Whatever is called in whatever order, each contract still covers what it owes
\* out of its own balance of the shared token, and calls that span contracts
\* take nothing from another contract's custody.
EachCustodyCovered ==
    /\ E!CustodyCoversPending
    /\ token[Registry] >= R!TotalBonds
    /\ P!FloatIsSeparate

CreatedOn(s, c, d) ==
    [i \in 1 .. e_next_id |->
        IF /\ e_transfers[i].sender = s /\ e_transfers[i].corridor_id = c
           /\ H!day_of(e_transfers[i].created_at) = d
        THEN e_transfers[i].amount ELSE 0]

\* The volume that the hook holds against a sender's daily limit is what the
\* escrow took from that sender that day: no transfer escapes the limit, and a
\* transfer that was not created counts against nobody (create_transfer's call
\* of commit_transfer).
VolumeMatchesEscrow ==
    \A s \in Senders, c \in Corridors, d \in H!Days :
        h_daily_volume[<<s, c, d>>] = PrefixSum(CreatedOn(s, c, d), e_next_id)

\* Float that was drawn against a bond stays covered by it at the ratio in
\* force, however often the agent draws again, until the agent loses bond (a
\* slash, a withdrawal once it is suspended, a new start) or the operator raises
\* the ratio: the pool's own limitation, "the existing position can become
\* under-collateralised", has no other cause.
UncoveredOnlyAfterBondLoss ==
    \A p \in secured : R!get_bond(p[1]) >= P!bond_requirement(p_exposure[p[1]][p[2]])
=============================================================================
