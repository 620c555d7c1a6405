--------------------------- MODULE LiquidityPool ---------------------------
(***************************************************************************)
(* The collateralised float pool: contracts/liquidity-pool.                *)
(*                                                                         *)
(* One action per entry point that writes; an error return or a trap       *)
(* reverts the invocation, so it is a missing step.  All regions share one *)
(* token balance, and the token is set once, by initialize.  The registry  *)
(* appears through its two answers, which draw_liquidity takes as inputs:  *)
(* is_authorized (a call that fails counts as a no) and get_bond.          *)
(* Timestamps are left out: the pool stores them and never reads them.     *)
(*                                                                         *)
(* A definition whose comment starts with "Fault" is no part of the model: *)
(* it is a wrong version of the definition after it, one that a property   *)
(* of this module is shown to notice.                                      *)
(***************************************************************************)
EXTENDS Integers, Sequences, FiniteSets, Functions

CONSTANTS
    Users,          \* accounts that provide or draw float; one may do both
    Pool,           \* the pool's own address, which holds the float
    Admins,         \* operator keys
    None,           \* an absent Option or storage entry
    Registries,     \* agent-registry addresses the admin may wire
    Regions,
    Amounts,        \* amounts and share counts a caller may pass, valid or not
    Bonds,          \* bonds a registry may report
    Ratios,         \* collateral_ratio_bps values a caller may pass
    Caps,           \* utilization caps a caller may pass
    InitialBalance, \* what every user holds of the token at the start
    U32Max,         \* where the saturating counters stop
    I128Max,        \* where the checked sums and products fail
    MaxMoves        \* bound: deposits, withdrawals and draws, each

MIN_COLLATERAL_RATIO_BPS == 10000
MAX_COLLATERAL_RATIO_BPS == 100000
MAX_UTILIZATION_CAP_BPS == 9500
Accounts == Users \union {Pool}

ASSUME PoolIsNoUser == Pool \notin Users
ASSUME UsersAreFinite == IsFiniteSet(Users) /\ IsFiniteSet(Regions)
ASSUME NoneIsNoValue == None \notin Admins
ASSUME AmountsAreIntegers == Amounts \subseteq Int /\ Bonds \subseteq Int
ASSUME SettingsAreNaturals == Ratios \subseteq Nat /\ Caps \subseteq Nat
ASSUME BoundsAreNaturals ==
    /\ InitialBalance \in Nat /\ MaxMoves \in Nat
    /\ U32Max \in Nat \ {0} /\ I128Max \in Nat \ {0}
\* The u32 counters of depositors and regions saturate, and are exact only as
\* long as there are no more accounts and regions than they can count.
ASSUME CountersFit == Cardinality(Users) <= U32Max /\ Cardinality(Regions) <= U32Max

VARIABLES
    admin,        \* DataKey::Admin, None before initialize
    config,       \* DataKey::Config, None before initialize
    pools,        \* DataKey::Pool(region_id), None when absent
    region_list,  \* DataKey::RegionList
    shares,       \* DataKey::Shares(provider, region_id), 0 when absent
    exposure,     \* DataKey::Exposure(agent, region_id), 0 when absent
    stats,        \* DataKey::Stats
    bal           \* the token's balances

vars == <<admin, config, pools, region_list, shares, exposure, stats, bal>>
accounts == <<shares, exposure, bal>>

PoolState ==
    [total_deposited : Nat, total_drawn : Nat, total_shares : Nat,
     depositor_count : Nat, utilization_cap_bps : 1..MAX_UTILIZATION_CAP_BPS,
     active : BOOLEAN]
PoolConfig ==
    [agent_registry : Registries,
     collateral_ratio_bps : MIN_COLLATERAL_RATIO_BPS..MAX_COLLATERAL_RATIO_BPS,
     default_utilization_cap_bps : 1..MAX_UTILIZATION_CAP_BPS,
     paused : BOOLEAN]
LiquidityStats == [regions_opened : Nat, total_deposits : Nat,
                   total_withdrawals : Nat, total_draws : Nat]
ASSUME NoneIsNoRecord == None \notin PoolState \union PoolConfig

TypeOK ==
    /\ admin \in Admins \union {None}
    /\ (admin = None) = (config = None)
    /\ config # None => config \in PoolConfig
    /\ pools \in [Regions -> PoolState \union {None}]
    /\ region_list \in Seq(Regions)
    /\ shares \in [Users -> [Regions -> Nat]]
    /\ exposure \in [Users -> [Regions -> Nat]]
    /\ stats \in LiquidityStats
    /\ bal \in [Accounts -> Nat]
----------------------------------------------------------------------------
(* Helpers of the contract. *)

saturating_add(n) == IF n < U32Max THEN n + 1 ELSE n
saturating_sub(n) == IF n > 0 THEN n - 1 ELSE n

available(pool) == pool.total_deposited - pool.total_drawn

utilization_bps(drawn, deposited) == (drawn * 10000) \div deposited

validate_ratio(bps) ==
    bps \in MIN_COLLATERAL_RATIO_BPS..MAX_COLLATERAL_RATIO_BPS
valid_cap(bps) == bps # 0 /\ bps <= MAX_UTILIZATION_CAP_BPS

\* checked_mul: a product past the width is an Overflow error.
fits(product) == product <= I128Max

\* Bond an agent must hold to cover its whole exposure in a region.
bond_requirement(total) == (total * config.collateral_ratio_bps) \div 10000

\* Fault: new shares are priced by what is left, not by what was deposited.
shares_for_available(pool, amount) ==
    IF pool.total_shares <= 0 \/ available(pool) <= 0 THEN amount
    ELSE (amount * pool.total_shares) \div available(pool)

\* Shares minted for a deposit; the first deposit sets the price at 1.
shares_for(pool, amount) ==
    IF pool.total_shares <= 0 \/ pool.total_deposited <= 0 THEN amount
    ELSE (amount * pool.total_shares) \div pool.total_deposited

\* Float paid for shares.
amount_for(pool, burned) == (burned * pool.total_deposited) \div pool.total_shares

\* The token contract's transfer; it traps on an uncovered amount.
TokenTransfer(from, to, amount) ==
    /\ bal[from] >= amount
    /\ LET debited == [bal EXCEPT ![from] = @ - amount]
       IN  bal' = [debited EXCEPT ![to] = @ + amount]
----------------------------------------------------------------------------
(* Operator entry points. *)

Initialized == admin # None

Init ==
    /\ admin = None
    /\ config = None
    /\ pools = [r \in Regions |-> None]
    /\ region_list = << >>
    /\ shares = [u \in Users |-> [r \in Regions |-> 0]]
    /\ exposure = [u \in Users |-> [r \in Regions |-> 0]]
    /\ stats = [regions_opened |-> 0, total_deposits |-> 0,
                total_withdrawals |-> 0, total_draws |-> 0]
    /\ bal = [a \in Accounts |-> IF a = Pool THEN 0 ELSE InitialBalance]

initialize(new_admin, registry, ratio, cap) ==
    /\ ~Initialized
    /\ validate_ratio(ratio)
    /\ valid_cap(cap)
    /\ admin' = new_admin
    /\ config' = [agent_registry |-> registry, collateral_ratio_bps |-> ratio,
                  default_utilization_cap_bps |-> cap, paused |-> FALSE]
    /\ UNCHANGED <<pools, region_list, accounts, stats>>

set_admin(new_admin) ==
    /\ Initialized
    /\ admin' = new_admin
    /\ UNCHANGED <<config, pools, region_list, accounts, stats>>

\* What the four configuration setters share: require_admin, get, set.
write_config(new_config) ==
    /\ Initialized
    /\ config' = new_config
    /\ UNCHANGED <<admin, pools, region_list, accounts, stats>>

set_agent_registry(registry) ==
    write_config([config EXCEPT !.agent_registry = registry])

set_collateral_ratio(ratio) ==
    /\ validate_ratio(ratio)
    /\ write_config([config EXCEPT !.collateral_ratio_bps = ratio])

set_default_utilization_cap(bps) ==
    /\ valid_cap(bps)
    /\ write_config([config EXCEPT !.default_utilization_cap_bps = bps])

set_paused(paused) == write_config([config EXCEPT !.paused = paused])

set_utilization_cap(region, bps) ==
    /\ Initialized
    /\ valid_cap(bps)
    /\ pools[region] # None
    /\ pools' = [pools EXCEPT ![region].utilization_cap_bps = bps]
    /\ UNCHANGED <<admin, config, region_list, accounts, stats>>

set_region_active(region, active) ==
    /\ Initialized
    /\ pools[region] # None
    /\ pools' = [pools EXCEPT ![region].active = active]
    /\ UNCHANGED <<admin, config, region_list, accounts, stats>>

\* A cap of 0 asks for the default.
open_region(region, bps) ==
    /\ Initialized
    /\ pools[region] = None
    /\ bps <= MAX_UTILIZATION_CAP_BPS
    /\ pools' = [pools EXCEPT ![region] =
          [total_deposited |-> 0, total_drawn |-> 0, total_shares |-> 0,
           depositor_count |-> 0, active |-> TRUE,
           utilization_cap_bps |->
               IF bps = 0 THEN config.default_utilization_cap_bps ELSE bps]]
    /\ region_list' = Append(region_list, region)
    /\ stats' = [stats EXCEPT !.regions_opened = saturating_add(@)]
    /\ UNCHANGED <<admin, config, accounts>>
----------------------------------------------------------------------------
(* Float in and out. *)

deposit_liquidity(provider, region, amount) ==
    LET pool   == pools[region]
        held   == shares[provider][region]
        minted == shares_for(pool, amount)
    IN  /\ amount > 0
        /\ Initialized
        /\ ~config.paused
        /\ pool # None
        /\ pool.active
        /\ fits(amount * pool.total_shares)
        /\ minted > 0
        /\ TokenTransfer(provider, Pool, amount)
        /\ shares' = [shares EXCEPT ![provider][region] = held + minted]
        /\ fits(pool.total_deposited + amount)
        /\ fits(pool.total_shares + minted)
        /\ pools' = [pools EXCEPT ![region] =
              [pool EXCEPT !.total_deposited = @ + amount,
                           !.total_shares = @ + minted,
                           !.depositor_count =
                               IF held = 0 THEN saturating_add(@) ELSE @]]
        /\ stats' = [stats EXCEPT !.total_deposits = saturating_add(@)]
        /\ UNCHANGED <<admin, config, region_list, exposure>>

\* Open in an inactive region; closed only by the pause and by drawn float.
withdraw_liquidity(provider, region, burned) ==
    LET pool   == pools[region]
        held   == shares[provider][region]
        amount == amount_for(pool, burned)
    IN  /\ burned > 0
        /\ Initialized
        /\ ~config.paused
        /\ pool # None
        /\ burned <= held
        /\ pool.total_shares > 0
        /\ fits(burned * pool.total_deposited)
        /\ amount <= available(pool)
        /\ TokenTransfer(Pool, provider, amount)
        /\ shares' = [shares EXCEPT ![provider][region] = held - burned]
        /\ pools' = [pools EXCEPT ![region] =
              [pool EXCEPT !.total_deposited = @ - amount,
                           !.total_shares = @ - burned,
                           !.depositor_count =
                               IF held = burned THEN saturating_sub(@) ELSE @]]
        /\ stats' = [stats EXCEPT !.total_withdrawals = saturating_add(@)]
        /\ UNCHANGED <<admin, config, region_list, exposure>>

\* Fault: the bond is held against this draw and not against all that is owed.
draw_liquidity_uncumulated(agent, region, amount, authorized, bond) ==
    LET pool  == pools[region]
        drawn == pool.total_drawn + amount
        owed  == exposure[agent][region] + amount
    IN  /\ amount > 0
        /\ Initialized
        /\ ~config.paused
        /\ pool # None
        /\ pool.active
        /\ authorized
        /\ amount <= available(pool)
        /\ fits(drawn * 10000)
        /\ utilization_bps(drawn, pool.total_deposited)
              <= pool.utilization_cap_bps
        /\ fits(owed * config.collateral_ratio_bps)
        /\ bond >= bond_requirement(amount)
        /\ TokenTransfer(Pool, agent, amount)
        /\ exposure' = [exposure EXCEPT ![agent][region] = owed]
        /\ pools' = [pools EXCEPT ![region].total_drawn = drawn]
        /\ stats' = [stats EXCEPT !.total_draws = saturating_add(@)]
        /\ UNCHANGED <<admin, config, region_list, shares>>

draw_liquidity(agent, region, amount, authorized, bond) ==
    LET pool  == pools[region]
        drawn == pool.total_drawn + amount
        owed  == exposure[agent][region] + amount
    IN  /\ amount > 0
        /\ Initialized
        /\ ~config.paused
        /\ pool # None
        /\ pool.active
        /\ authorized
        /\ amount <= available(pool)
        /\ fits(drawn * 10000)
        /\ utilization_bps(drawn, pool.total_deposited)
              <= pool.utilization_cap_bps
        /\ fits(owed * config.collateral_ratio_bps)
        /\ bond >= bond_requirement(owed)
        /\ TokenTransfer(Pool, agent, amount)
        /\ exposure' = [exposure EXCEPT ![agent][region] = owed]
        /\ pools' = [pools EXCEPT ![region].total_drawn = drawn]
        /\ stats' = [stats EXCEPT !.total_draws = saturating_add(@)]
        /\ UNCHANGED <<admin, config, region_list, shares>>

\* Fault: the pause traps agents in debt.
repay_liquidity_unless_paused(agent, region, amount) ==
    /\ amount > 0
    /\ Initialized
    /\ ~config.paused
    /\ pools[region] # None
    /\ amount <= exposure[agent][region]
    /\ TokenTransfer(agent, Pool, amount)
    /\ exposure' = [exposure EXCEPT ![agent][region] = @ - amount]
    /\ pools' = [pools EXCEPT ![region].total_drawn = @ - amount]
    /\ UNCHANGED <<admin, config, region_list, shares, stats>>

\* No pause check, no registry, no active check: repaying stays open.
repay_liquidity(agent, region, amount) ==
    /\ amount > 0
    /\ Initialized
    /\ pools[region] # None
    /\ amount <= exposure[agent][region]
    /\ TokenTransfer(agent, Pool, amount)
    /\ exposure' = [exposure EXCEPT ![agent][region] = @ - amount]
    /\ pools' = [pools EXCEPT ![region].total_drawn = @ - amount]
    /\ UNCHANGED <<admin, config, region_list, shares, stats>>
----------------------------------------------------------------------------
Operate ==
    \/ \E a \in Admins, g \in Registries, b \in Ratios, c \in Caps :
          initialize(a, g, b, c)
    \/ \E a \in Admins : set_admin(a)
    \/ \E g \in Registries : set_agent_registry(g)
    \/ \E b \in Ratios : set_collateral_ratio(b)
    \/ \E c \in Caps : set_default_utilization_cap(c)
    \/ \E p \in BOOLEAN : set_paused(p)
    \/ \E r \in Regions, c \in Caps : set_utilization_cap(r, c)
    \/ \E r \in Regions, on \in BOOLEAN : set_region_active(r, on)
    \/ \E r \in Regions, c \in Caps : open_region(r, c)

Next ==
    \/ Operate
    \/ \E u \in Users, r \in Regions, m \in Amounts :
          stats.total_deposits < MaxMoves /\ deposit_liquidity(u, r, m)
    \/ \E u \in Users, r \in Regions, m \in Amounts :
          stats.total_withdrawals < MaxMoves /\ withdraw_liquidity(u, r, m)
    \/ \E u \in Users, r \in Regions, m \in Amounts, ok \in BOOLEAN,
          b \in Bonds :
          stats.total_draws < MaxMoves /\ draw_liquidity(u, r, m, ok, b)
    \/ \E u \in Users, r \in Regions, m \in Amounts : repay_liquidity(u, r, m)

Spec == Init /\ [][Next]_vars
----------------------------------------------------------------------------
(* Properties. *)

Open == {r \in Regions : pools[r] # None}
float_of(region) == IF pools[region] = None THEN 0 ELSE available(pools[region])
SharesIn(region) == SumFunctionOnSet([u \in Users |-> shares[u][region]], Users)
ExposureIn(region) == SumFunctionOnSet([u \in Users |-> exposure[u][region]], Users)

\* Regions commingle in one token balance, yet none spends another's float:
\* the pool holds exactly what its open regions say is available, and no
\* region has lent out more than was deposited in it.
FloatIsSeparate ==
    /\ bal[Pool] = SumFunctionOnSet([r \in Regions |-> float_of(r)], Regions)
    /\ \A r \in Open : available(pools[r]) >= 0

\* No user gains or loses: what it holds, plus what its shares redeem for,
\* less what it owes, is what it started with.
NobodyGains ==
    \A u \in Users :
        bal[u] + SumFunctionOnSet(shares[u], Regions)
               - SumFunctionOnSet(exposure[u], Regions)
            = InitialBalance

\* The per-region totals are the sums of the accounts behind them (shares,
\* exposure, accounts that hold any share), and the share price set by the
\* first deposit stays exactly 1: no order of deposits, draws, repayments and
\* exits, down to an empty pool and up again, leaves a rounding residue, moves
\* value between users or lets one region spend another's float.
BooksBalance ==
    /\ FloatIsSeparate
    /\ NobodyGains
    /\ \A r \in Open :
          /\ pools[r].total_shares = SharesIn(r)
          /\ pools[r].total_shares = pools[r].total_deposited
          /\ pools[r].total_drawn = ExposureIn(r)
          /\ pools[r].depositor_count =
                Cardinality({u \in Users : shares[u][r] > 0})
    /\ stats.regions_opened = Cardinality(Open)

\* An incident cannot trap an agent in debt: whoever owes and can pay may repay
\* all it owes, in a paused pool, an inactive region, authorized or not.
RepayAlwaysOpen ==
    \A u \in Users, r \in Regions :
        0 < exposure[u][r] /\ exposure[u][r] <= bal[u]
            => ENABLED repay_liquidity(u, r, exposure[u][r])

\* Unless the pool is paused, a provider may leave with its whole holding or,
\* if less is available, with all of that, in an inactive region too.
ExitUpToAvailable ==
    \A u \in Users, r \in Open :
        LET exit == IF shares[u][r] <= available(pools[r]) THEN shares[u][r]
                    ELSE available(pools[r])
        IN  ~config.paused /\ exit > 0
                => ENABLED withdraw_liquidity(u, r, exit)

\* Money can always leave: agents can repay whatever happens, and providers can
\* leave with what is there.
NobodyLockedIn == RepayAlwaysOpen /\ ExitUpToAvailable
============================================================================
