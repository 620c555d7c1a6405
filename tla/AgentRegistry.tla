--------------------------- MODULE AgentRegistry ---------------------------
(***************************************************************************)
(* The bonded agent registry: contracts/agent-registry.                    *)
(*                                                                         *)
(* One action per entry point that writes; an error return or a trap       *)
(* reverts the invocation, so it is a missing step.  The bond token is set *)
(* once, by initialize, and every record carries that same token, so bonds *)
(* are plain amounts of it.  Timestamps are left out: the registry stores  *)
(* them and never reads them.                                              *)
(*                                                                         *)
(* A definition whose comment starts with "Fault" is no part of the model: *)
(* it is a wrong version of the definition after it, one that a property   *)
(* of this module is shown to notice.                                      *)
(***************************************************************************)
EXTENDS Integers, Sequences, FiniteSets, Functions

CONSTANTS
    Agents,         \* accounts that may register
    Registry,       \* the registry's own address, which holds the bonds
    Treasuries,     \* accounts slashed bonds may be sent to
    Admins,         \* operator keys
    None,           \* an absent Option or storage entry
    Regions,
    Corridors,
    Amounts,        \* bond amounts a caller may pass, valid or not
    MinBonds,       \* min_bond values the operator may pass, valid or not
    AgentCaps,      \* max_agents values the operator may pass
    InitialBalance, \* what every agent holds of the bond token at the start
    MaxSlashes      \* bound: slashes of one agent

Accounts == Agents \union Treasuries \union {Registry}

ASSUME RegistryIsNoUser == Registry \notin Agents \union Treasuries
ASSUME AgentsAreFinite == IsFiniteSet(Agents)
ASSUME NoneIsNoValue == None \notin Accounts \union Admins \union Regions
ASSUME AmountsAreIntegers == Amounts \subseteq Int /\ MinBonds \subseteq Int
ASSUME BoundsAreNaturals ==
    AgentCaps \subseteq Nat /\ InitialBalance \in Nat /\ MaxSlashes \in Nat

VARIABLES
    admin,           \* DataKey::Admin, None before initialize
    treasury,        \* DataKey::Treasury, None before initialize
    agents,          \* DataKey::Agent(address), None when absent
    regions,         \* DataKey::Region(region_id), None when absent
    region_list,     \* DataKey::RegionList
    region_agents,   \* DataKey::RegionAgents(region_id)
    corridor_region, \* DataKey::CorridorRegion(corridor_id), None when absent
    stats,           \* DataKey::Stats
    bal              \* the bond token's balances

vars == <<admin, treasury, agents, regions, region_list, region_agents,
          corridor_region, stats, bal>>
operatorVars == <<admin, treasury, regions, region_list, corridor_region>>

AgentStatus == {"Pending", "Authorized", "Suspended", "Revoked"}
Agent == [region_id : Regions, bond : Nat, status : AgentStatus,
          slash_count : Nat]
RegionConfig == [min_bond : Nat, max_agents : Nat, active : BOOLEAN]
RegistryStats == [total_agents : Nat, authorized_agents : Nat,
                  total_bonded : Nat, total_slashed : Nat]
ASSUME NoneIsNoRecord == None \notin Agent \union RegionConfig

TypeOK ==
    /\ admin \in Admins \union {None}
    /\ treasury \in Treasuries \union {None}
    /\ agents \in [Agents -> Agent \union {None}]
    /\ regions \in [Regions -> RegionConfig \union {None}]
    /\ region_list \in Seq(Regions)
    /\ region_agents \in [Regions -> Seq(Agents)]
    /\ corridor_region \in [Corridors -> Regions \union {None}]
    /\ stats \in RegistryStats
    /\ bal \in [Accounts -> Nat]
----------------------------------------------------------------------------
(* Helpers of the contract. *)

Registered == {a \in Agents : agents[a] # None}
Listed(region) == {region_agents[region][k] : k \in DOMAIN region_agents[region]}

can_settle(status) == status = "Authorized"
\* Fault: a bond can be pulled from under an authorized agent.
bond_is_withdrawable_early(status) == status # "Revoked"

bond_is_withdrawable(status) == status # "Authorized"
accepts_bond(region, bond) == bond >= region.min_bond

\* Agents in a region's index whose record is Authorized, wherever it is now.
count_authorized(region) ==
    Cardinality({a \in Listed(region) :
                    agents[a] # None /\ agents[a].status = "Authorized"})

is_authorized_in(agent, region) ==
    /\ agents[agent] # None
    /\ can_settle(agents[agent].status)
    /\ regions[region] # None
    /\ regions[region].active
    /\ agents[agent].region_id = region

is_authorized_for_corridor(agent, corridor) ==
    /\ corridor_region[corridor] # None
    /\ is_authorized_in(agent, corridor_region[corridor])

get_bond(agent) == IF agents[agent] = None THEN 0 ELSE agents[agent].bond

\* Fault: leaving Authorized is not counted.
authorized_after_sticky(n, from, to) ==
    IF from # "Authorized" /\ to = "Authorized" THEN n + 1 ELSE n

\* The counter follows a status change into or out of Authorized.
authorized_after(n, from, to) ==
    CASE from = "Authorized" /\ to # "Authorized" -> IF n > 0 THEN n - 1 ELSE 0
      [] from # "Authorized" /\ to = "Authorized" -> n + 1
      [] OTHER -> n

\* The token contract's transfer; it traps on an uncovered amount.
TokenTransfer(from, to, amount) ==
    /\ bal[from] >= amount
    /\ LET debited == [bal EXCEPT ![from] = @ - amount]
       IN  bal' = [debited EXCEPT ![to] = @ + amount]

\* Fault: the index is not written.
push_region_agent_lost(region, agent) == UNCHANGED region_agents

\* Storage leaves the index alone when it already names the agent.
push_region_agent(region, agent) ==
    region_agents' =
        IF agent \in Listed(region) THEN region_agents
        ELSE [region_agents EXCEPT ![region] = Append(@, agent)]

\* A status change of a stored record, with its counter.
apply_transition(agent, to) ==
    /\ agents' = [agents EXCEPT ![agent].status = to]
    /\ stats' = [stats EXCEPT
                    !.authorized_agents =
                        authorized_after(@, agents[agent].status, to)]
----------------------------------------------------------------------------
(* Operator entry points. *)

Initialized == admin # None

Init ==
    /\ admin = None
    /\ treasury = None
    /\ agents = [a \in Agents |-> None]
    /\ regions = [r \in Regions |-> None]
    /\ region_list = << >>
    /\ region_agents = [r \in Regions |-> << >>]
    /\ corridor_region = [c \in Corridors |-> None]
    /\ stats = [total_agents |-> 0, authorized_agents |-> 0,
                total_bonded |-> 0, total_slashed |-> 0]
    /\ bal = [a \in Accounts |-> IF a \in Agents THEN InitialBalance ELSE 0]

initialize(new_admin, new_treasury) ==
    /\ ~Initialized
    /\ admin' = new_admin
    /\ treasury' = new_treasury
    /\ UNCHANGED <<agents, regions, region_list, region_agents,
                   corridor_region, stats, bal>>

set_admin(new_admin) ==
    /\ Initialized
    /\ admin' = new_admin
    /\ UNCHANGED <<treasury, agents, regions, region_list, region_agents,
                   corridor_region, stats, bal>>

set_treasury(new_treasury) ==
    /\ Initialized
    /\ treasury' = new_treasury
    /\ UNCHANGED <<admin, agents, regions, region_list, region_agents,
                   corridor_region, stats, bal>>

add_region(region, min_bond, max_agents) ==
    /\ Initialized
    /\ min_bond >= 0
    /\ regions[region] = None
    /\ regions' = [regions EXCEPT ![region] =
                      [min_bond |-> min_bond, max_agents |-> max_agents,
                       active |-> TRUE]]
    /\ region_list' = Append(region_list, region)
    /\ UNCHANGED <<admin, treasury, agents, region_agents, corridor_region,
                   stats, bal>>

set_min_bond(region, min_bond) ==
    /\ Initialized
    /\ min_bond >= 0
    /\ regions[region] # None
    /\ regions' = [regions EXCEPT ![region].min_bond = min_bond]
    /\ UNCHANGED <<admin, treasury, agents, region_list, region_agents,
                   corridor_region, stats, bal>>

set_region_active(region, active) ==
    /\ Initialized
    /\ regions[region] # None
    /\ regions' = [regions EXCEPT ![region].active = active]
    /\ UNCHANGED <<admin, treasury, agents, region_list, region_agents,
                   corridor_region, stats, bal>>

map_corridor(corridor, region) ==
    /\ Initialized
    /\ regions[region] # None
    /\ corridor_region' = [corridor_region EXCEPT ![corridor] = region]
    /\ UNCHANGED <<admin, treasury, agents, regions, region_list,
                   region_agents, stats, bal>>

authorize_agent(agent) ==
    /\ Initialized
    /\ agents[agent] # None
    /\ agents[agent].status \in {"Pending", "Suspended"}
    /\ LET region == agents[agent].region_id
           cap    == regions[region].max_agents
       IN  /\ regions[region].active
           /\ accepts_bond(regions[region], agents[agent].bond)
           /\ cap > 0 => count_authorized(region) < cap
    /\ apply_transition(agent, "Authorized")
    /\ UNCHANGED <<operatorVars, region_agents, bal>>

suspend_agent(agent) ==
    /\ Initialized
    /\ agents[agent] # None
    /\ agents[agent].status # "Revoked"
    /\ apply_transition(agent, "Suspended")
    /\ UNCHANGED <<operatorVars, region_agents, bal>>

revoke_agent(agent) ==
    /\ Initialized
    /\ agents[agent] # None
    /\ agents[agent].status # "Revoked"
    /\ apply_transition(agent, "Revoked")
    /\ UNCHANGED <<operatorVars, region_agents, bal>>

slash_agent(agent, amount) ==
    /\ Initialized
    /\ amount > 0
    /\ agents[agent] # None
    /\ amount <= agents[agent].bond
    /\ LET a      == agents[agent]
           bond   == a.bond - amount
           status == IF /\ a.status = "Authorized"
                        /\ ~accepts_bond(regions[a.region_id], bond)
                     THEN "Suspended" ELSE a.status
       IN  /\ agents' = [agents EXCEPT ![agent] =
                            [a EXCEPT !.bond = bond, !.status = status,
                                      !.slash_count = @ + 1]]
           /\ stats' = [stats EXCEPT
                           !.authorized_agents =
                               authorized_after(@, a.status, status),
                           !.total_bonded = @ - amount,
                           !.total_slashed = @ + amount]
    /\ TokenTransfer(Registry, treasury, amount)
    /\ UNCHANGED <<operatorVars, region_agents>>
----------------------------------------------------------------------------
(* Agent entry points. *)

\* A first registration, or a fresh start after a revocation.
register_agent(agent, region, bond_amount) ==
    /\ Initialized
    /\ bond_amount > 0
    /\ regions[region] # None
    /\ regions[region].active
    /\ accepts_bond(regions[region], bond_amount)
    /\ agents[agent] # None => agents[agent].status = "Revoked"
    /\ TokenTransfer(agent, Registry, bond_amount)
    /\ agents' = [agents EXCEPT ![agent] =
                     [region_id |-> region, bond |-> bond_amount,
                      status |-> "Pending",
                      slash_count |-> IF agents[agent] = None THEN 0
                                      ELSE agents[agent].slash_count]]
    /\ push_region_agent(region, agent)
    /\ stats' = [stats EXCEPT
                    !.total_agents = IF agents[agent] = None THEN @ + 1 ELSE @,
                    !.total_bonded = @ + bond_amount]
    /\ UNCHANGED operatorVars

\* Fault: a bond topped up after a suspension is not added to the record.
top_up_bond_ignored(agent, amount) ==
    /\ Initialized
    /\ amount > 0
    /\ agents[agent] # None
    /\ TokenTransfer(agent, Registry, amount)
    /\ agents' = [agents EXCEPT ![agent].bond =
                     IF agents[agent].status = "Suspended" THEN @ ELSE @ + amount]
    /\ stats' = [stats EXCEPT !.total_bonded = @ + amount]
    /\ UNCHANGED <<operatorVars, region_agents>>

top_up_bond(agent, amount) ==
    /\ Initialized
    /\ amount > 0
    /\ agents[agent] # None
    /\ TokenTransfer(agent, Registry, amount)
    /\ agents' = [agents EXCEPT ![agent].bond = @ + amount]
    /\ stats' = [stats EXCEPT !.total_bonded = @ + amount]
    /\ UNCHANGED <<operatorVars, region_agents>>

\* Fault: the record misses the withdrawal, which can then be repeated.
withdraw_bond_unrecorded(agent, amount) ==
    /\ Initialized
    /\ amount > 0
    /\ agents[agent] # None
    /\ bond_is_withdrawable(agents[agent].status)
    /\ amount <= agents[agent].bond
    /\ TokenTransfer(Registry, agent, amount)
    /\ stats' = [stats EXCEPT !.total_bonded = @ - amount]
    /\ UNCHANGED <<operatorVars, region_agents, agents>>

withdraw_bond(agent, amount) ==
    /\ Initialized
    /\ amount > 0
    /\ agents[agent] # None
    /\ bond_is_withdrawable(agents[agent].status)
    /\ amount <= agents[agent].bond
    /\ TokenTransfer(Registry, agent, amount)
    /\ agents' = [agents EXCEPT ![agent].bond = @ - amount]
    /\ stats' = [stats EXCEPT !.total_bonded = @ - amount]
    /\ UNCHANGED <<operatorVars, region_agents>>
----------------------------------------------------------------------------
Operate ==
    \/ \E a \in Admins, t \in Treasuries : initialize(a, t)
    \/ \E a \in Admins : set_admin(a)
    \/ \E t \in Treasuries : set_treasury(t)
    \/ \E r \in Regions, b \in MinBonds, m \in AgentCaps : add_region(r, b, m)
    \/ \E r \in Regions, b \in MinBonds : set_min_bond(r, b)
    \/ \E r \in Regions, on \in BOOLEAN : set_region_active(r, on)
    \/ \E c \in Corridors, r \in Regions : map_corridor(c, r)
    \/ \E a \in Agents : authorize_agent(a)
    \/ \E a \in Agents : suspend_agent(a)
    \/ \E a \in Agents : revoke_agent(a)
    \/ \E a \in Agents, m \in Amounts :
          /\ agents[a] # None => agents[a].slash_count < MaxSlashes
          /\ slash_agent(a, m)

Bond ==
    \/ \E a \in Agents, r \in Regions, m \in Amounts : register_agent(a, r, m)
    \/ \E a \in Agents, m \in Amounts : top_up_bond(a, m)
    \/ \E a \in Agents, m \in Amounts : withdraw_bond(a, m)

Next == Operate \/ Bond

Spec == Init /\ [][Next]_vars
----------------------------------------------------------------------------
(* Properties. *)

TotalBonds == SumFunctionOnSet([a \in Agents |-> get_bond(a)], Agents)

\* What an agent gave up is in the registry's custody or in a treasury: no
\* sequence of calls pays an agent more than it put in, unless the operator
\* made it the treasury that slashed bonds go to.
NoAgentProfits ==
    \A a \in Agents \ Treasuries : bal[a] + get_bond(a) <= InitialBalance

\* Through every chain of suspensions, slashes, revocations and fresh starts,
\* the bonds on record are covered by the tokens the registry holds, nobody is
\* paid more than it put in, and the counters of registry_stats are what the
\* registry holds and what the records say.
RegistryBooksBalance ==
    /\ bal[Registry] >= TotalBonds
    /\ NoAgentProfits
    /\ stats.total_bonded = bal[Registry]
    /\ stats.total_agents = Cardinality(Registered)
    /\ stats.authorized_agents =
          Cardinality({a \in Registered : agents[a].status = "Authorized"})

\* The hard cap: never more Authorized agents assigned to a region than its
\* max_agents allows.
RegionCapHolds ==
    \A r \in Regions :
        regions[r] # None /\ regions[r].max_agents > 0 =>
            Cardinality({a \in Registered :
                            /\ agents[a].status = "Authorized"
                            /\ agents[a].region_id = r})
                <= regions[r].max_agents

\* An agent that stays Authorized through a step that costs it bond still has
\* the region minimum afterwards: raising min_bond evicts no one, but nothing
\* lets an authorized agent's own bond sink below the minimum.
AuthorizedBondNeverSinks ==
    [][\A a \in Agents :
          (/\ agents[a] # None /\ agents[a].status = "Authorized"
           /\ agents'[a] # None /\ agents'[a].status = "Authorized"
           /\ agents'[a].bond < agents[a].bond)
          => agents'[a].bond >= regions'[agents'[a].region_id].min_bond]_vars

\* What the registry holds beyond the bonds on record is the bond of no agent,
\* and no call gives it back.  It grows only when a revoked agent that left a
\* bond behind registers again, by that bond, and by nothing else: no other
\* sequence of calls strands collateral.
Unclaimed == bal[Registry] - TotalBonds
OnlyFreshStartsStrand ==
    [][Unclaimed' # Unclaimed =>
          \E a \in Registered :
              /\ agents[a].status = "Revoked"
              /\ agents'[a].status = "Pending"
              /\ Unclaimed' = Unclaimed + agents[a].bond]_vars
============================================================================
