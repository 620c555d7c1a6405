------------------------ MODULE AgentRegistry_proofs ------------------------
(***************************************************************************)
(* Proofs about the agent registry, for every finite set of agents, any    *)
(* regions, corridors, bonds and minimums.                                 *)
(*                                                                         *)
(* Every step either leaves the agents' records, the counters and the      *)
(* tokens alone or changes the record of one agent.  StepShape says once   *)
(* what such a change may be; the theorems reason from it.                 *)
(***************************************************************************)
EXTENDS AgentRegistry, Sums_proofs

\* The treasury is set with the administrator.
TreasurySet == admin # None => treasury \in Treasuries

\* A registered agent's region exists and its index names the agent: what
\* authorize_agent counts on when it counts the region's index.
AgentsHaveHomes ==
    \A a \in Registered : /\ regions[agents[a].region_id] # None
                          /\ a \in Listed(agents[a].region_id)

BondedIsHeld == stats.total_bonded = bal[Registry]

RegistryInv == TypeOK /\ TreasurySet /\ AgentsHaveHomes /\ BondedIsHeld
----------------------------------------------------------------------------
(* What a step does. *)

Authorized(a) == agents[a] # None /\ agents[a].status = "Authorized"

\* The operator's settings change, if anything does: regions are added, never
\* removed, and keep their cap.
Configured ==
    /\ UNCHANGED <<agents, region_agents, stats, bal>>
    /\ \A r \in Regions : regions[r] # None =>
          regions'[r] # None /\ regions'[r].max_agents = regions[r].max_agents

\* The record of agent a becomes rec, and the registry's tokens change with the
\* bond on record.  They grow by more, the stranded part, only when the record
\* of a revoked agent is overwritten together with the bond it left behind.
Changed(a, rec, stranded) ==
    LET gain == (rec.bond - get_bond(a)) + stranded
    IN  /\ rec \in Agent
        /\ stranded \in Nat
        /\ agents' = [agents EXCEPT ![a] = rec]
        /\ bal'[Registry] = bal[Registry] + gain
        /\ stats'.total_bonded = stats.total_bonded + gain
        /\ stranded # 0 => /\ agents[a] # None /\ agents[a].status = "Revoked"
                           /\ rec.status = "Pending"
                           /\ stranded = agents[a].bond
        /\ a \notin Treasuries => bal'[a] + rec.bond <= bal[a] + get_bond(a)
        /\ \A b \in Agents \ (Treasuries \union {a}) : bal'[b] = bal[b]
        /\ stats'.total_agents =
              stats.total_agents + (IF agents[a] = None THEN 1 ELSE 0)
        /\ stats'.authorized_agents =
              IF agents[a] = None THEN stats.authorized_agents
              ELSE authorized_after(stats.authorized_agents, agents[a].status,
                                    rec.status)
        /\ rec.status = "Authorized" =>
              /\ agents[a] # None
              /\ rec.region_id = agents[a].region_id
              /\ rec.bond < agents[a].bond =>
                    rec.bond >= regions[rec.region_id].min_bond
              /\ \/ Authorized(a)
                 \/ regions[rec.region_id].max_agents > 0 =>
                       count_authorized(rec.region_id)
                           < regions[rec.region_id].max_agents
        /\ regions[rec.region_id] # None
        /\ regions' = regions

\* A covered transfer between two accounts.
LEMMA TransferEffect ==
    ASSUME TypeOK, NEW from \in Accounts, NEW to \in Accounts, from # to,
           NEW m \in Nat, TokenTransfer(from, to, m)
    PROVE  /\ bal' \in [Accounts -> Nat]
           /\ bal'[from] = bal[from] - m /\ bal'[to] = bal[to] + m
           /\ bal[from] >= m
           /\ \A x \in Accounts \ {from, to} : bal'[x] = bal[x]
<1>1. bal \in [Accounts -> Nat]
  BY DEF TypeOK
<1> DEFINE debited == [bal EXCEPT ![from] = @ - m]
<1>2. bal[from] >= m /\ bal' = [debited EXCEPT ![to] = @ + m]
  BY DEF TokenTransfer
<1>3. debited \in [Accounts -> Nat]
  BY <1>1, <1>2
<1>4. debited[from] = bal[from] - m /\ debited[to] = bal[to]
      /\ \A x \in Accounts \ {from} : debited[x] = bal[x]
  BY <1>1
<1> HIDE DEF debited
<1> QED
  BY <1>2, <1>3, <1>4

\* Whom a region's index names after the step.
ListedNext(region) ==
    {region_agents'[region][k] : k \in DOMAIN region_agents'[region]}

\* Types and homes after one record has changed.
LEMMA RecordSet ==
    ASSUME RegistryInv, NEW a \in Agents, NEW rec \in Agent,
           agents' = [agents EXCEPT ![a] = rec], regions' = regions,
           regions[rec.region_id] # None,
           a \in ListedNext(rec.region_id),
           \A r \in Regions : Listed(r) \subseteq ListedNext(r)
    PROVE  /\ agents' \in [Agents -> Agent \union {None}]
           /\ AgentsHaveHomes'
<1>1. agents \in [Agents -> Agent \union {None}]
  BY DEF RegistryInv, TypeOK
<1>2. agents' \in [Agents -> Agent \union {None}]
  BY <1>1
<1>3. ASSUME NEW b \in Agents, agents'[b] # None
      PROVE  /\ regions'[agents'[b].region_id] # None
             /\ b \in ListedNext(agents'[b].region_id)
  <2>1. CASE b = a
    <3>1. agents'[b] = rec
      BY <1>1, <2>1
    <3> QED
      BY <2>1, <3>1
  <2>2. CASE b # a
    <3>1. agents'[b] = agents[b] /\ agents[b] \in Agent
      BY <1>1, <1>3, <2>2
    <3>2. /\ regions[agents[b].region_id] # None
          /\ b \in Listed(agents[b].region_id)
      BY <1>3, <3>1 DEF RegistryInv, AgentsHaveHomes, Registered
    <3>3. agents[b].region_id \in Regions
      BY <3>1 DEF Agent
    <3> QED
      BY <3>1, <3>2, <3>3
  <2> QED
    BY <2>1, <2>2
<1>4. AgentsHaveHomes'
  BY <1>3 DEF AgentsHaveHomes, Registered, Listed, ListedNext
<1> QED
  BY <1>2, <1>4

Good == RegistryInv'

\* The operator's setters.
LEMMA ConfiguredStep ==
    ASSUME RegistryInv,
           \/ \E a \in Admins, t \in Treasuries : initialize(a, t)
           \/ \E a \in Admins : set_admin(a)
           \/ \E t \in Treasuries : set_treasury(t)
           \/ \E r \in Regions, b \in MinBonds, m \in AgentCaps :
                 add_region(r, b, m)
           \/ \E r \in Regions, b \in MinBonds : set_min_bond(r, b)
           \/ \E r \in Regions, on \in BOOLEAN : set_region_active(r, on)
           \/ \E c \in Corridors, r \in Regions : map_corridor(c, r)
           \/ UNCHANGED vars
    PROVE  Good /\ Configured
<1> USE DEF RegistryInv
<1>0. /\ TypeOK /\ TreasurySet /\ AgentsHaveHomes /\ BondedIsHeld
      /\ regions \in [Regions -> RegionConfig \union {None}]
  BY DEF TypeOK
<1>1. UNCHANGED <<agents, region_agents, stats, bal>>
  BY DEF initialize, set_admin, set_treasury, add_region, set_min_bond,
         set_region_active, map_corridor, vars
<1>2. /\ admin' \in Admins \union {None} /\ treasury' \in Treasuries \union {None}
      /\ TreasurySet'
  BY <1>0 DEF TypeOK, TreasurySet, Initialized, initialize, set_admin,
         set_treasury, add_region, set_min_bond, set_region_active,
         map_corridor, vars
<1>3. /\ regions' \in [Regions -> RegionConfig \union {None}]
      /\ \A r \in Regions : regions[r] # None =>
            regions'[r] # None /\ regions'[r].max_agents = regions[r].max_agents
  <2>1. ASSUME NEW r \in Regions, NEW cfg \in RegionConfig,
               regions' = [regions EXCEPT ![r] = cfg],
               regions[r] = None \/ cfg.max_agents = regions[r].max_agents
        PROVE  /\ regions' \in [Regions -> RegionConfig \union {None}]
               /\ \A x \in Regions : regions[x] # None =>
                     /\ regions'[x] # None
                     /\ regions'[x].max_agents = regions[x].max_agents
    BY <1>0, <2>1, NoneIsNoRecord
  <2>2. ASSUME NEW r \in Regions, NEW b \in MinBonds, NEW m \in AgentCaps,
               add_region(r, b, m)
        PROVE  \E cfg \in RegionConfig :
                  /\ regions' = [regions EXCEPT ![r] = cfg]
                  /\ regions[r] = None
    <3> DEFINE cfg == [min_bond |-> b, max_agents |-> m, active |-> TRUE]
    <3>1. cfg \in RegionConfig
      BY <2>2, AmountsAreIntegers, BoundsAreNaturals DEF add_region, RegionConfig
    <3>2. regions' = [regions EXCEPT ![r] = cfg] /\ regions[r] = None
      BY <2>2 DEF add_region
    <3> QED
      BY <3>1, <3>2
  <2>3. ASSUME NEW r \in Regions, NEW b \in MinBonds, set_min_bond(r, b)
        PROVE  \E cfg \in RegionConfig :
                  /\ regions' = [regions EXCEPT ![r] = cfg]
                  /\ cfg.max_agents = regions[r].max_agents
    <3> DEFINE cfg == [regions[r] EXCEPT !.min_bond = b]
    <3>1. regions[r] \in RegionConfig /\ b \in Nat
      BY <1>0, <2>3, AmountsAreIntegers DEF set_min_bond
    <3>2. cfg \in RegionConfig /\ cfg.max_agents = regions[r].max_agents
      BY <3>1 DEF RegionConfig
    <3>3. regions' = [regions EXCEPT ![r] = cfg]
      BY <2>3 DEF set_min_bond
    <3> QED
      BY <3>2, <3>3
  <2>4. ASSUME NEW r \in Regions, NEW on \in BOOLEAN, set_region_active(r, on)
        PROVE  \E cfg \in RegionConfig :
                  /\ regions' = [regions EXCEPT ![r] = cfg]
                  /\ cfg.max_agents = regions[r].max_agents
    <3> DEFINE cfg == [regions[r] EXCEPT !.active = on]
    <3>1. regions[r] \in RegionConfig
      BY <1>0, <2>4 DEF set_region_active
    <3>2. cfg \in RegionConfig /\ cfg.max_agents = regions[r].max_agents
      BY <3>1 DEF RegionConfig
    <3>3. regions' = [regions EXCEPT ![r] = cfg]
      BY <2>4 DEF set_region_active
    <3> QED
      BY <3>2, <3>3
  <2>5. \/ \E r \in Regions, b \in MinBonds, m \in AgentCaps : add_region(r, b, m)
        \/ \E r \in Regions, b \in MinBonds : set_min_bond(r, b)
        \/ \E r \in Regions, on \in BOOLEAN : set_region_active(r, on)
        \/ regions' = regions
    BY DEF initialize, set_admin, set_treasury, map_corridor, vars
  <2> QED
    BY <1>0, <2>1, <2>2, <2>3, <2>4, <2>5
<1>4. /\ region_list' \in Seq(Regions)
      /\ corridor_region' \in [Corridors -> Regions \union {None}]
  <2>1. CASE UNCHANGED <<region_list, corridor_region>>
    BY <1>0, <2>1 DEF TypeOK
  <2>2. ASSUME NEW r \in Regions, NEW b \in MinBonds, NEW m \in AgentCaps,
               add_region(r, b, m)
        PROVE  /\ region_list' \in Seq(Regions)
               /\ corridor_region' = corridor_region
    BY <1>0, <2>2 DEF TypeOK, add_region
  <2>3. ASSUME NEW c \in Corridors, NEW r \in Regions, map_corridor(c, r)
        PROVE  /\ region_list' = region_list
               /\ corridor_region' \in [Corridors -> Regions \union {None}]
    BY <1>0, <2>3 DEF TypeOK, map_corridor
  <2> QED
    BY <1>0, <2>1, <2>2, <2>3
       DEF TypeOK, initialize, set_admin, set_treasury, set_min_bond,
           set_region_active, vars
<1>5. TypeOK'
  BY <1>0, <1>1, <1>2, <1>3, <1>4 DEF TypeOK
<1>6. AgentsHaveHomes'
  <2>1. \A a \in Registered : agents[a].region_id \in Regions
    BY <1>0 DEF TypeOK, Registered, Agent
  <2> QED
    BY <1>0, <1>1, <1>3, <2>1 DEF AgentsHaveHomes, Registered, Listed
<1>7. BondedIsHeld'
  BY <1>0, <1>1 DEF BondedIsHeld
<1> QED
  BY <1>1, <1>2, <1>3, <1>5, <1>6, <1>7 DEF Configured, Good

\* The counter of authorized agents stays a natural number.
LEMMA AuthorizedAfterType ==
    ASSUME NEW n \in Nat, NEW from, NEW to
    PROVE  authorized_after(n, from, to) \in Nat
  BY DEF authorized_after

\* authorize_agent, suspend_agent and revoke_agent change one status and move
\* no token.
LEMMA StatusStep ==
    ASSUME RegistryInv, NEW a \in Agents,
           authorize_agent(a) \/ suspend_agent(a) \/ revoke_agent(a)
    PROVE  Good /\ \E rec : Changed(a, rec, 0)
<1>1. PICK to \in AgentStatus : /\ agents[a] # None
                                /\ apply_transition(a, to)
                                /\ UNCHANGED <<operatorVars, region_agents, bal>>
                                /\ to = "Authorized" => authorize_agent(a)
  BY DEF authorize_agent, suspend_agent, revoke_agent, AgentStatus
<1> DEFINE old == agents[a]
           rec == [old EXCEPT !.status = to]
<1>2. old \in Agent /\ stats \in RegistryStats
      /\ agents \in [Agents -> Agent \union {None}]
  BY <1>1 DEF RegistryInv, TypeOK
<1>3. /\ rec \in Agent /\ rec.bond = old.bond /\ rec.status = to
      /\ rec.region_id = old.region_id
  BY <1>1, <1>2 DEF Agent
<1>4. agents' = [agents EXCEPT ![a] = rec]
  BY <1>1 DEF apply_transition
<1>5. /\ stats' \in RegistryStats
      /\ stats'.total_bonded = stats.total_bonded
      /\ stats'.total_agents = stats.total_agents
      /\ stats'.authorized_agents =
            authorized_after(stats.authorized_agents, old.status, to)
  <2>1. authorized_after(stats.authorized_agents, old.status, to) \in Nat
    BY <1>2, AuthorizedAfterType DEF RegistryStats
  <2> QED
    BY <1>1, <1>2, <2>1 DEF apply_transition, RegistryStats
<1>6. /\ UNCHANGED <<admin, treasury, regions, region_list, corridor_region,
                     region_agents, bal>>
  BY <1>1 DEF operatorVars
<1>7. regions[old.region_id] # None /\ a \in Listed(old.region_id)
  BY <1>1, <1>2 DEF RegistryInv, AgentsHaveHomes, Registered
<1> HIDE DEF rec, old
<1>8. /\ agents' \in [Agents -> Agent \union {None}] /\ AgentsHaveHomes'
  <2>1. \A r \in Regions : Listed(r) = ListedNext(r)
    BY <1>6 DEF Listed, ListedNext
  <2>2. old.region_id \in Regions
    BY <1>2 DEF Agent
  <2> QED
    BY <1>3, <1>4, <1>6, <1>7, <2>1, <2>2, RecordSet
<1>9. Good
  BY <1>5, <1>6, <1>8
     DEF Good, RegistryInv, TypeOK, TreasurySet, BondedIsHeld
<1>10. get_bond(a) = old.bond /\ old.bond \in Nat /\ agents[a] = old
  BY <1>1, <1>2 DEF get_bond, old, Agent
<1>11. to = "Authorized" /\ regions[rec.region_id].max_agents > 0 =>
              count_authorized(rec.region_id) < regions[rec.region_id].max_agents
  BY <1>1, <1>3 DEF authorize_agent, old
<1>12. stats.total_bonded \in Nat /\ stats.total_agents \in Nat
       /\ \A b \in Accounts : bal[b] \in Nat
  BY <1>2 DEF RegistryStats, RegistryInv, TypeOK
<1>13. a \in Accounts /\ Registry \in Accounts
  BY DEF Accounts
<1>14. Changed(a, rec, 0)
  BY <1>1, <1>3, <1>4, <1>5, <1>6, <1>7, <1>10, <1>11, <1>12, <1>13
     DEF Changed
<1> QED
  BY <1>9, <1>14

\* What the steps that change a stored record start from.
LEMMA StoredRecord ==
    ASSUME RegistryInv, NEW a \in Agents, agents[a] # None
    PROVE  /\ agents[a] \in Agent /\ get_bond(a) = agents[a].bond
           /\ agents[a].bond \in Nat /\ agents[a].region_id \in Regions
           /\ regions[agents[a].region_id] # None
           /\ a \in Listed(agents[a].region_id)
<1>1. agents[a] \in Agent
  BY DEF RegistryInv, TypeOK
<1> QED
  BY <1>1 DEF RegistryInv, AgentsHaveHomes, Registered, get_bond, Agent

\* The record of a stored agent is rewritten in place, beside a transfer that
\* keeps the tokens and the counters in step.
LEMMA InPlace ==
    ASSUME RegistryInv, NEW a \in Agents, agents[a] # None,
           NEW rec \in Agent, agents' = [agents EXCEPT ![a] = rec],
           rec.region_id = agents[a].region_id,
           UNCHANGED <<operatorVars, region_agents>>,
           bal' \in [Accounts -> Nat], stats' \in RegistryStats,
           BondedIsHeld'
    PROVE  Good
<1>1. /\ agents[a].region_id \in Regions
      /\ regions[agents[a].region_id] # None
      /\ a \in Listed(agents[a].region_id)
  BY StoredRecord
<1>2. UNCHANGED <<admin, treasury, regions, region_list, corridor_region,
                  region_agents>>
  BY DEF operatorVars
<1>3. \A r \in Regions : Listed(r) = ListedNext(r)
  BY <1>2 DEF Listed, ListedNext
<1>4. agents' \in [Agents -> Agent \union {None}] /\ AgentsHaveHomes'
  BY <1>1, <1>2, <1>3, RecordSet
<1> QED
  BY <1>2, <1>4 DEF Good, RegistryInv, TypeOK, TreasurySet

\* slash_agent takes the amount from the record and from the registry alike, and
\* suspends an authorized agent left below the minimum.
LEMMA SlashStep ==
    ASSUME RegistryInv, NEW a \in Agents, NEW m \in Amounts, slash_agent(a, m)
    PROVE  Good /\ \E rec : Changed(a, rec, 0)
<1> DEFINE old == agents[a]
           left == old.bond - m
           to == IF old.status = "Authorized"
                       /\ ~accepts_bond(regions[old.region_id], left)
                 THEN "Suspended" ELSE old.status
           n == old.slash_count + 1
           rec == [old EXCEPT !.bond = left, !.status = to, !.slash_count = n]
<1>1. /\ agents[a] # None /\ m \in Nat /\ m > 0 /\ m <= old.bond
      /\ treasury \in Treasuries /\ TokenTransfer(Registry, treasury, m)
      /\ agents' = [agents EXCEPT ![a] = rec]
      /\ stats' = [stats EXCEPT !.authorized_agents =
                                    authorized_after(@, old.status, to),
                                !.total_bonded = @ - m,
                                !.total_slashed = @ + m]
      /\ UNCHANGED <<operatorVars, region_agents>>
  BY AmountsAreIntegers DEF slash_agent, RegistryInv, TreasurySet, Initialized
<1>2. /\ old \in Agent /\ get_bond(a) = old.bond /\ old.bond \in Nat
      /\ old.region_id \in Regions /\ regions[old.region_id] # None
      /\ left \in Nat /\ stats \in RegistryStats
  BY <1>1, StoredRecord DEF RegistryInv, TypeOK
<1>3. to \in AgentStatus /\ (to = "Authorized" => old.status = "Authorized")
  BY <1>2 DEF Agent, AgentStatus
<1>4. to = "Authorized" => left >= regions[old.region_id].min_bond
  BY DEF accepts_bond
<1> HIDE DEF to
<1>5. /\ rec \in Agent /\ rec.bond = left /\ rec.status = to
      /\ rec.region_id = old.region_id
  <2>1. n \in Nat
    BY <1>2 DEF Agent
  <2> HIDE DEF left, old, n
  <2> DEFINE one == [old EXCEPT !.bond = left]
             two == [one EXCEPT !.status = to]
             all == [two EXCEPT !.slash_count = n]
  <2>2. one \in Agent /\ one.bond = left /\ one.region_id = old.region_id
    BY <1>2 DEF Agent
  <2> HIDE DEF one
  <2>3. two \in Agent /\ two.bond = left /\ two.region_id = old.region_id
        /\ two.status = to
    BY <1>3, <2>2 DEF Agent
  <2> HIDE DEF two
  <2>4. all \in Agent /\ all.bond = left /\ all.status = to
        /\ all.region_id = old.region_id
    BY <2>1, <2>3 DEF Agent
  <2>5. rec = all
    BY DEF one, two
  <2> HIDE DEF all, rec
  <2> QED
    BY <2>4, <2>5
<1>6. /\ Registry \in Accounts /\ treasury \in Accounts /\ Registry # treasury
      /\ a \in Accounts /\ a # Registry
  BY <1>1, RegistryIsNoUser DEF Accounts
<1>7. /\ bal' \in [Accounts -> Nat] /\ bal'[Registry] = bal[Registry] - m
      /\ bal[Registry] >= m
      /\ \A x \in Accounts \ {Registry, treasury} : bal'[x] = bal[x]
  BY <1>1, <1>6, TransferEffect DEF RegistryInv
<1>8. /\ stats.total_bonded = bal[Registry] /\ bal[Registry] \in Nat
      /\ bal[a] \in Nat
  BY <1>6 DEF RegistryInv, BondedIsHeld, TypeOK
<1>9. /\ stats' \in RegistryStats
      /\ stats'.total_bonded = stats.total_bonded - m
      /\ stats'.total_agents = stats.total_agents
      /\ stats'.authorized_agents =
            authorized_after(stats.authorized_agents, old.status, to)
  <2> DEFINE x == authorized_after(stats.authorized_agents, old.status, to)
             y == stats.total_bonded - m
             z == stats.total_slashed + m
  <2>1. x \in Nat
    BY <1>2, AuthorizedAfterType DEF RegistryStats
  <2>2. y \in Nat
    BY <1>1, <1>7, <1>8
  <2>3. z \in Nat
    BY <1>1, <1>2 DEF RegistryStats
  <2>4. stats' = [stats EXCEPT !.authorized_agents = x, !.total_bonded = y,
                               !.total_slashed = z]
    BY <1>1
  <2> HIDE DEF x, y, z
  <2> DEFINE one == [stats EXCEPT !.authorized_agents = x]
             two == [one EXCEPT !.total_bonded = y]
             all == [two EXCEPT !.total_slashed = z]
  <2>5. one \in RegistryStats /\ one.authorized_agents = x
        /\ one.total_agents = stats.total_agents
    BY <1>2, <2>1 DEF RegistryStats
  <2> HIDE DEF one
  <2>6. two \in RegistryStats /\ two.authorized_agents = x /\ two.total_bonded = y
        /\ two.total_agents = stats.total_agents
    BY <2>2, <2>5 DEF RegistryStats
  <2> HIDE DEF two
  <2>7. all \in RegistryStats /\ all.total_bonded = y
        /\ all.total_agents = stats.total_agents /\ all.authorized_agents = x
    BY <2>3, <2>6 DEF RegistryStats
  <2>8. stats' = all
    BY <2>4 DEF one, two
  <2> HIDE DEF all
  <2> QED
    BY <2>7, <2>8 DEF x, y
<1> HIDE DEF rec, left, old
<1>10. BondedIsHeld'
  BY <1>7, <1>8, <1>9 DEF BondedIsHeld
<1>11. Good
  BY <1>1, <1>5, <1>7, <1>9, <1>10, InPlace DEF old
<1>12. regions' = regions
  BY <1>1 DEF operatorVars
<1>13. left = old.bond - m /\ agents[a] = old
  BY DEF left, old
<1>14. \A b \in Agents \ (Treasuries \union {a}) :
          b \in Accounts \ {Registry, treasury}
  BY <1>1, RegistryIsNoUser DEF Accounts
<1>15. a \notin Treasuries => bal'[a] = bal[a]
  BY <1>1, <1>6, <1>7
<1>16. stats.total_agents \in Nat
  BY <1>2 DEF RegistryStats
<1>17. to = "Authorized" => Authorized(a)
  BY <1>1, <1>3, <1>13 DEF Authorized
<1>18. Changed(a, rec, 0)
  BY <1>1, <1>2, <1>4, <1>5, <1>7, <1>8, <1>9, <1>12, <1>13, <1>14, <1>15,
     <1>16, <1>17
     DEF Changed
<1> QED
  BY <1>11, <1>18

\* top_up_bond and withdraw_bond move tokens and bond together.
LEMMA BondStep ==
    ASSUME RegistryInv, NEW a \in Agents, NEW m \in Amounts,
           top_up_bond(a, m) \/ withdraw_bond(a, m)
    PROVE  Good /\ \E rec : Changed(a, rec, 0)
<1> DEFINE old == agents[a]
<1>1. /\ Registry \in Accounts /\ a \in Accounts /\ a # Registry
      /\ \A b \in Agents \ (Treasuries \union {a}) : b \in Accounts \ {Registry, a}
  BY RegistryIsNoUser DEF Accounts
<1>2. PICK d \in Int :
         /\ agents[a] # None
         /\ old.bond + d \in Nat
         /\ d < 0 => old.status # "Authorized"
         /\ agents' = [agents EXCEPT ![a].bond = old.bond + d]
         /\ stats' = [stats EXCEPT !.total_bonded = stats.total_bonded + d]
         /\ bal' \in [Accounts -> Nat]
         /\ bal'[Registry] = bal[Registry] + d /\ bal'[a] = bal[a] - d
         /\ \A b \in Accounts \ {Registry, a} : bal'[b] = bal[b]
         /\ UNCHANGED <<operatorVars, region_agents>>
  <2>0. agents[a] # None /\ m \in Nat /\ m > 0
    BY AmountsAreIntegers DEF top_up_bond, withdraw_bond
  <2>1. /\ old \in Agent /\ old.bond \in Nat /\ stats \in RegistryStats
        /\ agents \in [Agents -> Agent \union {None}] /\ TypeOK
        /\ bal[a] \in Nat /\ bal[Registry] \in Nat /\ stats.total_bonded \in Nat
    BY <1>1, <2>0, StoredRecord DEF RegistryInv, TypeOK, RegistryStats
  <2>2. CASE top_up_bond(a, m)
    <3>1. /\ bal' \in [Accounts -> Nat]
          /\ bal'[a] = bal[a] - m /\ bal'[Registry] = bal[Registry] + m
          /\ \A x \in Accounts \ {a, Registry} : bal'[x] = bal[x]
      BY <1>1, <2>0, <2>1, <2>2, TransferEffect DEF top_up_bond
    <3>2. /\ agents' = [agents EXCEPT ![a].bond = old.bond + m]
          /\ stats' = [stats EXCEPT !.total_bonded = stats.total_bonded + m]
          /\ UNCHANGED <<operatorVars, region_agents>>
      BY <2>2 DEF top_up_bond
    <3>3. m \in Int /\ old.bond + m \in Nat /\ ~(m < 0)
      BY <2>0, <2>1
    <3> HIDE DEF old
    <3> QED
      BY <2>0, <3>1, <3>2, <3>3
  <2>3. CASE withdraw_bond(a, m)
    <3>1. /\ bal' \in [Accounts -> Nat]
          /\ bal'[a] = bal[a] + m /\ bal'[Registry] = bal[Registry] - m
          /\ \A x \in Accounts \ {a, Registry} : bal'[x] = bal[x]
      BY <1>1, <2>0, <2>1, <2>3, TransferEffect DEF withdraw_bond
    <3>2. /\ agents' = [agents EXCEPT ![a].bond = old.bond - m]
          /\ stats' = [stats EXCEPT !.total_bonded = stats.total_bonded - m]
          /\ UNCHANGED <<operatorVars, region_agents>>
          /\ m <= old.bond /\ old.status # "Authorized"
      BY <2>3 DEF withdraw_bond, bond_is_withdrawable
    <3> DEFINE d == 0 - m
    <3>3. /\ d \in Int /\ old.bond + d \in Nat /\ old.bond + d = old.bond - m
          /\ stats.total_bonded + d = stats.total_bonded - m
          /\ bal[Registry] + d = bal[Registry] - m /\ bal[a] - d = bal[a] + m
      BY <2>0, <2>1, <3>2
    <3> HIDE DEF d, old
    <3> QED
      BY <2>0, <3>1, <3>2, <3>3
  <2> QED
    BY <2>2, <2>3
<1> DEFINE bond == old.bond + d
           rec == [old EXCEPT !.bond = bond]
<1>3. /\ old \in Agent /\ get_bond(a) = old.bond /\ old.bond \in Nat
      /\ old.region_id \in Regions /\ regions[old.region_id] # None
      /\ stats \in RegistryStats /\ bond \in Nat
  BY <1>2, StoredRecord DEF RegistryInv, TypeOK
<1>4. bond = old.bond + d
  OBVIOUS
<1> HIDE DEF bond
<1>5. /\ rec \in Agent /\ rec.bond = bond /\ rec.status = old.status
      /\ rec.region_id = old.region_id
  BY <1>3 DEF Agent
<1>6. agents' = [agents EXCEPT ![a] = rec]
  BY <1>2, <1>4
<1>7. /\ stats.total_bonded = bal[Registry] /\ bal[Registry] \in Nat
      /\ bal[a] \in Nat /\ bal'[Registry] \in Nat
  BY <1>1, <1>2 DEF RegistryInv, BondedIsHeld, TypeOK
<1>8. /\ stats' \in RegistryStats
      /\ stats'.total_bonded = stats.total_bonded + d
      /\ stats'.total_agents = stats.total_agents
      /\ stats'.authorized_agents = stats.authorized_agents
  <2>1. stats.total_bonded + d \in Nat
    BY <1>2, <1>7
  <2> QED
    BY <1>2, <1>3, <2>1 DEF RegistryStats
<1> HIDE DEF rec, old
<1>9. BondedIsHeld'
  BY <1>2, <1>7, <1>8 DEF BondedIsHeld
<1>10. Good
  BY <1>2, <1>5, <1>6, <1>8, <1>9, InPlace DEF old
<1>11. regions' = regions /\ agents[a] = old
  BY <1>2 DEF operatorVars, old
<1>12. /\ stats.total_agents \in Nat /\ stats.authorized_agents \in Nat
       /\ authorized_after(stats.authorized_agents, old.status, old.status)
             = stats.authorized_agents
  BY <1>3 DEF RegistryStats, authorized_after
<1>13. old.status = "Authorized" => Authorized(a) /\ ~(bond < old.bond)
  BY <1>2, <1>3, <1>4, <1>11 DEF Authorized
<1>14. /\ (rec.bond - get_bond(a)) + 0 = d
       /\ bal'[a] + rec.bond <= bal[a] + get_bond(a)
  BY <1>1, <1>2, <1>3, <1>4, <1>5, <1>7
<1>15. \A b \in Agents \ (Treasuries \union {a}) : bal'[b] = bal[b]
  BY <1>1, <1>2
<1>16. /\ bal'[Registry] = bal[Registry] + d
       /\ stats'.total_bonded = stats.total_bonded + d
       /\ stats'.total_agents = stats.total_agents + 0
  BY <1>2, <1>8, <1>12
<1>17. Changed(a, rec, 0)
  BY <1>2, <1>3, <1>5, <1>6, <1>8, <1>11, <1>12, <1>13, <1>14, <1>15, <1>16
     DEF Changed
<1> QED
  BY <1>10, <1>17

\* Appending an element keeps the others and adds it.
LEMMA AppendedIsListed ==
    ASSUME NEW S, NEW s \in Seq(S), NEW x \in S
    PROVE  /\ \A k \in DOMAIN s : k \in DOMAIN Append(s, x) /\ Append(s, x)[k] = s[k]
           /\ \E k \in DOMAIN Append(s, x) : Append(s, x)[k] = x
<1>1. /\ DOMAIN s = 1..Len(s) /\ Len(s) \in Nat
      /\ DOMAIN Append(s, x) = 1..Len(s) + 1
      /\ Append(s, x)[Len(s) + 1] = x
      /\ \A k \in 1..Len(s) : Append(s, x)[k] = s[k]
  OBVIOUS
<1>2. Len(s) + 1 \in 1..Len(s) + 1
  BY <1>1
<1> QED
  BY <1>1, <1>2

\* push_region_agent loses no entry and names the agent.
LEMMA PushListed ==
    ASSUME RegistryInv, NEW a \in Agents, NEW r \in Regions,
           push_region_agent(r, a)
    PROVE  /\ region_agents' \in [Regions -> Seq(Agents)]
           /\ a \in ListedNext(r)
           /\ \A q \in Regions : Listed(q) \subseteq ListedNext(q)
<1>1. region_agents \in [Regions -> Seq(Agents)]
  BY DEF RegistryInv, TypeOK
<1>2. CASE a \in Listed(r)
  <2>1. region_agents' = region_agents
    BY <1>2 DEF push_region_agent
  <2> QED
    BY <1>1, <1>2, <2>1 DEF Listed, ListedNext
<1>3. CASE a \notin Listed(r)
  <2> DEFINE list == region_agents[r]
             longer == Append(list, a)
  <2>1. region_agents' = [region_agents EXCEPT ![r] = longer]
    BY <1>3 DEF push_region_agent
  <2>2. list \in Seq(Agents) /\ longer \in Seq(Agents)
    BY <1>1
  <2>3. /\ \A k \in DOMAIN list : k \in DOMAIN longer /\ longer[k] = list[k]
        /\ \E k \in DOMAIN longer : longer[k] = a
    BY <2>2, AppendedIsListed
  <2> HIDE DEF longer
  <2>4. /\ region_agents' \in [Regions -> Seq(Agents)]
        /\ region_agents'[r] = longer
        /\ \A q \in Regions \ {r} : region_agents'[q] = region_agents[q]
    BY <1>1, <2>1, <2>2
  <2>5. a \in ListedNext(r)
    BY <2>3, <2>4 DEF ListedNext
  <2>6. Listed(r) \subseteq ListedNext(r)
    BY <2>3, <2>4 DEF Listed, ListedNext
  <2>7. \A q \in Regions \ {r} : Listed(q) = ListedNext(q)
    BY <2>4 DEF Listed, ListedNext
  <2> QED
    BY <2>4, <2>5, <2>6, <2>7
<1> QED
  BY <1>2, <1>3

\* register_agent writes a fresh record; what the agent's previous record still
\* held, if it had one, stays with the registry.
LEMMA RegisterStep ==
    ASSUME RegistryInv, NEW a \in Agents, NEW r \in Regions, NEW m \in Amounts,
           register_agent(a, r, m)
    PROVE  Good /\ \E rec, stranded : Changed(a, rec, stranded)
<1> DEFINE slashes == IF agents[a] = None THEN 0 ELSE agents[a].slash_count
           rec == [region_id |-> r, bond |-> m, status |-> "Pending",
                   slash_count |-> slashes]
           count == stats.total_agents + (IF agents[a] = None THEN 1 ELSE 0)
           bonded == stats.total_bonded + m
<1>1. /\ Initialized /\ m \in Nat /\ m > 0 /\ regions[r] # None
      /\ agents[a] # None => agents[a].status = "Revoked"
      /\ TokenTransfer(a, Registry, m)
      /\ agents' = [agents EXCEPT ![a] = rec]
      /\ push_region_agent(r, a)
      /\ UNCHANGED operatorVars
  BY AmountsAreIntegers DEF register_agent
<1>2. /\ stats \in RegistryStats /\ agents[a] \in Agent \union {None}
      /\ stats.total_agents \in Nat /\ stats.total_bonded \in Nat
      /\ stats.authorized_agents \in Nat
  BY DEF RegistryInv, TypeOK, RegistryStats
<1>3. slashes \in Nat /\ get_bond(a) \in Nat /\ count \in Nat /\ bonded \in Nat
  BY <1>1, <1>2 DEF Agent, get_bond
<1>4. /\ stats' \in RegistryStats /\ stats'.total_bonded = bonded
      /\ stats'.total_agents = count
      /\ stats'.authorized_agents = stats.authorized_agents
  <2>1. stats' = [stats EXCEPT !.total_agents = count, !.total_bonded = bonded]
    <3>1. (IF agents[a] = None THEN stats.total_agents + 1 ELSE stats.total_agents)
             = count
      BY <1>2
    <3> QED
      BY <3>1 DEF register_agent
  <2> HIDE DEF count, bonded
  <2> DEFINE one == [stats EXCEPT !.total_agents = count]
             all == [one EXCEPT !.total_bonded = bonded]
  <2>2. one \in RegistryStats /\ one.total_agents = count
        /\ one.authorized_agents = stats.authorized_agents
    BY <1>2, <1>3 DEF RegistryStats
  <2> HIDE DEF one
  <2>3. all \in RegistryStats /\ all.total_bonded = bonded
        /\ all.total_agents = count
        /\ all.authorized_agents = stats.authorized_agents
    BY <1>3, <2>2 DEF RegistryStats
  <2>4. stats' = all
    BY <2>1 DEF one
  <2> HIDE DEF all
  <2> QED
    BY <2>3, <2>4
<1>5. rec \in Agent /\ rec.bond = m /\ rec.status = "Pending" /\ rec.region_id = r
  BY <1>1, <1>3 DEF Agent, AgentStatus
<1> HIDE DEF rec, slashes
<1>6. /\ Registry \in Accounts /\ a \in Accounts /\ a # Registry
      /\ \A b \in Agents \ (Treasuries \union {a}) : b \in Accounts \ {Registry, a}
  BY RegistryIsNoUser DEF Accounts
<1>7. /\ bal' \in [Accounts -> Nat]
      /\ bal'[a] = bal[a] - m /\ bal'[Registry] = bal[Registry] + m
      /\ \A x \in Accounts \ {a, Registry} : bal'[x] = bal[x]
  BY <1>1, <1>6, TransferEffect DEF RegistryInv
<1>8. UNCHANGED <<admin, treasury, regions, region_list, corridor_region>>
  BY <1>1 DEF operatorVars
<1>9. /\ region_agents' \in [Regions -> Seq(Agents)]
      /\ a \in ListedNext(r)
      /\ \A q \in Regions : Listed(q) \subseteq ListedNext(q)
  BY <1>1, PushListed
<1>10. agents' \in [Agents -> Agent \union {None}] /\ AgentsHaveHomes'
  BY <1>1, <1>5, <1>8, <1>9, RecordSet
<1>11. /\ stats.total_bonded = bal[Registry] /\ bal[Registry] \in Nat
       /\ bal[a] \in Nat
  BY <1>6 DEF RegistryInv, BondedIsHeld, TypeOK
<1>12. BondedIsHeld'
  BY <1>4, <1>7, <1>11 DEF BondedIsHeld
<1>13. Good
  BY <1>4, <1>7, <1>8, <1>9, <1>10, <1>12
     DEF Good, RegistryInv, TypeOK, TreasurySet
<1>14. /\ (rec.bond - get_bond(a)) + get_bond(a) = m
       /\ bal'[a] + rec.bond <= bal[a] + get_bond(a)
  BY <1>1, <1>3, <1>5, <1>7, <1>11
<1>15. get_bond(a) # 0 => agents[a] # None /\ get_bond(a) = agents[a].bond
  BY DEF get_bond
<1>16. agents[a] # None =>
          authorized_after(stats.authorized_agents, agents[a].status, rec.status)
             = stats.authorized_agents
  BY <1>1, <1>5 DEF authorized_after
<1>17. \A b \in Agents \ (Treasuries \union {a}) : bal'[b] = bal[b]
  BY <1>6, <1>7
<1>18. Changed(a, rec, get_bond(a))
  BY <1>1, <1>3, <1>4, <1>5, <1>7, <1>8, <1>14, <1>15, <1>16, <1>17 DEF Changed
<1> QED
  BY <1>13, <1>18

\* Every step keeps the invariant, and is a change of settings or of one record.
LEMMA StepShape ==
    ASSUME RegistryInv, [Next]_vars
    PROVE  /\ RegistryInv'
           /\ \/ Configured
              \/ \E a \in Agents : \E rec, stranded : Changed(a, rec, stranded)
<1>1. CASE \/ \E a \in Admins, t \in Treasuries : initialize(a, t)
           \/ \E a \in Admins : set_admin(a)
           \/ \E t \in Treasuries : set_treasury(t)
           \/ \E r \in Regions, b \in MinBonds, m \in AgentCaps :
                 add_region(r, b, m)
           \/ \E r \in Regions, b \in MinBonds : set_min_bond(r, b)
           \/ \E r \in Regions, on \in BOOLEAN : set_region_active(r, on)
           \/ \E c \in Corridors, r \in Regions : map_corridor(c, r)
           \/ UNCHANGED vars
  BY <1>1, ConfiguredStep DEF Good
<1>2. ASSUME NEW a \in Agents,
             authorize_agent(a) \/ suspend_agent(a) \/ revoke_agent(a)
      PROVE  Good /\ \E rec, stranded : Changed(a, rec, stranded)
  BY <1>2, StatusStep
<1>3. ASSUME NEW a \in Agents, NEW m \in Amounts, slash_agent(a, m)
      PROVE  Good /\ \E rec, stranded : Changed(a, rec, stranded)
  BY <1>3, SlashStep
<1>4. ASSUME NEW a \in Agents, NEW m \in Amounts,
             top_up_bond(a, m) \/ withdraw_bond(a, m)
      PROVE  Good /\ \E rec, stranded : Changed(a, rec, stranded)
  BY <1>4, BondStep
<1>5. ASSUME NEW a \in Agents, NEW r \in Regions, NEW m \in Amounts,
             register_agent(a, r, m)
      PROVE  Good /\ \E rec, stranded : Changed(a, rec, stranded)
  BY <1>5, RegisterStep
<1> QED
  BY <1>1, <1>2, <1>3, <1>4, <1>5 DEF Next, Operate, Bond, Good
----------------------------------------------------------------------------
(* The theorems. *)

LEMMA RegistryStarts == Init => RegistryInv
<1> SUFFICES ASSUME Init PROVE RegistryInv
  OBVIOUS
<1>1. TypeOK
  <2>1. bal \in [Accounts -> Nat]
    BY BoundsAreNaturals DEF Init
  <2>2. stats \in RegistryStats
    BY DEF Init, RegistryStats
  <2> QED
    BY <2>1, <2>2 DEF Init, TypeOK
<1>2. AgentsHaveHomes
  BY DEF Init, AgentsHaveHomes, Registered
<1>3. BondedIsHeld
  <2>1. Registry \in Accounts /\ Registry \notin Agents
    BY RegistryIsNoUser DEF Accounts
  <2> QED
    BY <2>1 DEF Init, BondedIsHeld
<1>4. TreasurySet
  BY DEF Init, TreasurySet
<1> QED
  BY <1>1, <1>2, <1>3, <1>4 DEF RegistryInv

\* The registry's storage keeps its types, no agent record names a region that
\* does not exist or whose index misses the agent, and the counter of bonds is
\* what the registry holds.
THEOREM RegistryInvariant == Spec => []RegistryInv
<1>1. RegistryInv /\ [Next]_vars => RegistryInv'
  BY StepShape
<1> QED
  BY <1>1, RegistryStarts, PTL DEF Spec

\* The bonds on record after a step.
LEMMA BondsFollow ==
    ASSUME RegistryInv, RegistryInv'
    PROVE  /\ TotalBonds \in Nat
           /\ UNCHANGED agents => TotalBonds' = TotalBonds
           /\ \A a \in Agents, rec \in Agent :
                 agents' = [agents EXCEPT ![a] = rec] =>
                    TotalBonds' = (TotalBonds - get_bond(a)) + rec.bond
<1> DEFINE f == [x \in Agents |-> get_bond(x)]
           g == [x \in Agents |-> get_bond(x)']
<1>1. /\ agents \in [Agents -> Agent \union {None}]
      /\ agents' \in [Agents -> Agent \union {None}]
  BY DEF RegistryInv, TypeOK
<1>2. \A x \in Agents : get_bond(x) \in Nat /\ get_bond(x)' \in Nat
  BY <1>1 DEF get_bond, Agent
<1>3. \A x \in Agents : f[x] \in Nat /\ g[x] \in Nat
  BY <1>2
<1>4. TotalBonds = SumFunctionOnSet(f, Agents)
      /\ TotalBonds' = SumFunctionOnSet(g, Agents)
  BY DEF TotalBonds
<1>5. \A x \in Agents : f[x] = get_bond(x) /\ g[x] = get_bond(x)'
  OBVIOUS
<1> HIDE DEF f, g
<1>6. TotalBonds \in Nat
  BY <1>3, <1>4, AgentsAreFinite, SetSumType
<1>7. ASSUME UNCHANGED agents
      PROVE  TotalBonds' = TotalBonds
  <2>1. \A x \in Agents : f[x] = g[x]
    BY <1>5, <1>7 DEF get_bond
  <2> QED
    BY <1>4, <2>1, AgentsAreFinite, SetSumSame
<1>8. ASSUME NEW a \in Agents, NEW rec \in Agent,
             agents' = [agents EXCEPT ![a] = rec]
      PROVE  TotalBonds' = (TotalBonds - get_bond(a)) + rec.bond
  <2>1. agents'[a] = rec /\ \A x \in Agents : x # a => agents'[x] = agents[x]
    BY <1>1, <1>8
  <2>2. g[a] = rec.bond /\ f[a] = get_bond(a)
    <3>1. rec # None
      BY NoneIsNoRecord
    <3>2. get_bond(a)' = rec.bond
      BY <2>1, <3>1 DEF get_bond
    <3> QED
      BY <1>5, <3>2
  <2>3. \A x \in Agents : x # a => f[x] = g[x]
    BY <1>5, <2>1 DEF get_bond
  <2>4. \A x \in Agents : f[x] \in Int /\ g[x] \in Int
    BY <1>3
  <2>5. SumFunctionOnSet(g, Agents) = (SumFunctionOnSet(f, Agents) - f[a]) + g[a]
    <3>1. ASSUME NEW F, NEW G,
                 \A x \in Agents : F[x] \in Int /\ G[x] \in Int,
                 \A x \in Agents : x # a => F[x] = G[x]
          PROVE  SumFunctionOnSet(G, Agents) =
                    (SumFunctionOnSet(F, Agents) - F[a]) + G[a]
      BY <3>1, AgentsAreFinite, SetSumUpdate
    <3> QED
      BY <2>3, <2>4, <3>1
  <2> QED
    BY <1>4, <2>2, <2>5
<1> QED
  BY <1>6, <1>7, <1>8

AuthorizedAgents == {a \in Registered : agents[a].status = "Authorized"}
AuthorizedIn(r) == {a \in Registered : /\ agents[a].status = "Authorized"
                                       /\ agents[a].region_id = r}

\* Who is registered, and who is authorized, after one record has changed.
LEMMA MembersFollow ==
    ASSUME RegistryInv, NEW a \in Agents, NEW rec \in Agent,
           agents' = [agents EXCEPT ![a] = rec]
    PROVE  /\ \A x : x # a => (x \in Registered <=> x \in Registered')
           /\ \A x : x # a => (x \in AuthorizedAgents <=> x \in AuthorizedAgents')
           /\ \A r, x : x # a => (x \in AuthorizedIn(r) <=> x \in AuthorizedIn(r)')
           /\ a \in Registered'
           /\ a \in AuthorizedAgents' <=> rec.status = "Authorized"
           /\ \A r : a \in AuthorizedIn(r)' <=>
                        rec.status = "Authorized" /\ rec.region_id = r
<1>1. agents \in [Agents -> Agent \union {None}]
  BY DEF RegistryInv, TypeOK
<1>2. agents'[a] = rec /\ \A x \in Agents : x # a => agents'[x] = agents[x]
  BY <1>1
<1>3. rec # None
  BY NoneIsNoRecord
<1> QED
  BY <1>2, <1>3 DEF Registered, AuthorizedAgents, AuthorizedIn

LEMMA MembersAreFinite ==
    /\ IsFiniteSet(Registered) /\ IsFiniteSet(AuthorizedAgents)
    /\ \A r : IsFiniteSet(AuthorizedIn(r))
<1>1. \A S : S \subseteq Agents => IsFiniteSet(S)
  BY AgentsAreFinite, FS_Subset
<1>2. Registered \subseteq Agents /\ AuthorizedAgents \subseteq Agents
      /\ \A r : AuthorizedIn(r) \subseteq Agents
  BY DEF Registered, AuthorizedAgents, AuthorizedIn
<1> QED
  BY <1>1, <1>2

BooksInv == RegistryInv /\ RegistryBooksBalance

\* A change of one record keeps the books.
LEMMA ChangeKeepsBooks ==
    ASSUME BooksInv, RegistryInv', NEW a \in Agents, NEW rec, NEW stranded,
           Changed(a, rec, stranded)
    PROVE  RegistryBooksBalance'
<1> USE DEF BooksInv
<1>1. /\ rec \in Agent /\ stranded \in Nat
      /\ agents' = [agents EXCEPT ![a] = rec]
      /\ agents \in [Agents -> Agent \union {None}]
      /\ rec.bond \in Nat /\ get_bond(a) \in Nat
  <2>1. rec \in Agent /\ stranded \in Nat /\ agents' = [agents EXCEPT ![a] = rec]
    BY DEF Changed
  <2>2. agents \in [Agents -> Agent \union {None}]
    BY DEF RegistryInv, TypeOK
  <2> QED
    BY <2>1, <2>2 DEF get_bond, Agent
<1>2. /\ Registry \in Accounts /\ Agents \subseteq Accounts
      /\ \A x \in Accounts : bal[x] \in Nat /\ bal'[x] \in Nat
  BY DEF Accounts, RegistryInv, TypeOK
<1>3. bal'[Registry] >= TotalBonds'
  <2>1. TotalBonds \in Nat /\ TotalBonds' = (TotalBonds - get_bond(a)) + rec.bond
    BY <1>1, BondsFollow
  <2>2. /\ bal[Registry] >= TotalBonds
        /\ bal'[Registry] = bal[Registry] + ((rec.bond - get_bond(a)) + stranded)
    BY DEF RegistryBooksBalance, Changed
  <2> QED
    BY <1>1, <1>2, <2>1, <2>2
<1>4. NoAgentProfits'
  <2>1. agents'[a] = rec /\ \A x \in Agents : x # a => agents'[x] = agents[x]
    BY <1>1
  <2>2. rec # None
    BY <1>1, NoneIsNoRecord
  <2>3. get_bond(a)' = rec.bond /\ \A x \in Agents : x # a => get_bond(x)' = get_bond(x)
    BY <2>1, <2>2 DEF get_bond
  <2>4. \A x \in Agents : get_bond(x) \in Nat
    BY <1>1 DEF get_bond, Agent
  <2>5. ASSUME NEW x \in Agents \ Treasuries
        PROVE  bal'[x] + get_bond(x)' <= InitialBalance
    <3>1. bal[x] + get_bond(x) <= InitialBalance
      BY DEF RegistryBooksBalance, NoAgentProfits
    <3>2. CASE x = a
      <4>1. bal'[a] + rec.bond <= bal[a] + get_bond(a)
        BY <3>2 DEF Changed
      <4> QED
        BY <1>1, <1>2, <2>3, <3>1, <3>2, <4>1, BoundsAreNaturals
    <3>3. CASE x # a
      <4>1. bal'[x] = bal[x]
        BY <3>3 DEF Changed
      <4> QED
        BY <2>3, <3>1, <3>3, <4>1
    <3> QED
      BY <3>2, <3>3
  <2> QED
    BY <2>5 DEF NoAgentProfits
<1>5. stats'.total_bonded = bal'[Registry]
  BY DEF RegistryInv, BondedIsHeld
<1>6. stats'.total_agents = Cardinality(Registered')
  <2>1. /\ \A x : x # a => (x \in Registered <=> x \in Registered')
        /\ a \in Registered'
    BY <1>1, MembersFollow
  <2>2. a \in Registered <=> agents[a] # None
    BY DEF Registered
  <2>3. IsFiniteSet(Registered)
    BY MembersAreFinite
  <2>4. /\ Cardinality(Registered) \in Nat
        /\ Cardinality(Registered') =
              IF a \in Registered THEN Cardinality(Registered)
              ELSE Cardinality(Registered) + 1
    BY <2>1, <2>3, CountAfter
  <2>5. /\ stats.total_agents = Cardinality(Registered)
        /\ stats'.total_agents =
              stats.total_agents + (IF agents[a] = None THEN 1 ELSE 0)
    BY DEF RegistryBooksBalance, Changed
  <2> QED
    BY <2>2, <2>4, <2>5
<1>7. stats'.authorized_agents = Cardinality(AuthorizedAgents')
  <2>1. /\ \A x : x # a => (x \in AuthorizedAgents <=> x \in AuthorizedAgents')
        /\ a \in AuthorizedAgents' <=> rec.status = "Authorized"
    BY <1>1, MembersFollow
  <2>2. a \in AuthorizedAgents <=> Authorized(a)
    BY DEF Registered, AuthorizedAgents, Authorized
  <2>3. IsFiniteSet(AuthorizedAgents)
    BY MembersAreFinite
  <2>4. LET c == Cardinality(AuthorizedAgents)
            d == Cardinality(AuthorizedAgents')
        IN  /\ c \in Nat
            /\ (Authorized(a) <=> rec.status = "Authorized") => d = c
            /\ Authorized(a) /\ rec.status # "Authorized" => d = c - 1 /\ c > 0
            /\ ~Authorized(a) /\ rec.status = "Authorized" => d = c + 1
    BY <2>1, <2>2, <2>3, CountAfter
  <2>5. /\ stats.authorized_agents = Cardinality(AuthorizedAgents)
        /\ stats'.authorized_agents =
              IF agents[a] = None THEN stats.authorized_agents
              ELSE authorized_after(stats.authorized_agents, agents[a].status,
                                    rec.status)
        /\ rec.status = "Authorized" => agents[a] # None
    BY DEF RegistryBooksBalance, AuthorizedAgents, Changed
  <2> QED
    BY <2>4, <2>5 DEF Authorized, authorized_after
<1> QED
  BY <1>3, <1>4, <1>5, <1>6, <1>7
     DEF RegistryBooksBalance, AuthorizedAgents, Registered

\* Through every chain of registrations, top-ups, withdrawals, suspensions,
\* slashes and fresh starts, the registry holds at least the bonds on record,
\* pays no agent more than it put in, and its four counters are exact.
THEOREM RegistryIsSolvent == Spec => []RegistryBooksBalance
<1>1. Init => BooksInv
  <2> SUFFICES ASSUME Init PROVE BooksInv
    OBVIOUS
  <2>1. RegistryInv
    BY RegistryStarts
  <2>2. Registered = {} /\ {a \in Registered : agents[a].status = "Authorized"} = {}
    BY DEF Init, Registered
  <2>3. \A a \in Agents : get_bond(a) = 0
    BY DEF Init, get_bond
  <2>4. TotalBonds = 0
    BY <2>3, AgentsAreFinite, SetSumZero DEF TotalBonds
  <2>5. /\ Registry \in Accounts /\ Registry \notin Agents
        /\ Agents \subseteq Accounts
    BY RegistryIsNoUser DEF Accounts
  <2>6. bal[Registry] = 0 /\ \A a \in Agents : bal[a] = InitialBalance
    BY <2>5 DEF Init
  <2>7. NoAgentProfits
    BY <2>3, <2>6, BoundsAreNaturals DEF NoAgentProfits
  <2> QED
    BY <2>1, <2>2, <2>4, <2>6, <2>7, FS_EmptySet
       DEF BooksInv, RegistryBooksBalance, Init
<1>2. BooksInv /\ [Next]_vars => BooksInv'
  <2> SUFFICES ASSUME BooksInv, [Next]_vars PROVE BooksInv'
    OBVIOUS
  <2>1. /\ RegistryInv'
        /\ \/ Configured
           \/ \E a \in Agents : \E rec, stranded : Changed(a, rec, stranded)
    BY StepShape DEF BooksInv
  <2>2. CASE Configured
    <3>1. TotalBonds' = TotalBonds
      BY <2>1, <2>2, BondsFollow DEF Configured, BooksInv
    <3>2. UNCHANGED <<agents, stats, bal>>
      BY <2>2 DEF Configured
    <3>3. NoAgentProfits'
      BY <3>2 DEF BooksInv, RegistryBooksBalance, NoAgentProfits, get_bond
    <3> QED
      BY <2>1, <3>1, <3>2, <3>3 DEF BooksInv, RegistryBooksBalance, Registered
  <2>3. CASE \E a \in Agents : \E rec, stranded : Changed(a, rec, stranded)
    BY <2>1, <2>3, ChangeKeepsBooks DEF BooksInv
  <2> QED
    BY <2>1, <2>2, <2>3
<1>3. BooksInv => RegistryBooksBalance
  BY DEF BooksInv
<1> QED
  BY <1>1, <1>2, <1>3, PTL DEF Spec

\* The agents of a region that are authorized are in the count authorize_agent
\* takes of the region's index.
LEMMA CountCoversRegion ==
    ASSUME RegistryInv, NEW r \in Regions
    PROVE  /\ Cardinality(AuthorizedIn(r)) \in Nat
           /\ count_authorized(r) \in Nat
           /\ Cardinality(AuthorizedIn(r)) <= count_authorized(r)
<1> DEFINE counted == {a \in Listed(r) :
                         agents[a] # None /\ agents[a].status = "Authorized"}
<1>1. region_agents[r] \in Seq(Agents)
  BY DEF RegistryInv, TypeOK
<1>2. counted \subseteq Agents
  BY <1>1 DEF Listed
<1>3. AuthorizedIn(r) \subseteq counted
  BY DEF RegistryInv, AgentsHaveHomes, Registered, AuthorizedIn
<1>4. count_authorized(r) = Cardinality(counted)
  BY DEF count_authorized
<1> HIDE DEF counted
<1>5. IsFiniteSet(counted)
  BY <1>2, AgentsAreFinite, FS_Subset
<1> QED
  BY <1>3, <1>4, <1>5, MembersAreFinite, FS_CardinalityType, FS_Subset

CapInv == RegistryInv /\ RegionCapHolds

LEMMA ChangeKeepsCap ==
    ASSUME CapInv, NEW a \in Agents, NEW rec, NEW stranded,
           Changed(a, rec, stranded)
    PROVE  RegionCapHolds'
<1> SUFFICES ASSUME NEW r \in Regions, regions'[r] # None,
                    regions'[r].max_agents > 0
             PROVE  Cardinality(AuthorizedIn(r)') <= regions'[r].max_agents
  BY DEF RegionCapHolds, AuthorizedIn, Registered
<1> DEFINE cap == regions[r].max_agents
           c == Cardinality(AuthorizedIn(r))
           d == Cardinality(AuthorizedIn(r)')
<1>1. regions' = regions /\ rec \in Agent /\ agents' = [agents EXCEPT ![a] = rec]
  BY DEF Changed
<1>2. cap \in Nat /\ c <= cap
  <2>1. c <= cap
    BY <1>1 DEF CapInv, RegionCapHolds, AuthorizedIn
  <2> QED
    BY <1>1, <2>1 DEF CapInv, RegistryInv, TypeOK, RegionConfig
<1>3. c \in Nat /\ count_authorized(r) \in Nat /\ c <= count_authorized(r)
  BY CountCoversRegion DEF CapInv
<1>4. /\ \A x : x # a => (x \in AuthorizedIn(r) <=> x \in AuthorizedIn(r)')
      /\ a \in AuthorizedIn(r)' <=> rec.status = "Authorized" /\ rec.region_id = r
  BY <1>1, MembersFollow DEF CapInv
<1>5. IsFiniteSet(AuthorizedIn(r))
  BY MembersAreFinite
<1>6. /\ (a \in AuthorizedIn(r) <=> a \in AuthorizedIn(r)') => d = c
      /\ a \in AuthorizedIn(r) /\ a \notin AuthorizedIn(r)' => d = c - 1
      /\ a \notin AuthorizedIn(r) /\ a \in AuthorizedIn(r)' => d = c + 1
  BY <1>4, <1>5, CountAfter
<1>7. ASSUME a \notin AuthorizedIn(r), a \in AuthorizedIn(r)'
      PROVE  count_authorized(r) < cap
  <2>1. rec.status = "Authorized" /\ rec.region_id = r
    BY <1>4, <1>7
  <2>2. agents[a] # None /\ agents[a].region_id = r
    BY <2>1 DEF Changed
  <2>3. ~Authorized(a)
    BY <1>7, <2>2 DEF Authorized, AuthorizedIn, Registered
  <2>4. cap > 0
    BY <1>1
  <2> QED
    BY <2>1, <2>3, <2>4 DEF Changed
<1> HIDE DEF c, d, cap
<1>8. d <= cap
  BY <1>2, <1>3, <1>6, <1>7
<1> QED
  BY <1>1, <1>8 DEF d, cap

\* A change of settings: a region that has just been added has no agents, and
\* the cap of the others stays.
LEMMA ConfiguredKeepsCap ==
    ASSUME CapInv, RegistryInv', Configured
    PROVE  RegionCapHolds'
<1> SUFFICES ASSUME NEW r \in Regions, regions'[r] # None,
                    regions'[r].max_agents > 0, RegistryInv
             PROVE  Cardinality(AuthorizedIn(r)') <= regions'[r].max_agents
  BY DEF RegionCapHolds, AuthorizedIn, Registered, CapInv
<1>1. AuthorizedIn(r)' = AuthorizedIn(r)
  BY DEF Configured, AuthorizedIn, Registered
<1>2. CASE regions[r] # None
  <2>1. regions'[r].max_agents = regions[r].max_agents
    BY <1>2 DEF Configured
  <2>2. Cardinality(AuthorizedIn(r)) <= regions[r].max_agents
    BY <1>2, <2>1 DEF CapInv, RegionCapHolds, AuthorizedIn
  <2> QED
    BY <1>1, <2>1, <2>2
<1>3. CASE regions[r] = None
  <2>1. AuthorizedIn(r) = {}
    BY <1>3 DEF RegistryInv, AgentsHaveHomes, AuthorizedIn
  <2>2. Cardinality(AuthorizedIn(r)') = 0
    BY <1>1, <2>1, FS_EmptySet
  <2>3. regions'[r].max_agents \in Nat
    BY DEF RegistryInv, TypeOK, RegionConfig
  <2> QED
    BY <2>2, <2>3
<1> QED
  BY <1>2, <1>3

\* The hard cap of a region: however agents leave and come back, register again
\* elsewhere or are suspended, never more of them are authorized in a region
\* than its max_agents.
THEOREM RegionCapIsHard == Spec => []RegionCapHolds
<1>1. Init => CapInv
  <2> SUFFICES ASSUME Init PROVE RegionCapHolds
    BY RegistryStarts DEF CapInv
  <2> QED
    BY DEF Init, RegionCapHolds
<1>2. CapInv /\ [Next]_vars => CapInv'
  BY StepShape, ChangeKeepsCap, ConfiguredKeepsCap DEF CapInv
<1>3. CapInv => RegionCapHolds
  BY DEF CapInv
<1> QED
  BY <1>1, <1>2, <1>3, PTL DEF Spec

\* No step lets the bond of an agent that stays authorized sink below the
\* minimum of its region.
THEOREM AuthorizedStaysBonded == Spec => AuthorizedBondNeverSinks
<1> DEFINE A == \A a \in Agents :
                   (/\ agents[a] # None /\ agents[a].status = "Authorized"
                    /\ agents'[a] # None /\ agents'[a].status = "Authorized"
                    /\ agents'[a].bond < agents[a].bond)
                   => agents'[a].bond >= regions'[agents'[a].region_id].min_bond
<1>1. RegistryInv /\ [Next]_vars => [A]_vars
  <2> SUFFICES ASSUME RegistryInv, [Next]_vars, NEW a \in Agents,
                      agents[a] # None, agents'[a] # None,
                      agents'[a].status = "Authorized",
                      agents'[a].bond < agents[a].bond
               PROVE  agents'[a].bond >= regions'[agents'[a].region_id].min_bond
    OBVIOUS
  <2>1. agents[a].bond \in Nat
    BY StoredRecord
  <2>2. CASE Configured
    <3>1. agents'[a].bond = agents[a].bond
      BY <2>2 DEF Configured
    <3> QED
      BY <2>1, <3>1
  <2>3. ASSUME NEW b \in Agents, NEW rec, NEW stranded, Changed(b, rec, stranded)
        PROVE  agents'[a].bond >= regions'[agents'[a].region_id].min_bond
    <3>1. /\ agents' = [agents EXCEPT ![b] = rec] /\ regions' = regions
          /\ agents \in [Agents -> Agent \union {None}]
      BY <2>3 DEF Changed, RegistryInv, TypeOK
    <3>2. b = a
      <4>1. b # a => agents'[a] = agents[a]
        BY <3>1
      <4> QED
        BY <2>1, <4>1
    <3>3. agents'[a] = rec
      BY <3>1, <3>2
    <3> QED
      BY <2>3, <3>1, <3>2, <3>3 DEF Changed
  <2> QED
    BY <2>2, <2>3, StepShape
<1> QED
  BY <1>1, RegistryInvariant, PTL DEF Spec, AuthorizedBondNeverSinks

\* Tokens of the registry that back no record appear only when a revoked agent
\* that left a bond behind registers again, and are then exactly that bond.
THEOREM StrandedOnlyByFreshStart == Spec => OnlyFreshStartsStrand
<1> DEFINE A == Unclaimed' # Unclaimed =>
                   \E a \in Registered :
                      /\ agents[a].status = "Revoked"
                      /\ agents'[a].status = "Pending"
                      /\ Unclaimed' = Unclaimed + agents[a].bond
<1>1. RegistryInv /\ [Next]_vars => [A]_vars
  <2> SUFFICES ASSUME RegistryInv, [Next]_vars PROVE A
    OBVIOUS
  <2>0. RegistryInv'
    BY StepShape
  <2>1. CASE Configured
    <3>1. TotalBonds' = TotalBonds /\ bal' = bal
      BY <2>0, <2>1, BondsFollow DEF Configured
    <3> QED
      BY <3>1 DEF Unclaimed
  <2>2. ASSUME NEW a \in Agents, NEW rec, NEW stranded, Changed(a, rec, stranded)
        PROVE  A
    <3>1. /\ rec \in Agent /\ stranded \in Nat
          /\ agents' = [agents EXCEPT ![a] = rec]
          /\ bal'[Registry] = bal[Registry] + ((rec.bond - get_bond(a)) + stranded)
          /\ agents \in [Agents -> Agent \union {None}]
      BY <2>2 DEF Changed, RegistryInv, TypeOK
    <3>2. TotalBonds \in Nat /\ TotalBonds' = (TotalBonds - get_bond(a)) + rec.bond
      BY <2>0, <3>1, BondsFollow
    <3>3. rec.bond \in Nat /\ get_bond(a) \in Nat /\ bal[Registry] \in Nat
      BY <3>1 DEF Agent, get_bond, RegistryInv, TypeOK, Accounts
    <3>4. Unclaimed' = Unclaimed + stranded
      BY <3>1, <3>2, <3>3 DEF Unclaimed
    <3>5. agents'[a] = rec
      BY <3>1
    <3>6. Unclaimed \in Int
      BY <3>2, <3>3 DEF Unclaimed
    <3>7. stranded = 0 => Unclaimed' = Unclaimed
      BY <3>4, <3>6
    <3>8. stranded # 0 => /\ a \in Registered /\ agents[a].status = "Revoked"
                          /\ agents'[a].status = "Pending"
                          /\ Unclaimed' = Unclaimed + agents[a].bond
      BY <2>2, <3>4, <3>5 DEF Changed, Registered
    <3> QED
      BY <3>7, <3>8
  <2> QED
    BY <2>1, <2>2, StepShape
<1> QED
  BY <1>1, RegistryInvariant, PTL DEF Spec, OnlyFreshStartsStrand
============================================================================
