----------------------------- MODULE Deployment -----------------------------
(***************************************************************************)
(* Deploying and wiring the four contracts: scripts/src.                   *)
(*                                                                         *)
(* A run of deploy-contracts.ts is a fixed list of transactions, a         *)
(* read-back and the writing of deployed-addresses.json.  Every            *)
(* transaction may be refused by its contract, be lost before it is sent,  *)
(* or be sent and land only after the script has given up polling for it;  *)
(* the process may die at any await and be started again, next to another  *)
(* one or not.  A dry run submits nothing and writes nothing, so it is no  *)
(* action.  An upload of Wasm leaves no contract behind and is part of the *)
(* creation that follows it.                                               *)
(*                                                                         *)
(* The contracts appear through what their entry points accept and what    *)
(* their views return after the calls they have taken.                     *)
(*                                                                         *)
(* A definition whose comment starts with "Fault" is no part of the model: *)
(* it is a wrong version of the definition after it, one that a property   *)
(* of this module is shown to notice.                                      *)
(***************************************************************************)
EXTENDS Integers, Sequences, FiniteSets, Functions

CONSTANTS
    Operators,  \* processes that may run the script
    Configs,    \* deployment configurations an operator may write
    Attester,   \* ATTESTER_PUBLIC_KEY
    Absent,     \* an absent file, contract or value
    MaxDeploys, \* bound: runs of the script
    MaxFaults   \* bound: lost, late or interrupted steps

ASSUME DeployBounds == MaxDeploys \in Nat /\ MaxFaults \in Nat

MAX_FEE_BPS == 500
MAX_UTILIZATION_CAP_BPS == 9500

\* What the schema of a configuration asks of its records.
ASSUME ConfigsAreParsed ==
    \A config \in Configs :
        /\ config.regions \in Seq([id : STRING, utilizationCapBps : Nat]) \ {<< >>}
        /\ config.corridors \in Seq([id : STRING, regionId : STRING, tier1Max : Nat,
                                    tier2Max : Nat, dailyLimit : Nat]) \ {<< >>}
        /\ config.complianceTiers \in
              Seq([corridorId : STRING, tier1Max : Nat, tier2Max : Nat,
                   enhancedDailyLimit : Nat]) \ {<< >>}
        /\ config.feeBps \in Nat /\ config.defaultUtilizationCapBps \in Nat

\* The order of CONTRACTS, in which a run creates its instances.
CONTRACTS == <<"registry", "hook", "pool", "escrow">>
Names == Range(CONTRACTS)

\* A contract id: the instance of a contract that a run created.
Address == (1..MaxDeploys) \X Names

VARIABLES
    calls,  \* by address, the calls a contract has taken; Absent before it exists
    late,   \* transactions sent and not confirmed, which may still land
    file,   \* deployed-addresses.json
    job,    \* what each process is doing
    deploys, faults

deployVars == <<calls, late, file, job, deploys, faults>>

\* What writeFileSync leaves when the process dies inside it.
Torn == [torn |-> TRUE]
Idle == [pc |-> "idle"]
----------------------------------------------------------------------------
(* The contracts, by the calls they have taken. *)

Live(a) == calls[a] # Absent
Taken(a, op) ==
    IF Live(a) THEN {calls[a][i].arg : i \in {j \in DOMAIN calls[a] :
                                                 calls[a][j].op = op}}
    ELSE {}
Initialized(a) == Taken(a, "initialize") # {}
RegionsOf(a, op) == {arg.id : arg \in Taken(a, op)}

\* get_tier_thresholds: what the last call for the corridor stored.
get_tier_thresholds(a, corridor) ==
    LET taken == IF Live(a) THEN calls[a] ELSE << >>
        mine  == {i \in DOMAIN taken : /\ taken[i].op = "set_tier_thresholds"
                                      /\ taken[i].arg.corridorId = corridor}
    IN  IF mine = {} THEN Absent
        ELSE taken[CHOOSE i \in mine : \A j \in mine : j <= i].arg

valid_cap(bps) == bps # 0 /\ bps <= MAX_UTILIZATION_CAP_BPS

\* What an entry point checks of its arguments.
ArgumentAccepted(a, op, arg) ==
    CASE op = "initialize" /\ a[2] = "pool" -> valid_cap(arg.cap)
      [] op = "initialize" /\ a[2] = "escrow" -> arg.feeBps <= MAX_FEE_BPS
      [] op = "add_region" -> arg.id \notin RegionsOf(a, "add_region")
      [] op = "open_region" ->
            /\ arg.id \notin RegionsOf(a, "open_region")
            /\ arg.utilizationCapBps <= MAX_UTILIZATION_CAP_BPS
      [] op = "map_corridor" -> arg.regionId \in RegionsOf(a, "add_region")
      [] op = "set_tier_thresholds" ->
            /\ arg.tier1Max <= arg.tier2Max
            /\ arg.dailyLimit > 0 /\ arg.tier2Max <= arg.dailyLimit
      [] OTHER -> TRUE

\* initialize is accepted once, and everything else only after it.
Accepts(tx) ==
    IF tx.op = "create" THEN ~Live(tx.to)
    ELSE /\ Live(tx.to)
         /\ (tx.op = "initialize") = ~Initialized(tx.to)
         /\ ArgumentAccepted(tx.to, tx.op, tx.arg)

Land(tx) ==
    calls' = [calls EXCEPT ![tx.to] =
                 IF tx.op = "create" THEN << >>
                 ELSE Append(@, [op |-> tx.op, arg |-> tx.arg])]
----------------------------------------------------------------------------
(* loadDeployConfig: the checks between the records of a configuration. *)

RegionIds(config) == {r.id : r \in Range(config.regions)}
CorridorIds(config) == {c.id : c \in Range(config.corridors)}
TierIds(config) == {t.corridorId : t \in Range(config.complianceTiers)}

loadDeployConfig(config) ==
    /\ \A c \in Range(config.corridors) :
          /\ c.regionId \in RegionIds(config)
          /\ c.tier1Max <= c.tier2Max
          /\ c.tier2Max <= c.dailyLimit
    /\ TierIds(config) = CorridorIds(config)
----------------------------------------------------------------------------
(* main: the transactions of a run, in order. *)

Tx(to, op, arg) == [to |-> to, op |-> op, arg |-> arg]

Creations(run) ==
    [i \in DOMAIN CONTRACTS |-> Tx(<<run, CONTRACTS[i]>>, "create", Absent)]

Initializations(at, config) ==
    <<Tx(at["registry"], "initialize", Absent),
      Tx(at["hook"], "initialize", Absent),
      Tx(at["pool"], "initialize",
         [registry |-> at["registry"],
          cap |-> config.defaultUtilizationCapBps]),
      Tx(at["escrow"], "initialize",
         [registry |-> at["registry"], hook |-> at["hook"],
          feeBps |-> config.feeBps])>>

Wiring(at) ==
    <<Tx(at["hook"], "set_escrow", at["escrow"]),
      Tx(at["hook"], "set_operator", Attester)>>

\* Each region takes two calls, one after the other.
RegionCall(at, regions, i) ==
    IF i % 2 = 1 THEN Tx(at["registry"], "add_region", regions[(i + 1) \div 2])
    ELSE Tx(at["pool"], "open_region", regions[i \div 2])

CorridorCall(at, corridor) == Tx(at["registry"], "map_corridor", corridor)

TierCall(at, tier) ==
    Tx(at["hook"], "set_tier_thresholds",
       [corridorId |-> tier.corridorId, tier1Max |-> tier.tier1Max,
        tier2Max |-> tier.tier2Max, dailyLimit |-> tier.enhancedDailyLimit])

Configuration(at, config) ==
    [i \in 1 .. 2 * Len(config.regions) |-> RegionCall(at, config.regions, i)]
    \o [i \in DOMAIN config.corridors |-> CorridorCall(at, config.corridors[i])]
    \o [i \in DOMAIN config.complianceTiers |-> TierCall(at, config.complianceTiers[i])]

\* The addresses of a run's own instances.
Instances(run) == [n \in Names |-> <<run, n>>]

\* Fault: one contract at a time, the escrow first.
Script_one_by_one(run, config) ==
    LET at   == Instances(run)
        made == Creations(run)
        set  == Initializations(at, config)
    IN  <<made[4], set[4], made[3], set[3], made[2], set[2], made[1], set[1]>>
        \o Wiring(at) \o Configuration(at, config)

\* Create all four, then initialize, then wire, then configure.
Script(run, config) ==
    LET at == Instances(run)
    IN  Creations(run) \o Initializations(at, config) \o Wiring(at)
        \o Configuration(at, config)

\* The transactions of any run, and what a contract notes of one.
Scripted == UNION {Range(Script(r, config)) : r \in 1..MaxDeploys, config \in Configs}
Noted == {[op |-> tx.op, arg |-> tx.arg] : tx \in Scripted}

ASSUME AbsentIsNoValue ==
    Absent \notin Seq(Noted) \cup [registry : Address, hook : Address, feeBps : Nat]

\* The addresses file: what was deployed and what it was configured with.
Output(run, config) == [contracts |-> Instances(run), config |-> config]
----------------------------------------------------------------------------
(* The read-back at the end of a run, and verify-deployment.ts. *)

\* escrow_config and pool_config: the arguments of the one initialization.
config_of(a) ==
    IF Initialized(a) THEN CHOOSE c \in Taken(a, "initialize") : TRUE ELSE Absent

ReadBack(at, config) ==
    /\ config_of(at["escrow"]) # Absent
    /\ config_of(at["escrow"]).registry = at["registry"]
    /\ config_of(at["escrow"]).hook = at["hook"]
    /\ config_of(at["escrow"]).feeBps = config.feeBps
    /\ RegionIds(config) \subseteq RegionsOf(at["registry"], "add_region")
    /\ RegionIds(config) \subseteq RegionsOf(at["pool"], "open_region")
    /\ \A t \in Range(config.complianceTiers) :
          LET stored == get_tier_thresholds(at["hook"], t.corridorId)
          IN  /\ stored # Absent
              /\ stored.tier1Max = t.tier1Max
              /\ stored.dailyLimit = t.enhancedDailyLimit

\* A list of ids in the file against one in a contract, which has no doubles.
Ids(records) == [i \in DOMAIN records |-> records[i].id]
sameSet(stored, records) == stored = Range(Ids(records)) /\ IsInjective(Ids(records))

ListCorridors(a) == {arg.corridorId : arg \in Taken(a, "set_tier_thresholds")}

\* Reads the deployment back with nothing but the addresses file to go by.
verify_deployment(at, config) ==
    /\ RegionsOf(at["registry"], "add_region") # {}
    /\ sameSet(RegionsOf(at["registry"], "add_region"), config.regions)
    /\ sameSet(ListCorridors(at["hook"]), config.corridors)
    /\ Initialized(at["pool"])
    /\ config_of(at["escrow"]) # Absent
    /\ config_of(at["escrow"]).registry = at["registry"]
    /\ config_of(at["escrow"]).hook = at["hook"]
    /\ config_of(at["escrow"]).feeBps = config.feeBps
----------------------------------------------------------------------------
(* The steps of a run. *)

Todo(o) == Script(job[o].run, job[o].config)
NextTx(o) == Todo(o)[job[o].at]
Submitting(o) == job[o].pc = "submit" /\ job[o].at <= Len(Todo(o))
Stop(o) == job' = [job EXCEPT ![o] = Idle]

\* The configuration is checked, and an existing addresses file refuses the run
\* unless it is forced.
start(o, config, force) ==
    /\ job[o].pc = "idle"
    /\ deploys < MaxDeploys
    /\ loadDeployConfig(config)
    /\ force \/ file = Absent
    /\ deploys' = deploys + 1
    /\ job' = [job EXCEPT ![o] = [pc |-> "submit", at |-> 1, run |-> deploys + 1,
                                  config |-> config]]
    /\ UNCHANGED <<calls, late, file, faults>>

\* submitOperations and poll: simulated, sent and confirmed.
submit_confirmed(o) ==
    /\ Submitting(o)
    /\ Accepts(NextTx(o))
    /\ Land(NextTx(o))
    /\ job' = [job EXCEPT ![o].at = @ + 1]
    /\ UNCHANGED <<late, file, deploys, faults>>

\* The contract refuses in the simulation, and the run ends where it is.
submit_refused(o) ==
    /\ Submitting(o)
    /\ ~Accepts(NextTx(o))
    /\ Stop(o)
    /\ UNCHANGED <<calls, late, file, deploys, faults>>

\* Fault: giving up on the poll counts as a confirmation.
submit_unconfirmed_goes_on(o) ==
    /\ Submitting(o)
    /\ Accepts(NextTx(o))
    /\ faults < MaxFaults
    /\ faults' = faults + 1
    /\ late' = late \union {NextTx(o)}
    /\ job' = [job EXCEPT ![o].at = @ + 1]
    /\ UNCHANGED <<calls, file, deploys>>

\* Sent, and not seen to confirm: poll gives up, or the process dies waiting.
submit_unconfirmed(o) ==
    /\ Submitting(o)
    /\ Accepts(NextTx(o))
    /\ faults < MaxFaults
    /\ faults' = faults + 1
    /\ late' = late \union {NextTx(o)}
    /\ Stop(o)
    /\ UNCHANGED <<calls, file, deploys>>

\* A call fails before anything is sent, or the process dies.
abort(o) ==
    /\ job[o].pc # "idle"
    /\ faults < MaxFaults
    /\ faults' = faults + 1
    /\ Stop(o)
    /\ UNCHANGED <<calls, late, file, deploys>>

\* An unconfirmed transaction lands after all, or runs out of its time bounds.
land_late(tx) ==
    /\ late' = late \ {tx}
    /\ IF Accepts(tx) THEN Land(tx) ELSE UNCHANGED calls
    /\ UNCHANGED <<file, job, deploys, faults>>

expire_late(tx) ==
    /\ late' = late \ {tx}
    /\ UNCHANGED <<calls, file, job, deploys, faults>>

verify(o) ==
    /\ job[o].pc = "submit"
    /\ job[o].at > Len(Todo(o))
    /\ IF ReadBack(Instances(job[o].run), job[o].config)
       THEN job' = [job EXCEPT ![o].pc = "write"]
       ELSE Stop(o)
    /\ UNCHANGED <<calls, late, file, deploys, faults>>

\* writeFileSync truncates the file and then fills it.
open_file(o) ==
    /\ job[o].pc = "write"
    /\ file' = Torn
    /\ job' = [job EXCEPT ![o].pc = "fill"]
    /\ UNCHANGED <<calls, late, deploys, faults>>

fill_file(o) ==
    /\ job[o].pc = "fill"
    /\ file' = Output(job[o].run, job[o].config)
    /\ Stop(o)
    /\ UNCHANGED <<calls, late, deploys, faults>>

DeployInit ==
    /\ calls = [a \in Address |-> Absent]
    /\ late = {}
    /\ file = Absent
    /\ job = [o \in Operators |-> Idle]
    /\ deploys = 0
    /\ faults = 0

Deploy(o) ==
    \/ \E config \in Configs, force \in BOOLEAN : start(o, config, force)
    \/ submit_confirmed(o)
    \/ submit_refused(o)
    \/ submit_unconfirmed(o)
    \/ verify(o)
    \/ open_file(o)
    \/ fill_file(o)
    \/ abort(o)

DeployNext ==
    \/ \E o \in Operators : Deploy(o)
    \/ \E tx \in late : land_late(tx)
    \/ \E tx \in late : expire_late(tx)

DeploySpec == DeployInit /\ [][DeployNext]_deployVars
----------------------------------------------------------------------------
(* Properties. *)

Recorded == file \notin {Absent, Torn}

\* A backend reads its contract ids from the addresses file.  Whatever was
\* lost, came late or was interrupted, in this run or one before it or next to
\* it, the four contracts the file names exist, refer to each other, and hold
\* the whole configuration the file states; the wiring no read-back covers
\* (the hook's escrow and attester, the corridor map) included.  Unless a
\* corridor is listed twice, verify-deployment says so too.
RecordedSetIsWired ==
    Recorded =>
        LET at     == file.contracts
            config == file.config
        IN  /\ \A n \in Names : Initialized(at[n])
            /\ config_of(at["escrow"]).registry = at["registry"]
            /\ config_of(at["escrow"]).hook = at["hook"]
            /\ config_of(at["pool"]).registry = at["registry"]
            /\ Taken(at["hook"], "set_escrow") = {at["escrow"]}
            /\ Attester \in Taken(at["hook"], "set_operator")
            /\ RegionsOf(at["registry"], "add_region") = RegionIds(config)
            /\ RegionsOf(at["pool"], "open_region") = RegionIds(config)
            /\ \A c \in Range(config.corridors) :
                  c \in Taken(at["registry"], "map_corridor")
            /\ ListCorridors(at["hook"]) = CorridorIds(config)
            /\ IsInjective(Ids(config.corridors)) =>
                  verify_deployment(at, config)

\* Nothing points at nothing: a contract that is initialized refers only to
\* contracts that exist, wherever the run that made it stopped.  This is why
\* main creates all four before it initializes the first.
NoDanglingReference ==
    \A a \in Address :
        /\ a[2] = "escrow" /\ Initialized(a) =>
              Live(config_of(a).registry) /\ Live(config_of(a).hook)
        /\ a[2] = "pool" /\ Initialized(a) => Live(config_of(a).registry)
        /\ \A e \in Taken(a, "set_escrow") : Live(e)

\* Limits the contracts have and loadDeployConfig does not check.
WithinContractLimits(config) ==
    /\ config.feeBps <= MAX_FEE_BPS
    /\ valid_cap(config.defaultUtilizationCapBps)
    /\ IsInjective(Ids(config.regions))
    /\ \A r \in Range(config.regions) :
          r.utilizationCapBps <= MAX_UTILIZATION_CAP_BPS
    /\ \A t \in Range(config.complianceTiers) :
          t.tier1Max <= t.tier2Max /\ t.tier2Max <= t.enhancedDailyLimit
          /\ t.enhancedDailyLimit > 0

\* For such a configuration the order of the calls is one the contracts accept
\* from first to last: a run is never refused half-way, with contracts live
\* that nobody can take back.
NeverRefusedHalfway ==
    \A o \in Operators :
        Submitting(o) /\ WithinContractLimits(job[o].config) => Accepts(NextTx(o))

\* What a stopped run leaves behind refers to nothing that does not exist, and a
\* run is not stopped by a contract's refusal.
NothingLeftHalfBuilt == NoDanglingReference /\ NeverRefusedHalfway
============================================================================
