--------------------------- MODULE ComplianceHook ---------------------------
(***************************************************************************)
(* The tiered compliance gate: contracts/compliance-hook.                  *)
(*                                                                         *)
(* One action per entry point that writes; an error return reverts the     *)
(* invocation, so it is a missing step.  check_transfer_allowed and        *)
(* explain_transfer only report what evaluate decides.  evaluate's         *)
(* checked_add can only fail above the daily limit, where it refuses too.  *)
(* The hash, region and provider of an attestation are left out: the       *)
(* contract stores them and never reads them.                              *)
(*                                                                         *)
(* A definition whose comment starts with "Fault" is no part of the model: *)
(* it is a wrong version of the definition after it, one that a property   *)
(* of this module is shown to notice.                                      *)
(***************************************************************************)
EXTENDS Integers, Sequences, FiniteSets, PrefixSums

CONSTANTS
    Subjects,        \* senders
    Callers,         \* contracts that may try to commit volume
    Attesters,       \* keys that may be listed as operators
    Admins,          \* operator keys
    None,            \* an absent Option or storage entry
    Corridors,
    Amounts,         \* transfer amounts a caller may pass, valid or not
    ThresholdInputs, \* TierThresholds the operator may pass, valid or not
    Expiries,        \* expires_at values an attester may pass
    SECONDS_PER_DAY,
    U32Max,          \* where the saturating counters stop
    MaxTime,         \* bound: the ledger clock stops here
    MaxCommits,      \* bound: commitments in a behaviour
    MaxPublications  \* bound: attestations published in a behaviour

ASSUME NoneIsNoValue == None \notin Callers \union Admins
ASSUME AmountsAreIntegers == Amounts \subseteq Int
ASSUME ThresholdsAreIntegers ==
    ThresholdInputs \subseteq
        [tier1_max : Int, tier2_max : Int, daily_limit : Int]
ASSUME TimesAreNaturals ==
    /\ Expiries \subseteq Nat /\ MaxTime \in Nat
    /\ SECONDS_PER_DAY \in Nat \ {0}
ASSUME BoundsAreNaturals ==
    U32Max \in Nat /\ MaxCommits \in Nat /\ MaxPublications \in Nat

Tiers == {"None", "Standard", "Enhanced"}
rank(tier) == CASE tier = "None" -> 0
                [] tier = "Standard" -> 1
                [] tier = "Enhanced" -> 2
satisfies(held, required) == rank(held) >= rank(required)

required_tier(th, amount) ==
    CASE amount <= th.tier1_max -> "None"
      [] amount > th.tier1_max /\ amount <= th.tier2_max -> "Standard"
      [] OTHER -> "Enhanced"

is_valid(th) ==
    /\ th.tier1_max >= 0
    /\ th.tier2_max >= th.tier1_max
    /\ th.daily_limit > 0
    /\ th.daily_limit >= th.tier2_max

day_of(timestamp) == timestamp \div SECONDS_PER_DAY
Days == 0..day_of(MaxTime)

VARIABLES
    admin,         \* DataKey::Admin, None before initialize
    paused,        \* DataKey::Paused
    escrow,        \* DataKey::Escrow, None until set_escrow
    operators,     \* DataKey::Operator(address): the listed attesters
    thresholds,    \* DataKey::TierConfig(corridor), None when absent
    corridor_list, \* DataKey::CorridorList
    attestation,   \* DataKey::Attestation(subject), None when absent
    daily_volume,  \* DataKey::DailyVolume(subject, corridor, day)
    stats,         \* DataKey::Stats
    now,           \* env.ledger().timestamp()
    log            \* history: every commitment, in order

vars == <<admin, paused, escrow, operators, thresholds, corridor_list,
          attestation, daily_volume, stats, now, log>>
volumeVars == <<daily_volume, log>>
corridorVars == <<thresholds, corridor_list>>
settings == <<admin, paused, escrow, operators, corridorVars>>

Attestation == [tier : Tiers, expires_at : Nat, revoked : BOOLEAN]
Commitment == [sender : Subjects, corridor : Corridors, amount : Nat \ {0},
               at : Nat]

TypeOK ==
    /\ admin \in Admins \union {None}
    /\ paused \in BOOLEAN
    /\ escrow \in Callers \union {None}
    /\ operators \subseteq Attesters
    /\ thresholds \in [Corridors -> ThresholdInputs \union {None}]
    /\ \A c \in Corridors : thresholds[c] # None => is_valid(thresholds[c])
    /\ corridor_list \in Seq(Corridors)
    /\ attestation \in [Subjects -> Attestation \union {None}]
    /\ daily_volume \in [Subjects \X Corridors \X Days -> Nat]
    /\ stats \in [attestations_issued : Nat, attestations_revoked : Nat,
                  transfers_committed : Nat, enhanced_tier_transfers : Nat]
    /\ now \in 0..MaxTime
    /\ log \in Seq(Commitment)
----------------------------------------------------------------------------
(* Helpers of the contract. *)

saturating_add(n) == IF n < U32Max THEN n + 1 ELSE n
is_live(record, time) == ~record.revoked /\ record.expires_at > time

\* Fault: a commitment overwrites the day's volume.
headroom_reset(sender, amount, corridor) == amount

headroom(sender, amount, corridor) ==
    daily_volume[<<sender, corridor, day_of(now)>>] + amount

\* A revocation blocks every transfer; a missing, expired or too low
\* attestation only those that need one.
attested(sender, required) ==
    LET record == attestation[sender]
    IN  /\ record # None => ~record.revoked
        /\ required # "None" => /\ record # None
                                /\ record.expires_at > now
                                /\ satisfies(record.tier, required)

\* Storage leaves the list alone when it already names the corridor.
push_corridor(corridor) ==
    corridor_list' = IF \E k \in DOMAIN corridor_list :
                            corridor_list[k] = corridor
                     THEN corridor_list ELSE Append(corridor_list, corridor)

\* Fault: the daily ceiling is not enforced.
evaluate_unmetered(sender, amount, corridor) ==
    /\ ~paused
    /\ amount > 0
    /\ thresholds[corridor] # None
    /\ attested(sender, required_tier(thresholds[corridor], amount))

\* The single source of truth: may this transfer proceed?
evaluate(sender, amount, corridor) ==
    /\ ~paused
    /\ amount > 0
    /\ thresholds[corridor] # None
    /\ headroom(sender, amount, corridor) <= thresholds[corridor].daily_limit
    /\ attested(sender, required_tier(thresholds[corridor], amount))
----------------------------------------------------------------------------
(* Operator entry points. *)

Initialized == admin # None

Init ==
    /\ admin = None
    /\ paused = FALSE
    /\ escrow = None
    /\ operators = {}
    /\ thresholds = [c \in Corridors |-> None]
    /\ corridor_list = << >>
    /\ attestation = [s \in Subjects |-> None]
    /\ daily_volume = [k \in Subjects \X Corridors \X Days |-> 0]
    /\ stats = [attestations_issued |-> 0, attestations_revoked |-> 0,
                transfers_committed |-> 0, enhanced_tier_transfers |-> 0]
    /\ now = 0
    /\ log = << >>

initialize(new_admin) ==
    /\ ~Initialized
    /\ admin' = new_admin
    /\ paused' = FALSE
    /\ UNCHANGED <<escrow, operators, corridorVars, attestation, stats, now,
                   volumeVars>>

set_operator(operator, allowed) ==
    /\ Initialized
    /\ operators' = IF allowed THEN operators \union {operator}
                    ELSE operators \ {operator}
    /\ UNCHANGED <<admin, paused, escrow, corridorVars, attestation, stats, now,
                   volumeVars>>

set_escrow(address) ==
    /\ Initialized
    /\ escrow' = address
    /\ UNCHANGED <<admin, paused, operators, corridorVars, attestation, stats,
                   now, volumeVars>>

set_paused(flag) ==
    /\ Initialized
    /\ paused' = flag
    /\ UNCHANGED <<admin, escrow, operators, corridorVars, attestation, stats,
                   now, volumeVars>>

set_tier_thresholds(corridor, th) ==
    /\ Initialized
    /\ is_valid(th)
    /\ thresholds' = [thresholds EXCEPT ![corridor] = th]
    /\ push_corridor(corridor)
    /\ UNCHANGED <<admin, paused, escrow, operators, attestation, stats, now,
                   volumeVars>>
----------------------------------------------------------------------------
(* Attester entry points. *)

\* Replaces whatever record the subject had, a revoked one included.
publish_attestation(attester, subject, tier, expires_at) ==
    LET previous == attestation[subject]
        previous_was_live == previous # None /\ is_live(previous, now)
    IN  /\ attester \in operators
        /\ expires_at > now
        /\ attestation' = [attestation EXCEPT ![subject] =
                              [tier |-> tier, expires_at |-> expires_at,
                               revoked |-> FALSE]]
        /\ stats' = [stats EXCEPT !.attestations_issued =
                        IF previous_was_live THEN @ ELSE saturating_add(@)]
        /\ UNCHANGED <<settings, now, volumeVars>>

\* Idempotent: revoking a revoked record is a call that changes nothing.
revoke_attestation(attester, subject) ==
    /\ attester \in operators
    /\ attestation[subject] # None
    /\ IF attestation[subject].revoked
       THEN UNCHANGED <<attestation, stats>>
       ELSE /\ attestation' = [attestation EXCEPT ![subject].revoked = TRUE]
            /\ stats' = [stats EXCEPT
                            !.attestations_revoked = saturating_add(@)]
    /\ UNCHANGED <<settings, now, volumeVars>>
----------------------------------------------------------------------------
(* The escrow's entry point: enforce and record in one invocation. *)

commit_transfer(caller, sender, amount, corridor) ==
    /\ escrow # None
    /\ caller = escrow
    /\ evaluate(sender, amount, corridor)
    /\ daily_volume' =
          [daily_volume EXCEPT ![<<sender, corridor, day_of(now)>>] =
              headroom(sender, amount, corridor)]
    /\ stats' = [stats EXCEPT
                    !.transfers_committed = saturating_add(@),
                    !.enhanced_tier_transfers =
                        IF required_tier(thresholds[corridor], amount)
                               = "Enhanced"
                        THEN saturating_add(@) ELSE @]
    /\ log' = Append(log, [sender |-> sender, corridor |-> corridor,
                           amount |-> amount, at |-> now])
    /\ UNCHANGED <<settings, attestation, now>>

Tick ==
    /\ now < MaxTime
    /\ now' = now + 1
    /\ UNCHANGED <<settings, attestation, stats, volumeVars>>
----------------------------------------------------------------------------
Operate ==
    \/ \E a \in Admins : initialize(a)
    \/ \E o \in Attesters, allowed \in BOOLEAN : set_operator(o, allowed)
    \/ \E e \in Callers : set_escrow(e)
    \/ \E p \in BOOLEAN : set_paused(p)
    \/ \E c \in Corridors, th \in ThresholdInputs : set_tier_thresholds(c, th)

Attest ==
    \/ \E o \in Attesters, s \in Subjects, t \in Tiers, e \in Expiries :
          /\ stats.attestations_issued < MaxPublications
          /\ publish_attestation(o, s, t, e)
    \/ \E o \in Attesters, s \in Subjects : revoke_attestation(o, s)

Next ==
    \/ Operate
    \/ Attest
    \/ \E k \in Callers, s \in Subjects, m \in Amounts, c \in Corridors :
          Len(log) < MaxCommits /\ commit_transfer(k, s, m, c)
    \/ Tick

Spec == Init /\ [][Next]_vars
----------------------------------------------------------------------------
(* Properties. *)

CommittedOn(s, c, d) ==
    [i \in 1..Len(log) |->
        IF log[i].sender = s /\ log[i].corridor = c /\ day_of(log[i].at) = d
        THEN log[i].amount ELSE 0]

\* The bucket the ceiling is checked against holds exactly what was committed
\* that day, for every sender, corridor and day: nothing is lost when the day
\* rolls over, a corridor is reconfigured or a sender's status changes.
VolumeMatchesCommits ==
    /\ \A s \in Subjects, c \in Corridors, d \in Days :
          daily_volume[<<s, c, d>>] = PrefixSum(CommittedOn(s, c, d), Len(log))
    /\ stats.transfers_committed =
          IF Len(log) < U32Max THEN Len(log) ELSE U32Max

\* Volume recorded for a day never falls, only grows while that day runs, for a
\* sender without a revocation, and never ends a step above the limit then in
\* force if that step raised it.
CeilingHoldsWhenItMatters ==
    [][\A s \in Subjects, c \in Corridors, d \in Days :
          LET before == daily_volume[<<s, c, d>>]
              after  == daily_volume'[<<s, c, d>>]
          IN  /\ after >= before
              /\ after > before => /\ d = day_of(now)
                                   /\ after <= thresholds[c].daily_limit
                                   /\ attestation[s] # None
                                         => ~attestation[s].revoked]_vars
=============================================================================
