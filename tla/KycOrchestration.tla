-------------------------- MODULE KycOrchestration --------------------------
(***************************************************************************)
(* KYC orchestration: backend/src/kyc-orchestration, with the attestation  *)
(* records of the compliance hook it publishes to.                         *)
(*                                                                         *)
(* A submission asks the provider, writes a KycAttestation row and then    *)
(* publishes the row's hash; a revocation revokes on chain and then marks  *)
(* rows; webhooks, the expiry sweep and the ledger move in between.  Every *)
(* await is a step boundary.                                               *)
(*                                                                         *)
(* A submission, the reference the provider gives it, its row and the hash *)
(* of its payload are in one-to-one correspondence and share a name.  An   *)
(* address stands for the user that has it.  Service and ledger read the   *)
(* same clock.                                                             *)
(*                                                                         *)
(* A definition whose comment starts with "Fault" is no part of the model: *)
(* it is a wrong version of the definition after it, one that a property   *)
(* of this module is shown to notice.                                      *)
(***************************************************************************)
EXTENDS Integers, FiniteSets, SorobanInvoke

CONSTANTS
    Users,          \* senders
    Addressed,      \* those with a Stellar address
    Attester,       \* the service's own address
    Requests,       \* submissions
    Revocations,    \* calls of revokeForSubject
    Amounts,        \* amounts a submission is made for
    tier1Max, tier2Max,
    ProviderTiers,  \* tiers the provider approves at
    None,           \* an absent row or field
    TTL,            \* lifetime of an attestation
    MaxTime,        \* bound: ticks of the clock
    MaxFailures,    \* bound: submissions and revocations cut short by an error
    MaxWebhooks     \* bound: webhook deliveries

ASSUME CallsAreOurs ==
    Calls = Requests \union Revocations /\ Requests \intersect Revocations = {}
ASSUME AddressedUsers == Addressed \subseteq Users /\ Attester \notin Users
ASSUME TiersAreOrdered == tier1Max \in Nat /\ tier2Max \in Nat /\ tier1Max <= tier2Max

Tiers == {"None", "Standard", "Enhanced"}
Outcomes == {"APPROVED", "REJECTED", "PENDING", "NEEDS_INPUT"}
Statuses == {"PENDING", "ACTIVE", "EXPIRED", "REVOKED"}
Addresses == Addressed \union {Attester}
ASSUME TiersAreKnown == ProviderTiers \subseteq Tiers
ASSUME LifetimesAreNatural == TTL \in Nat /\ MaxTime \in Nat

\* A KycAttestation row and the hook's attestation record.
Row == [user : Users, tier : Tiers, status : Statuses, expiresAt : Nat,
        published : BOOLEAN, revokedBy : Revocations \union {None}]
Attestation == [hash : Requests, tier : Tiers, expires_at : Nat,
                revoked : BOOLEAN]
ASSUME NoneIsNoRecord == None \notin Row \union Attestation

VARIABLES
    clock,
    row,        \* KycAttestation by submission, None when absent
    att,        \* the hook's attestation by address, None when absent
    req,        \* progress of each submission
    rev,        \* progress of each revocation
    failures, webhooks

net == <<tx, timeouts>>
counters == <<failures, webhooks>>
vars == <<clock, row, att, req, rev, net, counters>>

NewRequest == [pc |-> "new", user |-> None, required |-> "NONE",
               outcome |-> None, tier |-> "None", expiresAt |-> 0]
----------------------------------------------------------------------------
(* Tiers and expiry. *)

requiredTierFor(amount) ==
    IF amount <= tier1Max THEN "NONE"
    ELSE IF amount <= tier2Max THEN "STANDARD" ELSE "ENHANCED"

ProviderRank == [None |-> 0, Standard |-> 1, Enhanced |-> 2]
RequiredRank == [NONE |-> 0, STANDARD |-> 1, ENHANCED |-> 2]
tierSatisfies(held, required) == ProviderRank[held] >= RequiredRank[required]

subjectAddress(u) == IF u \in Addressed THEN u ELSE Attester

\* The hook's is_live, of the record an address has.
is_live(a) == att[a] # None /\ ~att[a].revoked /\ att[a].expires_at > clock
----------------------------------------------------------------------------
(* submitVerification. *)

Go(r, pc) == req' = [req EXCEPT ![r].pc = pc]

\* Below the first threshold nothing is asked and nothing is kept.
submitVerification(r, u, amount) ==
    /\ req[r].pc = "new"
    /\ req' = [req EXCEPT ![r].user = u,
                          ![r].required = requiredTierFor(amount),
                          ![r].pc = IF requiredTierFor(amount) = "NONE"
                                    THEN "done" ELSE "provider"]
    /\ UNCHANGED <<clock, row, att, rev, net, counters>>

\* Fault: the row is written once the publication is known.
provider_submit_row_last(r, outcome, tier) ==
    /\ req[r].pc = "provider"
    /\ req' = [req EXCEPT ![r].outcome = outcome, ![r].tier = tier,
                          ![r].expiresAt = clock + TTL,
                          ![r].pc = IF outcome = "APPROVED" THEN "publish" ELSE "done"]
    /\ UNCHANGED <<clock, row, att, rev, net, counters>>

\* provider.submit answers; a request for more input leaves no row.
provider_submit(r, outcome, tier) ==
    /\ req[r].pc = "provider"
    /\ req' = [req EXCEPT ![r].outcome = outcome, ![r].tier = tier,
                          ![r].expiresAt = clock + TTL,
                          ![r].pc = IF outcome = "NEEDS_INPUT" THEN "done" ELSE "create"]
    /\ UNCHANGED <<clock, row, att, rev, net, counters>>

StatusAtBirth == [APPROVED |-> "ACTIVE", PENDING |-> "PENDING", REJECTED |-> "REVOKED"]

NewRow(r) ==
    [user |-> req[r].user, tier |-> req[r].tier,
     status |-> StatusAtBirth[req[r].outcome], expiresAt |-> req[r].expiresAt,
     published |-> FALSE, revokedBy |-> None]

\* Fault: an approval is published at whatever tier it came.
create_row_any_tier(r) ==
    /\ req[r].pc = "create"
    /\ row' = [row EXCEPT ![r] = NewRow(r)]
    /\ Go(r, IF req[r].outcome = "APPROVED" THEN "publish" ELSE "done")
    /\ UNCHANGED <<clock, att, rev, net, counters>>

\* The row is written first; then only an approval deep enough is published.
create_row(r) ==
    /\ req[r].pc = "create"
    /\ row' = [row EXCEPT ![r] = NewRow(r)]
    /\ Go(r, IF /\ req[r].outcome = "APPROVED"
                /\ tierSatisfies(req[r].tier, req[r].required)
             THEN "publish" ELSE "done")
    /\ UNCHANGED <<clock, att, rev, net, counters>>

\* publishAttestation, up to the answer of sendTransaction.
publish_send(r) ==
    /\ req[r].pc = "publish"
    /\ IF req[r].expiresAt > clock THEN invoke(r) /\ Go(r, "poll")
       ELSE UNCHANGED net /\ Go(r, "done")
    /\ UNCHANGED <<clock, row, att, rev, counters>>

publish_poll(r) ==
    /\ req[r].pc = "poll"
    /\ \/ pollForResult(r) /\ Go(r, "record")
       \/ poll_failed(r) /\ Go(r, "done")
    /\ UNCHANGED <<clock, row, att, rev, counters>>

\* publishTxHash is filled in.
publish_record(r) ==
    /\ req[r].pc = "record"
    /\ row' = [row EXCEPT ![r].published = TRUE]
    /\ Go(r, "done")
    /\ UNCHANGED <<clock, att, rev, net, counters>>

\* publish_attestation of the hook, by a listed attester.
publish_attestation(r) ==
    LET a  == subjectAddress(req[r].user)
        ok == req[r].expiresAt > clock
    IN  /\ execute(r, ok)
        /\ att' = IF ~ok THEN att
                  ELSE [att EXCEPT ![a] =
                           [hash |-> r, tier |-> req[r].tier,
                            expires_at |-> req[r].expiresAt, revoked |-> FALSE]]
        /\ UNCHANGED <<clock, row, req, rev, counters>>
----------------------------------------------------------------------------
(* revokeForSubject. *)

\* The rows of the subject that are live at the time.
ActiveRowsOf(a) ==
    {r \in Requests : row[r] # None /\ row[r].status = "ACTIVE"
                      /\ row[r].user \in Addressed /\ row[r].user = a}

RevokedRows(v, a) ==
    [r \in Requests |-> IF r \in ActiveRowsOf(a)
                        THEN [row[r] EXCEPT !.status = "REVOKED", !.revokedBy = v]
                        ELSE row[r]]

\* Fault: the rows are marked before the chain is asked.
revokeForSubject_rows_first(v, a) ==
    /\ rev[v].pc = "new"
    /\ att[a] # None
    /\ invoke(v)
    /\ rev' = [rev EXCEPT ![v] = [pc |-> "poll", subject |-> a]]
    /\ row' = RevokedRows(v, a)
    /\ UNCHANGED <<clock, att, req, counters>>

\* The simulation refuses an address the hook has no record of.
revokeForSubject(v, a) ==
    /\ rev[v].pc = "new"
    /\ att[a] # None
    /\ invoke(v)
    /\ rev' = [rev EXCEPT ![v] = [pc |-> "poll", subject |-> a]]
    /\ UNCHANGED <<clock, row, att, req, counters>>

revoke_poll(v) ==
    /\ rev[v].pc = "poll"
    /\ \/ pollForResult(v) /\ rev' = [rev EXCEPT ![v].pc = "rows"]
       \/ poll_failed(v) /\ rev' = [rev EXCEPT ![v].pc = "done"]
    /\ UNCHANGED <<clock, row, att, req, counters>>

revoke_rows(v) ==
    /\ rev[v].pc = "rows"
    /\ row' = RevokedRows(v, rev[v].subject)
    /\ rev' = [rev EXCEPT ![v].pc = "done"]
    /\ UNCHANGED <<clock, att, req, net, counters>>

\* revoke_attestation of the hook.
revoke_attestation(v) ==
    LET a == rev[v].subject
    IN  /\ execute(v, att[a] # None)
        /\ att' = IF att[a] = None THEN att ELSE [att EXCEPT ![a].revoked = TRUE]
        /\ UNCHANGED <<clock, row, req, rev, counters>>
----------------------------------------------------------------------------
(* Webhooks, the sweep, errors and the environment. *)

StatusFromWebhook(outcome) ==
    IF outcome = "APPROVED" THEN "ACTIVE"
    ELSE IF outcome = "REJECTED" THEN "REVOKED" ELSE "PENDING"

\* A signed report of the provider on a submission it left open or has screened
\* again, delivered late, repeatedly and out of order.
webhook(r, outcome) ==
    /\ webhooks < MaxWebhooks
    /\ row[r] # None
    /\ row' = [row EXCEPT ![r].status = StatusFromWebhook(outcome)]
    /\ webhooks' = webhooks + 1
    /\ UNCHANGED <<clock, att, req, rev, net, failures>>

lapsed(expiresAt) == expiresAt <= clock

expireStaleAttestations ==
    /\ row' = [r \in Requests |->
                  IF row[r] # None /\ row[r].status = "ACTIVE" /\ lapsed(row[r].expiresAt)
                  THEN [row[r] EXCEPT !.status = "EXPIRED"] ELSE row[r]]
    /\ row' # row
    /\ UNCHANGED <<clock, att, req, rev, net, counters>>

\* An error of the provider, the RPC node or the database, or a restart, ends
\* the handler where it is; a call already sent is not recalled.
FailRequest(r) ==
    /\ failures < MaxFailures
    /\ req[r].pc \notin {"new", "done"}
    /\ Go(r, "done")
    /\ failures' = failures + 1
    /\ UNCHANGED <<clock, row, att, rev, net, webhooks>>

FailRevocation(v) ==
    /\ failures < MaxFailures
    /\ rev[v].pc \notin {"new", "done"}
    /\ rev' = [rev EXCEPT ![v].pc = "done"]
    /\ failures' = failures + 1
    /\ UNCHANGED <<clock, row, att, req, net, webhooks>>

ExpireCall(c) ==
    /\ expire(c)
    /\ UNCHANGED <<clock, row, att, req, rev, counters>>

Tick ==
    /\ clock < MaxTime
    /\ clock' = clock + 1
    /\ UNCHANGED <<row, att, req, rev, net, counters>>

Init ==
    /\ clock = 0
    /\ row = [r \in Requests |-> None]
    /\ att = [a \in Addresses |-> None]
    /\ req = [r \in Requests |-> NewRequest]
    /\ rev = [v \in Revocations |-> [pc |-> "new", subject |-> None]]
    /\ failures = 0 /\ webhooks = 0
    /\ NoCalls

Submission(r) ==
    \/ \E u \in Users, amount \in Amounts : submitVerification(r, u, amount)
    \/ \E tier \in ProviderTiers : provider_submit(r, "APPROVED", tier)
    \/ \E outcome \in Outcomes \ {"APPROVED"} : provider_submit(r, outcome, "None")
    \/ create_row(r)
    \/ publish_send(r)
    \/ publish_poll(r)
    \/ publish_record(r)
    \/ FailRequest(r)

Revocation(v) ==
    \/ \E a \in Addresses : revokeForSubject(v, a)
    \/ revoke_poll(v)
    \/ revoke_rows(v)
    \/ FailRevocation(v)

Next ==
    \/ \E r \in Requests : Submission(r) \/ publish_attestation(r)
    \/ \E v \in Revocations : Revocation(v) \/ revoke_attestation(v)
    \/ \E r \in Requests, outcome \in Outcomes : webhook(r, outcome)
    \/ expireStaleAttestations
    \/ \E c \in Calls : ExpireCall(c)
    \/ Tick

Spec == Init /\ [][Next]_vars
----------------------------------------------------------------------------
(* Properties. *)

\* A hash on chain can always be routed to the record behind it, wherever the
\* submission was cut short: submitVerification writes the row first.
AnchorsHaveRecords ==
    \A a \in Addresses :
        att[a] # None => /\ row[att[a].hash] # None
                         /\ subjectAddress(row[att[a].hash].user) = a

\* No attestation reaches the chain below the tier the corridor asked for, and
\* none from anything but an approval.
NeverUnderVerified ==
    \A a \in Addresses :
        att[a] # None => LET r == req[att[a].hash]
                         IN  /\ r.outcome = "APPROVED"
                             /\ att[a].tier = r.tier
                             /\ tierSatisfies(r.tier, r.required)

\* A row the sweep has expired is refused on chain too, also when its
\* publication was still in flight.
ExpiredIsDead ==
    \A r \in Requests :
        row[r] # None /\ row[r].status = "EXPIRED"
        => \A a \in Addresses : is_live(a) => att[a].hash # r

\* The chain vouches for nobody it should not: what is published was approved at
\* the tier it states and is not outlived by the row behind it.
OnlyVerifiedVouchedFor == NeverUnderVerified /\ ExpiredIsDead

\* "No consumer believes a revocation that never landed": as long as no poll
\* has given up, a row that revokeForSubject has marked was revoked on chain.
RevocationLanded ==
    \A r \in Requests :
        timeouts = 0 /\ row[r] # None /\ row[r].revokedBy # None
        => tx[row[r].revokedBy] = "landed"

============================================================================
