--------------------------- MODULE Backend_proofs ---------------------------
(***************************************************************************)
(* Proofs about two services of the backend.                               *)
(*                                                                         *)
(* KYC orchestration, for any number of users, submissions, revocations,   *)
(* webhooks, failures and time-outs. Nothing a submission decided is       *)
(* written again once its call has been sent, so what the hook holds can   *)
(* be traced to the submission and to its row whatever happened in         *)
(* between: RequestFine and AnchorFine say what is traced, and each step   *)
(* touches one submission, one address or one revocation.                  *)
(*                                                                         *)
(* Quoting, for any market, amounts, secrets, requests and restarts. A     *)
(* request waits for the market twice and carries what it read: QuotesInv  *)
(* says how old that may be and that a quote's numbers came from it;       *)
(* LimiterInv says how the requests a client got through lie in time       *)
(* around the windows the limiter counts in.                               *)
(***************************************************************************)
EXTENDS KycOrchestration, Quoting, Sums_proofs, TLAPS

-----------------------------------------------------------------------------
(* KYC orchestration. *)

RequestSteps == {"new", "provider", "create", "publish", "poll", "record", "done"}
RevocationSteps == {"new", "poll", "rows", "done"}
Request == [pc : RequestSteps, user : Users \union {None},
            required : {"NONE", "STANDARD", "ENHANCED"},
            outcome : Outcomes \union {None}, tier : Tiers, expiresAt : Nat]

TypesHold ==
    /\ clock \in Nat /\ timeouts \in Nat
    /\ tx \in [Calls -> TxStates]
    /\ row \in [Requests -> Row \union {None}]
    /\ att \in [Addresses -> Attestation \union {None}]
    /\ req \in [Requests -> Request]
    /\ rev \in [Revocations -> [pc : RevocationSteps,
                                subject : Addresses \union {None}]]

\* A submission's row is written once, after the provider has answered and
\* before anything is sent, and only an approval deep enough is sent.
RequestFine(r) ==
    /\ req[r].pc # "new" => req[r].user \in Users
    /\ req[r].pc \in {"new", "provider"} => row[r] = None
    /\ req[r].pc \in {"new", "provider", "create"} => tx[r] = "none"
    /\ req[r].pc = "create" => req[r].outcome \in {"APPROVED", "PENDING", "REJECTED"}
    /\ row[r] # None => /\ row[r].user = req[r].user
                        /\ row[r].expiresAt = req[r].expiresAt
                        /\ row[r].status = "EXPIRED" => row[r].expiresAt <= clock
    /\ req[r].pc \in {"publish", "poll", "record"} \/ tx[r] # "none" =>
          /\ row[r] # None
          /\ req[r].outcome = "APPROVED"
          /\ tierSatisfies(req[r].tier, req[r].required)

\* What the hook holds for an address is what a submission sent there.
AnchorFine(a) ==
    att[a] # None =>
        LET r == att[a].hash
        IN  /\ tx[r] = "landed"
            /\ subjectAddress(req[r].user) = a
            /\ att[a].tier = req[r].tier
            /\ att[a].expires_at = req[r].expiresAt

\* A revocation goes on to the rows once its call has landed, unless the poll
\* gave up.
RevocationFine(v) ==
    /\ tx[v] # "none" => rev[v].subject \in Addresses
    /\ timeouts = 0 /\ rev[v].pc = "rows" => tx[v] = "landed"

KycInv ==
    /\ TypesHold
    /\ \A r \in Requests : RequestFine(r)
    /\ \A a \in Addresses : AnchorFine(a)
    /\ \A v \in Revocations : RevocationFine(v)
    /\ RevocationLanded
----------------------------------------------------------------------------
(* What a step leaves alone. *)

\* Calls that have landed stay landed, and a poll that gave up stays counted.
Steady ==
    /\ timeouts' \in Nat
    /\ timeouts' = 0 => timeouts = 0
    /\ tx' \in [Calls -> TxStates]
    /\ \A c \in Calls : tx[c] = "landed" => tx'[c] = "landed"

\* Of a submission whose call has been sent, nothing changes that was sent.
SentStays(r) ==
    tx[r] # "none" => /\ req'[r].user = req[r].user
                      /\ req'[r].tier = req[r].tier
                      /\ req'[r].expiresAt = req[r].expiresAt

\* No mark of a revocation is added.
MarksStay(r) ==
    row'[r] # None /\ row'[r].revokedBy # None =>
        row[r] # None /\ row[r].revokedBy = row'[r].revokedBy

LEMMA CallNames ==
    /\ Requests \subseteq Calls /\ Revocations \subseteq Calls
    /\ \A r \in Requests, v \in Revocations : r # v
  BY CallsAreOurs

LEMMA AnchorsStay ==
    ASSUME KycInv, Steady, NEW a \in Addresses, att'[a] = att[a],
           \A r \in Requests : SentStays(r)
    PROVE  AnchorFine(a)'
<1> SUFFICES ASSUME att[a] # None
             PROVE  AnchorFine(a)'
  BY DEF AnchorFine
<1> DEFINE r == att[a].hash
<1>1. att[a] \in Attestation
  BY DEF KycInv, TypesHold
<1>2. r \in Requests /\ r \in Calls
  BY <1>1, CallNames DEF Attestation
<1>3. AnchorFine(a)
  BY DEF KycInv
<1>4. /\ tx[r] = "landed" /\ subjectAddress(req[r].user) = a
      /\ att[a].tier = req[r].tier /\ att[a].expires_at = req[r].expiresAt
  BY <1>3 DEF AnchorFine
<1>5. tx'[r] = "landed" /\ req'[r].user = req[r].user
      /\ req'[r].tier = req[r].tier /\ req'[r].expiresAt = req[r].expiresAt
  BY <1>2, <1>4 DEF Steady, SentStays
<1> HIDE DEF r
<1>6. subjectAddress(req'[r].user) = a
  BY <1>4, <1>5
<1>7. att'[a].hash = r /\ att'[a] = att[a]
  BY DEF r
<1> QED
  BY <1>4, <1>5, <1>6, <1>7 DEF AnchorFine

LEMMA RevocationsStay ==
    ASSUME KycInv, Steady, NEW v \in Revocations, rev'[v] = rev[v],
           tx[v] = "none" => tx'[v] = "none"
    PROVE  RevocationFine(v)'
<1>1. RevocationFine(v) /\ v \in Calls
  BY CallNames DEF KycInv
<1> QED
  BY <1>1 DEF RevocationFine, Steady

LEMMA LandedStays ==
    ASSUME KycInv, Steady, \A r \in Requests : MarksStay(r)
    PROVE  RevocationLanded'
<1> SUFFICES ASSUME NEW r \in Requests, timeouts' = 0, row'[r] # None,
                    row'[r].revokedBy # None
             PROVE  tx'[row'[r].revokedBy] = "landed"
  BY DEF RevocationLanded
<1>1. row[r] # None /\ row[r].revokedBy = row'[r].revokedBy /\ timeouts = 0
  BY DEF MarksStay, Steady
<1>2. row[r] \in Row
  BY <1>1 DEF KycInv, TypesHold
<1>3. row[r].revokedBy \in Calls
  BY <1>1, <1>2, CallNames DEF Row
<1>4. tx[row[r].revokedBy] = "landed"
  BY <1>1 DEF KycInv, RevocationLanded
<1> QED
  BY <1>1, <1>3, <1>4 DEF Steady

\* A submission that a step does not touch stays fine while time goes on.
LEMMA OthersStay ==
    ASSUME KycInv, NEW r \in Requests, req'[r] = req[r], row'[r] = row[r],
           tx'[r] = "none" <=> tx[r] = "none", clock' \in Nat, clock <= clock'
    PROVE  RequestFine(r)'
<1>1. RequestFine(r) /\ clock \in Nat
  BY DEF KycInv, TypesHold
<1>2. row[r] # None => row[r].expiresAt \in Nat
  BY DEF KycInv, TypesHold, Row
<1>3. row[r] # None /\ row[r].status = "EXPIRED" => row[r].expiresAt <= clock'
  BY <1>1, <1>2 DEF RequestFine
<1> QED
  BY <1>1, <1>3 DEF RequestFine, tierSatisfies

\* A step of submission r, which touches no revocation.
RequestOnly(r) ==
    /\ UNCHANGED <<clock, rev>>
    /\ Steady
    /\ req' \in [Requests -> Request]
    /\ row' \in [Requests -> Row \union {None}]
    /\ \A q \in Requests \ {r} :
          req'[q] = req[q] /\ row'[q] = row[q] /\ tx'[q] = tx[q]
    /\ \A v \in Revocations : tx'[v] = tx[v]
    /\ SentStays(r)
    /\ MarksStay(r)
    /\ RequestFine(r)'

LEMMA RequestOnlyKeeps ==
    ASSUME KycInv, NEW r \in Requests, RequestOnly(r),
           att' \in [Addresses -> Attestation \union {None}],
           \A a \in Addresses : att'[a] = att[a] \/ AnchorFine(a)'
    PROVE  KycInv'
<1> USE DEF RequestOnly
<1>1. \A q \in Requests : SentStays(q)
  BY DEF SentStays
<1>2. \A q \in Requests : MarksStay(q)
  BY DEF MarksStay
<1>3. \A a \in Addresses : AnchorFine(a)'
  BY <1>1, AnchorsStay
<1>4. \A v \in Revocations : RevocationFine(v)'
  BY RevocationsStay
<1>5. RevocationLanded'
  BY <1>2, LandedStays
<1>6. clock' \in Nat /\ clock <= clock'
  BY DEF KycInv, TypesHold
<1>7. \A q \in Requests : RequestFine(q)'
  <2> SUFFICES ASSUME NEW q \in Requests, q # r PROVE RequestFine(q)'
    OBVIOUS
  <2> QED
    BY <1>6, OthersStay
<1>8. TypesHold'
  <2>1. timeouts' \in Nat /\ tx' \in [Calls -> TxStates] /\ rev' = rev
    BY DEF Steady
  <2> QED
    BY <1>6, <2>1 DEF KycInv, TypesHold
<1> QED
  BY <1>3, <1>4, <1>5, <1>7, <1>8 DEF KycInv

\* The effect of Go.
LEMMA GoEffect ==
    ASSUME KycInv, NEW r \in Requests, NEW pc \in RequestSteps, Go(r, pc)
    PROVE  /\ req' \in [Requests -> Request]
           /\ \A q \in Requests \ {r} : req'[q] = req[q]
           /\ req'[r].pc = pc /\ req'[r].user = req[r].user
           /\ req'[r].required = req[r].required
           /\ req'[r].outcome = req[r].outcome
           /\ req'[r].tier = req[r].tier
           /\ req'[r].expiresAt = req[r].expiresAt
<1> DEFINE new == [req[r] EXCEPT !.pc = pc]
<1>1. req \in [Requests -> Request] /\ req[r] \in Request
  BY DEF KycInv, TypesHold
<1>2. req' = [req EXCEPT ![r] = new]
  BY DEF Go
<1>3. /\ new \in Request /\ new.pc = pc /\ new.user = req[r].user
      /\ new.required = req[r].required /\ new.outcome = req[r].outcome
      /\ new.tier = req[r].tier /\ new.expiresAt = req[r].expiresAt
  BY <1>1 DEF Request
<1> HIDE DEF new
<1>4. req' \in [Requests -> Request] /\ req'[r] = new
      /\ \A q \in Requests \ {r} : req'[q] = req[q]
  BY <1>1, <1>2, <1>3
<1> QED
  BY <1>3, <1>4
----------------------------------------------------------------------------
(* The steps of a submission. *)

\* A step of r that sends nothing and answers nothing.
LEMMA QuietStep ==
    ASSUME KycInv, UNCHANGED net
    PROVE  Steady
<1>1. tx' = tx /\ timeouts' = timeouts
  BY DEF net
<1> QED
  BY <1>1 DEF Steady, KycInv, TypesHold

LEMMA SubmitStep ==
    ASSUME KycInv, NEW r \in Requests, NEW u \in Users, NEW amount \in Amounts,
           submitVerification(r, u, amount)
    PROVE  RequestOnly(r) /\ att' = att
<1> DEFINE required == requiredTierFor(amount)
           pc == IF required = "NONE" THEN "done" ELSE "provider"
           one == [req[r] EXCEPT !.user = u]
           two == [one EXCEPT !.required = required]
           new == [two EXCEPT !.pc = pc]
<1>1. /\ req[r].pc = "new"
      /\ UNCHANGED <<clock, row, att, rev, net, counters>>
      /\ req' = [req EXCEPT ![r] = new]
  BY DEF submitVerification
<1>2. req \in [Requests -> Request] /\ req[r] \in Request
      /\ row \in [Requests -> Row \union {None}] /\ RequestFine(r)
  BY DEF KycInv, TypesHold
<1>3. required \in {"NONE", "STANDARD", "ENHANCED"}
  BY DEF requiredTierFor
<1>4. pc \in RequestSteps /\ pc \in {"done", "provider"}
  BY DEF RequestSteps
<1> HIDE DEF required, pc
<1>5. one \in Request /\ one.user = u
  BY <1>2 DEF Request
<1> HIDE DEF one
<1>6. two \in Request /\ two.user = u
  BY <1>3, <1>5 DEF Request
<1> HIDE DEF two
<1>7. new \in Request /\ new.user = u /\ new.pc = pc
  BY <1>4, <1>6 DEF Request
<1> HIDE DEF new
<1>8. req' \in [Requests -> Request] /\ req'[r] = new
      /\ \A q \in Requests \ {r} : req'[q] = req[q]
  BY <1>1, <1>2, <1>7
<1>9. row[r] = None /\ tx[r] = "none"
  BY <1>1, <1>2 DEF RequestFine
<1>10. tx' = tx /\ row' = row
  BY <1>1 DEF net
<1>11. RequestFine(r)'
  BY <1>4, <1>7, <1>8, <1>9, <1>10 DEF RequestFine
<1>12. SentStays(r) /\ MarksStay(r)
  BY <1>9, <1>10 DEF SentStays, MarksStay
<1>13. Steady
  BY <1>1, QuietStep
<1> QED
  BY <1>1, <1>2, <1>8, <1>10, <1>11, <1>12, <1>13 DEF RequestOnly

LEMMA ProviderStep ==
    ASSUME KycInv, NEW r \in Requests, NEW outcome \in Outcomes, NEW tier \in Tiers,
           provider_submit(r, outcome, tier)
    PROVE  RequestOnly(r) /\ att' = att
<1> DEFINE pc == IF outcome = "NEEDS_INPUT" THEN "done" ELSE "create"
           end == clock + TTL
           one == [req[r] EXCEPT !.outcome = outcome]
           two == [one EXCEPT !.tier = tier]
           three == [two EXCEPT !.expiresAt = end]
           new == [three EXCEPT !.pc = pc]
<1>1. /\ req[r].pc = "provider"
      /\ UNCHANGED <<clock, row, att, rev, net, counters>>
      /\ req' = [req EXCEPT ![r] = new]
  BY DEF provider_submit
<1>2. req \in [Requests -> Request] /\ req[r] \in Request /\ clock \in Nat
      /\ row \in [Requests -> Row \union {None}] /\ RequestFine(r)
  BY DEF KycInv, TypesHold
<1>3. end \in Nat
  BY <1>2, LifetimesAreNatural
<1>4. /\ pc \in RequestSteps /\ pc \in {"done", "create"}
      /\ pc = "create" => outcome \in {"APPROVED", "PENDING", "REJECTED"}
  BY DEF RequestSteps, Outcomes
<1> HIDE DEF end, pc
<1>5. one \in Request /\ one.outcome = outcome /\ one.user = req[r].user
  BY <1>2 DEF Request
<1> HIDE DEF one
<1>6. two \in Request /\ two.outcome = outcome /\ two.user = req[r].user
  BY <1>5 DEF Request
<1> HIDE DEF two
<1>7. three \in Request /\ three.outcome = outcome /\ three.user = req[r].user
  BY <1>3, <1>6 DEF Request
<1> HIDE DEF three
<1>8. new \in Request /\ new.outcome = outcome /\ new.user = req[r].user
      /\ new.pc = pc
  BY <1>4, <1>7 DEF Request
<1> HIDE DEF new
<1>9. req' \in [Requests -> Request] /\ req'[r] = new
      /\ \A q \in Requests \ {r} : req'[q] = req[q]
  BY <1>1, <1>2, <1>8
<1>10. row[r] = None /\ tx[r] = "none" /\ req[r].user \in Users
  BY <1>1, <1>2 DEF RequestFine
<1>11. tx' = tx /\ row' = row
  BY <1>1 DEF net
<1>12. RequestFine(r)'
  BY <1>4, <1>8, <1>9, <1>10, <1>11 DEF RequestFine
<1>13. SentStays(r) /\ MarksStay(r)
  BY <1>10, <1>11 DEF SentStays, MarksStay
<1>14. Steady
  BY <1>1, QuietStep
<1> QED
  BY <1>1, <1>2, <1>9, <1>11, <1>12, <1>13, <1>14 DEF RequestOnly

LEMMA CreateStep ==
    ASSUME KycInv, NEW r \in Requests, create_row(r)
    PROVE  RequestOnly(r) /\ att' = att
<1> DEFINE pc == IF /\ req[r].outcome = "APPROVED"
                    /\ tierSatisfies(req[r].tier, req[r].required)
                 THEN "publish" ELSE "done"
           new == NewRow(r)
<1>1. /\ req[r].pc = "create" /\ Go(r, pc)
      /\ UNCHANGED <<clock, att, rev, net, counters>>
      /\ row' = [row EXCEPT ![r] = new]
  BY DEF create_row
<1>2. /\ req[r] \in Request /\ RequestFine(r)
      /\ row \in [Requests -> Row \union {None}]
  BY DEF KycInv, TypesHold
<1>3. /\ pc \in RequestSteps /\ pc \in {"publish", "done"}
      /\ pc = "publish" => /\ req[r].outcome = "APPROVED"
                           /\ tierSatisfies(req[r].tier, req[r].required)
  BY DEF RequestSteps
<1> HIDE DEF pc
<1>4. /\ req' \in [Requests -> Request]
      /\ \A q \in Requests \ {r} : req'[q] = req[q]
      /\ req'[r].pc = pc /\ req'[r].user = req[r].user
      /\ req'[r].required = req[r].required
      /\ req'[r].outcome = req[r].outcome
      /\ req'[r].tier = req[r].tier
      /\ req'[r].expiresAt = req[r].expiresAt
  BY <1>1, <1>3, GoEffect
<1>5. /\ req[r].user \in Users /\ tx[r] = "none"
      /\ req[r].outcome \in {"APPROVED", "PENDING", "REJECTED"}
  BY <1>1, <1>2 DEF RequestFine
<1>6. StatusAtBirth[req[r].outcome] \in Statuses \ {"EXPIRED"}
  BY <1>5 DEF StatusAtBirth, Statuses
<1>7. /\ new \in Row /\ new.user = req[r].user
      /\ new.expiresAt = req[r].expiresAt /\ new.status # "EXPIRED"
      /\ new.revokedBy = None
  <2>1. req[r].tier \in Tiers /\ req[r].expiresAt \in Nat
    BY <1>2 DEF Request
  <2> QED
    BY <1>5, <1>6, <2>1 DEF NewRow, Row
<1> HIDE DEF new
<1>8. new # None
  BY <1>7, NoneIsNoRecord
<1>9. row' \in [Requests -> Row \union {None}] /\ row'[r] = new
      /\ \A q \in Requests \ {r} : row'[q] = row[q]
  BY <1>1, <1>2, <1>7
<1>10. tx' = tx
  BY <1>1 DEF net
<1>11. RequestFine(r)'
  BY <1>3, <1>4, <1>5, <1>7, <1>8, <1>9, <1>10 DEF RequestFine
<1>12. SentStays(r) /\ MarksStay(r)
  BY <1>5, <1>7, <1>9 DEF SentStays, MarksStay
<1>13. Steady
  BY <1>1, QuietStep
<1> QED
  BY <1>1, <1>4, <1>9, <1>10, <1>11, <1>12, <1>13 DEF RequestOnly

\* publish_send, publish_poll, publish_record and a failure move a submission on
\* whose row is written, or end it.
LEMMA MoveOn ==
    ASSUME KycInv, NEW r \in Requests, NEW pc \in RequestSteps, Go(r, pc),
           Steady, UNCHANGED <<clock, rev>>,
           req[r].pc # "new",
           pc = "done" \/ req[r].pc \in {"publish", "poll", "record"},
           pc \notin {"new", "provider", "create"},
           tx'[r] = tx[r] \/ req[r].pc \in {"publish", "poll", "record"},
           \A c \in Calls \ {r} : tx'[c] = tx[c],
           row' = row \/ /\ req[r].pc = "record"
                         /\ row' = [row EXCEPT ![r].published = TRUE]
    PROVE  RequestOnly(r)
<1>1. /\ req[r] \in Request /\ RequestFine(r)
      /\ row \in [Requests -> Row \union {None}]
  BY DEF KycInv, TypesHold
<1>2. /\ req' \in [Requests -> Request]
      /\ \A q \in Requests \ {r} : req'[q] = req[q]
      /\ req'[r].pc = pc /\ req'[r].user = req[r].user
      /\ req'[r].required = req[r].required
      /\ req'[r].outcome = req[r].outcome
      /\ req'[r].tier = req[r].tier
      /\ req'[r].expiresAt = req[r].expiresAt
  BY GoEffect
<1>3. /\ row' \in [Requests -> Row \union {None}]
      /\ \A q \in Requests \ {r} : row'[q] = row[q]
      /\ row'[r] = None <=> row[r] = None
      /\ row[r] # None => /\ row'[r].user = row[r].user
                          /\ row'[r].expiresAt = row[r].expiresAt
                          /\ row'[r].status = row[r].status
                          /\ row'[r].revokedBy = row[r].revokedBy
  <2>1. CASE row' = row
    BY <1>1, <2>1
  <2>2. CASE /\ req[r].pc = "record"
             /\ row' = [row EXCEPT ![r].published = TRUE]
    <3> DEFINE new == [row[r] EXCEPT !.published = TRUE]
    <3>1. row[r] # None
      BY <1>1, <2>2 DEF RequestFine
    <3>2. row[r] \in Row
      BY <1>1, <3>1
    <3>3. /\ new \in Row /\ new.user = row[r].user
          /\ new.expiresAt = row[r].expiresAt /\ new.status = row[r].status
          /\ new.revokedBy = row[r].revokedBy
      BY <3>2 DEF Row
    <3>4. row' = [row EXCEPT ![r] = new]
      BY <2>2
    <3> HIDE DEF new
    <3>5. new # None
      BY <3>3, NoneIsNoRecord
    <3>6. row' \in [Requests -> Row \union {None}] /\ row'[r] = new
          /\ \A q \in Requests \ {r} : row'[q] = row[q]
      BY <1>1, <3>3, <3>4
    <3> QED
      BY <3>1, <3>3, <3>5, <3>6
  <2> QED
    BY <2>1, <2>2
<1>4. RequestFine(r)'
  BY <1>1, <1>2, <1>3 DEF RequestFine
<1>5. SentStays(r) /\ MarksStay(r)
  BY <1>2, <1>3 DEF SentStays, MarksStay
<1>6. /\ \A q \in Requests \ {r} : tx'[q] = tx[q]
      /\ \A v \in Revocations : tx'[v] = tx[v]
  BY CallNames
<1> QED
  BY <1>2, <1>3, <1>4, <1>5, <1>6 DEF RequestOnly

\* A call whose fate was open moves on, and no other.
LEMMA CallMoves ==
    ASSUME KycInv, NEW c \in Calls, NEW s \in TxStates, tx[c] # "landed",
           tx' = [tx EXCEPT ![c] = s], timeouts' = timeouts
    PROVE  Steady /\ tx'[c] = s /\ \A d \in Calls \ {c} : tx'[d] = tx[d]
<1>1. tx \in [Calls -> TxStates] /\ timeouts \in Nat
  BY DEF KycInv, TypesHold
<1> QED
  BY <1>1 DEF Steady

\* A poll changes no call; one that goes on without a timeout has seen it land.
LEMMA PollEffect ==
    ASSUME KycInv, NEW c \in Calls, pollForResult(c) \/ poll_failed(c)
    PROVE  /\ Steady /\ tx' = tx
           /\ pollForResult(c) /\ timeouts' = 0 => tx[c] = "landed"
<1>1. tx \in [Calls -> TxStates] /\ timeouts \in Nat
  BY DEF KycInv, TypesHold
<1> QED
  BY <1>1 DEF Steady, pollForResult, poll_failed

LEMMA SendStep ==
    ASSUME KycInv, NEW r \in Requests, publish_send(r)
    PROVE  RequestOnly(r) /\ att' = att
<1>1. req[r].pc = "publish" /\ UNCHANGED <<clock, row, att, rev, counters>>
  BY DEF publish_send
<1>2. r \in Calls
  BY CallNames
<1>3. CASE invoke(r) /\ Go(r, "poll")
  <2>1. tx[r] # "landed" /\ tx' = [tx EXCEPT ![r] = "sent"] /\ timeouts' = timeouts
    BY <1>3 DEF invoke
  <2>2. Steady /\ \A d \in Calls \ {r} : tx'[d] = tx[d]
    BY <1>2, <2>1, CallMoves DEF TxStates
  <2>3. "poll" \in RequestSteps /\ row' = row /\ clock' = clock /\ rev' = rev
    BY <1>1 DEF RequestSteps
  <2> QED
    BY <1>1, <1>3, <2>2, <2>3, MoveOn
<1>4. CASE UNCHANGED net /\ Go(r, "done")
  <2>1. Steady
    BY <1>4, QuietStep
  <2>2. "done" \in RequestSteps /\ row' = row /\ clock' = clock /\ rev' = rev
        /\ tx' = tx
    BY <1>1, <1>4 DEF RequestSteps, net
  <2> QED
    BY <1>1, <1>4, <2>1, <2>2, MoveOn
<1> QED
  BY <1>3, <1>4 DEF publish_send

LEMMA PollStep ==
    ASSUME KycInv, NEW r \in Requests, publish_poll(r)
    PROVE  RequestOnly(r) /\ att' = att
<1>1. req[r].pc = "poll" /\ UNCHANGED <<clock, row, att, rev, counters>>
  BY DEF publish_poll
<1>2. PICK pc \in {"record", "done"} : Go(r, pc)
  BY DEF publish_poll
<1>3. Steady /\ tx' = tx
  BY CallNames, PollEffect DEF publish_poll
<1>4. pc \in RequestSteps /\ row' = row /\ clock' = clock /\ rev' = rev
  BY <1>1, <1>2 DEF RequestSteps
<1> QED
  BY <1>1, <1>2, <1>3, <1>4, MoveOn

LEMMA RecordStep ==
    ASSUME KycInv, NEW r \in Requests, publish_record(r)
    PROVE  RequestOnly(r) /\ att' = att
<1>1. /\ req[r].pc = "record" /\ UNCHANGED <<clock, att, rev, net, counters>>
      /\ Go(r, "done") /\ row' = [row EXCEPT ![r].published = TRUE]
  BY DEF publish_record
<1>2. Steady
  BY <1>1, QuietStep
<1>3. "done" \in RequestSteps /\ clock' = clock /\ rev' = rev /\ tx' = tx
  BY <1>1 DEF RequestSteps, net
<1> QED
  BY <1>1, <1>2, <1>3, MoveOn

LEMMA FailStep ==
    ASSUME KycInv, NEW r \in Requests, FailRequest(r)
    PROVE  RequestOnly(r) /\ att' = att
<1>1. /\ req[r].pc # "new" /\ UNCHANGED <<clock, row, att, rev, net>>
      /\ Go(r, "done")
  BY DEF FailRequest
<1>2. Steady
  BY <1>1, QuietStep
<1>3. "done" \in RequestSteps /\ row' = row /\ clock' = clock /\ rev' = rev
      /\ tx' = tx
  BY <1>1 DEF RequestSteps, net
<1> QED
  BY <1>1, <1>2, <1>3, MoveOn

LEMMA SubmissionKeeps ==
    ASSUME KycInv, NEW r \in Requests, Submission(r)
    PROVE  KycInv'
<1>1. RequestOnly(r) /\ att' = att
  <2>1. ASSUME NEW u \in Users, NEW amount \in Amounts,
               submitVerification(r, u, amount)
        PROVE  RequestOnly(r) /\ att' = att
    BY <2>1, SubmitStep
  <2>2. ASSUME NEW tier \in ProviderTiers, provider_submit(r, "APPROVED", tier)
        PROVE  RequestOnly(r) /\ att' = att
    <3>1. tier \in Tiers /\ "APPROVED" \in Outcomes
      BY TiersAreKnown DEF Outcomes
    <3> QED
      BY <2>2, <3>1, ProviderStep
  <2>3. ASSUME NEW outcome \in Outcomes, provider_submit(r, outcome, "None")
        PROVE  RequestOnly(r) /\ att' = att
    <3>1. "None" \in Tiers
      BY DEF Tiers
    <3> QED
      BY <2>3, <3>1, ProviderStep
  <2> QED
    BY <2>1, <2>2, <2>3, CreateStep, SendStep, PollStep, RecordStep, FailStep
       DEF Submission
<1>2. att \in [Addresses -> Attestation \union {None}]
  BY DEF KycInv, TypesHold
<1> QED
  BY <1>1, <1>2, RequestOnlyKeeps
----------------------------------------------------------------------------
(* The ledger and the clock. *)

\* A step that leaves the service's own state alone, and of the calls moves only
\* such as were sent.
LEMMA NetworkKeeps ==
    ASSUME KycInv, Steady, UNCHANGED <<row, req, rev>>,
           clock' \in Nat, clock <= clock',
           \A c \in Calls : tx'[c] = "none" <=> tx[c] = "none",
           att' \in [Addresses -> Attestation \union {None}],
           \A a \in Addresses : att'[a] = att[a] \/ AnchorFine(a)'
    PROVE  KycInv'
<1>1. row' = row /\ req' = req /\ rev' = rev
  OBVIOUS
<1>2. \A r \in Requests : SentStays(r) /\ MarksStay(r)
  BY <1>1 DEF SentStays, MarksStay
<1>3. \A a \in Addresses : AnchorFine(a)'
  BY <1>2, AnchorsStay
<1>4. \A v \in Revocations : RevocationFine(v)'
  <2> SUFFICES ASSUME NEW v \in Revocations PROVE RevocationFine(v)'
    OBVIOUS
  <2>1. rev'[v] = rev[v] /\ (tx[v] = "none" => tx'[v] = "none")
    BY <1>1, CallNames
  <2> QED
    BY <2>1, RevocationsStay
<1>5. RevocationLanded'
  BY <1>2, LandedStays
<1>6. \A r \in Requests : RequestFine(r)'
  <2> SUFFICES ASSUME NEW r \in Requests PROVE RequestFine(r)'
    OBVIOUS
  <2>1. req'[r] = req[r] /\ row'[r] = row[r]
        /\ (tx'[r] = "none" <=> tx[r] = "none")
    BY <1>1, CallNames
  <2> QED
    BY <2>1, OthersStay
<1>7. TypesHold'
  <2>1. timeouts' \in Nat /\ tx' \in [Calls -> TxStates]
    BY DEF Steady
  <2> QED
    BY <1>1, <2>1 DEF KycInv, TypesHold
<1> QED
  BY <1>3, <1>4, <1>5, <1>6, <1>7 DEF KycInv

LEMMA PublishKeeps ==
    ASSUME KycInv, NEW r \in Requests, publish_attestation(r)
    PROVE  KycInv'
<1>0. PICK a \in Addresses : a = subjectAddress(req[r].user)
  BY DEF subjectAddress, Addresses
<1> DEFINE ok == req[r].expiresAt > clock
           new == [hash |-> r, tier |-> req[r].tier,
                   expires_at |-> req[r].expiresAt, revoked |-> FALSE]
           fate == IF ok THEN "landed" ELSE "failed"
<1>1. /\ tx[r] = "sent" /\ tx' = [tx EXCEPT ![r] = fate]
      /\ timeouts' = timeouts
      /\ att' = IF ~ok THEN att ELSE [att EXCEPT ![a] = new]
      /\ clock' = clock /\ row' = row /\ req' = req /\ rev' = rev
  BY <1>0 DEF publish_attestation, execute
<1>2. r \in Calls
  BY CallNames
<1>3. fate \in TxStates /\ fate # "none" /\ (ok => fate = "landed")
  BY DEF TxStates
<1> HIDE DEF fate
<1>4. Steady /\ tx'[r] = fate /\ \A d \in Calls \ {r} : tx'[d] = tx[d]
  BY <1>1, <1>2, <1>3, CallMoves
<1>5. \A c \in Calls : tx'[c] = "none" <=> tx[c] = "none"
  BY <1>1, <1>3, <1>4
<1>6. /\ req[r] \in Request /\ clock \in Nat
      /\ att \in [Addresses -> Attestation \union {None}]
  BY DEF KycInv, TypesHold
<1>7. clock' \in Nat /\ clock <= clock'
  BY <1>1, <1>6
<1>8. CASE ~ok
  <2>1. att' = att
    BY <1>1, <1>8
  <2> QED
    BY <1>1, <1>4, <1>5, <1>6, <1>7, <2>1, NetworkKeeps
<1>9. CASE ok
  <2>1. new \in Attestation /\ new.hash = r /\ new.tier = req[r].tier
        /\ new.expires_at = req[r].expiresAt
    BY <1>6 DEF Attestation, Request
  <2>2. att' = [att EXCEPT ![a] = new] /\ tx'[r] = "landed"
    BY <1>1, <1>3, <1>4, <1>9
  <2>3. req'[r] = req[r] /\ subjectAddress(req'[r].user) = a
    BY <1>0, <1>1
  <2> HIDE DEF new
  <2>4. att' \in [Addresses -> Attestation \union {None}] /\ att'[a] = new
        /\ \A b \in Addresses \ {a} : att'[b] = att[b]
    BY <1>6, <2>1, <2>2
  <2>5. AnchorFine(a)'
    BY <2>1, <2>2, <2>3, <2>4 DEF AnchorFine
  <2>6. \A b \in Addresses : att'[b] = att[b] \/ AnchorFine(b)'
    BY <2>4, <2>5
  <2> QED
    BY <1>1, <1>4, <1>5, <1>7, <2>4, <2>6, NetworkKeeps
<1> QED
  BY <1>8, <1>9

LEMMA RevokeOnChainKeeps ==
    ASSUME KycInv, NEW v \in Revocations, revoke_attestation(v)
    PROVE  KycInv'
<1>0. PICK a \in Addresses : a = rev[v].subject
  BY DEF KycInv, RevocationFine, revoke_attestation, execute
<1> DEFINE new == [att[a] EXCEPT !.revoked = TRUE]
           fate == IF att[a] # None THEN "landed" ELSE "failed"
<1>1. /\ tx[v] = "sent" /\ tx' = [tx EXCEPT ![v] = fate]
      /\ timeouts' = timeouts
      /\ att' = IF att[a] = None THEN att ELSE [att EXCEPT ![a] = new]
      /\ clock' = clock /\ row' = row /\ req' = req /\ rev' = rev
  BY <1>0 DEF revoke_attestation, execute
<1>2. v \in Calls
  BY CallNames
<1>3. fate \in TxStates /\ fate # "none"
  BY DEF TxStates
<1> HIDE DEF fate
<1>4. Steady /\ tx'[v] = fate /\ \A d \in Calls \ {v} : tx'[d] = tx[d]
  BY <1>1, <1>2, <1>3, CallMoves
<1>5. \A c \in Calls : tx'[c] = "none" <=> tx[c] = "none"
  BY <1>1, <1>3, <1>4
<1>6. clock \in Nat /\ att \in [Addresses -> Attestation \union {None}]
  BY DEF KycInv, TypesHold
<1>7. clock' \in Nat /\ clock <= clock'
  BY <1>1, <1>6
<1>8. CASE att[a] = None
  <2>1. att' = att
    BY <1>1, <1>8
  <2> QED
    BY <1>1, <1>4, <1>5, <1>6, <1>7, <2>1, NetworkKeeps
<1>9. CASE att[a] # None
  <2>1. att[a] \in Attestation
    BY <1>6, <1>9
  <2>2. new \in Attestation /\ new.hash = att[a].hash /\ new.tier = att[a].tier
        /\ new.expires_at = att[a].expires_at
    BY <2>1 DEF Attestation
  <2>3. att' = [att EXCEPT ![a] = new]
    BY <1>1, <1>9
  <2> HIDE DEF new
  <2>4. att' \in [Addresses -> Attestation \union {None}] /\ att'[a] = new
        /\ \A b \in Addresses \ {a} : att'[b] = att[b]
    BY <1>6, <2>2, <2>3
  <2>5. AnchorFine(a)'
    <3> DEFINE r == att[a].hash
    <3>1. r \in Calls
      BY <2>1, CallNames DEF Attestation
    <3>2. AnchorFine(a)
      BY DEF KycInv
    <3>3. /\ tx[r] = "landed" /\ subjectAddress(req[r].user) = a
          /\ att[a].tier = req[r].tier /\ att[a].expires_at = req[r].expiresAt
      BY <1>9, <3>2 DEF AnchorFine
    <3>4. tx'[r] = "landed"
      BY <1>4, <3>1, <3>3 DEF Steady
    <3>5. new.hash = r /\ subjectAddress(req'[r].user) = a /\ req'[r] = req[r]
      BY <1>1, <2>2, <3>3
    <3> HIDE DEF r
    <3> QED
      BY <2>2, <2>4, <3>3, <3>4, <3>5 DEF AnchorFine
  <2>6. \A b \in Addresses : att'[b] = att[b] \/ AnchorFine(b)'
    BY <2>4, <2>5
  <2> QED
    BY <1>1, <1>4, <1>5, <1>7, <2>4, <2>6, NetworkKeeps
<1> QED
  BY <1>8, <1>9

LEMMA ExpiryKeeps ==
    ASSUME KycInv, NEW c \in Calls, ExpireCall(c)
    PROVE  KycInv'
<1>1. /\ tx[c] = "sent" /\ tx' = [tx EXCEPT ![c] = "expired"]
      /\ timeouts' = timeouts
      /\ clock' = clock /\ row' = row /\ req' = req /\ rev' = rev /\ att' = att
  BY DEF ExpireCall, expire
<1>2. Steady /\ tx'[c] = "expired" /\ \A d \in Calls \ {c} : tx'[d] = tx[d]
  BY <1>1, CallMoves DEF TxStates
<1>3. \A d \in Calls : tx'[d] = "none" <=> tx[d] = "none"
  BY <1>1, <1>2
<1>4. clock' \in Nat /\ clock <= clock'
      /\ att' \in [Addresses -> Attestation \union {None}]
  BY <1>1 DEF KycInv, TypesHold
<1> QED
  BY <1>1, <1>2, <1>3, <1>4, NetworkKeeps

\* The clock moves, or nothing does.
LEMMA TickKeeps ==
    ASSUME KycInv, Tick \/ UNCHANGED vars
    PROVE  KycInv'
<1>1. /\ row' = row /\ req' = req /\ rev' = rev /\ att' = att /\ UNCHANGED net
      /\ clock' = clock \/ clock' = clock + 1
  BY DEF Tick, vars
<1>2. clock' \in Nat /\ clock <= clock'
      /\ att' \in [Addresses -> Attestation \union {None}]
  BY <1>1 DEF KycInv, TypesHold
<1>3. Steady /\ tx' = tx
  BY <1>1, QuietStep DEF net
<1> QED
  BY <1>1, <1>2, <1>3, NetworkKeeps
----------------------------------------------------------------------------
(* Revocations. *)

\* A step of revocation v that writes no row.
LEMMA RevocationOnlyKeeps ==
    ASSUME KycInv, NEW v \in Revocations, Steady,
           UNCHANGED <<clock, row, att, req>>,
           NEW new \in [pc : RevocationSteps, subject : Addresses \union {None}],
           rev' = [rev EXCEPT ![v] = new],
           \A c \in Calls \ {v} : tx'[c] = tx[c],
           tx'[v] # "none" => new.subject \in Addresses,
           timeouts' = 0 /\ new.pc = "rows" => tx'[v] = "landed"
    PROVE  KycInv'
<1>1. clock' = clock /\ row' = row /\ att' = att /\ req' = req
  OBVIOUS
<1>2. rev \in [Revocations -> [pc : RevocationSteps,
                              subject : Addresses \union {None}]]
      /\ clock \in Nat
  BY DEF KycInv, TypesHold
<1>3. /\ rev' \in [Revocations -> [pc : RevocationSteps,
                                   subject : Addresses \union {None}]]
      /\ rev'[v] = new
      /\ \A w \in Revocations \ {v} : rev'[w] = rev[w]
  BY <1>2
<1>4. \A r \in Requests : SentStays(r) /\ MarksStay(r)
  BY <1>1 DEF SentStays, MarksStay
<1>5. \A a \in Addresses : AnchorFine(a)'
  BY <1>1, <1>4, AnchorsStay
<1>6. \A w \in Revocations : RevocationFine(w)'
  <2> SUFFICES ASSUME NEW w \in Revocations PROVE RevocationFine(w)'
    OBVIOUS
  <2>1. CASE w = v
    BY <1>3, <2>1 DEF RevocationFine
  <2>2. CASE w # v
    <3>1. rev'[w] = rev[w] /\ (tx[w] = "none" => tx'[w] = "none")
      BY <1>3, <2>2, CallNames
    <3> QED
      BY <3>1, RevocationsStay
  <2> QED
    BY <2>1, <2>2
<1>7. RevocationLanded'
  BY <1>4, LandedStays
<1>8. \A r \in Requests : RequestFine(r)'
  <2> SUFFICES ASSUME NEW r \in Requests PROVE RequestFine(r)'
    OBVIOUS
  <2>1. /\ req'[r] = req[r] /\ row'[r] = row[r]
        /\ (tx'[r] = "none" <=> tx[r] = "none")
        /\ clock' \in Nat /\ clock <= clock'
    BY <1>1, <1>2, CallNames
  <2> QED
    BY <2>1, OthersStay
<1>9. TypesHold'
  <2>1. timeouts' \in Nat /\ tx' \in [Calls -> TxStates]
    BY DEF Steady
  <2> QED
    BY <1>1, <1>3, <2>1 DEF KycInv, TypesHold
<1> QED
  BY <1>5, <1>6, <1>7, <1>8, <1>9 DEF KycInv

LEMMA RevokeCallKeeps ==
    ASSUME KycInv, NEW v \in Revocations, NEW a \in Addresses, revokeForSubject(v, a)
    PROVE  KycInv'
<1> DEFINE new == [pc |-> "poll", subject |-> a]
<1>1. /\ tx[v] # "landed" /\ tx' = [tx EXCEPT ![v] = "sent"] /\ timeouts' = timeouts
      /\ rev' = [rev EXCEPT ![v] = new]
      /\ UNCHANGED <<clock, row, att, req>>
  BY DEF revokeForSubject, invoke
<1>2. Steady /\ \A d \in Calls \ {v} : tx'[d] = tx[d]
  BY <1>1, CallMoves, CallNames DEF TxStates
<1>3. new \in [pc : RevocationSteps, subject : Addresses \union {None}]
      /\ new.subject \in Addresses /\ new.pc # "rows"
  BY DEF RevocationSteps
<1> HIDE DEF new
<1> QED
  BY <1>1, <1>2, <1>3, RevocationOnlyKeeps

\* A revocation moves on after a poll, or is cut short.
LEMMA RevocationMoves ==
    ASSUME KycInv, NEW v \in Revocations, Steady, tx' = tx,
           UNCHANGED <<clock, row, att, req>>,
           NEW pc \in {"rows", "done"}, rev' = [rev EXCEPT ![v].pc = pc],
           timeouts' = 0 /\ pc = "rows" => tx[v] = "landed"
    PROVE  KycInv'
<1> DEFINE new == [rev[v] EXCEPT !.pc = pc]
<1>1. rev[v] \in [pc : RevocationSteps, subject : Addresses \union {None}]
      /\ RevocationFine(v)
  BY DEF KycInv, TypesHold
<1>2. /\ new \in [pc : RevocationSteps, subject : Addresses \union {None}]
      /\ new.subject = rev[v].subject /\ new.pc = pc
      /\ rev' = [rev EXCEPT ![v] = new]
  BY <1>1 DEF RevocationSteps
<1> HIDE DEF new
<1>3. tx'[v] # "none" => new.subject \in Addresses
  BY <1>1, <1>2 DEF RevocationFine
<1> QED
  BY <1>2, <1>3, RevocationOnlyKeeps

LEMMA RevokePollKeeps ==
    ASSUME KycInv, NEW v \in Revocations, revoke_poll(v)
    PROVE  KycInv'
<1>1. v \in Calls /\ UNCHANGED <<clock, row, att, req>>
  BY CallNames DEF revoke_poll
<1>2. Steady /\ tx' = tx /\ (pollForResult(v) /\ timeouts' = 0 => tx[v] = "landed")
  BY <1>1, PollEffect DEF revoke_poll
<1>3. CASE pollForResult(v) /\ rev' = [rev EXCEPT ![v].pc = "rows"]
  BY <1>1, <1>2, <1>3, RevocationMoves
<1>4. CASE poll_failed(v) /\ rev' = [rev EXCEPT ![v].pc = "done"]
  BY <1>1, <1>2, <1>4, RevocationMoves
<1> QED
  BY <1>3, <1>4 DEF revoke_poll

LEMMA FailRevocationKeeps ==
    ASSUME KycInv, NEW v \in Revocations, FailRevocation(v)
    PROVE  KycInv'
<1>1. /\ UNCHANGED <<clock, row, att, req>> /\ UNCHANGED net
      /\ rev' = [rev EXCEPT ![v].pc = "done"]
  BY DEF FailRevocation
<1>2. Steady /\ tx' = tx
  BY <1>1, QuietStep DEF net
<1> QED
  BY <1>1, <1>2, RevocationMoves
----------------------------------------------------------------------------
(* Steps that change rows that are there already. *)

\* What such a step may do to a row: its owner and expiry stay, and it is called
\* expired only when it has lapsed.
RowMoves(r) ==
    row[r] # None => /\ row'[r] \in Row
                     /\ row'[r].user = row[r].user
                     /\ row'[r].expiresAt = row[r].expiresAt
                     /\ row'[r].status = "EXPIRED" => row[r].expiresAt <= clock

LEMMA RowsKeep ==
    ASSUME KycInv, UNCHANGED <<clock, req, att, net>>,
           row' \in [Requests -> Row \union {None}],
           \A r \in Requests : row'[r] = row[r] \/ (row[r] # None /\ RowMoves(r)),
           rev' \in [Revocations -> [pc : RevocationSteps,
                                     subject : Addresses \union {None}]],
           \A v \in Revocations : RevocationFine(v)',
           RevocationLanded'
    PROVE  KycInv'
<1>1. clock' = clock /\ req' = req /\ att' = att /\ tx' = tx
      /\ timeouts' = timeouts
  BY DEF net
<1>2. Steady
  BY QuietStep
<1>3. \A r \in Requests : SentStays(r)
  BY <1>1 DEF SentStays
<1>4. \A a \in Addresses : AnchorFine(a)'
  BY <1>1, <1>2, <1>3, AnchorsStay
<1>5. \A r \in Requests : RequestFine(r)'
  <2> SUFFICES ASSUME NEW r \in Requests PROVE RequestFine(r)'
    OBVIOUS
  <2>1. RequestFine(r) /\ clock \in Nat
    BY DEF KycInv, TypesHold
  <2>2. CASE row'[r] = row[r]
    BY <1>1, <2>1, <2>2 DEF RequestFine, tierSatisfies
  <2>3. CASE row[r] # None /\ RowMoves(r)
    <3>1. /\ row'[r] # None /\ row'[r].user = row[r].user
          /\ row'[r].expiresAt = row[r].expiresAt
          /\ row'[r].status = "EXPIRED" => row'[r].expiresAt <= clock'
      BY <1>1, <2>3, NoneIsNoRecord DEF RowMoves
    <3> QED
      BY <1>1, <2>1, <2>3, <3>1 DEF RequestFine
  <2> QED
    BY <2>2, <2>3
<1>6. TypesHold'
  BY <1>1 DEF KycInv, TypesHold
<1> QED
  BY <1>4, <1>5, <1>6 DEF KycInv

\* A webhook and the sweep give a row another status.
LEMMA StatusChange ==
    ASSUME KycInv, NEW r \in Requests, row[r] # None, NEW status \in Statuses,
           status = "EXPIRED" => row[r].expiresAt <= clock,
           row'[r] = [row[r] EXCEPT !.status = status]
    PROVE  RowMoves(r) /\ MarksStay(r)
<1>1. row[r] \in Row
  BY DEF KycInv, TypesHold
<1> QED
  BY <1>1 DEF Row, RowMoves, MarksStay

LEMMA StatusesKeep ==
    ASSUME KycInv, UNCHANGED <<clock, req, att, rev, net>>,
           row' \in [Requests -> Row \union {None}],
           \A r \in Requests : \/ row'[r] = row[r]
                               \/ row[r] # None /\ RowMoves(r) /\ MarksStay(r)
    PROVE  KycInv'
<1>1. rev' = rev /\ tx' = tx /\ Steady
  BY QuietStep DEF net
<1>2. \A v \in Revocations : RevocationFine(v)'
  BY <1>1, RevocationsStay
<1>3. \A r \in Requests : MarksStay(r)
  BY DEF MarksStay
<1>4. RevocationLanded'
  BY <1>1, <1>3, LandedStays
<1>5. rev' \in [Revocations -> [pc : RevocationSteps,
                               subject : Addresses \union {None}]]
  BY <1>1 DEF KycInv, TypesHold
<1> QED
  BY <1>2, <1>4, <1>5, RowsKeep

LEMMA WebhookKeeps ==
    ASSUME KycInv, NEW r \in Requests, NEW outcome \in Outcomes, webhook(r, outcome)
    PROVE  KycInv'
<1> DEFINE status == StatusFromWebhook(outcome)
           new == [row[r] EXCEPT !.status = status]
<1>1. /\ row[r] # None /\ row' = [row EXCEPT ![r] = new]
      /\ UNCHANGED <<clock, req, att, rev, net>>
  BY DEF webhook
<1>2. row \in [Requests -> Row \union {None}] /\ row[r] \in Row
  BY <1>1 DEF KycInv, TypesHold
<1>3. status \in Statuses /\ status # "EXPIRED"
  BY DEF StatusFromWebhook, Statuses
<1> HIDE DEF status
<1>4. new \in Row
  BY <1>2, <1>3 DEF Row
<1>5. row'[r] = new /\ \A q \in Requests \ {r} : row'[q] = row[q]
  BY <1>1, <1>2
<1>6. RowMoves(r) /\ MarksStay(r)
  BY <1>1, <1>3, <1>5, StatusChange
<1> HIDE DEF new
<1>7. row' \in [Requests -> Row \union {None}]
  BY <1>1, <1>2, <1>4
<1> QED
  BY <1>1, <1>5, <1>6, <1>7, StatusesKeep

LEMMA SweepKeeps ==
    ASSUME KycInv, expireStaleAttestations
    PROVE  KycInv'
<1> DEFINE gone(r) == row[r] # None /\ row[r].status = "ACTIVE"
                      /\ lapsed(row[r].expiresAt)
<1>1. /\ row' = [r \in Requests |->
                   IF gone(r) THEN [row[r] EXCEPT !.status = "EXPIRED"] ELSE row[r]]
      /\ UNCHANGED <<clock, req, att, rev, net>>
  BY DEF expireStaleAttestations
<1>2. row \in [Requests -> Row \union {None}]
  BY DEF KycInv, TypesHold
<1>3. ASSUME NEW r \in Requests
      PROVE  /\ row'[r] \in Row \union {None}
             /\ \/ row'[r] = row[r]
                \/ row[r] # None /\ RowMoves(r) /\ MarksStay(r)
  <2>1. CASE ~gone(r)
    BY <1>1, <1>2, <2>1
  <2>2. CASE gone(r)
    <3>1. row[r] # None /\ row[r].expiresAt <= clock
      BY <2>2 DEF lapsed
    <3>2. row'[r] = [row[r] EXCEPT !.status = "EXPIRED"]
      BY <1>1, <2>2
    <3>3. "EXPIRED" \in Statuses
      BY DEF Statuses
    <3>4. RowMoves(r) /\ MarksStay(r)
      BY <3>1, <3>2, <3>3, StatusChange
    <3> QED
      BY <3>1, <3>4 DEF RowMoves
  <2> QED
    BY <2>1, <2>2
<1>4. row' \in [Requests -> Row \union {None}]
  BY <1>1, <1>3
<1> QED
  BY <1>1, <1>3, <1>4, StatusesKeep

\* The marks go in once the call has landed, unless the poll gave up.
LEMMA RevokeRowsKeeps ==
    ASSUME KycInv, NEW v \in Revocations, revoke_rows(v)
    PROVE  KycInv'
<1>0. PICK a : a = rev[v].subject
  OBVIOUS
<1> DEFINE new(r) == [row[r] EXCEPT !.status = "REVOKED", !.revokedBy = v]
<1>1. /\ rev[v].pc = "rows" /\ rev' = [rev EXCEPT ![v].pc = "done"]
      /\ row' = [r \in Requests |-> IF r \in ActiveRowsOf(a) THEN new(r) ELSE row[r]]
      /\ UNCHANGED <<clock, req, att, net>>
  BY <1>0 DEF revoke_rows, RevokedRows
<1>2. row \in [Requests -> Row \union {None}]
  BY DEF KycInv, TypesHold
<1>3. ASSUME NEW r \in Requests, r \in ActiveRowsOf(a)
      PROVE  /\ row[r] # None /\ RowMoves(r) /\ row'[r] \in Row
             /\ row'[r].revokedBy = v
  <2>1. row[r] # None /\ row[r] \in Row
    BY <1>2, <1>3 DEF ActiveRowsOf
  <2>2. row'[r] = new(r)
    BY <1>1, <1>3
  <2>3. /\ new(r) \in Row /\ new(r).user = row[r].user
        /\ new(r).expiresAt = row[r].expiresAt /\ new(r).status = "REVOKED"
        /\ new(r).revokedBy = v
    BY <2>1 DEF Row, Statuses
  <2> QED
    BY <2>1, <2>2, <2>3 DEF RowMoves
<1>4. \A r \in Requests : r \notin ActiveRowsOf(a) => row'[r] = row[r]
  BY <1>1
<1>5. row' \in [Requests -> Row \union {None}]
  <2>1. \A r \in Requests : row'[r] \in Row \union {None}
    BY <1>2, <1>3, <1>4
  <2> QED
    BY <1>1, <2>1
<1>6. tx' = tx /\ timeouts' = timeouts /\ Steady
  BY <1>1, QuietStep DEF net
<1>7. RevocationLanded'
  <2> SUFFICES ASSUME NEW r \in Requests, timeouts' = 0, row'[r] # None,
                      row'[r].revokedBy # None
               PROVE  tx'[row'[r].revokedBy] = "landed"
    BY DEF RevocationLanded
  <2>1. CASE r \in ActiveRowsOf(a)
    <3>1. RevocationFine(v) /\ row'[r].revokedBy = v
      BY <1>3, <2>1 DEF KycInv
    <3> QED
      BY <1>1, <1>6, <3>1 DEF RevocationFine
  <2>2. CASE r \notin ActiveRowsOf(a)
    <3>1. row'[r] = row[r]
      BY <1>4, <2>2
    <3> QED
      BY <1>6, <3>1 DEF KycInv, RevocationLanded
  <2> QED
    BY <2>1, <2>2
<1>8. /\ rev' \in [Revocations -> [pc : RevocationSteps,
                                   subject : Addresses \union {None}]]
      /\ rev'[v].pc = "done" /\ rev'[v].subject = rev[v].subject
      /\ \A w \in Revocations \ {v} : rev'[w] = rev[w]
  <2> DEFINE end == [rev[v] EXCEPT !.pc = "done"]
  <2>1. rev \in [Revocations -> [pc : RevocationSteps,
                                 subject : Addresses \union {None}]]
    BY DEF KycInv, TypesHold
  <2>2. /\ end \in [pc : RevocationSteps, subject : Addresses \union {None}]
        /\ end.pc = "done" /\ end.subject = rev[v].subject
        /\ rev' = [rev EXCEPT ![v] = end]
    BY <1>1, <2>1 DEF RevocationSteps
  <2> HIDE DEF end
  <2> QED
    BY <2>1, <2>2
<1>9. \A w \in Revocations : RevocationFine(w)'
  <2> SUFFICES ASSUME NEW w \in Revocations PROVE RevocationFine(w)'
    OBVIOUS
  <2>1. RevocationFine(w)
    BY DEF KycInv
  <2> QED
    BY <1>6, <1>8, <2>1 DEF RevocationFine
<1> QED
  BY <1>1, <1>3, <1>4, <1>5, <1>7, <1>8, <1>9, RowsKeep
----------------------------------------------------------------------------
(* The invariant and what follows from it. *)

LEMMA KycInvInit ==
    ASSUME Init PROVE KycInv
<1>1. /\ clock = 0 /\ timeouts = 0
      /\ \A r \in Requests : row[r] = None /\ req[r] = NewRequest
      /\ \A a \in Addresses : att[a] = None
      /\ \A v \in Revocations : rev[v] = [pc |-> "new", subject |-> None]
      /\ \A c \in Calls : tx[c] = "none"
  BY DEF Init, NoCalls
<1>2. NewRequest \in Request /\ NewRequest.pc = "new"
  BY DEF NewRequest, Request, RequestSteps, Outcomes, Tiers
<1>3. TypesHold
  <2>1. req \in [Requests -> Request] /\ row \in [Requests -> Row \union {None}]
    BY <1>2 DEF Init
  <2>2. att \in [Addresses -> Attestation \union {None}]
        /\ tx \in [Calls -> TxStates]
    BY DEF Init, NoCalls, TxStates
  <2>3. rev \in [Revocations -> [pc : RevocationSteps,
                                 subject : Addresses \union {None}]]
    BY DEF Init, RevocationSteps
  <2> QED
    BY <1>1, <2>1, <2>2, <2>3 DEF TypesHold
<1>4. \A r \in Requests : RequestFine(r)
  BY <1>1, <1>2, CallNames DEF RequestFine
<1>5. \A a \in Addresses : AnchorFine(a)
  BY <1>1 DEF AnchorFine
<1>6. \A v \in Revocations : RevocationFine(v)
  BY <1>1, CallNames DEF RevocationFine
<1>7. RevocationLanded
  BY <1>1 DEF RevocationLanded
<1> QED
  BY <1>3, <1>4, <1>5, <1>6, <1>7 DEF KycInv

LEMMA KycInvStep ==
    ASSUME KycInv, [Next]_vars PROVE KycInv'
<1>1. ASSUME NEW r \in Requests, Submission(r) \/ publish_attestation(r)
      PROVE  KycInv'
  BY <1>1, SubmissionKeeps, PublishKeeps
<1>2. ASSUME NEW v \in Revocations, Revocation(v) \/ revoke_attestation(v)
      PROVE  KycInv'
  BY <1>2, RevokeCallKeeps, RevokePollKeeps, RevokeRowsKeeps,
     FailRevocationKeeps, RevokeOnChainKeeps DEF Revocation
<1>3. ASSUME NEW r \in Requests, NEW outcome \in Outcomes, webhook(r, outcome)
      PROVE  KycInv'
  BY <1>3, WebhookKeeps
<1>4. ASSUME NEW c \in Calls, ExpireCall(c) PROVE KycInv'
  BY <1>4, ExpiryKeeps
<1> QED
  BY <1>1, <1>2, <1>3, <1>4, SweepKeeps, TickKeeps DEF Next

\* What every state of a behaviour satisfies: each submission, each attestation
\* on chain and each revocation agrees with what was sent for it.
THEOREM KycInvariant == Spec => []KycInv
<1>1. Init => KycInv
  BY KycInvInit
<1>2. KycInv /\ [Next]_vars => KycInv'
  BY KycInvStep
<1> QED
  BY <1>1, <1>2, PTL DEF Spec

\* An attestation on chain is that of a submission whose call landed, and so of
\* one that has a row and was approved deep enough.
LEMMA AnchorTraced ==
    ASSUME KycInv, NEW a \in Addresses, att[a] # None
    PROVE  LET r == att[a].hash
           IN  /\ r \in Requests /\ row[r] # None
               /\ subjectAddress(row[r].user) = a
               /\ req[r].outcome = "APPROVED"
               /\ tierSatisfies(req[r].tier, req[r].required)
               /\ att[a].tier = req[r].tier
               /\ att[a].expires_at = row[r].expiresAt
<1> DEFINE r == att[a].hash
<1>1. att[a] \in Attestation
  BY DEF KycInv, TypesHold
<1>2. r \in Requests
  BY <1>1 DEF Attestation
<1>3. RequestFine(r) /\ AnchorFine(a)
  BY <1>2 DEF KycInv
<1>4. /\ tx[r] = "landed" /\ subjectAddress(req[r].user) = a
      /\ att[a].tier = req[r].tier /\ att[a].expires_at = req[r].expiresAt
  BY <1>3 DEF AnchorFine
<1> HIDE DEF r
<1>5. /\ row[r] # None /\ req[r].outcome = "APPROVED"
      /\ tierSatisfies(req[r].tier, req[r].required)
      /\ row[r].user = req[r].user /\ row[r].expiresAt = req[r].expiresAt
  BY <1>3, <1>4 DEF RequestFine
<1>6. subjectAddress(row[r].user) = a
  BY <1>4, <1>5
<1> QED
  BY <1>2, <1>4, <1>5, <1>6 DEF r

\* Wherever submitVerification was cut short, and whatever webhooks, sweeps and
\* revocations came in between, the hash on chain leads to a row of the user
\* whose address it stands at.
THEOREM AnchorsAreRouted == Spec => []AnchorsHaveRecords
<1>1. KycInv => AnchorsHaveRecords
  BY AnchorTraced DEF AnchorsHaveRecords
<1> QED
  BY <1>1, KycInvariant, PTL

\* What the hook vouches for was approved at the tier the corridor asked for, and
\* is refused once the sweep has expired the row behind it.
THEOREM VouchedForIsVerified == Spec => []OnlyVerifiedVouchedFor
<1>1. KycInv => NeverUnderVerified
  BY AnchorTraced DEF NeverUnderVerified
<1>2. KycInv => ExpiredIsDead
  <2> SUFFICES ASSUME KycInv, NEW r \in Requests, row[r] # None,
                      row[r].status = "EXPIRED", NEW a \in Addresses,
                      is_live(a), att[a].hash = r
               PROVE  FALSE
    BY DEF ExpiredIsDead
  <2>1. att[a] # None /\ att[a].expires_at > clock
    BY DEF is_live
  <2>2. att[a].expires_at = row[r].expiresAt
    BY <2>1, AnchorTraced
  <2>3. row[r].expiresAt <= clock
    BY DEF KycInv, RequestFine
  <2>4. row[r].expiresAt \in Nat /\ clock \in Nat
    BY DEF KycInv, TypesHold, Row
  <2> QED
    BY <2>1, <2>2, <2>3, <2>4
<1> QED
  BY <1>1, <1>2, KycInvariant, PTL DEF OnlyVerifiedVouchedFor

\* As long as no poll has given up, a row that revokeForSubject marked was
\* revoked on chain.
THEOREM MarkedIsRevoked == Spec => []RevocationLanded
<1>1. KycInv => RevocationLanded
  BY DEF KycInv
<1> QED
  BY <1>1, KycInvariant, PTL

-----------------------------------------------------------------------------
(* Quoting: the rate and the numbers of a quote. *)

\* A nonempty finite set of naturals has a greatest element.
LEMMA GreatestElement ==
    ASSUME NEW S, IsFiniteSet(S), S \subseteq Nat, S # {}
    PROVE  Max(S) \in S
<1> DEFINE HasMax(T) == \E x \in T : \A y \in T : x >= y
           B == {T \in SUBSET S : T # {} /\ ~HasMax(T)}
<1>1. ASSUME B # {} PROVE FALSE
  <2>1. PICK T \in B : T = {} \/ (T # {} /\ Rest(T) \notin B)
    <3> HIDE DEF B
    <3>1. B \subseteq SUBSET S
      BY DEF B
    <3> QED
      BY <1>1, <3>1, SmallestSubset
  <2>2. T \subseteq S /\ T # {} /\ ~HasMax(T) /\ IsFiniteSet(T)
    BY <2>1, FS_Subset
  <2>3. First(T) \in T /\ First(T) \in Nat /\ Rest(T) \subseteq T
    BY <2>2, RestIsSmaller DEF Rest
  <2>4. \A y \in T : y = First(T) \/ y \in Rest(T)
    BY DEF Rest
  <2>5. CASE Rest(T) = {}
    BY <2>2, <2>3, <2>4, <2>5
  <2>6. CASE HasMax(Rest(T))
    <3>1. PICK x \in Rest(T) : \A y \in Rest(T) : x >= y
      BY <2>6
    <3>2. x \in Nat /\ x \in T
      BY <2>2, <2>3
    <3>3. CASE x >= First(T)
      BY <2>2, <2>4, <3>1, <3>2, <3>3
    <3>4. CASE First(T) >= x
      <4>1. \A y \in T : y \in Nat
        BY <2>2
      <4>2. \A y \in T : First(T) >= y
        BY <2>3, <2>4, <3>1, <3>2, <3>4, <4>1
      <4> QED
        BY <2>2, <2>3, <4>2
    <3> QED
      BY <2>3, <3>2, <3>3, <3>4
  <2> QED
    BY <2>1, <2>2, <2>3, <2>5, <2>6
<1>2. HasMax(S)
  BY <1>1
<1> QED
  BY <1>2 DEF Max

\* fetchRate answers with a positive rate or with none.
LEMMA RateType ==
    ASSUME NEW paths \in Books, fetchRate(paths) # Absent
    PROVE  fetchRate(paths) \in Nat
<1> DEFINE usable == {p \in paths : p.source > 0}
           rate(p) == (p.destination * RATE_SCALE) \div p.source
           rates == {rate(p) : p \in usable}
<1>1. /\ RATE_SCALE \in Nat /\ IsFiniteSet(paths)
      /\ paths \subseteq [source : Nat, destination : Nat]
  BY SettingsArePositive, MarketIsPriced
<1>2. \A d, n \in Nat : n > 0 => (d * RATE_SCALE) \div n \in Nat
  <2> TAKE d, n \in Nat
  <2>1. d * RATE_SCALE \in Nat
    BY <1>1
  <2> DEFINE x == d * RATE_SCALE
  <2> HIDE DEF x
  <2>2. n > 0 => x \div n \in Nat
    BY <2>1 DEF x
  <2> QED
    BY <2>2 DEF x
<1>3. rates \subseteq Nat
  BY <1>1, <1>2
<1>4. IsFiniteSet(rates)
  <2>1. IsFiniteSet(usable)
    BY <1>1, FS_Subset
  <2> DEFINE f == [p \in usable |-> rate(p)]
  <2>2. f \in Surjection(usable, rates)
    BY DEF Surjection
  <2> HIDE DEF f, usable, rates
  <2> QED
    BY <2>1, <2>2, FS_Surjection
<1> HIDE DEF rates
<1>5. CASE rates = {}
  BY <1>5 DEF fetchRate, rates
<1>6. CASE rates # {}
  <2>1. Max(rates) \in Nat
    BY <1>3, <1>4, <1>6, GreatestElement
  <2>2. fetchRate(paths) = IF Max(rates) > 0 THEN Max(rates) ELSE Absent
    BY <1>6 DEF fetchRate, rates
  <2> QED
    BY <2>1, <2>2
<1> QED
  BY <1>5, <1>6

\* Integer division, as the provers need to see it.
LEMMA Division ==
    ASSUME NEW a \in Nat, NEW b \in Nat \ {0}
    PROVE  \E q, r \in Nat : a \div b = q /\ a = b * q + r /\ r < b
<1>1. a \div b \in Int
  OBVIOUS
<1>2. b * (a \div b) <= a
  OBVIOUS
<1>3. a < b * (a \div b + 1)
  OBVIOUS
<1>4. a \div b >= 0
  OBVIOUS
<1>5. b * (a \div b + 1) = b * (a \div b) + b
  BY <1>1
<1> DEFINE q == a \div b
           r == a - b * q
<1>6. q \in Nat /\ r \in Nat /\ r < b /\ a = b * q + r
  BY <1>1, <1>2, <1>3, <1>4, <1>5
<1> QED
  BY <1>6

\* x is q times d and r.
Divides(x, d, q, r) == x = d * q + r /\ r < d

\* A fee of f, rounded down, at a rate of bps basis points.
FeeIs(x, bps, f, r) == Divides(x * bps, 10000, f, r)

\* A promise of q less g against a payout of w, the fees' rates being G and F and
\* a stroop worth between k and k + 1 units.
PromiseFits(q, g, w, G, F, k) ==
    /\ 10000 * (q - g - w) - q * (F - G) < 20000
    /\ 10000 * (q - g - w) - q * (F - G) > -10000 * (2 + k)

\* An amount a at a client's rate c on a scale S, with a fee of G basis points
\* taken after the conversion (g of q) or one of F taken before it (f of a).
TwoFees(S, a, c, G, F, q, s, g, t, f, r, w, v, k, m) ==
    /\ S \in Nat \ {0} /\ a \in Nat /\ c \in Nat
    /\ G \in Nat /\ F \in Nat /\ F <= 10000
    /\ q \in Nat /\ s \in Nat /\ Divides(a * c, S, q, s)
    /\ g \in Nat /\ t \in Nat /\ FeeIs(q, G, g, t)
    /\ f \in Nat /\ r \in Nat /\ FeeIs(a, F, f, r)
    /\ w \in Nat /\ v \in Nat /\ Divides((a - f) * c, S, w, v)
    /\ k \in Nat /\ m \in Nat /\ Divides(c, S, k, m)

LEMMA FeeBeforeOrAfter ==
    ASSUME NEW S, NEW a, NEW c, NEW G, NEW F, NEW q, NEW s, NEW g, NEW t,
           NEW f, NEW r, NEW w, NEW v, NEW k, NEW m,
           TwoFees(S, a, c, G, F, q, s, g, t, f, r, w, v, k, m)
    PROVE  PromiseFits(q, g, w, G, F, k)
<1> USE DEF Divides, FeeIs, TwoFees
<1> DEFINE gap == 10000 * (q - g - w) - q * (F - G)
           Z   == r * c
           Fs  == (10000 - F) * s
           St  == S * t
           Sgap == S * gap
           Sk  == S * k
<1>1. gap \in Int /\ Sgap \in Int /\ Sk \in Nat
  OBVIOUS
<1>2. Z \in Nat /\ Z <= 9999 * c
  <2>1. (9999 - r) * c \in Nat
    OBVIOUS
  <2> QED
    BY <2>1
<1>3. Fs \in Nat /\ Fs <= 10000 * s
  <2>1. F * s \in Nat /\ (10000 - F) * s \in Nat
    OBVIOUS
  <2>2. (10000 - F) * s = 10000 * s - F * s
    OBVIOUS
  <2> QED
    BY <2>1, <2>2
<1>4. St \in Nat /\ St <= 9999 * S
  <2>1. (9999 - t) * S \in Nat
    OBVIOUS
  <2> QED
    BY <2>1
<1>5. Sgap = St + 10000 * v - Fs - Z
  <2> DEFINE Sq   == S * q
             Sg   == S * g
             Sw   == S * w
             FSq  == F * (S * q)
             rest == (a - f) * c
  <2>1. Sq \in Nat /\ Sg \in Nat /\ Sw \in Nat /\ FSq \in Nat /\ rest \in Nat
    OBVIOUS
  <2>2. 10000 * rest = 10000 * Sq - FSq + Fs + Z
    <3>1. 10000 * (a - f) = (10000 - F) * a + r
      OBVIOUS
    <3>2. (10000 * (a - f)) * c = ((10000 - F) * a + r) * c
      BY <3>1
    <3>3. ((10000 - F) * a + r) * c = (10000 - F) * (a * c) + Z
      OBVIOUS
    <3>4. (10000 - F) * (a * c) = (10000 - F) * (S * q + s)
      OBVIOUS
    <3>5. (10000 - F) * (S * q + s) = 10000 * Sq - FSq + Fs
      OBVIOUS
    <3>6. (10000 * (a - f)) * c = 10000 * rest
      OBVIOUS
    <3> QED
      BY <3>2, <3>3, <3>4, <3>5, <3>6
  <2>3. S * (q * G) = 10000 * Sg + St
    OBVIOUS
  <2>4. Sgap = 10000 * Sq - 10000 * Sg - 10000 * Sw - FSq + S * (q * G)
    OBVIOUS
  <2>5. rest = Sw + v
    OBVIOUS
  <2> DEFINE SqG == S * (q * G)
  <2>6. SqG = 10000 * Sg + St /\ SqG \in Nat
        /\ Sgap = 10000 * Sq - 10000 * Sg - 10000 * Sw - FSq + SqG
    BY <2>3, <2>4
  <2> HIDE DEF Sq, Sg, Sw, FSq, rest, SqG, Sgap, St, Fs, Z
  <2> QED
    BY <1>1, <1>2, <1>3, <1>4, <2>1, <2>2, <2>5, <2>6
<1>6. gap < 20000
  <2> SUFFICES ASSUME gap >= 20000 PROVE FALSE
    BY <1>1
  <2>1. S * (gap - 20000) \in Nat
    BY <1>1
  <2>2. S * (gap - 20000) = Sgap - 20000 * S
    BY <1>1
  <2> HIDE DEF gap, Sgap, St, Fs, Z
  <2> QED
    BY <1>1, <1>2, <1>3, <1>4, <1>5, <2>1, <2>2
<1>7. gap > -10000 * (2 + k)
  <2> SUFFICES ASSUME - gap - 10000 * (2 + k) >= 0 PROVE FALSE
    BY <1>1
  <2>1. S * (- gap - 10000 * (2 + k)) \in Nat
    BY <1>1
  <2>2. S * (- gap - 10000 * (2 + k)) = - Sgap - 20000 * S - 10000 * Sk
    BY <1>1
  <2>3. c = Sk + m
    OBVIOUS
  <2> HIDE DEF gap, Sgap, St, Fs, Z, Sk
  <2> QED
    BY <1>1, <1>2, <1>3, <1>4, <1>5, <2>1, <2>2, <2>3
<1> QED
  BY <1>6, <1>7 DEF PromiseFits

\* A fee in basis points and what the division leaves.
LEMMA FeeDivides ==
    ASSUME NEW a \in Nat, NEW bps \in Nat
    PROVE  \E f, r \in Nat : applyBps(a, bps) = f /\ FeeIs(a, bps, f, r)
<1> DEFINE x == a * bps
<1>1. x \in Nat
  OBVIOUS
<1> HIDE DEF x
<1>2. \E f, r \in Nat : x \div 10000 = f /\ x = 10000 * f + r /\ r < 10000
  BY <1>1, Division
<1> QED
  BY <1>2 DEF applyBps, x, Divides, FeeIs

\* A conversion at a rate, rounded down.
LEMMA ConversionDivides ==
    ASSUME NEW a \in Nat, NEW c \in Nat
    PROVE  \E q, r \in Nat : (a * c) \div RATE_SCALE = q /\ Divides(a * c, RATE_SCALE, q, r)
<1> DEFINE x == a * c
<1>1. x \in Nat
  OBVIOUS
<1> HIDE DEF x
<1>2. \E q, r \in Nat : x \div RATE_SCALE = q /\ x = RATE_SCALE * q + r /\ r < RATE_SCALE
  BY <1>1, Division, SettingsArePositive
<1> QED
  BY <1>2 DEF x, Divides

\* What a price promises, beside what the escrow's fee will leave of it.
PricePredictsPayout(b) ==
    LET converted == b.total + b.fee
        gap       == 10000 * (b.total - Paid(b)) - converted * (escrow_fee - ESCROW_FEE_BPS)
    IN  gap < 20000 /\ gap > -10000 * (2 + b.clientRate \div RATE_SCALE)

LEMMA PriceIsRight ==
    ASSUME NEW a \in SourceAmounts, NEW bps \in Spreads, NEW rate \in Nat,
           escrow_fee \in 0..MAX_FEE_BPS
    PROVE  PricePredictsPayout(Price(a, rate, bps))
<1> DEFINE c == rate - applyBps(rate, bps)
<1>0. RATE_SCALE \in Nat \ {0}
  BY SettingsArePositive
<1>1. a \in Nat /\ bps \in 0..10000
  BY MarketIsPriced
<1>2. c \in Nat
  <2>1. rate * bps \in Nat /\ rate * (10000 - bps) \in Nat
    BY <1>1
  <2>2. rate * bps <= rate * 10000
    BY <1>1, <2>1
  <2>3. bps \in Nat
    BY <1>1
  <2>4. PICK p, u \in Nat : applyBps(rate, bps) = p /\ FeeIs(rate, bps, p, u)
    BY <2>3, FeeDivides
  <2>5. p <= rate
    BY <2>1, <2>2, <2>4 DEF Divides, FeeIs
  <2> QED
    BY <2>4, <2>5
<1> HIDE DEF c
<1>f. PICK F \in Nat, G \in Nat : F = escrow_fee /\ F <= 10000 /\ G = ESCROW_FEE_BPS
  <2>1. escrow_fee \in Nat /\ escrow_fee <= 10000 /\ ESCROW_FEE_BPS \in Nat
    BY DEF MAX_FEE_BPS, ESCROW_FEE_BPS
  <2> QED
    BY <2>1
<1>g. a \in Nat
  BY <1>1
<1>3. PICK q, s \in Nat : (a * c) \div RATE_SCALE = q /\ Divides(a * c, RATE_SCALE, q, s)
  BY <1>1, <1>2, ConversionDivides
<1>4. PICK g, t \in Nat : applyBps(q, G) = g /\ FeeIs(q, G, g, t)
  BY FeeDivides
<1>5. PICK f, r \in Nat : applyBps(a, F) = f /\ FeeIs(a, F, f, r)
  BY <1>g, FeeDivides
<1>6. PICK w, v \in Nat : /\ ((a - f) * c) \div RATE_SCALE = w
                          /\ Divides((a - f) * c, RATE_SCALE, w, v)
  <2>1. (10000 - F) * a \in Nat
    BY <1>f, <1>g
  <2>2. (10000 - F) * a = 10000 * a - a * F
    BY <1>f, <1>g
  <2> DEFINE aF == a * F
  <2>3. aF = 10000 * f + r /\ 10000 * a - aF \in Nat
    BY <1>5, <2>1, <2>2 DEF Divides, FeeIs
  <2> HIDE DEF aF
  <2>4. a - f \in Nat
    BY <1>1, <2>3
  <2> QED
    BY <1>2, <2>4, ConversionDivides
<1>7. PICK k, m \in Nat : c \div RATE_SCALE = k /\ Divides(c, RATE_SCALE, k, m)
  BY <1>0, <1>2, Division DEF Divides
<1>8. PromiseFits(q, g, w, G, F, k)
  <2>1. TwoFees(RATE_SCALE, a, c, G, F, q, s, g, t, f, r, w, v, k, m)
    BY <1>0, <1>2, <1>3, <1>4, <1>5, <1>6, <1>7, <1>f, <1>g DEF TwoFees
  <2> QED
    BY <2>1, FeeBeforeOrAfter
<1> DEFINE b == Price(a, rate, bps)
<1>9. b.amount = a /\ b.clientRate = c /\ b.total = q - g /\ b.fee = g
  BY <1>3, <1>4, <1>f DEF Price, c
<1> HIDE DEF b
<1>10. Paid(b) = w
  BY <1>5, <1>6, <1>9, <1>f DEF Paid
<1>11. b.total + b.fee = q /\ b.total - Paid(b) = q - g - w
  BY <1>9, <1>10
<1>12. PricePredictsPayout(b)
  BY <1>7, <1>8, <1>9, <1>11, <1>f DEF PricePredictsPayout, PromiseFits
<1> QED
  BY <1>12 DEF b

-----------------------------------------------------------------------------
(* Quoting: what a request and a quote still have to do with the market. *)

\* The market offered the rate at some instant from `since' to now.
OfferedSince(rate, since) == \E at \in since..now : market[at + 1] = rate

\* A signed quote's numbers are createQuote's, for a rate that the market
\* offered within Horizon's timeout before the window was opened.
QuoteFine(quote) ==
    /\ quote.body.validUntil \in Nat
    /\ \E at \in 0..now : /\ quote.body.validUntil <= at + FETCH_TIMEOUT + QUOTE_TTL
                          /\ market[at + 1] = quote.body.price.midRate
    /\ \E a \in SourceAmounts, bps \in Spreads, rate \in Nat :
          quote.body.price = Price(a, rate, bps)

RequestPriced(r) ==
    /\ r.stage \in {"asked", "read"} =>
          r.sent \in 0..now /\ r.amount \in SourceAmounts /\ r.spreadBps \in Spreads
    /\ r.stage = "read" =>
          OfferedSince(r.rate, r.sent) /\ (r.rate # Absent => r.rate \in Nat)
    /\ r.stage = "signed" => QuoteFine(r.quote)

MarketFine ==
    /\ now \in Nat /\ book \in Books
    /\ market \in Seq(Nat \cup {Absent}) /\ Len(market) = now + 1
    /\ market[now + 1] = fetchRate(book)

QuotesInv ==
    /\ MarketFine
    /\ escrow_fee \in 0..MAX_FEE_BPS
    /\ \A r \in requests : RequestPriced(r)
    /\ \A q \in quotes : QuoteFine(q)

LEMMA QuotesInvInit == QuotingInit => QuotesInv
<1> SUFFICES ASSUME QuotingInit PROVE QuotesInv
  OBVIOUS
<1>1. fetchRate(book) \in Nat \cup {Absent}
  BY RateType DEF QuotingInit
<1>2. market = <<fetchRate(book)>> /\ now = 0
  BY DEF QuotingInit
<1>3. MarketFine
  BY <1>1, <1>2 DEF QuotingInit, MarketFine
<1>4. escrow_fee \in 0..MAX_FEE_BPS
  <2>1. escrow_fee \in FeeLevels /\ escrow_fee <= MAX_FEE_BPS /\ FeeLevels \subseteq Nat
    BY MarketIsPriced DEF QuotingInit
  <2> QED
    BY <2>1 DEF MAX_FEE_BPS
<1> QED
  BY <1>3, <1>4 DEF QuotingInit, QuotesInv

\* The clock and the market's record only grow, so what was fine stays so.
LEMMA PastIsKept ==
    ASSUME MarketFine, now \in Nat, now' \in Nat, now <= now',
           \A at \in 0..now : market'[at + 1] = market[at + 1]
    PROVE  /\ \A q : QuoteFine(q) => QuoteFine(q)'
           /\ \A r : RequestPriced(r) => RequestPriced(r)'
<1>1. \A at \in 0..now : at \in 0..now'
  OBVIOUS
<1>2. \A q : QuoteFine(q) => QuoteFine(q)'
  BY <1>1 DEF QuoteFine
<1>3. ASSUME NEW rate, NEW since \in 0..now, OfferedSince(rate, since)
      PROVE  OfferedSince(rate, since)'
  BY <1>1, <1>3 DEF OfferedSince
<1>4. ASSUME NEW r, RequestPriced(r) PROVE RequestPriced(r)'
  <2>1. r.stage \in {"asked", "read"} =>
          r.sent \in 0..now' /\ r.amount \in SourceAmounts /\ r.spreadBps \in Spreads
    BY <1>1, <1>4 DEF RequestPriced
  <2>2. r.stage = "read" =>
          OfferedSince(r.rate, r.sent)' /\ (r.rate # Absent => r.rate \in Nat)
    BY <1>3, <1>4 DEF RequestPriced
  <2>3. r.stage = "signed" => QuoteFine(r.quote)'
    BY <1>2, <1>4 DEF RequestPriced
  <2> QED
    BY <2>1, <2>2, <2>3 DEF RequestPriced
<1> QED
  BY <1>2, <1>4

\* A step that leaves the market alone has only to look at what it adds.
LEMMA NewOnesFine ==
    ASSUME QuotesInv, UNCHANGED <<now, book, market>>, escrow_fee' \in 0..MAX_FEE_BPS,
           \A r \in requests' : r \in requests \/ RequestPriced(r),
           \A q \in quotes' : q \in quotes \/ QuoteFine(q)
    PROVE  QuotesInv'
<1>1. MarketFine /\ MarketFine'
  BY DEF QuotesInv, MarketFine
<1>2. now \in Nat
  BY <1>1 DEF MarketFine
<1>3. /\ \A q : QuoteFine(q) => QuoteFine(q)'
      /\ \A r : RequestPriced(r) => RequestPriced(r)'
  BY <1>1, <1>2, PastIsKept
<1> QED
  BY <1>1, <1>3 DEF QuotesInv

LEMMA PostKeepsQuotes ==
    ASSUME QuotesInv, NEW c \in Clients, NEW a \in SourceAmounts, NEW bps \in Spreads,
           post_quotes(c, a, bps)
    PROVE  QuotesInv'
<1> DEFINE r == [id |-> asked, stage |-> "asked", sent |-> now,
                 amount |-> a, spreadBps |-> bps]
<1>1. RequestPriced(r)
  BY DEF QuotesInv, MarketFine, RequestPriced
<1>2. requests' = requests \cup {r} /\ UNCHANGED <<now, book, market, quotes, escrow_fee>>
  BY DEF post_quotes, Ask
<1> HIDE DEF r
<1> QED
  BY <1>1, <1>2, NewOnesFine DEF QuotesInv

LEMMA ReadKeepsQuotes ==
    ASSUME QuotesInv, NEW r \in requests, horizon_reads(r)
    PROVE  QuotesInv'
<1> DEFINE n == [id |-> r.id, stage |-> "read", sent |-> r.sent, amount |-> r.amount,
                 spreadBps |-> r.spreadBps, rate |-> fetchRate(book)]
<1>1. now \in Nat /\ book \in Books /\ market[now + 1] = fetchRate(book)
  BY DEF QuotesInv, MarketFine
<1>2. r.sent \in 0..now /\ r.amount \in SourceAmounts /\ r.spreadBps \in Spreads
  BY DEF QuotesInv, RequestPriced, horizon_reads
<1>3. OfferedSince(fetchRate(book), r.sent)
  <2>1. now \in r.sent..now
    BY <1>1, <1>2
  <2> QED
    BY <1>1, <2>1 DEF OfferedSince
<1>4. RequestPriced(n)
  BY <1>1, <1>2, <1>3, RateType DEF RequestPriced
<1>5. requests' = (requests \ {r}) \cup {n} /\ UNCHANGED <<now, book, market, quotes, escrow_fee>>
  BY DEF horizon_reads, history
<1> HIDE DEF n
<1> QED
  BY <1>4, <1>5, NewOnesFine DEF QuotesInv

\* The timeout bounds how far back the rate was read; the window is opened at
\* the instant the answer arrives.
LEMMA AnswerKeepsQuotes ==
    ASSUME QuotesInv, NEW r \in requests, fetch_answered(r)
    PROVE  QuotesInv'
<1> DEFINE p == Price(r.amount, r.rate, r.spreadBps)
           body == [quoteId |-> r.id, validUntil |-> validityWindow, price |-> p]
           n == [id |-> r.id, stage |-> "signed", quote |-> signQuote(body)]
<1>1. now \in Nat /\ QUOTE_TTL \in Nat /\ FETCH_TIMEOUT \in Nat
  BY SettingsArePositive, BoundsAreNaturals DEF QuotesInv, MarketFine
<1>2. /\ r.sent \in 0..now /\ r.amount \in SourceAmounts /\ r.spreadBps \in Spreads
      /\ OfferedSince(r.rate, r.sent) /\ r.rate \in Nat
      /\ now - r.sent <= FETCH_TIMEOUT
  BY DEF QuotesInv, RequestPriced, fetch_answered
<1>3. PICK at \in r.sent..now : market[at + 1] = r.rate
  BY <1>2 DEF OfferedSince
<1>4. p.midRate = r.rate
  BY DEF Price
<1> HIDE DEF p
<1>5. body.validUntil = now + QUOTE_TTL /\ body.price = p
  BY DEF validityWindow
<1> HIDE DEF body
<1>6. QuoteFine(signQuote(body))
  <2>1. signQuote(body).body = body
    BY DEF signQuote
  <2>2. /\ at \in 0..now /\ body.validUntil \in Nat
        /\ body.validUntil <= at + FETCH_TIMEOUT + QUOTE_TTL
    BY <1>1, <1>2, <1>5
  <2> QED
    BY <1>2, <1>3, <1>4, <1>5, <2>1, <2>2 DEF QuoteFine, p
<1>7. RequestPriced(n)
  BY <1>6 DEF RequestPriced
<1>8. requests' = (requests \ {r}) \cup {n} /\ UNCHANGED <<now, book, market, quotes, escrow_fee>>
  BY DEF fetch_answered, history, body, p
<1> HIDE DEF n
<1> QED
  BY <1>7, <1>8, NewOnesFine DEF QuotesInv

LEMMA CreateKeepsQuotes ==
    ASSUME QuotesInv, NEW r \in requests, quote_create(r)
    PROVE  QuotesInv'
<1>1. QuoteFine(r.quote)
  BY DEF QuotesInv, RequestPriced, quote_create
<1>2. /\ requests' = requests \ {r} /\ quotes' = quotes \cup {r.quote}
      /\ UNCHANGED <<now, book, market, escrow_fee>>
  BY DEF quote_create, history
<1> QED
  BY <1>1, <1>2, NewOnesFine DEF QuotesInv

LEMMA MarketKeepsQuotes ==
    ASSUME QuotesInv, NEW b \in Books, MarketMoves(b)
    PROVE  QuotesInv'
<1>1. MarketFine
  BY DEF QuotesInv
<1>2. fetchRate(b) \in Nat \cup {Absent}
  BY RateType
<1>3. /\ now \in Nat /\ now' = now + 1 /\ book' = b
      /\ market' = Append(market, fetchRate(b))
      /\ market \in Seq(Nat \cup {Absent}) /\ Len(market) = now + 1
  BY <1>1 DEF MarketFine, MarketMoves
<1>4. /\ market' \in Seq(Nat \cup {Absent}) /\ Len(market') = now + 2
      /\ market'[now + 2] = fetchRate(b)
      /\ \A at \in 0..now : market'[at + 1] = market[at + 1]
  BY <1>2, <1>3
<1>5. MarketFine'
  BY <1>3, <1>4 DEF MarketFine
<1>6. /\ \A q : QuoteFine(q) => QuoteFine(q)'
      /\ \A r : RequestPriced(r) => RequestPriced(r)'
  BY <1>1, <1>3, <1>4, PastIsKept
<1>7. UNCHANGED <<requests, quotes, escrow_fee>>
  BY DEF MarketMoves
<1> QED
  BY <1>5, <1>6, <1>7 DEF QuotesInv

LEMMA QuotesInvStep == QuotesInv /\ [QuotingNext]_quotingVars => QuotesInv'
<1> SUFFICES ASSUME QuotesInv, [QuotingNext]_quotingVars PROVE QuotesInv'
  OBVIOUS
<1>1. ASSUME NEW c \in Clients, post_quotes_limited(c) PROVE QuotesInv'
  BY <1>1, NewOnesFine DEF QuotesInv, post_quotes_limited, Ask
<1>2. ASSUME NEW r \in requests, fetch_failed(r) PROVE QuotesInv'
  BY <1>2, NewOnesFine DEF QuotesInv, fetch_failed, history
<1>3. ASSUME NEW r \in requests, quote_create_failed(r) PROVE QuotesInv'
  BY <1>3, NewOnesFine DEF QuotesInv, quote_create_failed, history
<1>4. ASSUME NEW s \in Secrets, Restart(s) PROVE QuotesInv'
  BY <1>4, NewOnesFine DEF QuotesInv, Restart
<1>5. ASSUME UNCHANGED quotingVars PROVE QuotesInv'
  BY <1>5, NewOnesFine DEF QuotesInv, quotingVars, history
<1>6. ASSUME NEW f \in FeeLevels, set_fee_bps(f) PROVE QuotesInv'
  <2>1. escrow_fee' \in 0..MAX_FEE_BPS
    BY <1>6, MarketIsPriced DEF set_fee_bps, MAX_FEE_BPS
  <2> QED
    BY <1>6, <2>1, NewOnesFine DEF set_fee_bps, history
<1> QED
  BY <1>1, <1>2, <1>3, <1>4, <1>5, <1>6, PostKeepsQuotes, ReadKeepsQuotes, AnswerKeepsQuotes,
     CreateKeepsQuotes, MarketKeepsQuotes DEF QuotingNext

LEMMA QuotesInvAlways == QuotingSpec => []QuotesInv
  BY QuotesInvInit, QuotesInvStep, PTL DEF QuotingSpec

\* A quote that POST /quotes/verify finds signed and live carries a rate that
\* the market offered less than the lifetime plus Horizon's timeout ago, for
\* any market, any number of requests and any restarts of the backend.
THEOREM LiveQuotesAreRecent == QuotingSpec => []LiveQuoteIsRecent
<1>1. QuotesInv => LiveQuoteIsRecent
  <2> SUFFICES ASSUME QuotesInv, NEW q \in quotes, isQuoteLive(q)
               PROVE  \E at \in 0..now : /\ now - at < QUOTE_TTL + FETCH_TIMEOUT
                                        /\ market[at + 1] = q.body.price.midRate
    BY DEF LiveQuoteIsRecent
  <2>1. now \in Nat /\ QUOTE_TTL \in Nat /\ FETCH_TIMEOUT \in Nat
    BY SettingsArePositive, BoundsAreNaturals DEF QuotesInv, MarketFine
  <2>2. q.body.validUntil \in Nat /\ q.body.validUntil > now
    BY DEF QuotesInv, QuoteFine, isQuoteLive
  <2>3. PICK at \in 0..now : /\ q.body.validUntil <= at + FETCH_TIMEOUT + QUOTE_TTL
                            /\ market[at + 1] = q.body.price.midRate
    BY DEF QuotesInv, QuoteFine
  <2>4. now - at < QUOTE_TTL + FETCH_TIMEOUT
    BY <2>1, <2>2, <2>3
  <2> QED
    BY <2>3, <2>4
<1> QED
  BY <1>1, QuotesInvAlways, PTL

\* The total that createQuote promises and what the escrow will pay out at its
\* fee in force, converted at the client's rate, differ by the difference of the
\* two fees and by rounding, for any amount, rate, spread and scale and however
\* the operator sets the escrow's fee.
THEOREM QuotesPredictPayouts == QuotingSpec => []QuotePredictsPayout
<1>1. QuotesInv => QuotePredictsPayout
  <2> SUFFICES ASSUME QuotesInv, NEW q \in quotes
               PROVE  PricePredictsPayout(q.body.price)
    BY DEF QuotePredictsPayout, PricePredictsPayout
  <2>1. PICK a \in SourceAmounts, bps \in Spreads, rate \in Nat :
          q.body.price = Price(a, rate, bps)
    BY DEF QuotesInv, QuoteFine
  <2> QED
    BY <2>1, PriceIsRight DEF QuotesInv
<1> QED
  BY <1>1, QuotesInvAlways, PTL

-----------------------------------------------------------------------------
(* Quoting: the limiter. *)

Entry == [count : Nat \ {0}, resetAt : Nat]
Admission == [client : Clients, at : Nat]

\* The admissions of a client since some instant, and between two.
Since(adm, c, lo) ==
    {i \in DOMAIN adm : adm[i].client = c /\ adm[i].at >= lo}
Between(adm, c, lo, hi) ==
    {i \in DOMAIN adm : adm[i].client = c /\ adm[i].at \in lo..hi}

\* What the entry of a client says of its admissions: none is after the window;
\* the window has at most what it counts, one of them at its first instant; and
\* what an interval that reaches into the window holds from before it does not
\* include the request that opened the window before.
EntryFine(adm, e, c, t) ==
    LET start == e.resetAt - WINDOW
    IN  /\ e \in Entry /\ start \in 0..t
        /\ \A i \in DOMAIN adm : adm[i].client = c => adm[i].at < e.resetAt
        /\ Cardinality(Since(adm, c, start)) <= e.count
        /\ Cardinality(Since(adm, c, start)) <= MAX
        /\ Cardinality(Since(adm, c, start + 1)) <= e.count - 1
        /\ Cardinality(Since(adm, c, start + 1)) <= MAX - 1
        /\ Cardinality(Between(adm, c, start - WINDOW + 1, start - 1)) <= MAX - 1

WithinBudget(adm, c) ==
    \A from \in Int :
        Cardinality(Between(adm, c, from, from + WINDOW - 1)) < 2 * MAX

ClientFine(adm, e, c, t) ==
    /\ WithinBudget(adm, c)
    /\ e = Absent => \A i \in DOMAIN adm : adm[i].client # c
    /\ e # Absent => EntryFine(adm, e, c, t)

LimiterInv ==
    /\ now \in Nat
    /\ admitted \in Seq(Admission)
    /\ \A i \in DOMAIN admitted : admitted[i].at <= now
    /\ DOMAIN hits = Clients
    /\ \A c \in Clients : ClientFine(admitted, hits[c], c, now)

\* Sets of admissions are finite, and smaller if they are parts of others.
LEMMA AdmissionsAreFinite ==
    ASSUME NEW adm \in Seq(Admission), NEW A, NEW B, B \subseteq DOMAIN adm, A \subseteq B
    PROVE  /\ IsFiniteSet(A) /\ IsFiniteSet(B)
           /\ Cardinality(A) \in Nat /\ Cardinality(B) \in Nat
           /\ Cardinality(A) <= Cardinality(B)
<1>1. Len(adm) \in Nat /\ DOMAIN adm = 1..Len(adm)
  OBVIOUS
<1>2. IsFiniteSet(1..Len(adm))
  BY <1>1, FS_Interval
<1>3. IsFiniteSet(B)
  BY <1>1, <1>2, FS_Subset
<1>4. IsFiniteSet(A) /\ Cardinality(A) <= Cardinality(B)
  BY <1>3, FS_Subset
<1> QED
  BY <1>3, <1>4, FS_CardinalityType

LEMMA UnionIsNoLarger ==
    ASSUME NEW A, NEW B, IsFiniteSet(A), IsFiniteSet(B)
    PROVE  /\ IsFiniteSet(A \cup B) /\ Cardinality(A \cup B) \in Nat
           /\ Cardinality(A \cup B) <= Cardinality(A) + Cardinality(B)
<1>1. IsFiniteSet(A \cap B) /\ IsFiniteSet(A \cup B)
  BY FS_Subset, FS_Union
<1>2. /\ Cardinality(A) \in Nat /\ Cardinality(B) \in Nat
      /\ Cardinality(A \cap B) \in Nat /\ Cardinality(A \cup B) \in Nat
  BY <1>1, FS_CardinalityType
<1>3. Cardinality(A \cup B) = Cardinality(A) + Cardinality(B) - Cardinality(A \cap B)
  BY FS_Union
<1> QED
  BY <1>1, <1>2, <1>3

\* The admissions after one more.
Admit(adm, c, t) == Append(adm, [client |-> c, at |-> t])
OnlyAdds(new, adm, c, t) ==
    \A i \in DOMAIN new : \/ i \in DOMAIN adm /\ new[i] = adm[i]
                          \/ new[i].client = c /\ new[i].at = t

\* What an admission adds to the sets of its client and of others.
LEMMA AfterAdmission ==
    ASSUME NEW adm \in Seq(Admission), NEW d \in Clients, NEW t \in Nat,
           NEW c \in Clients, NEW lo \in Int, NEW hi \in Int
    PROVE  /\ Admit(adm, d, t) \in Seq(Admission)
           /\ OnlyAdds(Admit(adm, d, t), adm, d, t)
           /\ c # d \/ t < lo => Since(Admit(adm, d, t), c, lo) = Since(adm, c, lo)
           /\ c # d \/ t \notin lo..hi =>
                 Between(Admit(adm, d, t), c, lo, hi) = Between(adm, c, lo, hi)
           /\ Cardinality(Since(Admit(adm, d, t), c, lo)) <= Cardinality(Since(adm, c, lo)) + 1
<1> DEFINE x == [client |-> d, at |-> t]
           new == Admit(adm, d, t)
           n == Len(adm) + 1
<1>0. new = Append(adm, x)
  BY DEF Admit
<1>1. x \in Admission /\ x.client = d /\ x.at = t
  BY DEF Admission
<1> HIDE DEF x
<1>2. /\ new \in Seq(Admission)
      /\ DOMAIN adm = 1..(n - 1) /\ DOMAIN new = 1..n /\ n \in Nat \ {0}
      /\ \A i \in DOMAIN adm : new[i] = adm[i]
      /\ new[n] = x
  BY <1>0, <1>1
<1> HIDE DEF n, new
<1>3. \A i \in DOMAIN new : i \in DOMAIN adm \/ i = n
  BY <1>2
<1>4. \A i \in DOMAIN adm : i \in DOMAIN new
  BY <1>2
<1>5. c # d \/ t < lo => Since(new, c, lo) = Since(adm, c, lo)
  <2> SUFFICES ASSUME c # d \/ t < lo
               PROVE  \A i : i \in Since(new, c, lo) <=> i \in Since(adm, c, lo)
    OBVIOUS
  <2>1. ~(x.client = c /\ x.at >= lo)
    BY <1>1
  <2> QED
    BY <1>2, <1>3, <1>4, <2>1 DEF Since
<1>6. c # d \/ t \notin lo..hi => Between(new, c, lo, hi) = Between(adm, c, lo, hi)
  <2> SUFFICES ASSUME c # d \/ t \notin lo..hi
               PROVE  \A i : i \in Between(new, c, lo, hi) <=> i \in Between(adm, c, lo, hi)
    OBVIOUS
  <2>1. ~(x.client = c /\ x.at \in lo..hi)
    BY <1>1
  <2> QED
    BY <1>2, <1>3, <1>4, <2>1 DEF Between
<1>7. Cardinality(Since(new, c, lo)) <= Cardinality(Since(adm, c, lo)) + 1
  <2>1. Since(new, c, lo) \subseteq Since(adm, c, lo) \cup {n}
    BY <1>2, <1>3 DEF Since
  <2>2. Since(adm, c, lo) \subseteq DOMAIN adm
    BY DEF Since
  <2>3. IsFiniteSet(Since(adm, c, lo)) /\ Cardinality(Since(adm, c, lo)) \in Nat
    BY <2>2, AdmissionsAreFinite
  <2>4. /\ IsFiniteSet(Since(adm, c, lo) \cup {n})
        /\ Cardinality(Since(adm, c, lo) \cup {n}) <= Cardinality(Since(adm, c, lo)) + 1
    <3> DEFINE B == Since(adm, c, lo)
    <3> HIDE DEF B
    <3>1. /\ IsFiniteSet(B \cup {n}) /\ Cardinality(B) \in Nat
          /\ Cardinality(B \cup {n}) = IF n \in B THEN Cardinality(B) ELSE Cardinality(B) + 1
      BY <2>3, FS_AddElement DEF B
    <3>2. Cardinality(B \cup {n}) <= Cardinality(B) + 1
      BY <3>1
    <3> QED
      BY <3>1, <3>2 DEF B
  <2>5. /\ Cardinality(Since(new, c, lo)) <= Cardinality(Since(adm, c, lo) \cup {n})
        /\ Cardinality(Since(new, c, lo)) \in Nat
        /\ Cardinality(Since(adm, c, lo) \cup {n}) \in Nat
    BY <2>1, <2>4, FS_Subset, FS_CardinalityType
  <2> QED
    BY <2>3, <2>4, <2>5
<1>8. OnlyAdds(new, adm, d, t)
  BY <1>1, <1>2, <1>3 DEF OnlyAdds
<1>9. new \in Seq(Admission)
  BY <1>2
<1> QED
  BY <1>5, <1>6, <1>7, <1>8, <1>9 DEF new

\* An interval of the window's length that reaches into the window holds less
\* than the budget from before it and at most the budget from it.
LEMMA ReachingIn ==
    ASSUME NEW adm \in Seq(Admission), NEW c \in Clients, NEW e, NEW t \in Nat,
           EntryFine(adm, e, c, t), NEW from \in Int, from + WINDOW - 1 >= e.resetAt - WINDOW
    PROVE  Cardinality(Between(adm, c, from, from + WINDOW - 1)) < 2 * MAX
<1> DEFINE s == e.resetAt - WINDOW
           A == Between(adm, c, s - WINDOW + 1, s - 1)
           B == Since(adm, c, s)
           J == Between(adm, c, from, from + WINDOW - 1)
<1>1. WINDOW \in Nat /\ MAX \in Nat /\ s \in Int
  BY SettingsArePositive DEF EntryFine, Entry
<1>2. \A i \in DOMAIN adm : adm[i].at \in Nat
  <2>1. \A i \in DOMAIN adm : adm[i] \in Admission
    OBVIOUS
  <2> QED
    BY <2>1 DEF Admission
<1>3. from >= s - WINDOW + 1
  BY <1>1
<1>4. J \subseteq A \cup B
  <2> HIDE DEF s
  <2> QED
    BY <1>1, <1>2, <1>3 DEF Between, Since
<1>5. A \subseteq DOMAIN adm /\ B \subseteq DOMAIN adm
  BY DEF Between, Since
<1>6. Cardinality(A) <= MAX - 1 /\ Cardinality(B) <= MAX
  BY DEF EntryFine
<1> HIDE DEF A, B, J
<1>7. /\ IsFiniteSet(A) /\ IsFiniteSet(B)
      /\ Cardinality(A) \in Nat /\ Cardinality(B) \in Nat
  BY <1>5, AdmissionsAreFinite
<1>8. Cardinality(A \cup B) <= Cardinality(A) + Cardinality(B) /\ Cardinality(A \cup B) \in Nat
  BY <1>7, UnionIsNoLarger
<1>9. Cardinality(J) <= Cardinality(A \cup B) /\ Cardinality(J) \in Nat
  BY <1>4, <1>5, AdmissionsAreFinite
<1> QED
  BY <1>1, <1>6, <1>7, <1>8, <1>9 DEF J

\* The same for the client that was admitted, and every bound.
GainsOne(new, adm, c, t) ==
    /\ \A i \in DOMAIN adm : adm[i].at \in Nat
    /\ OnlyAdds(new, adm, c, t)
    /\ \A lo \in Int : /\ Cardinality(Since(adm, c, lo)) \in Nat
                       /\ Cardinality(Since(new, c, lo)) \in Nat
                       /\ Cardinality(Since(new, c, lo)) <= Cardinality(Since(adm, c, lo)) + 1
    /\ \A lo, hi \in Int :
          t \notin lo..hi => Between(new, c, lo, hi) = Between(adm, c, lo, hi)

LEMMA OwnAdmission ==
    ASSUME NEW adm \in Seq(Admission), NEW c \in Clients, NEW t \in Nat
    PROVE  GainsOne(Admit(adm, c, t), adm, c, t)
<1> DEFINE new == Admit(adm, c, t)
<1>1. new \in Seq(Admission) /\ OnlyAdds(new, adm, c, t)
  <2>1. 0 \in Int
    OBVIOUS
  <2> QED
    BY <2>1, AfterAdmission
<1>2. ASSUME NEW lo \in Int, NEW hi \in Int
      PROVE  /\ Cardinality(Since(new, c, lo)) <= Cardinality(Since(adm, c, lo)) + 1
             /\ t \notin lo..hi => Between(new, c, lo, hi) = Between(adm, c, lo, hi)
  BY AfterAdmission
<1> HIDE DEF new
<1>3. \A lo \in Int : Cardinality(Since(adm, c, lo)) \in Nat
  BY AdmissionsAreFinite DEF Since
<1>4. \A lo \in Int : Cardinality(Since(new, c, lo)) \in Nat
  BY <1>1, AdmissionsAreFinite DEF Since
<1>5. \A i \in DOMAIN adm : adm[i].at \in Nat
  <2>1. \A i \in DOMAIN adm : adm[i] \in Admission
    OBVIOUS
  <2> QED
    BY <2>1 DEF Admission
<1>6. \A lo \in Int : Cardinality(Since(new, c, lo)) <= Cardinality(Since(adm, c, lo)) + 1
  BY <1>2
<1>7. \A lo, hi \in Int : t \notin lo..hi => Between(new, c, lo, hi) = Between(adm, c, lo, hi)
  BY <1>2
<1>8. GainsOne(new, adm, c, t)
  BY <1>1, <1>3, <1>4, <1>5, <1>6, <1>7 DEF GainsOne
<1> QED
  BY <1>8 DEF new

\* The entry of a client whose request opens a window.
LEMMA OpenedEntryFine ==
    ASSUME NEW adm \in Seq(Admission), NEW c \in Clients, NEW t \in Nat, NEW e,
           ClientFine(adm, e, c, t), e = Absent \/ e.resetAt <= t,
           NEW n \in Entry, n.count = 1, n.resetAt = t + WINDOW
    PROVE  EntryFine(Admit(adm, c, t), n, c, t)
<1> DEFINE new == Admit(adm, c, t)
           A == Between(adm, c, t - WINDOW + 1, t - 1)
           D == Since(adm, c, t)
           D2 == Since(new, c, t)
           B2 == Since(new, c, t + 1)
<1>0. GainsOne(new, adm, c, t)
  BY OwnAdmission
<1> HIDE DEF new
<1>1. WINDOW \in Nat \ {0} /\ MAX \in Nat \ {0} /\ Cardinality({}) = 0
  BY SettingsArePositive, FS_EmptySet
<1>2. /\ \A i \in DOMAIN adm : adm[i].at \in Nat
      /\ OnlyAdds(new, adm, c, t)
  BY <1>0 DEF GainsOne
<1>3. \A i \in DOMAIN adm : adm[i].client = c => adm[i].at < t
  <2>1. CASE e = Absent
    BY <2>1 DEF ClientFine
  <2>2. CASE e # Absent
    <3>1. e.resetAt \in Nat /\ \A i \in DOMAIN adm : adm[i].client = c => adm[i].at < e.resetAt
      BY <2>2 DEF ClientFine, EntryFine, Entry
    <3> QED
      BY <1>2, <2>2, <3>1
  <2> QED
    BY <2>1, <2>2
<1>4. D = {}
  BY <1>2, <1>3 DEF Since
<1>5. B2 = {}
  BY <1>2, <1>3 DEF Since, OnlyAdds
<1>6. Cardinality(D2) <= 1 /\ Cardinality(D2) \in Nat
  <2>1. Cardinality(D2) \in Nat /\ Cardinality(D2) <= Cardinality(D) + 1
    BY <1>0 DEF GainsOne
  <2> HIDE DEF D, D2
  <2> QED
    BY <1>1, <1>4, <2>1
<1>7. Cardinality(A) <= MAX - 1
  <2>1. CASE e = Absent
    <3>1. A = {}
      BY <2>1 DEF ClientFine, Between
    <3> HIDE DEF A
    <3> QED
      BY <1>1, <3>1
  <2>2. CASE e # Absent
    <3> DEFINE s == e.resetAt - WINDOW
               B == Since(adm, c, s + 1)
    <3>1. EntryFine(adm, e, c, t) /\ e.resetAt <= t
      BY <2>2 DEF ClientFine
    <3>2. e.resetAt \in Nat /\ Cardinality(B) <= MAX - 1
      BY <3>1 DEF EntryFine, Entry
    <3>3. s \in Int /\ s + 1 <= t - WINDOW + 1
      BY <1>1, <3>1, <3>2
    <3>4. A \subseteq B /\ B \subseteq DOMAIN adm
      <4> HIDE DEF s
      <4> QED
        BY <1>1, <1>2, <3>3 DEF Between, Since
    <3> HIDE DEF A, B
    <3>5. Cardinality(A) <= Cardinality(B) /\ Cardinality(A) \in Nat /\ Cardinality(B) \in Nat
      BY <3>4, AdmissionsAreFinite
    <3> QED
      BY <1>1, <3>2, <3>5
  <2> QED
    BY <2>1, <2>2
<1>8. Between(new, c, t - WINDOW + 1, t - 1) = A
  <2>1. t - WINDOW + 1 \in Int /\ t - 1 \in Int /\ t \notin (t - WINDOW + 1)..(t - 1)
    BY <1>1
  <2> QED
    BY <1>0, <2>1 DEF GainsOne
<1>9. \A i \in DOMAIN new : new[i].client = c => new[i].at < n.resetAt
  BY <1>1, <1>2, <1>3 DEF OnlyAdds
<1>10. n.resetAt - WINDOW = t /\ t \in 0..t
  BY <1>1
<1> HIDE DEF A, D2, B2
<1>11. /\ Cardinality(D2) <= n.count /\ Cardinality(D2) <= MAX
       /\ Cardinality(B2) <= n.count - 1 /\ Cardinality(B2) <= MAX - 1
  BY <1>1, <1>5, <1>6
<1> QED
  BY <1>7, <1>8, <1>9, <1>10, <1>11 DEF EntryFine, D2, B2, new

\* The entry of a client that is admitted in an open window.
LEMMA CountedEntryFine ==
    ASSUME NEW adm \in Seq(Admission), NEW c \in Clients, NEW t \in Nat, NEW e,
           EntryFine(adm, e, c, t), t < e.resetAt,
           NEW n \in Entry, n.count = e.count + 1, n.resetAt = e.resetAt, n.count <= MAX
    PROVE  EntryFine(Admit(adm, c, t), n, c, t)
<1> DEFINE new == Admit(adm, c, t)
           s == e.resetAt - WINDOW
           D == Since(adm, c, s)
           B == Since(adm, c, s + 1)
           A == Between(adm, c, s - WINDOW + 1, s - 1)
           D2 == Since(new, c, s)
           B2 == Since(new, c, s + 1)
<1>0. GainsOne(new, adm, c, t)
  BY OwnAdmission
<1> HIDE DEF new
<1>1. WINDOW \in Nat \ {0} /\ MAX \in Nat \ {0}
  BY SettingsArePositive
<1>2. e.count \in Nat /\ e.resetAt \in Nat
  BY DEF EntryFine, Entry
<1>3. /\ s \in 0..t
      /\ \A i \in DOMAIN adm : adm[i].client = c => adm[i].at < e.resetAt
      /\ Cardinality(D) <= e.count /\ Cardinality(B) <= e.count - 1
      /\ Cardinality(A) <= MAX - 1
  BY DEF EntryFine
<1>4. s \in Int /\ s <= t
  BY <1>3
<1> HIDE DEF s
<1>5. /\ Cardinality(D) \in Nat /\ Cardinality(B) \in Nat
      /\ Cardinality(D2) \in Nat /\ Cardinality(B2) \in Nat
      /\ Cardinality(D2) <= Cardinality(D) + 1
      /\ Cardinality(B2) <= Cardinality(B) + 1
  <2>1. s + 1 \in Int
    BY <1>4
  <2> QED
    BY <1>0, <1>4, <2>1 DEF GainsOne
<1>6. Between(new, c, s - WINDOW + 1, s - 1) = A
  <2>1. s - WINDOW + 1 \in Int /\ s - 1 \in Int /\ t \notin (s - WINDOW + 1)..(s - 1)
    BY <1>1, <1>4
  <2> QED
    BY <1>0, <2>1 DEF GainsOne
<1>7. \A i \in DOMAIN new : new[i].client = c => new[i].at < n.resetAt
  <2>1. OnlyAdds(new, adm, c, t)
    BY <1>0 DEF GainsOne
  <2> QED
    BY <1>3, <2>1 DEF OnlyAdds
<1> HIDE DEF A, B, D, B2, D2
<1>8. /\ Cardinality(D2) <= n.count /\ Cardinality(D2) <= MAX
      /\ Cardinality(B2) <= n.count - 1 /\ Cardinality(B2) <= MAX - 1
  BY <1>1, <1>2, <1>3, <1>5
<1>9. n.resetAt - WINDOW = s
  BY DEF s
<1> QED
  BY <1>3, <1>6, <1>7, <1>8, <1>9 DEF EntryFine, D2, B2, new

\* The entry of a client whose request is refused: it only counts further.
LEMMA RefusedEntryFine ==
    ASSUME NEW adm \in Seq(Admission), NEW c \in Clients, NEW t \in Nat, NEW e,
           EntryFine(adm, e, c, t),
           NEW n \in Entry, n.count = e.count + 1, n.resetAt = e.resetAt
    PROVE  EntryFine(adm, n, c, t)
<1> DEFINE s == e.resetAt - WINDOW
           D == Since(adm, c, s)
           B == Since(adm, c, s + 1)
<1>1. e.count \in Nat /\ e.resetAt \in Nat
  BY DEF EntryFine, Entry
<1>2. /\ s \in 0..t
      /\ \A i \in DOMAIN adm : adm[i].client = c => adm[i].at < e.resetAt
      /\ Cardinality(D) <= e.count /\ Cardinality(B) <= e.count - 1
      /\ Cardinality(D) <= MAX /\ Cardinality(B) <= MAX - 1
      /\ Cardinality(Between(adm, c, s - WINDOW + 1, s - 1)) <= MAX - 1
  BY DEF EntryFine
<1>3. Cardinality(D) \in Nat /\ Cardinality(B) \in Nat
  BY AdmissionsAreFinite DEF Since
<1>4. n.resetAt - WINDOW = s
  OBVIOUS
<1> HIDE DEF s, D, B
<1>5. Cardinality(D) <= n.count /\ Cardinality(B) <= n.count - 1
  BY <1>1, <1>2, <1>3
<1> QED
  BY <1>2, <1>4, <1>5 DEF EntryFine, D, B

\* The budget holds after an admission: an interval that holds it reaches into
\* the window, and others are as they were.
LEMMA BudgetAfterAdmission ==
    ASSUME NEW adm \in Seq(Admission), NEW c \in Clients, NEW t \in Nat, NEW n,
           WithinBudget(adm, c), EntryFine(Admit(adm, c, t), n, c, t)
    PROVE  WithinBudget(Admit(adm, c, t), c)
<1> DEFINE new == Admit(adm, c, t)
<1>1. new \in Seq(Admission)
  <2>1. 0 \in Int
    OBVIOUS
  <2> QED
    BY <2>1, AfterAdmission
<1>2. GainsOne(new, adm, c, t)
  BY OwnAdmission
<1>3. EntryFine(new, n, c, t)
  OBVIOUS
<1> HIDE DEF new
<1>4. WINDOW \in Nat \ {0} /\ n.resetAt - WINDOW \in 0..t
  BY <1>3, SettingsArePositive DEF EntryFine
<1>5. ASSUME NEW from \in Int
      PROVE  Cardinality(Between(new, c, from, from + WINDOW - 1)) < 2 * MAX
  <2>1. CASE t \in from..(from + WINDOW - 1)
    <3>1. from + WINDOW - 1 >= n.resetAt - WINDOW
      BY <1>4, <2>1
    <3> QED
      BY <1>1, <1>3, <3>1, ReachingIn
  <2>2. CASE t \notin from..(from + WINDOW - 1)
    <3>1. from + WINDOW - 1 \in Int
      BY <1>4
    <3>2. Between(new, c, from, from + WINDOW - 1) = Between(adm, c, from, from + WINDOW - 1)
      BY <1>2, <2>2, <3>1 DEF GainsOne
    <3> QED
      BY <3>2 DEF WithinBudget
  <2> QED
    BY <2>1, <2>2
<1> QED
  BY <1>5 DEF WithinBudget, new

\* What one client was admitted says nothing of another.
LEMMA OthersUnmoved ==
    ASSUME NEW adm \in Seq(Admission), NEW d \in Clients, NEW c \in Clients, c # d,
           NEW t \in Nat, NEW e, ClientFine(adm, e, c, t)
    PROVE  ClientFine(Admit(adm, d, t), e, c, t)
<1> DEFINE new == Admit(adm, d, t)
<1>1. /\ OnlyAdds(new, adm, d, t)
      /\ \A lo \in Int : Since(new, c, lo) = Since(adm, c, lo)
      /\ \A lo, hi \in Int : Between(new, c, lo, hi) = Between(adm, c, lo, hi)
  <2>1. ASSUME NEW lo \in Int, NEW hi \in Int
        PROVE  /\ OnlyAdds(new, adm, d, t)
               /\ Since(new, c, lo) = Since(adm, c, lo)
               /\ Between(new, c, lo, hi) = Between(adm, c, lo, hi)
    BY AfterAdmission
  <2>2. 0 \in Int
    OBVIOUS
  <2> HIDE DEF new
  <2> QED
    BY <2>1, <2>2
<1> HIDE DEF new
<1>2. WINDOW \in Nat
  BY SettingsArePositive
<1>3. WithinBudget(new, c)
  BY <1>1, <1>2 DEF WithinBudget, ClientFine
<1>4. ASSUME NEW b, \A i \in DOMAIN adm : adm[i].client = c => adm[i].at < b
      PROVE  \A i \in DOMAIN new : new[i].client = c => new[i].at < b
  BY <1>1, <1>4 DEF OnlyAdds
<1>5. ASSUME e = Absent PROVE \A i \in DOMAIN new : new[i].client # c
  BY <1>1, <1>5 DEF OnlyAdds, ClientFine
<1>6. ASSUME e # Absent PROVE EntryFine(new, e, c, t)
  <2> DEFINE s == e.resetAt - WINDOW
  <2>1. EntryFine(adm, e, c, t)
    BY <1>6 DEF ClientFine
  <2>2. e.resetAt \in Nat
    BY <2>1 DEF EntryFine, Entry
  <2>3. s \in Int /\ s + 1 \in Int /\ s - WINDOW + 1 \in Int /\ s - 1 \in Int
    BY <1>2, <2>2
  <2>4. /\ Since(new, c, s) = Since(adm, c, s) /\ Since(new, c, s + 1) = Since(adm, c, s + 1)
        /\ Between(new, c, s - WINDOW + 1, s - 1) = Between(adm, c, s - WINDOW + 1, s - 1)
    BY <1>1, <2>3
  <2>5. \A i \in DOMAIN new : new[i].client = c => new[i].at < e.resetAt
    BY <1>4, <2>1 DEF EntryFine
  <2> QED
    BY <2>1, <2>4, <2>5 DEF EntryFine
<1> QED
  BY <1>3, <1>5, <1>6 DEF ClientFine, new

\* The entry of the limiter after one more request.
LEMMA NextEntry ==
    ASSUME LimiterInv, NEW c \in Clients
    PROVE  /\ rateLimit(c) \in Entry
           /\ \/ /\ hits[c] = Absent \/ hits[c].resetAt <= now
                 /\ rateLimit(c).count = 1 /\ rateLimit(c).resetAt = now + WINDOW
              \/ /\ hits[c] # Absent /\ now < hits[c].resetAt
                 /\ rateLimit(c).count = hits[c].count + 1
                 /\ rateLimit(c).resetAt = hits[c].resetAt
<1>1. WINDOW \in Nat /\ now \in Nat
  BY SettingsArePositive DEF LimiterInv
<1>2. hits[c] # Absent => hits[c] \in Entry
  BY DEF LimiterInv, ClientFine, EntryFine
<1>3. CASE hits[c] = Absent \/ hits[c].resetAt <= now
  <2>1. rateLimit(c) = [count |-> 1, resetAt |-> now + WINDOW]
    BY <1>3 DEF rateLimit
  <2> QED
    BY <1>1, <1>3, <2>1 DEF Entry
<1>4. CASE hits[c] # Absent /\ ~(hits[c].resetAt <= now)
  <2>1. rateLimit(c) = [hits[c] EXCEPT !.count = @ + 1]
    BY <1>4 DEF rateLimit
  <2>2. hits[c] \in Entry
    BY <1>2, <1>4
  <2>3. /\ rateLimit(c) \in Entry
        /\ rateLimit(c).count = hits[c].count + 1
        /\ rateLimit(c).resetAt = hits[c].resetAt
    BY <2>1, <2>2 DEF Entry
  <2>4. now < hits[c].resetAt
    BY <1>1, <1>4, <2>2 DEF Entry
  <2> QED
    BY <1>4, <2>3, <2>4
<1> QED
  BY <1>3, <1>4

\* A record is not the value that stands for none.
LEMMA EntryIsNotAbsent == ASSUME NEW n \in Entry PROVE n # Absent
  BY AbsentIsNoEntry DEF Entry

LEMMA PostKeepsLimiter ==
    ASSUME LimiterInv, NEW d \in Clients, NEW a \in SourceAmounts, NEW bps \in Spreads,
           post_quotes(d, a, bps)
    PROVE  LimiterInv'
<1> DEFINE n == rateLimit(d)
           new == Admit(admitted, d, now)
<1>1. /\ hits' = [hits EXCEPT ![d] = n] /\ n.count <= MAX /\ UNCHANGED now
      /\ admitted' = new
  BY DEF post_quotes, Ask, Admit
<1>2. /\ now \in Nat /\ admitted \in Seq(Admission) /\ DOMAIN hits = Clients
      /\ \A i \in DOMAIN admitted : admitted[i].at <= now
      /\ \A c \in Clients : ClientFine(admitted, hits[c], c, now)
  BY DEF LimiterInv
<1>3. new \in Seq(Admission) /\ OnlyAdds(new, admitted, d, now)
  <2>1. 0 \in Int
    OBVIOUS
  <2> QED
    BY <1>2, <2>1, AfterAdmission
<1>4. n \in Entry /\ n # Absent
  BY NextEntry, EntryIsNotAbsent
<1>5. EntryFine(new, n, d, now)
  <2>1. ClientFine(admitted, hits[d], d, now)
    BY <1>2
  <2>2. CASE /\ hits[d] = Absent \/ hits[d].resetAt <= now
             /\ n.count = 1 /\ n.resetAt = now + WINDOW
    <3> HIDE DEF n
    <3> QED
      BY <1>2, <1>4, <2>1, <2>2, OpenedEntryFine
  <2>3. CASE /\ hits[d] # Absent /\ now < hits[d].resetAt
             /\ n.count = hits[d].count + 1 /\ n.resetAt = hits[d].resetAt
    <3>1. EntryFine(admitted, hits[d], d, now)
      BY <2>1, <2>3 DEF ClientFine
    <3> HIDE DEF n
    <3> QED
      BY <1>1, <1>2, <1>4, <2>3, <3>1, CountedEntryFine
  <2> QED
    BY <2>2, <2>3, NextEntry
<1> HIDE DEF n
<1>6. WithinBudget(new, d)
  <2>1. WithinBudget(admitted, d)
    BY <1>2 DEF ClientFine
  <2> QED
    BY <1>2, <1>5, <2>1, BudgetAfterAdmission
<1>7. ClientFine(new, n, d, now)
  <2> HIDE DEF new
  <2> QED
    BY <1>4, <1>5, <1>6 DEF ClientFine
<1>8. ASSUME NEW c \in Clients, c # d PROVE ClientFine(new, hits[c], c, now)
  BY <1>2, <1>8, OthersUnmoved
<1> HIDE DEF new
<1>9. \A i \in DOMAIN new : new[i].at <= now
  BY <1>2, <1>3 DEF OnlyAdds
<1>10. DOMAIN hits' = Clients /\ hits'[d] = n /\ \A c \in Clients : c # d => hits'[c] = hits[c]
  BY <1>1, <1>2
<1>11. \A c \in Clients : ClientFine(admitted', hits'[c], c, now')
  BY <1>1, <1>7, <1>8, <1>10
<1> QED
  BY <1>1, <1>2, <1>3, <1>9, <1>10, <1>11 DEF LimiterInv

LEMMA RefusalKeepsLimiter ==
    ASSUME LimiterInv, NEW d \in Clients, post_quotes_limited(d)
    PROVE  LimiterInv'
<1> DEFINE n == rateLimit(d)
<1>1. /\ hits' = [hits EXCEPT ![d] = n] /\ n.count > MAX
      /\ UNCHANGED <<now, admitted>>
  BY DEF post_quotes_limited, Ask
<1>2. /\ now \in Nat /\ admitted \in Seq(Admission) /\ DOMAIN hits = Clients
      /\ \A c \in Clients : ClientFine(admitted, hits[c], c, now)
  BY DEF LimiterInv
<1>3. n \in Entry /\ n # Absent
  BY NextEntry, EntryIsNotAbsent
<1>4. MAX \in Nat \ {0}
  BY SettingsArePositive
<1>5. hits[d] # Absent /\ n.count = hits[d].count + 1 /\ n.resetAt = hits[d].resetAt
  BY <1>1, <1>4, NextEntry
<1> HIDE DEF n
<1>6. EntryFine(admitted, n, d, now)
  <2>1. EntryFine(admitted, hits[d], d, now)
    BY <1>2, <1>5 DEF ClientFine
  <2> QED
    BY <1>2, <1>3, <1>5, <2>1, RefusedEntryFine
<1>7. ClientFine(admitted, n, d, now)
  BY <1>2, <1>3, <1>6 DEF ClientFine
<1>8. DOMAIN hits' = Clients /\ hits'[d] = n /\ \A c \in Clients : c # d => hits'[c] = hits[c]
  BY <1>1, <1>2
<1>9. \A c \in Clients : ClientFine(admitted', hits'[c], c, now')
  BY <1>1, <1>2, <1>7, <1>8
<1> QED
  BY <1>1, <1>8, <1>9 DEF LimiterInv

\* A client of a process that has admitted nobody.
LEMMA NobodyYet == \A c \in Clients : \A t : ClientFine(<<>>, Absent, c, t)
<1> SUFFICES ASSUME NEW c \in Clients, NEW t PROVE ClientFine(<<>>, Absent, c, t)
  OBVIOUS
<1>1. 0 < 2 * MAX
  BY SettingsArePositive
<1>2. ASSUME NEW from \in Int
      PROVE  Cardinality(Between(<<>>, c, from, from + WINDOW - 1)) < 2 * MAX
  <2> DEFINE J == Between(<<>>, c, from, from + WINDOW - 1)
  <2>1. J = {}
    BY DEF Between
  <2> HIDE DEF J
  <2>2. Cardinality(J) = 0
    BY <2>1, FS_EmptySet
  <2>3. Cardinality(J) < 2 * MAX
    BY <1>1, <2>2
  <2> QED
    BY <2>3 DEF J
<1>3. WithinBudget(<<>>, c)
  BY <1>2 DEF WithinBudget
<1> QED
  BY <1>3 DEF ClientFine

\* A restart forgets everyone.
LEMMA RestartKeepsLimiter ==
    ASSUME now \in Nat, now' \in Nat, hits' = [c \in Clients |-> Absent], admitted' = <<>>
    PROVE  LimiterInv'
<1>1. DOMAIN hits' = Clients /\ \A c \in Clients : hits'[c] = Absent
  OBVIOUS
<1>2. \A c \in Clients : ClientFine(admitted', hits'[c], c, now')
  BY <1>1, NobodyYet
<1>3. <<>> \in Seq(Admission) /\ \A i \in DOMAIN <<>> : <<>>[i].at <= now'
  OBVIOUS
<1> QED
  BY <1>1, <1>2, <1>3 DEF LimiterInv

LEMMA ClockKeepsLimiter ==
    ASSUME LimiterInv, now' \in Nat, now <= now', UNCHANGED <<hits, admitted>>
    PROVE  LimiterInv'
<1>1. /\ now \in Nat /\ admitted \in Seq(Admission) /\ DOMAIN hits = Clients
      /\ \A i \in DOMAIN admitted : admitted[i].at <= now
      /\ \A c \in Clients : ClientFine(admitted, hits[c], c, now)
  BY DEF LimiterInv
<1>2. \A i \in DOMAIN admitted : admitted[i].at <= now'
  <2>1. \A i \in DOMAIN admitted : admitted[i] \in Admission
    BY <1>1
  <2> QED
    BY <1>1, <2>1 DEF Admission
<1>3. \A s \in 0..now : s \in 0..now'
  BY <1>1
<1>4. \A c \in Clients : ClientFine(admitted, hits[c], c, now')
  BY <1>1, <1>3 DEF ClientFine, EntryFine
<1> QED
  BY <1>1, <1>2, <1>4 DEF LimiterInv

LEMMA LimiterInvAlways == QuotingSpec => []LimiterInv
<1>1. QuotingInit => LimiterInv
  <2> SUFFICES ASSUME QuotingInit PROVE LimiterInv
    OBVIOUS
  <2>1. now \in Nat /\ hits = [c \in Clients |-> Absent] /\ admitted = <<>>
    BY DEF QuotingInit
  <2>2. \A c \in Clients : ClientFine(<<>>, Absent, c, now)
    BY NobodyYet
  <2> QED
    BY <2>1, <2>2 DEF LimiterInv
<1>2. LimiterInv /\ [QuotingNext]_quotingVars => LimiterInv'
  <2> SUFFICES ASSUME LimiterInv, [QuotingNext]_quotingVars PROVE LimiterInv'
    OBVIOUS
  <2>1. now \in Nat
    BY DEF LimiterInv
  <2>2. ASSUME UNCHANGED <<now, hits, admitted>> PROVE LimiterInv'
    BY <2>1, <2>2, ClockKeepsLimiter
  <2>3. ASSUME NEW r \in requests,
               \/ horizon_reads(r) \/ fetch_answered(r) \/ fetch_failed(r)
               \/ quote_create(r) \/ quote_create_failed(r)
        PROVE  LimiterInv'
    BY <2>2, <2>3 DEF horizon_reads, fetch_answered, fetch_failed, quote_create,
                      quote_create_failed, history
  <2>4. ASSUME NEW b \in Books, MarketMoves(b) PROVE LimiterInv'
    BY <2>1, <2>4, ClockKeepsLimiter DEF MarketMoves
  <2>5. ASSUME NEW s \in Secrets, Restart(s) PROVE LimiterInv'
    BY <2>1, <2>5, RestartKeepsLimiter DEF Restart
  <2>6. ASSUME UNCHANGED quotingVars PROVE LimiterInv'
    BY <2>2, <2>6 DEF quotingVars, history
  <2>7. ASSUME NEW f \in FeeLevels, set_fee_bps(f) PROVE LimiterInv'
    BY <2>2, <2>7 DEF set_fee_bps, history
  <2> QED
    BY <2>3, <2>4, <2>5, <2>6, <2>7, PostKeepsLimiter, RefusalKeepsLimiter DEF QuotingNext
<1> QED
  BY <1>1, <1>2, PTL DEF QuotingSpec

\* Although its windows are fixed, the limiter lets less than twice its budget
\* of a client's requests through in any interval of a window's length between
\* two restarts, because a window opens with a request and not on the clock.
THEOREM BudgetIsKept == QuotingSpec => []OracleBudget
<1>1. LimiterInv => OracleBudget
  <2> SUFFICES ASSUME LimiterInv, NEW c \in Clients, NEW from \in 0..now
               PROVE  Cardinality(Between(admitted, c, from, from + WINDOW - 1)) < 2 * MAX
    BY DEF OracleBudget, Between
  <2>1. from \in Int /\ WithinBudget(admitted, c)
    BY DEF LimiterInv, ClientFine
  <2> QED
    BY <2>1 DEF WithinBudget
<1> QED
  BY <1>1, LimiterInvAlways, PTL
=============================================================================
