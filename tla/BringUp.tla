------------------------------ MODULE BringUp ------------------------------
(***************************************************************************)
(* The two scripts that bring a test network to life, at work on the       *)
(* deployed contracts of Network: create-test-token.ts issues the token    *)
(* and mints the supply to a holder, smoke-test.ts sends one transfer all  *)
(* the way to a bonded agent and reports whether the money arrived.        *)
(*                                                                         *)
(* A script is a sequence of awaited steps.  It can end after any of them: *)
(* a call is refused, an answer times out, the process is stopped.  A      *)
(* transaction whose answer never came can still be included afterwards,   *)
(* beside a new run.  Between two steps anyone else may use the network.   *)
(* Secrets survive a script only if it printed them.  Requests for test    *)
(* XLM are left out: they can only fail, which is an end like the others.  *)
(*                                                                         *)
(* A definition whose comment starts with "Fault" is no part of the model: *)
(* it is a wrong version of the definition after it, one that a property   *)
(* of this module is shown to notice.                                      *)
(***************************************************************************)
EXTENDS Network

CONSTANTS
    REGION, CORRIDOR, CLAIM_CODE,    \* the constants of smoke-test.ts
    AMOUNT, BOND, AGENT_TOP_UP,
    TRANSFER_EXPIRY_SECS,
    FEE_CHECKED,       \* the fee rate that the script's checks assume
    INITIAL_SUPPLY,    \* what create-test-token.ts mints
    Drifts,            \* how far the script's clock is ahead of the ledger's
    MaxIssues,         \* bound: runs of create-test-token.ts
    MaxRuns,           \* bound: runs of smoke-test.ts
    MaxOutside         \* bound: calls of others, and transactions that land late

ASSUME ScriptsFitTheNetwork ==
    /\ REGION \in Regions /\ CORRIDOR \in Corridors /\ CLAIM_CODE \in Codes
    /\ AMOUNT \in Nat /\ BOND \in Nat /\ AGENT_TOP_UP \in Nat /\ INITIAL_SUPPLY \in Nat
    /\ TRANSFER_EXPIRY_SECS \in Nat /\ Drifts \subseteq Int

VARIABLES
    issue,    \* the run of create-test-token.ts
    sac,      \* whether the token's contract exists
    smoke,    \* the run of smoke-test.ts
    orphan,   \* a run that ended before its transaction was included
    known,    \* secrets and addresses that were printed
    keys,     \* keys that were generated
    runs,     \* runs started, by script
    outside   \* calls of others and late transactions so far

network == vars
scriptVars == <<issue, sac, smoke, orphan, known, keys, runs, outside>>
allVars == <<network, scriptVars>>

IssueSteps == <<"sac", "trustHolder", "mint", "print">>
SmokeSteps ==
    <<"trustAgent", "trustTreasury", "topUp", "register", "authorize", "attest",
      "readEscrow", "readAgent", "readTreasury", "create", "readId", "claim",
      "rereadEscrow", "rereadAgent", "rereadTreasury", "check">>

AtStep(run, steps, name) == run.pc \in DOMAIN steps /\ steps[run.pc] = name
Advanced(run) == [run EXCEPT !.pc = @ + 1]

Unread == [escrow |-> 0, agent |-> 0, treasury |-> 0]
NoIssue == [pc |-> 0, holder |-> None]
NoRun == [pc |-> 0, holder |-> None, agent |-> None, before |-> Unread, after |-> Unread,
          id |-> 0, own |-> 0, verdict |-> "none", quiet |-> FALSE]

BringUpInit ==
    /\ Init
    /\ issue = NoIssue /\ sac = FALSE /\ smoke = NoRun /\ orphan = NoRun
    /\ known = {} /\ keys = {} /\ outside = 0
    /\ runs = [issue |-> 0, smoke |-> 0]

\* Keypair.fromSecret of a secret in the environment, or Keypair.random.
PickKey(key) == key \in known \/ key \notin keys
----------------------------------------------------------------------------
(* create-test-token.ts *)

IssueStarts ==
    /\ issue = NoIssue
    /\ runs.issue < MaxIssues
    /\ \E holder \in Senders :
          /\ PickKey(holder)
          /\ issue' = [pc |-> 1, holder |-> holder]
          /\ keys' = keys \cup {holder}
    /\ runs' = [runs EXCEPT !.issue = @ + 1]
    /\ UNCHANGED <<network, sac, smoke, orphan, known, outside>>

\* The asset's contract, the holder's trustline, the mint: "already exists" is
\* no failure, and a trustline can be asked for again.
IssueSubmits ==
    \/ AtStep(issue, IssueSteps, "sac") /\ sac' = TRUE /\ UNCHANGED network
    \/ AtStep(issue, IssueSteps, "trustHolder") /\ change_trust(issue.holder) /\ UNCHANGED sac
    \/ /\ AtStep(issue, IssueSteps, "mint")
       /\ sac
       /\ mint(issue.holder, INITIAL_SUPPLY)
       /\ UNCHANGED sac

IssueStep ==
    /\ IssueSubmits
    /\ issue' = Advanced(issue)
    /\ UNCHANGED <<smoke, orphan, known, keys, runs, outside>>

\* The keys are printed once everything is done, to be added to .env: the
\* operator's, the holder's, and the operator's again as TREASURY_PUBLIC_KEY and
\* ATTESTER_PUBLIC_KEY.  Whether .env keeps the last two is the choice of
\* Treasury and AttesterKey.
IssuePrints ==
    /\ AtStep(issue, IssueSteps, "print")
    /\ known' = known \cup {Operator, issue.holder, Token}
    /\ issue' = NoIssue
    /\ UNCHANGED <<network, sac, smoke, orphan, keys, runs, outside>>

IssueStops ==
    /\ issue # NoIssue
    /\ issue' = NoIssue
    /\ UNCHANGED <<network, sac, smoke, orphan, known, keys, runs, outside>>
----------------------------------------------------------------------------
(* smoke-test.ts *)

\* History: a run with a new agent, enough supply and room under the sender's
\* daily limit, which nobody disturbs.
Promising(holder, agent) ==
    /\ agent \notin keys
    /\ issue = NoIssue /\ orphan = NoRun
    /\ token[holder] >= AGENT_TOP_UP + AMOUNT
    /\ h_daily_volume[<<holder, CORRIDOR, H!day_of(now)>>] + AMOUNT <= THRESHOLDS.daily_limit
    /\ e_next_id < MaxTransfers

\* Fault: a generated secret is shown when the run is over.
SmokeStartsSilently ==
    /\ smoke.pc = 0
    /\ runs.smoke < MaxRuns
    /\ Token \in known
    /\ \E holder \in Senders \cap known, agent \in Agents :
          /\ PickKey(agent)
          /\ smoke' = [NoRun EXCEPT !.pc = 1, !.holder = holder, !.agent = agent,
                                    !.quiet = Promising(holder, agent)]
          /\ keys' = keys \cup {agent}
    /\ runs' = [runs EXCEPT !.smoke = @ + 1]
    /\ UNCHANGED <<network, issue, sac, orphan, known, outside>>

\* The holder's secret and the token's address are required; an agent key that
\* is generated is printed before anything is done with it.
SmokeStarts ==
    /\ smoke.pc = 0
    /\ runs.smoke < MaxRuns
    /\ Token \in known
    /\ \E holder \in Senders \cap known, agent \in Agents :
          /\ PickKey(agent)
          /\ smoke' = [NoRun EXCEPT !.pc = 1, !.holder = holder, !.agent = agent,
                                    !.quiet = Promising(holder, agent)]
          /\ keys' = keys \cup {agent}
          /\ known' = known \cup {agent}
    /\ runs' = [runs EXCEPT !.smoke = @ + 1]
    /\ UNCHANGED <<network, issue, sac, orphan, outside>>

trustToken(account) == change_trust(account)

\* The transactions, each signed by the account whose authorization it needs.
Submits(run) ==
    \/ AtStep(run, SmokeSteps, "trustAgent") /\ trustToken(run.agent)
    \/ AtStep(run, SmokeSteps, "trustTreasury") /\ trustToken(Treasury)
    \/ AtStep(run, SmokeSteps, "topUp") /\ token_transfer(run.holder, run.agent, AGENT_TOP_UP)
    \/ AtStep(run, SmokeSteps, "register") /\ register_agent(run.agent, REGION, BOND)
    \/ AtStep(run, SmokeSteps, "authorize") /\ authorize_agent(run.agent)
    \/ /\ AtStep(run, SmokeSteps, "attest")
       /\ publish_attestation(run.holder, "Standard", MaxTime + WINDOW)
    \/ /\ AtStep(run, SmokeSteps, "create")
       /\ e_next_id < MaxTransfers
       /\ \E drift \in Drifts :
             create_transfer(run.holder, AMOUNT, E!Sha256(CLAIM_CODE), CORRIDOR,
                             now + drift + TRANSFER_EXPIRY_SECS)
    \/ AtStep(run, SmokeSteps, "claim") /\ claim_transfer(run.agent, run.id, CLAIM_CODE)

\* balanceOf three times before and three times after, and the id that the
\* transfer is taken to have: the number of transfers there are by now.
Reads(run) ==
    CASE AtStep(run, SmokeSteps, "readEscrow") -> [run EXCEPT !.before.escrow = token[Escrow]]
      [] AtStep(run, SmokeSteps, "readAgent") -> [run EXCEPT !.before.agent = token[run.agent]]
      [] AtStep(run, SmokeSteps, "readTreasury") ->
             [run EXCEPT !.before.treasury = token[Treasury]]
      [] AtStep(run, SmokeSteps, "readId") -> [run EXCEPT !.id = e_next_id]
      [] AtStep(run, SmokeSteps, "rereadEscrow") -> [run EXCEPT !.after.escrow = token[Escrow]]
      [] AtStep(run, SmokeSteps, "rereadAgent") -> [run EXCEPT !.after.agent = token[run.agent]]
      [] AtStep(run, SmokeSteps, "rereadTreasury") ->
             [run EXCEPT !.after.treasury = token[Treasury]]
      [] OTHER -> NoRun

\* Fault: the escrow's balance is not compared.
checks_without_escrow(run) ==
    LET fee == (AMOUNT * FEE_CHECKED) \div 10000
    IN  /\ run.after.agent - run.before.agent = AMOUNT - fee
        /\ run.after.treasury - run.before.treasury = fee
        /\ run.id \in DOMAIN e_transfers

\* The last check reads the transfer and asks only that there is one.
checks(run) ==
    LET fee == (AMOUNT * FEE_CHECKED) \div 10000
    IN  /\ run.after.escrow = run.before.escrow
        /\ run.after.agent - run.before.agent = AMOUNT - fee
        /\ run.after.treasury - run.before.treasury = fee
        /\ run.id \in DOMAIN e_transfers

SmokeSubmits ==
    /\ Submits(smoke)
    /\ smoke' = [Advanced(smoke) EXCEPT
                    !.own = IF AtStep(smoke, SmokeSteps, "create") THEN e_next_id' ELSE @]
    /\ UNCHANGED <<issue, sac, orphan, known, keys, runs, outside>>

SmokeReads ==
    /\ Reads(smoke) # NoRun
    /\ smoke' = Advanced(Reads(smoke))
    /\ UNCHANGED <<network, issue, sac, orphan, known, keys, runs, outside>>

SmokeChecks ==
    /\ AtStep(smoke, SmokeSteps, "check")
    /\ smoke' = [smoke EXCEPT !.pc = 0, !.verdict = IF checks(smoke) THEN "passed" ELSE "failed"]
    /\ UNCHANGED <<network, issue, sac, orphan, known, keys, runs, outside>>

\* The run ends here; what it had submitted may still be on its way.
SmokeStops ==
    /\ smoke.pc # 0
    /\ smoke' = NoRun
    /\ orphan' = IF Reads(smoke) = NoRun /\ ~AtStep(smoke, SmokeSteps, "check")
                 THEN [smoke EXCEPT !.before = Unread, !.quiet = FALSE] ELSE NoRun
    /\ UNCHANGED <<network, issue, sac, known, keys, runs, outside>>

OrphanLands ==
    /\ outside < MaxOutside
    /\ Submits(orphan)
    /\ orphan' = NoRun
    /\ smoke' = [smoke EXCEPT !.quiet = FALSE]
    /\ outside' = outside + 1
    /\ UNCHANGED <<issue, sac, known, keys, runs>>
----------------------------------------------------------------------------
\* Customers, agents and the operator, none of whom waits for a script.
OthersAct ==
    /\ outside < MaxOutside
    /\ \/ Outside
       \/ \E s \in Senders, k \in Codes :
             /\ e_next_id < MaxTransfers
             /\ create_transfer(s, AMOUNT, E!Sha256(k), CORRIDOR, now + 1)
    /\ outside' = outside + 1
    /\ smoke' = [smoke EXCEPT !.quiet = FALSE]
    /\ UNCHANGED <<issue, sac, orphan, known, keys, runs>>

BringUpNext ==
    \/ IssueStarts \/ IssueStep \/ IssuePrints \/ IssueStops
    \/ SmokeStarts \/ SmokeSubmits \/ SmokeReads \/ SmokeChecks \/ SmokeStops
    \/ OrphanLands
    \/ OthersAct

BringUpSpec == BringUpInit /\ [][BringUpNext]_allVars
----------------------------------------------------------------------------
(* Properties. *)

\* A run that found an empty escrow and reports success has had its own
\* transfer settled, whatever else happened on the network meanwhile and even if
\* the id it read was another's: "nothing is stuck" is the check that tells.
PassedMeansSettled ==
    smoke.verdict = "passed" /\ smoke.before.escrow = 0 =>
        e_transfers[smoke.own].status # "Pending"

\* Whenever a run ends, and whichever of its transactions lands late, a bond is
\* posted only under a key that somebody can still read: smoke-test.ts means "a
\* re-run does not strand a bond under a key nothing kept".
NoBondUnderLostKey ==
    \A a \in Agents : R!get_bond(a) > 0 => a \in known

\* With a new agent, enough supply and nobody in between, no step of the flow is
\* refused by any of the four contracts or the token, and the run passes,
\* whichever keys .env gives the treasury and the attester.  So the change log
\* has it ("Both are now run against a deployment with separate admin, attester
\* and treasury keys") and so do the keys that create-test-token.ts prints "for a
\* testnet bring-up"; it is true of neither (the runs SeparateKeys and
\* PrintedKeys), since smoke-test.ts publishes the attestation as the operator
\* and gives the treasury a trustline.
UndisturbedRunPasses ==
    smoke.quiet =>
        /\ smoke.verdict # "failed"
        /\ smoke.pc \in DOMAIN SmokeSteps => ENABLED (SmokeSubmits \/ SmokeReads \/ SmokeChecks)

\* The keys that smoke-test.ts can work with: the attester's is the operator's,
\* the treasury's is not.
KeysFit == AttesterKey = Operator /\ Treasury # Operator

\* With such keys the verdict of the smoke test can be relied on both ways: the
\* order of the steps, the trustlines, the signers' limits and the fee that the
\* checks assume all fit the deployment.  With others, one way.
VerdictTellsTruth == PassedMeansSettled /\ (KeysFit => UndisturbedRunPasses)
=============================================================================
