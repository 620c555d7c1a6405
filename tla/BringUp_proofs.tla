--------------------------- MODULE BringUp_proofs ---------------------------
(***************************************************************************)
(* Proofs about the four contracts at work together while the scripts that *)
(* bring a network up run, stop, run again and have transactions land      *)
(* late, for any number of accounts, regions, corridors, runs and calls;   *)
(* and about the script that deploys them, for any configurations.         *)
(*                                                                         *)
(* The argument about the network has three layers.  Whatever the scripts  *)
(* do, the network sees a NetworkStep, because a run only ever holds keys  *)
(* that it was given (ScriptsFine).  A NetworkStep is one of a few shapes  *)
(* that name the one record it touches and what each contract's custody    *)
(* gains or loses.  Each property is then kept by each shape.              *)
(*                                                                         *)
(* The argument about a deployment follows each run through its list of    *)
(* transactions: of a run at work exactly those before the next have       *)
(* landed (Working, Landed), and one that is late belongs to a run that is *)
(* over (LateFine).                                                        *)
(***************************************************************************)
EXTENDS BringUp, Deployment, Sums_proofs, SequenceTheorems, TLAPS

Users == Senders \cup Agents

\* The scripts' records.
Reading == [escrow : Nat, agent : Nat, treasury : Nat]
Issue == [pc : Nat, holder : Senders \cup {None}]
Run == [pc : Nat, holder : Senders \cup {None}, agent : Agents \cup {None},
        before : Reading, after : Reading, id : Nat, own : Nat,
        verdict : {"none", "passed", "failed"}, quiet : BOOLEAN]

\* A run that is under way has its two keys, and the agent's was printed.
RunFine(run, printed) ==
    /\ run \in Run
    /\ run.pc # 0 => run.holder \in Senders /\ run.agent \in Agents \cap printed

ScriptsFine ==
    /\ issue \in Issue
    /\ issue.pc # 0 => issue.holder \in Senders
    /\ RunFine(smoke, known)
    /\ RunFine(orphan, known)

\* The calls that reach the network, from whomever they come.
NetworkStep ==
    \/ \E s \in Senders : change_trust(s) \/ mint(s, INITIAL_SUPPLY)
    \/ \E a \in Agents : change_trust(a) \/ authorize_agent(a)
    \/ change_trust(Treasury)
    \/ \E s \in Senders, a \in Agents : token_transfer(s, a, AGENT_TOP_UP)
    \/ \E a \in Agents \cap known : register_agent(a, REGION, BOND)
    \/ \E s \in Senders : publish_attestation(s, "Standard", MaxTime + WINDOW)
    \/ \E s \in Senders, k \in Codes, e \in Int :
          create_transfer(s, AMOUNT, E!Sha256(k), CORRIDOR, e)
    \/ \E a \in Agents, i \in Nat : claim_transfer(a, i, CLAIM_CODE)
    \/ Outside

\* What the reads and the identifiers of a run need of the network.
Readable == token \in [Holders -> Nat] /\ e_next_id \in Nat /\ now \in Nat
----------------------------------------------------------------------------
(* Scripts. *)

LEMMA StepNumbers ==
    ASSUME NEW run, NEW steps, NEW name, AtStep(run, steps, name),
           steps = SmokeSteps \/ steps = IssueSteps
    PROVE  run.pc \in Nat \ {0}
  BY DEF AtStep, SmokeSteps, IssueSteps

LEMMA StepPasses ==
    ASSUME NEW run, RunFine(run, known)
    PROVE  /\ Advanced(run) \in Run
           /\ Advanced(run).holder = run.holder /\ Advanced(run).agent = run.agent
           /\ Advanced(run).pc # 0
  BY DEF RunFine, Run, Advanced

\* A transaction of a run under way is a call with the run's own keys.
LEMMA SubmitsIsNetworkStep ==
    ASSUME NEW run, RunFine(run, known), Readable, Submits(run)
    PROVE  NetworkStep
<1>1. ASSUME NEW name, AtStep(run, SmokeSteps, name)
      PROVE  run.holder \in Senders /\ run.agent \in Agents \cap known
  <2>1. run.pc \in Nat \ {0}
    BY <1>1, StepNumbers
  <2> QED
    BY <2>1 DEF RunFine
<1>2. CASE AtStep(run, SmokeSteps, "trustAgent") /\ trustToken(run.agent)
  BY <1>1, <1>2 DEF NetworkStep, trustToken
<1>3. CASE AtStep(run, SmokeSteps, "trustTreasury") /\ trustToken(Treasury)
  BY <1>3 DEF NetworkStep, trustToken
<1>4. CASE /\ AtStep(run, SmokeSteps, "topUp")
           /\ token_transfer(run.holder, run.agent, AGENT_TOP_UP)
  BY <1>1, <1>4 DEF NetworkStep
<1>5. CASE /\ AtStep(run, SmokeSteps, "register")
           /\ register_agent(run.agent, REGION, BOND)
  BY <1>1, <1>5 DEF NetworkStep
<1>6. CASE AtStep(run, SmokeSteps, "authorize") /\ authorize_agent(run.agent)
  BY <1>1, <1>6 DEF NetworkStep
<1>7. CASE /\ AtStep(run, SmokeSteps, "attest")
           /\ publish_attestation(run.holder, "Standard", MaxTime + WINDOW)
  BY <1>1, <1>7 DEF NetworkStep
<1>8. CASE /\ AtStep(run, SmokeSteps, "create")
           /\ \E drift \in Drifts :
                 create_transfer(run.holder, AMOUNT, E!Sha256(CLAIM_CODE), CORRIDOR,
                                 now + drift + TRANSFER_EXPIRY_SECS)
  <2>1. PICK drift \in Drifts :
            create_transfer(run.holder, AMOUNT, E!Sha256(CLAIM_CODE), CORRIDOR,
                            now + drift + TRANSFER_EXPIRY_SECS)
    BY <1>8
  <2>2. /\ now + drift + TRANSFER_EXPIRY_SECS \in Int
        /\ CLAIM_CODE \in Codes
    BY ScriptsFitTheNetwork DEF Readable
  <2> QED
    BY <1>1, <1>8, <2>1, <2>2 DEF NetworkStep
<1>9. CASE /\ AtStep(run, SmokeSteps, "claim")
           /\ claim_transfer(run.agent, run.id, CLAIM_CODE)
  <2>1. run.id \in Nat
    BY DEF RunFine, Run
  <2> QED
    BY <1>1, <1>9, <2>1 DEF NetworkStep
<1> QED
  BY <1>2, <1>3, <1>4, <1>5, <1>6, <1>7, <1>8, <1>9 DEF Submits

\* Every step of the scripts and of the others is a step of the network, or
\* leaves the network alone; what was printed stays printed.
LEMMA ScriptsDriveNetwork ==
    ASSUME ScriptsFine, Readable, [BringUpNext]_allVars
    PROVE  /\ NetworkStep \/ UNCHANGED network
           /\ known \subseteq known'
<1>1. CASE IssueStarts \/ IssuePrints \/ IssueStops
  BY <1>1 DEF IssueStarts, IssuePrints, IssueStops
<1>2. CASE IssueStep
  <2>1. ASSUME NEW name, AtStep(issue, IssueSteps, name)
        PROVE  issue.holder \in Senders
    <3>1. issue.pc \in Nat \ {0}
      BY <2>1, StepNumbers
    <3> QED
      BY <3>1 DEF ScriptsFine
  <2>2. known' = known
    BY <1>2 DEF IssueStep
  <2> QED
    BY <1>2, <2>1, <2>2 DEF IssueStep, IssueSubmits, NetworkStep
<1>3. CASE SmokeStarts \/ SmokeReads \/ SmokeChecks \/ SmokeStops
  BY <1>3 DEF SmokeStarts, SmokeReads, SmokeChecks, SmokeStops
<1>4. CASE SmokeSubmits
  BY <1>4, SubmitsIsNetworkStep DEF SmokeSubmits, ScriptsFine
<1>5. CASE OrphanLands
  BY <1>5, SubmitsIsNetworkStep DEF OrphanLands, ScriptsFine
<1>6. CASE OthersAct
  <2>1. CASE Outside
    BY <1>6, <2>1 DEF OthersAct, NetworkStep
  <2>2. ASSUME NEW s \in Senders, NEW k \in Codes,
               create_transfer(s, AMOUNT, E!Sha256(k), CORRIDOR, now + 1)
        PROVE  NetworkStep
    <3>1. now + 1 \in Int
      BY DEF Readable
    <3> QED
      BY <2>2, <3>1 DEF NetworkStep
  <2> QED
    BY <1>6, <2>1, <2>2 DEF OthersAct
<1>7. CASE UNCHANGED allVars
  BY <1>7 DEF allVars, scriptVars
<1> QED
  BY <1>1, <1>2, <1>3, <1>4, <1>5, <1>6, <1>7 DEF BringUpNext

LEMMA NoRunIsFine ==
    ASSUME NEW printed PROVE RunFine(NoRun, printed)
  BY DEF RunFine, NoRun, Unread, Run, Reading

\* A run keeps its keys while the list of printed keys only grows.
LEMMA RunStaysFine ==
    ASSUME NEW run, NEW printed, NEW more, RunFine(run, printed), printed \subseteq more
    PROVE  RunFine(run, more)
  BY DEF RunFine

\* A reading changes what was read and not the keys.
LEMMA ReadsAreFine ==
    ASSUME ScriptsFine, Readable, Reads(smoke) # NoRun
    PROVE  /\ Reads(smoke) \in Run
           /\ Reads(smoke).holder = smoke.holder /\ Reads(smoke).agent = smoke.agent
           /\ Reads(smoke).pc = smoke.pc /\ smoke.pc # 0
<1>1. smoke \in Run /\ (smoke.pc # 0 => smoke.agent \in Agents)
  BY DEF ScriptsFine, RunFine
<1>2. ASSUME NEW name, AtStep(smoke, SmokeSteps, name) PROVE smoke.pc # 0
  BY <1>2, StepNumbers
<1>3. ASSUME NEW name, AtStep(smoke, SmokeSteps, name)
      PROVE  token[Escrow] \in Nat /\ token[smoke.agent] \in Nat /\ token[Treasury] \in Nat
  BY <1>1, <1>2, <1>3 DEF Readable, Holders, Parties
<1>4. e_next_id \in Nat
  BY DEF Readable
<1>5. \A x \in Nat :
         /\ [smoke EXCEPT !.before.escrow = x] \in Run
         /\ [smoke EXCEPT !.before.escrow = x].holder = smoke.holder
         /\ [smoke EXCEPT !.before.escrow = x].agent = smoke.agent
         /\ [smoke EXCEPT !.before.escrow = x].pc = smoke.pc
  BY <1>1 DEF Run, Reading
<1>6. \A x \in Nat :
         /\ [smoke EXCEPT !.before.agent = x] \in Run
         /\ [smoke EXCEPT !.before.agent = x].holder = smoke.holder
         /\ [smoke EXCEPT !.before.agent = x].agent = smoke.agent
         /\ [smoke EXCEPT !.before.agent = x].pc = smoke.pc
  BY <1>1 DEF Run, Reading
<1>7. \A x \in Nat :
         /\ [smoke EXCEPT !.before.treasury = x] \in Run
         /\ [smoke EXCEPT !.before.treasury = x].holder = smoke.holder
         /\ [smoke EXCEPT !.before.treasury = x].agent = smoke.agent
         /\ [smoke EXCEPT !.before.treasury = x].pc = smoke.pc
  BY <1>1 DEF Run, Reading
<1>8. \A x \in Nat :
         /\ [smoke EXCEPT !.after.escrow = x] \in Run
         /\ [smoke EXCEPT !.after.escrow = x].holder = smoke.holder
         /\ [smoke EXCEPT !.after.escrow = x].agent = smoke.agent
         /\ [smoke EXCEPT !.after.escrow = x].pc = smoke.pc
  BY <1>1 DEF Run, Reading
<1>9. \A x \in Nat :
         /\ [smoke EXCEPT !.after.agent = x] \in Run
         /\ [smoke EXCEPT !.after.agent = x].holder = smoke.holder
         /\ [smoke EXCEPT !.after.agent = x].agent = smoke.agent
         /\ [smoke EXCEPT !.after.agent = x].pc = smoke.pc
  BY <1>1 DEF Run, Reading
<1>10. \A x \in Nat :
         /\ [smoke EXCEPT !.after.treasury = x] \in Run
         /\ [smoke EXCEPT !.after.treasury = x].holder = smoke.holder
         /\ [smoke EXCEPT !.after.treasury = x].agent = smoke.agent
         /\ [smoke EXCEPT !.after.treasury = x].pc = smoke.pc
  BY <1>1 DEF Run, Reading
<1>11. \A x \in Nat :
         /\ [smoke EXCEPT !.id = x] \in Run
         /\ [smoke EXCEPT !.id = x].holder = smoke.holder
         /\ [smoke EXCEPT !.id = x].agent = smoke.agent
         /\ [smoke EXCEPT !.id = x].pc = smoke.pc
  BY <1>1 DEF Run
<1> DEFINE Read(x) == /\ x \in Run /\ x.holder = smoke.holder /\ x.agent = smoke.agent
                      /\ x.pc = smoke.pc
<1>12. \/ Reads(smoke) = NoRun
       \/ \E name : AtStep(smoke, SmokeSteps, name) /\ Read(Reads(smoke))
  BY <1>3, <1>4, <1>5, <1>6, <1>7, <1>8, <1>9, <1>10, <1>11 DEF Reads
<1> QED
  BY <1>2, <1>12

\* Scripts hold only the keys they were given.
LEMMA ScriptsStayFine ==
    ASSUME ScriptsFine, Readable, Readable', [BringUpNext]_allVars
    PROVE  ScriptsFine'
<1>1. known \subseteq known'
  BY ScriptsDriveNetwork
<1>2. ASSUME smoke' = smoke PROVE RunFine(smoke', known')
  BY <1>1, <1>2, RunStaysFine DEF ScriptsFine
<1>3. ASSUME orphan' = orphan PROVE RunFine(orphan', known')
  BY <1>1, <1>3, RunStaysFine DEF ScriptsFine
<1>4. ASSUME smoke' = [smoke EXCEPT !.quiet = FALSE] PROVE RunFine(smoke', known')
  BY <1>1, <1>4 DEF ScriptsFine, RunFine, Run
<1>5. CASE IssueStarts \/ IssuePrints \/ IssueStops
  <2>1. issue' \in Issue /\ (issue'.pc # 0 => issue'.holder \in Senders)
    BY <1>5 DEF IssueStarts, IssuePrints, IssueStops, NoIssue, Issue
  <2> QED
    BY <1>2, <1>3, <1>5, <2>1
       DEF ScriptsFine, IssueStarts, IssuePrints, IssueStops
<1>6. CASE IssueStep
  <2>1. \E name : AtStep(issue, IssueSteps, name)
    BY <1>6 DEF IssueStep, IssueSubmits
  <2>2. issue.pc \in Nat \ {0}
    BY <2>1, StepNumbers
  <2>3. issue' \in Issue /\ issue'.holder \in Senders
    BY <1>6, <2>2 DEF IssueStep, Advanced, ScriptsFine, Issue
  <2> QED
    BY <1>2, <1>3, <1>6, <2>3 DEF ScriptsFine, IssueStep
<1>7. CASE SmokeStarts
  <2>1. PICK holder \in Senders, agent \in Agents :
            /\ smoke' = [NoRun EXCEPT !.pc = 1, !.holder = holder, !.agent = agent,
                                      !.quiet = Promising(holder, agent)]
            /\ known' = known \cup {agent}
    BY <1>7 DEF SmokeStarts
  <2>2. Promising(holder, agent) \in BOOLEAN
    BY DEF Promising
  <2>3. RunFine(smoke', known')
    BY <2>1, <2>2 DEF RunFine, Run, NoRun, Unread, Reading
  <2> QED
    BY <1>3, <1>7, <2>3 DEF ScriptsFine, SmokeStarts
<1>8. CASE SmokeSubmits
  <2>1. \E name : AtStep(smoke, SmokeSteps, name)
    BY <1>8 DEF SmokeSubmits, Submits
  <2>2. smoke.pc \in Nat \ {0}
    BY <2>1, StepNumbers
  <2>3. PICK n \in Nat : smoke' = [Advanced(smoke) EXCEPT !.own = n]
    <3>1. smoke.own \in Nat /\ Advanced(smoke).own = smoke.own
      BY DEF ScriptsFine, RunFine, Run, Advanced
    <3> QED
      BY <1>8, <3>1 DEF SmokeSubmits, Readable
  <2>4. RunFine(smoke', known')
    <3>1. PICK run \in Run : run = Advanced(smoke)
      BY StepPasses DEF ScriptsFine
    <3>2. run.holder = smoke.holder /\ run.agent = smoke.agent
      BY <3>1, StepPasses DEF ScriptsFine
    <3>3. smoke' = [run EXCEPT !.own = n]
      BY <2>3, <3>1
    <3> QED
      BY <1>1, <2>2, <3>1, <3>2, <3>3 DEF ScriptsFine, RunFine, Run
  <2> QED
    BY <1>3, <1>8, <2>4 DEF ScriptsFine, SmokeSubmits
<1>9. CASE SmokeReads
  <2>1. PICK run \in Run : run = Reads(smoke)
    BY <1>9, ReadsAreFine DEF SmokeReads
  <2>2. /\ run.holder = smoke.holder /\ run.agent = smoke.agent
        /\ run.pc = smoke.pc /\ smoke.pc # 0
    BY <1>9, <2>1, ReadsAreFine DEF SmokeReads
  <2>3. smoke' = [run EXCEPT !.pc = @ + 1]
    BY <1>9, <2>1 DEF SmokeReads, Advanced
  <2>4. RunFine(smoke', known')
    BY <1>1, <2>1, <2>2, <2>3 DEF ScriptsFine, RunFine, Run
  <2> QED
    BY <1>3, <1>9, <2>4 DEF ScriptsFine, SmokeReads
<1>10. CASE SmokeChecks
  <2>1. PICK v \in {"passed", "failed"} : smoke' = [smoke EXCEPT !.pc = 0, !.verdict = v]
    BY <1>10 DEF SmokeChecks
  <2>2. RunFine(smoke', known')
    BY <2>1 DEF ScriptsFine, RunFine, Run
  <2> QED
    BY <1>3, <1>10, <2>2 DEF ScriptsFine, SmokeChecks
<1>11. CASE SmokeStops
  <2>1. smoke' = NoRun
    BY <1>11 DEF SmokeStops
  <2>2. RunFine(orphan', known')
    <3>1. CASE orphan' = NoRun
      BY <3>1, NoRunIsFine
    <3>2. CASE orphan' = [smoke EXCEPT !.before = Unread, !.quiet = FALSE]
      BY <1>1, <3>2 DEF ScriptsFine, RunFine, Run, Unread, Reading
    <3> QED
      BY <1>11, <3>1, <3>2 DEF SmokeStops
  <2> QED
    BY <1>11, <2>1, <2>2, NoRunIsFine DEF ScriptsFine, SmokeStops
<1>12. CASE OrphanLands
  BY <1>4, <1>12, NoRunIsFine DEF ScriptsFine, OrphanLands
<1>13. CASE OthersAct
  BY <1>3, <1>4, <1>13 DEF ScriptsFine, OthersAct
<1>14. CASE UNCHANGED allVars
  BY <1>2, <1>3, <1>14 DEF ScriptsFine, allVars, scriptVars
<1> QED
  BY <1>5, <1>6, <1>7, <1>8, <1>9, <1>10, <1>11, <1>12, <1>13, <1>14 DEF BringUpNext
----------------------------------------------------------------------------
(* The network's state, as far as the properties depend on it. *)

Sent == {t \in E!Transfer : t.sender \in Senders}

\* The deployment's configuration stays what the scripts left it.
Deployed ==
    /\ e_config.fee_bps = FEE_BPS /\ e_config.treasury = Treasury
    /\ r_treasury = Treasury

EscrowTypes ==
    /\ e_next_id \in Nat
    /\ DOMAIN e_transfers = 1 .. e_next_id
    /\ \A i \in 1 .. e_next_id : e_transfers[i] \in Sent /\ e_transfers[i].id = i

PoolTypes ==
    /\ p_config \in P!PoolConfig
    /\ p_pools \in [Regions -> PoolRecord]
    /\ p_exposure \in [Users -> [Regions -> Nat]]

NetTypes ==
    /\ token \in [Holders -> Nat]
    /\ bal = [t \in {Token} |-> token]
    /\ now \in 0 .. MaxTime
    /\ Deployed
    /\ EscrowTypes
    /\ r_agents \in [Agents -> R!Agent \cup {None}]
    /\ h_daily_volume \in [Senders \X Corridors \X H!Days -> Nat]
    /\ PoolTypes
    /\ secured \subseteq Agents \X Regions
----------------------------------------------------------------------------
(* What a step does, contract by contract. *)

\* A contract that a step leaves alone.
EscrowStill ==
    /\ UNCHANGED <<e_config, e_next_id, e_transfers>>
    /\ token'[Escrow] = token[Escrow]
RegistryStill == UNCHANGED <<r_treasury, r_agents>> /\ token'[Registry] = token[Registry]
HookStill == h_daily_volume' = h_daily_volume
PoolStill == UNCHANGED <<p_config, p_pools, p_exposure>> /\ token'[Pool] = token[Pool]

\* create_transfer, with the commitment that is part of it.
Creates(t) ==
    /\ t \in Sent
    /\ t.id = e_next_id + 1 /\ t.status = "Pending" /\ t.created_at = now
    /\ e_config' = e_config
    /\ e_next_id' = e_next_id + 1
    /\ e_transfers' = [i \in 1 .. e_next_id' |-> IF i = t.id THEN t ELSE e_transfers[i]]
    /\ token'[Escrow] = token[Escrow] + t.amount
    /\ h_daily_volume' =
          [h_daily_volume EXCEPT ![<<t.sender, t.corridor_id, H!day_of(now)>>] = @ + t.amount]
    /\ RegistryStill /\ PoolStill
    /\ now' = now /\ secured' = secured

\* A claim, a cancellation or a refund.
Settles(i, u) ==
    /\ i \in 1 .. e_next_id
    /\ u \in Sent /\ u.id = i /\ u.status # "Pending"
    /\ e_transfers[i].status = "Pending"
    /\ <<u.sender, u.amount, u.token, u.corridor_id, u.created_at>> =
          <<e_transfers[i].sender, e_transfers[i].amount, e_transfers[i].token,
            e_transfers[i].corridor_id, e_transfers[i].created_at>>
    /\ UNCHANGED <<e_config, e_next_id>>
    /\ e_transfers' = [e_transfers EXCEPT ![i] = u]
    /\ token'[Escrow] = token[Escrow] - u.amount
    /\ RegistryStill /\ HookStill /\ PoolStill
    /\ now' = now /\ secured' = secured

\* Any call that writes an agent's record: the bond on record grows only with a
\* payment and only under a printed key, and an agent that loses bond is no
\* longer held to be secured.
Records(a, rec) ==
    /\ a \in Agents /\ rec \in R!Agent
    /\ r_treasury' = r_treasury
    /\ r_agents' = [r_agents EXCEPT ![a] = rec]
    /\ token'[Registry] - token[Registry] >= rec.bond - R!get_bond(a)
    /\ rec.bond > R!get_bond(a) => a \in known
    /\ \/ secured' = without(a)
       \/ secured' = secured /\ rec.bond = R!get_bond(a)
    /\ EscrowStill /\ HookStill /\ PoolStill
    /\ now' = now

\* A deposit, a draw or a repayment, which changes what an account owes by owed.
Lends(u, r, pool, owed) ==
    /\ u \in Users /\ r \in Regions /\ pool \in PoolRecord
    /\ p_config' = p_config
    /\ p_pools' = [p_pools EXCEPT ![r] = pool]
    /\ p_exposure' = [p_exposure EXCEPT ![u][r] = owed]
    /\ owed \in Nat
    /\ P!available(pool) >= 0
    /\ token'[Pool] - token[Pool] = P!available(pool) - P!available(p_pools[r])
    /\ \/ secured' = secured /\ owed <= p_exposure[u][r]
       \/ /\ u \in Agents /\ secured' = secured \cup {<<u, r>>}
          /\ R!get_bond(u) >= P!bond_requirement(owed)
    /\ EscrowStill /\ HookStill /\ RegistryStill
    /\ now' = now

\* Trustlines, payments between accounts, attestations, the clock and the ratio.
Elsewhere ==
    /\ EscrowStill /\ RegistryStill /\ HookStill
    /\ UNCHANGED <<p_pools, p_exposure>> /\ token'[Pool] = token[Pool]
    /\ p_config' \in P!PoolConfig
    /\ \/ secured' = {}
       \/ /\ secured' = secured
          /\ p_config'.collateral_ratio_bps <= p_config.collateral_ratio_bps
    /\ now' \in 0 .. MaxTime

LedgerFine == token' \in [Holders -> Nat] /\ bal' = [t \in {Token} |-> token']

Shape ==
    \/ \E t : Creates(t)
    \/ \E i, u : Settles(i, u)
    \/ \E a, rec : Records(a, rec)
    \/ \E u, r, pool, owed : Lends(u, r, pool, owed)
    \/ Elsewhere

\* Whole days only grow with the time: today has its own bucket.
LEMMA TodayHasABucket ==
    ASSUME NetTypes PROVE H!day_of(now) \in H!Days /\ now \in Nat
<1> DEFINE d == SECONDS_PER_DAY
           q == now \div d
           p == MaxTime \div d
<1>1. d \in Nat \ {0} /\ now \in Nat /\ MaxTime \in Nat /\ now <= MaxTime
  BY TimesAreNaturals DEF NetTypes
<1> HIDE DEF d
<1>2. /\ q \in Int /\ now % d \in 0 .. (d - 1) /\ now = d * q + (now % d)
      /\ p \in Int /\ MaxTime % d \in 0 .. (d - 1) /\ MaxTime = d * p + (MaxTime % d)
  BY <1>1, Z3
<1> HIDE DEF q, p
<1>3. q >= 0
  <2> SUFFICES ASSUME q <= -1 PROVE FALSE
    BY <1>2
  <2>1. d * q <= d * (-1) /\ d * (-1) = -d
    BY <1>1, <1>2
  <2> QED
    BY <1>1, <1>2, <2>1
<1>4. q <= p
  <2> SUFFICES ASSUME q >= p + 1 PROVE FALSE
    BY <1>2
  <2>1. d * q >= d * (p + 1) /\ d * (p + 1) = d * p + d
    BY <1>1, <1>2
  <2> QED
    BY <1>1, <1>2, <2>1
<1> QED
  BY <1>1, <1>2, <1>3, <1>4 DEF H!Days, H!day_of, d, q, p

\* Every shape keeps the types.
LEMMA ShapeKeepsTypes ==
    ASSUME NetTypes, Shape, LedgerFine
    PROVE  NetTypes'
<1> USE DEF LedgerFine
<1>1. ASSUME NEW t, Creates(t) PROVE NetTypes'
  <2>1. EscrowTypes'
    BY <1>1 DEF NetTypes, EscrowTypes, Creates, Sent
  <2>2. h_daily_volume' \in [Senders \X Corridors \X H!Days -> Nat]
    <3>1. <<t.sender, t.corridor_id, H!day_of(now)>> \in Senders \X Corridors \X H!Days
      BY <1>1, TodayHasABucket DEF Creates, Sent, E!Transfer
    <3>2. t.amount \in Nat
      BY <1>1 DEF Creates, Sent, E!Transfer
    <3> QED
      BY <1>1, <3>1, <3>2 DEF NetTypes, Creates
  <2> QED
    BY <1>1, <2>1, <2>2 DEF NetTypes, Creates, RegistryStill, PoolStill, Deployed, PoolTypes
<1>2. ASSUME NEW i, NEW u, Settles(i, u) PROVE NetTypes'
  <2>1. EscrowTypes'
    BY <1>2 DEF NetTypes, EscrowTypes, Settles
  <2> QED
    BY <1>2, <2>1 DEF NetTypes, Settles, RegistryStill, HookStill, PoolStill, Deployed,
                      PoolTypes
<1>3. ASSUME NEW a, NEW rec, Records(a, rec) PROVE NetTypes'
  <2>1. r_agents' \in [Agents -> R!Agent \cup {None}]
    BY <1>3 DEF NetTypes, Records
  <2>2. EscrowTypes'
    BY <1>3 DEF NetTypes, Records, EscrowStill, EscrowTypes
  <2>3. secured' \subseteq Agents \X Regions
    BY <1>3 DEF NetTypes, Records, without
  <2> QED
    BY <1>3, <2>1, <2>2, <2>3
       DEF NetTypes, Records, EscrowStill, HookStill, PoolStill, Deployed, PoolTypes
<1>4. ASSUME NEW u, NEW r, NEW pool, NEW owed, Lends(u, r, pool, owed) PROVE NetTypes'
  <2>1. p_pools' \in [Regions -> PoolRecord]
    BY <1>4 DEF NetTypes, PoolTypes, Lends
  <2>2. p_exposure' \in [Users -> [Regions -> Nat]]
    BY <1>4 DEF NetTypes, PoolTypes, Lends
  <2>3. EscrowTypes'
    BY <1>4 DEF NetTypes, Lends, EscrowStill, EscrowTypes
  <2>4. secured' \subseteq Agents \X Regions
    BY <1>4 DEF NetTypes, Lends
  <2> QED
    BY <1>4, <2>1, <2>2, <2>3, <2>4
       DEF NetTypes, Lends, EscrowStill, HookStill, RegistryStill, Deployed, PoolTypes
<1>5. ASSUME Elsewhere PROVE NetTypes'
  <2>1. EscrowTypes'
    BY <1>5 DEF NetTypes, Elsewhere, EscrowStill, EscrowTypes
  <2> QED
    BY <1>5, <2>1
       DEF NetTypes, Elsewhere, EscrowStill, HookStill, RegistryStill, Deployed, PoolTypes
<1> QED
  BY <1>1, <1>2, <1>3, <1>4, <1>5 DEF Shape
----------------------------------------------------------------------------
(* The properties, shape by shape. *)

\* The bond asked for grows with the exposure and with the ratio.
LEMMA RequirementGrows ==
    ASSUME NEW x \in Nat, NEW y \in Nat, x <= y, NEW b \in Nat, NEW c \in Nat, b <= c
    PROVE  (x * b) \div 10000 <= (y * c) \div 10000 /\ (x * b) \div 10000 \in Int
<1> DEFINE m == x * b
           n == y * c
<1>1. m \in Nat /\ n \in Nat /\ m <= n
  <2>1. x * b <= y * b /\ y * b <= y * c
    OBVIOUS
  <2> QED
    BY <2>1
<1> HIDE DEF m, n
<1>2. m \div 10000 <= n \div 10000 /\ m \div 10000 \in Int
  BY <1>1
<1> QED
  BY <1>2 DEF m, n

LEMMA RatioType ==
    ASSUME NEW c \in P!PoolConfig PROVE c.collateral_ratio_bps \in Nat
<1>1. c.collateral_ratio_bps \in
         P!MIN_COLLATERAL_RATIO_BPS .. P!MAX_COLLATERAL_RATIO_BPS
  BY DEF P!PoolConfig
<1>2. P!MIN_COLLATERAL_RATIO_BPS \in Nat /\ P!MAX_COLLATERAL_RATIO_BPS \in Nat
  BY DEF P!MIN_COLLATERAL_RATIO_BPS, P!MAX_COLLATERAL_RATIO_BPS
<1> QED
  BY <1>1, <1>2

LEMMA BondType ==
    ASSUME NetTypes, NEW a \in Agents
    PROVE  R!get_bond(a) \in Nat
  BY DEF NetTypes, R!get_bond, R!Agent

\* What writing one record does to the bonds.
LEMMA BondsAfterRecord ==
    ASSUME NetTypes, NEW a, NEW rec, Records(a, rec), NEW b \in Agents
    PROVE  R!get_bond(b)' = IF b = a THEN rec.bond ELSE R!get_bond(b)
<1>1. rec # None
  BY NoneIsNoRecord DEF Records
<1> QED
  BY <1>1 DEF NetTypes, Records, R!get_bond

LEMMA CoveredStep ==
    ASSUME NetTypes, Shape, UncoveredOnlyAfterBondLoss
    PROVE  UncoveredOnlyAfterBondLoss'
<1> SUFFICES ASSUME NEW p \in secured'
             PROVE  R!get_bond(p[1])' >= P!bond_requirement(p_exposure[p[1]][p[2]])'
  BY DEF UncoveredOnlyAfterBondLoss
<1> DEFINE ratio == p_config.collateral_ratio_bps
<1>1. ratio \in Nat /\ secured \subseteq Agents \X Regions
  BY RatioType DEF NetTypes, PoolTypes
<1>2. ASSUME p \in secured
      PROVE  /\ p[1] \in Agents /\ p[2] \in Regions
             /\ p_exposure[p[1]][p[2]] \in Nat /\ R!get_bond(p[1]) \in Nat
             /\ R!get_bond(p[1]) >= (p_exposure[p[1]][p[2]] * ratio) \div 10000
  <2>1. p[1] \in Agents /\ p[2] \in Regions
    BY <1>1, <1>2
  <2> QED
    BY <1>2, <2>1, BondType DEF NetTypes, PoolTypes, Users, UncoveredOnlyAfterBondLoss, P!bond_requirement
<1>3. ASSUME p \in secured, r_agents' = r_agents, p_exposure' = p_exposure,
             p_config' = p_config
      PROVE  R!get_bond(p[1])' >= P!bond_requirement(p_exposure[p[1]][p[2]])'
  BY <1>2, <1>3 DEF R!get_bond, P!bond_requirement
<1>4. ASSUME NEW t, Creates(t)
      PROVE  R!get_bond(p[1])' >= P!bond_requirement(p_exposure[p[1]][p[2]])'
  BY <1>3, <1>4 DEF Creates, RegistryStill, PoolStill
<1>5. ASSUME NEW i, NEW u, Settles(i, u)
      PROVE  R!get_bond(p[1])' >= P!bond_requirement(p_exposure[p[1]][p[2]])'
  BY <1>3, <1>5 DEF Settles, RegistryStill, PoolStill
<1>6. ASSUME NEW a, NEW rec, Records(a, rec)
      PROVE  R!get_bond(p[1])' >= P!bond_requirement(p_exposure[p[1]][p[2]])'
  <2>1. p \in secured /\ (p[1] # a \/ rec.bond = R!get_bond(a))
    BY <1>6 DEF Records, without
  <2>2. R!get_bond(p[1])' = R!get_bond(p[1])
    BY <1>2, <1>6, <2>1, BondsAfterRecord
  <2>3. P!bond_requirement(p_exposure[p[1]][p[2]])' =
           (p_exposure[p[1]][p[2]] * ratio) \div 10000
    BY <1>6 DEF Records, PoolStill, P!bond_requirement
  <2> QED
    BY <1>2, <2>1, <2>2, <2>3
<1>7. ASSUME NEW u, NEW r, NEW pool, NEW owed, Lends(u, r, pool, owed)
      PROVE  R!get_bond(p[1])' >= P!bond_requirement(p_exposure[p[1]][p[2]])'
  <2>1. R!get_bond(p[1])' = R!get_bond(p[1])
    BY <1>7 DEF Lends, RegistryStill, R!get_bond
  <2>2. P!bond_requirement(p_exposure[p[1]][p[2]])' =
           (p_exposure'[p[1]][p[2]] * ratio) \div 10000
    BY <1>7 DEF Lends, P!bond_requirement
  <2>3. /\ p[1] \in Users /\ p[2] \in Regions
        /\ p_exposure'[p[1]][p[2]] = IF p[1] = u /\ p[2] = r THEN owed
                                     ELSE p_exposure[p[1]][p[2]]
    BY <1>2, <1>7 DEF Lends, NetTypes, PoolTypes, Users
  <2>4. CASE p[1] = u /\ p[2] = r /\ ~(secured' = secured /\ owed <= p_exposure[u][r])
    <3>1. R!get_bond(u) >= (owed * ratio) \div 10000
      BY <1>7, <2>4 DEF Lends, P!bond_requirement
    <3> QED
      BY <2>1, <2>2, <2>3, <2>4, <3>1
  <2>5. CASE p[1] = u /\ p[2] = r /\ secured' = secured /\ owed <= p_exposure[u][r]
    <3>1. owed \in Nat /\ p_exposure'[p[1]][p[2]] = owed
      BY <1>7, <2>3, <2>5 DEF Lends
    <3>2. /\ (owed * ratio) \div 10000 <= (p_exposure[p[1]][p[2]] * ratio) \div 10000
          /\ (owed * ratio) \div 10000 \in Int
      BY <1>1, <1>2, <2>5, <3>1, RequirementGrows
    <3>3. /\ (p_exposure[p[1]][p[2]] * ratio) \div 10000 \in Int
          /\ R!get_bond(p[1]) >= (p_exposure[p[1]][p[2]] * ratio) \div 10000
          /\ R!get_bond(p[1]) \in Nat
      BY <1>1, <1>2, <2>5, RequirementGrows
    <3> HIDE DEF ratio
    <3> QED
      BY <2>1, <2>2, <3>1, <3>2, <3>3
  <2>6. CASE ~(p[1] = u /\ p[2] = r)
    <3>1. p \in secured
      BY <1>7, <2>6 DEF Lends
    <3> QED
      BY <1>2, <2>1, <2>2, <2>3, <2>6, <3>1
  <2> QED
    BY <2>4, <2>5, <2>6
<1>8. ASSUME Elsewhere
      PROVE  R!get_bond(p[1])' >= P!bond_requirement(p_exposure[p[1]][p[2]])'
  <2> DEFINE next == p_config'.collateral_ratio_bps
  <2>1. p \in secured /\ next \in Nat /\ next <= ratio
    BY <1>8, RatioType DEF Elsewhere
  <2>2. R!get_bond(p[1])' = R!get_bond(p[1])
    BY <1>8 DEF Elsewhere, RegistryStill, R!get_bond
  <2>3. P!bond_requirement(p_exposure[p[1]][p[2]])' =
           (p_exposure[p[1]][p[2]] * next) \div 10000
    BY <1>8 DEF Elsewhere, P!bond_requirement
  <2> HIDE DEF next, ratio
  <2>4. /\ (p_exposure[p[1]][p[2]] * next) \div 10000
              <= (p_exposure[p[1]][p[2]] * ratio) \div 10000
        /\ (p_exposure[p[1]][p[2]] * next) \div 10000 \in Int
        /\ (p_exposure[p[1]][p[2]] * ratio) \div 10000 \in Int
    BY <1>1, <1>2, <2>1, RequirementGrows
  <2> QED
    BY <1>2, <2>1, <2>2, <2>3, <2>4
<1> QED
  BY <1>4, <1>5, <1>6, <1>7, <1>8 DEF Shape

LEMMA KnownStep ==
    ASSUME NetTypes, Shape, NoBondUnderLostKey, known \subseteq known'
    PROVE  NoBondUnderLostKey'
<1> SUFFICES ASSUME NEW b \in Agents, R!get_bond(b)' > 0 PROVE b \in known'
  BY DEF NoBondUnderLostKey
<1>1. R!get_bond(b) \in Nat /\ (R!get_bond(b) > 0 => b \in known)
  BY BondType DEF NoBondUnderLostKey
<1>2. ASSUME r_agents' = r_agents PROVE b \in known'
  BY <1>1, <1>2 DEF R!get_bond
<1>3. ASSUME NEW a, NEW rec, Records(a, rec) PROVE b \in known'
  <2>1. R!get_bond(b)' = IF b = a THEN rec.bond ELSE R!get_bond(b)
    BY <1>3, BondsAfterRecord
  <2>2. rec.bond \in Nat /\ (rec.bond > R!get_bond(a) => a \in known)
    BY <1>3 DEF Records, R!Agent
  <2> QED
    BY <1>1, <2>1, <2>2
<1> QED
  BY <1>2, <1>3 DEF Shape, Creates, Settles, Lends, Elsewhere, RegistryStill

\* What the escrow's records say of one bucket, before and after a step.
Counted(t, s, c, d) ==
    IF t.sender = s /\ t.corridor_id = c /\ H!day_of(t.created_at) = d THEN t.amount ELSE 0

LEMMA CreatedOnIsCounted ==
    ASSUME NEW s, NEW c, NEW d
    PROVE  /\ CreatedOn(s, c, d) =
                 [i \in 1 .. e_next_id |-> Counted(e_transfers[i], s, c, d)]
           /\ CreatedOn(s, c, d)' =
                 [i \in 1 .. e_next_id' |-> Counted(e_transfers'[i], s, c, d)]
  BY DEF CreatedOn, Counted, H!day_of

\* A new transfer and its commitment put the same amount into the same bucket.
LEMMA CreatesKeepsVolume ==
    ASSUME NetTypes, NEW t, Creates(t), NEW s \in Senders, NEW c \in Corridors,
           NEW d \in H!Days,
           h_daily_volume[<<s, c, d>>] = PrefixSum(CreatedOn(s, c, d), e_next_id)
    PROVE  h_daily_volume'[<<s, c, d>>] = PrefixSum(CreatedOn(s, c, d), e_next_id)'
<1> DEFINE today == <<t.sender, t.corridor_id, H!day_of(now)>>
           bucket == <<s, c, d>>
           mine == Counted(t, s, c, d)
           n == e_next_id
           f == [i \in 1 .. n |-> Counted(e_transfers[i], s, c, d)]
           g == [i \in 1 .. n + 1 |-> Counted(e_transfers'[i], s, c, d)]
<1>1. /\ t.sender \in Senders /\ t.corridor_id \in Corridors /\ t.amount \in Nat
      /\ t.created_at = now
      /\ h_daily_volume' = [h_daily_volume EXCEPT ![today] = @ + t.amount]
      /\ h_daily_volume \in [Senders \X Corridors \X H!Days -> Nat]
  BY DEF NetTypes, Creates, Sent, E!Transfer
<1>2. today \in Senders \X Corridors \X H!Days /\ bucket \in Senders \X Corridors \X H!Days
  BY <1>1, TodayHasABucket
<1>3. mine = IF bucket = today THEN t.amount ELSE 0
  BY <1>1 DEF Counted
<1>4. h_daily_volume'[bucket] = h_daily_volume[bucket] + mine
  <2> HIDE DEF today, bucket, mine
  <2> QED
    BY <1>1, <1>2, <1>3
<1>5. n \in Nat /\ e_next_id' = n + 1 /\ t.id = n + 1
  BY DEF NetTypes, EscrowTypes, Creates
<1>6. e_transfers'[n + 1] = t /\ \A i \in 1 .. n : e_transfers'[i] = e_transfers[i]
  BY <1>5 DEF Creates
<1>7. g[n + 1] = mine /\ \A i \in 1 .. n : f[i] = g[i]
  BY <1>5, <1>6
<1>8. CreatedOn(s, c, d) = f /\ CreatedOn(s, c, d)' = g
  BY <1>5, CreatedOnIsCounted
<1>9. PrefixSum(CreatedOn(s, c, d), e_next_id)' = PrefixSum(g, n + 1)
  BY <1>5, <1>8 DEF PrefixSum
<1> HIDE DEF f, g, mine
<1>10. PrefixSum(g, n + 1) = PrefixSum(f, n) + mine
  <2>1. PrefixSum(g, n + 1) = PrefixSum(f, n) + g[n + 1]
    BY <1>5, <1>7, SumExtend
  <2> QED
    BY <1>7, <2>1
<1> QED
  BY <1>4, <1>8, <1>9, <1>10

LEMMA VolumeStep ==
    ASSUME NetTypes, Shape, VolumeMatchesEscrow
    PROVE  VolumeMatchesEscrow'
<1> SUFFICES ASSUME NEW s \in Senders, NEW c \in Corridors, NEW d \in H!Days
             PROVE  h_daily_volume'[<<s, c, d>>] = PrefixSum(CreatedOn(s, c, d), e_next_id)'
  BY DEF VolumeMatchesEscrow, H!Days, H!day_of
<1>1. h_daily_volume[<<s, c, d>>] = PrefixSum(CreatedOn(s, c, d), e_next_id)
  BY DEF VolumeMatchesEscrow
<1>2. ASSUME UNCHANGED <<h_daily_volume, e_next_id, e_transfers>>
      PROVE  h_daily_volume'[<<s, c, d>>] = PrefixSum(CreatedOn(s, c, d), e_next_id)'
  <2>1. CreatedOn(s, c, d)' = CreatedOn(s, c, d) /\ e_next_id' = e_next_id
    BY <1>2 DEF CreatedOn, H!day_of
  <2> QED
    BY <1>1, <1>2, <2>1 DEF PrefixSum
<1>3. ASSUME NEW t, Creates(t)
      PROVE  h_daily_volume'[<<s, c, d>>] = PrefixSum(CreatedOn(s, c, d), e_next_id)'
  BY <1>1, <1>3, CreatesKeepsVolume
<1>4. ASSUME NEW i, NEW u, Settles(i, u)
      PROVE  h_daily_volume'[<<s, c, d>>] = PrefixSum(CreatedOn(s, c, d), e_next_id)'
  <2>1. e_next_id \in Nat /\ DOMAIN e_transfers = 1 .. e_next_id
    BY DEF NetTypes, EscrowTypes
  <2>2. /\ h_daily_volume' = h_daily_volume /\ e_next_id' = e_next_id
        /\ \A j \in 1 .. e_next_id : /\ e_transfers'[j].sender = e_transfers[j].sender
                                     /\ e_transfers'[j].corridor_id = e_transfers[j].corridor_id
                                     /\ e_transfers'[j].created_at = e_transfers[j].created_at
                                     /\ e_transfers'[j].amount = e_transfers[j].amount
    BY <1>4, <2>1 DEF Settles, HookStill
  <2>3. CreatedOn(s, c, d)' = CreatedOn(s, c, d)
    <3>1. \A j \in 1 .. e_next_id :
             Counted(e_transfers'[j], s, c, d) = Counted(e_transfers[j], s, c, d)
      BY <2>2 DEF Counted
    <3> DEFINE f == [j \in 1 .. e_next_id |-> Counted(e_transfers[j], s, c, d)]
               g == [j \in 1 .. e_next_id' |-> Counted(e_transfers'[j], s, c, d)]
    <3>2. f = g
      BY <2>2, <3>1
    <3>3. CreatedOn(s, c, d) = f /\ CreatedOn(s, c, d)' = g
      BY CreatedOnIsCounted
    <3> HIDE DEF f, g
    <3> QED
      BY <3>2, <3>3
  <2> QED
    BY <1>1, <2>2, <2>3 DEF PrefixSum
<1> QED
  BY <1>2, <1>3, <1>4 DEF Shape, Records, Lends, Elsewhere, EscrowStill, HookStill
----------------------------------------------------------------------------
(* Custody: what each contract owes, as a function of its records. *)

PendingPart(t) == IF t.status = "Pending" THEN t.amount ELSE 0
OwedOn(ts, n) == PrefixSum([i \in 1 .. n |-> PendingPart(ts[i])], n)
BondIn(rec) == IF rec = None THEN 0 ELSE rec.bond
BondsIn(ag) == SumFunctionOnSet([a \in Agents |-> BondIn(ag[a])], Agents)
FloatIn(ps) == SumFunctionOnSet([r \in Regions |-> P!available(ps[r])], Regions)

CustodyFine ==
    /\ token[Escrow] >= OwedOn(e_transfers, e_next_id)
    /\ token[Registry] >= BondsIn(r_agents)
    /\ token[Pool] = FloatIn(p_pools)
    /\ \A r \in Regions : P!available(p_pools[r]) >= 0

\* Every pending amount is a natural number, and so is their sum.
LEMMA OwedType ==
    ASSUME NEW n \in Nat, NEW ts, \A i \in 1 .. n : ts[i] \in Sent
    PROVE  /\ \A i \in 1 .. n : PendingPart(ts[i]) \in Int
           /\ OwedOn(ts, n) \in Int
<1> DEFINE f == [i \in 1 .. n |-> PendingPart(ts[i])]
<1>1. \A i \in 1 .. n : PendingPart(ts[i]) \in Int
  BY DEF PendingPart, Sent, E!Transfer
<1>2. \A i \in 1 .. n : f[i] \in Int
  BY <1>1
<1> HIDE DEF f
<1>3. PrefixSum(f, n) \in Int
  BY <1>2, SumType
<1> QED
  BY <1>1, <1>3 DEF OwedOn, f

LEMMA OwedAfterCreate ==
    ASSUME NEW n \in Nat, NEW ts, NEW us,
           \A i \in 1 .. n : us[i] = ts[i], us[n + 1].status = "Pending"
    PROVE  OwedOn(us, n + 1) = OwedOn(ts, n) + us[n + 1].amount
<1> DEFINE f == [i \in 1 .. n |-> PendingPart(ts[i])]
           g == [i \in 1 .. n + 1 |-> PendingPart(us[i])]
<1>1. g[n + 1] = us[n + 1].amount /\ \A i \in 1 .. n : f[i] = g[i]
  BY DEF PendingPart
<1> HIDE DEF f, g
<1>2. PrefixSum(g, n + 1) = PrefixSum(f, n) + g[n + 1]
  BY <1>1, SumExtend
<1> QED
  BY <1>1, <1>2 DEF OwedOn, f, g

LEMMA OwedAfterSettle ==
    ASSUME NEW n \in Nat, NEW ts, NEW us, NEW k \in 1 .. n,
           \A i \in 1 .. n : ts[i] \in Sent /\ us[i] \in Sent,
           \A i \in 1 .. n : i # k => us[i] = ts[i],
           ts[k].status = "Pending", us[k].status # "Pending"
    PROVE  OwedOn(us, n) = OwedOn(ts, n) - ts[k].amount
<1> DEFINE f == [i \in 1 .. n |-> PendingPart(ts[i])]
           g == [i \in 1 .. n |-> PendingPart(us[i])]
<1>1. \A i \in 1 .. n : f[i] \in Int /\ g[i] \in Int
  BY OwedType
<1>2. f[k] = ts[k].amount /\ g[k] = 0 /\ \A i \in 1 .. n : i # k => f[i] = g[i]
  BY DEF PendingPart
<1> HIDE DEF f, g
<1>3. DifferAt(f, g, n, k)
  BY <1>1, <1>2 DEF DifferAt
<1>4. PrefixSum(g, n) = (PrefixSum(f, n) - f[k]) + g[k]
  BY <1>3, SumUpdate
<1>5. PrefixSum(f, n) \in Int
  BY <1>1, SumType
<1>6. PrefixSum(g, n) = PrefixSum(f, n) - ts[k].amount
  BY <1>1, <1>2, <1>4, <1>5
<1> QED
  BY <1>6 DEF OwedOn, f, g

LEMMA BondsAfter ==
    ASSUME NEW ag \in [Agents -> R!Agent \cup {None}], NEW a \in Agents, NEW rec \in R!Agent
    PROVE  /\ BondsIn(ag) \in Int
           /\ BondsIn([ag EXCEPT ![a] = rec]) = BondsIn(ag) + (rec.bond - BondIn(ag[a]))
           /\ BondIn(ag[a]) \in Nat /\ rec.bond \in Nat
<1> DEFINE f == [x \in Agents |-> BondIn(ag[x])]
           g == [x \in Agents |-> BondIn([ag EXCEPT ![a] = rec][x])]
           d == rec.bond - BondIn(ag[a])
<1>1. \A x \in Agents : BondIn(ag[x]) \in Nat
  BY DEF BondIn, R!Agent
<1>2. rec # None /\ rec.bond \in Nat
  BY NoneIsNoRecord DEF R!Agent
<1>3. /\ g[a] = rec.bond /\ f[a] = BondIn(ag[a])
      /\ \A x \in Agents : x # a => f[x] = g[x]
  BY <1>2 DEF BondIn
<1>4. \A x \in Agents : f[x] \in Int /\ g[x] \in Int
  BY <1>1, <1>2, <1>3
<1>5. d \in Int /\ g[a] = f[a] + d
  BY <1>1, <1>2, <1>3
<1> HIDE DEF f, g, d
<1>6. SumFunctionOnSet(g, Agents) = SumFunctionOnSet(f, Agents) + d
  BY <1>3, <1>4, <1>5, PartiesAreFinite, SetSumBump
<1>7. SumFunctionOnSet(f, Agents) \in Int
  BY <1>4, PartiesAreFinite, SetSumType
<1> QED
  BY <1>1, <1>2, <1>6, <1>7 DEF BondsIn, f, g, d

LEMMA FloatAfter ==
    ASSUME NEW ps \in [Regions -> PoolRecord], NEW r \in Regions, NEW pool \in PoolRecord
    PROVE  /\ FloatIn(ps) \in Int
           /\ FloatIn([ps EXCEPT ![r] = pool]) =
                 FloatIn(ps) + (P!available(pool) - P!available(ps[r]))
           /\ P!available(ps[r]) \in Int /\ P!available(pool) \in Int
<1> DEFINE f == [x \in Regions |-> P!available(ps[x])]
           g == [x \in Regions |-> P!available([ps EXCEPT ![r] = pool][x])]
           d == P!available(pool) - P!available(ps[r])
<1>1. P!available(pool) \in Int /\ \A x \in Regions : P!available(ps[x]) \in Int
  BY DEF P!available, PoolRecord
<1>2. /\ g[r] = P!available(pool) /\ f[r] = P!available(ps[r])
      /\ \A x \in Regions : x # r => f[x] = g[x]
  OBVIOUS
<1>3. \A x \in Regions : f[x] \in Int /\ g[x] \in Int
  BY <1>1, <1>2
<1>4. d \in Int /\ g[r] = f[r] + d
  BY <1>1, <1>2
<1> HIDE DEF f, g, d
<1>5. SumFunctionOnSet(g, Regions) = SumFunctionOnSet(f, Regions) + d
  BY <1>2, <1>3, <1>4, PartiesAreFinite, SetSumBump
<1>6. SumFunctionOnSet(f, Regions) \in Int
  BY <1>3, PartiesAreFinite, SetSumType
<1> QED
  BY <1>1, <1>5, <1>6 DEF FloatIn, f, g, d

LEMMA HoldersHold ==
    ASSUME NEW b \in [Holders -> Nat]
    PROVE  b[Escrow] \in Nat /\ b[Registry] \in Nat /\ b[Pool] \in Nat
  BY DEF Holders

LEMMA CustodyStep ==
    ASSUME NetTypes, Shape, LedgerFine, CustodyFine
    PROVE  CustodyFine'
<1>1. /\ token[Escrow] \in Nat /\ token[Registry] \in Nat /\ token[Pool] \in Nat
      /\ token'[Escrow] \in Nat /\ token'[Registry] \in Nat /\ token'[Pool] \in Nat
  BY HoldersHold DEF NetTypes, LedgerFine
<1>2. /\ e_next_id \in Nat /\ DOMAIN e_transfers = 1 .. e_next_id
      /\ \A i \in 1 .. e_next_id : e_transfers[i] \in Sent
  BY DEF NetTypes, EscrowTypes
<1>3. OwedOn(e_transfers, e_next_id) \in Int
  BY <1>2, OwedType
<1>4. CASE \E t : Creates(t)
  <2>1. PICK t : Creates(t)
    BY <1>4
  <2> DEFINE n == e_next_id
  <2>2. /\ t.id = n + 1 /\ t.amount \in Nat /\ e_next_id' = n + 1
        /\ e_transfers' = [i \in 1 .. n + 1 |-> IF i = t.id THEN t ELSE e_transfers[i]]
    BY <2>1 DEF Creates, Sent, E!Transfer
  <2>3. /\ e_transfers'[n + 1] = t /\ t.status = "Pending"
        /\ \A i \in 1 .. n : e_transfers'[i] = e_transfers[i]
    BY <1>2, <2>1, <2>2 DEF Creates
  <2>4. OwedOn(e_transfers', n + 1) = OwedOn(e_transfers, n) + t.amount
    BY <1>2, <2>3, OwedAfterCreate
  <2>5. token'[Escrow] >= OwedOn(e_transfers', e_next_id')
    BY <1>1, <1>3, <2>1, <2>2, <2>4 DEF CustodyFine, Creates
  <2> QED
    BY <2>1, <2>5 DEF CustodyFine, Creates, RegistryStill, PoolStill
<1>5. CASE \E i, u : Settles(i, u)
  <2>1. PICK i, u : Settles(i, u)
    BY <1>5
  <2>2. /\ i \in 1 .. e_next_id /\ e_next_id' = e_next_id /\ u \in Sent
        /\ e_transfers[i].status = "Pending" /\ u.status # "Pending"
        /\ u.amount = e_transfers[i].amount /\ u.amount \in Nat
        /\ e_transfers' = [e_transfers EXCEPT ![i] = u]
    BY <2>1 DEF Settles, Sent, E!Transfer
  <2>3. /\ e_transfers'[i] = u
        /\ \A j \in 1 .. e_next_id : j # i => e_transfers'[j] = e_transfers[j]
    BY <1>2, <2>2
  <2>4. \A j \in 1 .. e_next_id : e_transfers[j] \in Sent /\ e_transfers'[j] \in Sent
    BY <1>2, <2>2, <2>3
  <2>5. OwedOn(e_transfers', e_next_id) = OwedOn(e_transfers, e_next_id) - u.amount
    <3>1. /\ e_next_id \in Nat /\ i \in 1 .. e_next_id
          /\ e_transfers[i].status = "Pending" /\ e_transfers'[i].status # "Pending"
          /\ \A j \in 1 .. e_next_id : j # i => e_transfers'[j] = e_transfers[j]
      BY <1>2, <2>2, <2>3
    <3>2. OwedOn(e_transfers', e_next_id) =
             OwedOn(e_transfers, e_next_id) - e_transfers[i].amount
      BY <2>4, <3>1, OwedAfterSettle
    <3> QED
      BY <2>2, <3>2
  <2>6. token'[Escrow] >= OwedOn(e_transfers', e_next_id')
    BY <1>1, <1>3, <2>1, <2>2, <2>5 DEF CustodyFine, Settles
  <2> QED
    BY <2>1, <2>6 DEF CustodyFine, Settles, RegistryStill, PoolStill
<1>6. CASE \E a, rec : Records(a, rec)
  <2>1. PICK a, rec : Records(a, rec)
    BY <1>6
  <2>2. /\ a \in Agents /\ rec \in R!Agent /\ r_agents \in [Agents -> R!Agent \cup {None}]
        /\ r_agents' = [r_agents EXCEPT ![a] = rec]
        /\ token'[Registry] - token[Registry] >= rec.bond - BondIn(r_agents[a])
    BY <2>1 DEF NetTypes, Records, R!get_bond, BondIn
  <2>3. /\ BondsIn(r_agents) \in Int
        /\ BondsIn(r_agents') = BondsIn(r_agents) + (rec.bond - BondIn(r_agents[a]))
        /\ BondIn(r_agents[a]) \in Nat /\ rec.bond \in Nat
    BY <2>2, BondsAfter
  <2>4. token'[Registry] >= BondsIn(r_agents')
    BY <1>1, <2>2, <2>3 DEF CustodyFine
  <2> QED
    BY <2>1, <2>4 DEF CustodyFine, Records, EscrowStill, PoolStill
<1>7. CASE \E u, r, pool, owed : Lends(u, r, pool, owed)
  <2>1. PICK u, r, pool, owed : Lends(u, r, pool, owed)
    BY <1>7
  <2>2. /\ r \in Regions /\ pool \in PoolRecord /\ p_pools \in [Regions -> PoolRecord]
        /\ p_pools' = [p_pools EXCEPT ![r] = pool] /\ P!available(pool) >= 0
        /\ token'[Pool] - token[Pool] = P!available(pool) - P!available(p_pools[r])
    BY <2>1 DEF NetTypes, PoolTypes, Lends
  <2>3. /\ FloatIn(p_pools) \in Int
        /\ FloatIn(p_pools') = FloatIn(p_pools) + (P!available(pool) - P!available(p_pools[r]))
        /\ P!available(p_pools[r]) \in Int /\ P!available(pool) \in Int
    BY <2>2, FloatAfter
  <2>4. token'[Pool] = FloatIn(p_pools')
    BY <1>1, <2>2, <2>3 DEF CustodyFine
  <2>5. \A x \in Regions : P!available(p_pools'[x]) >= 0
    BY <2>2 DEF CustodyFine
  <2> QED
    BY <2>1, <2>4, <2>5 DEF CustodyFine, Lends, EscrowStill, RegistryStill
<1>8. CASE Elsewhere
  BY <1>8 DEF CustodyFine, Elsewhere, EscrowStill, RegistryStill
<1> QED
  BY <1>4, <1>5, <1>6, <1>7, <1>8 DEF Shape

\* CustodyFine is EachCustodyCovered, once the records have their types.
LEMMA CustodyIsCovered ==
    ASSUME NetTypes, CustodyFine
    PROVE  EachCustodyCovered
<1>1. E!CustodyCoversPending
  <2> DEFINE f == [i \in 1 .. e_next_id |-> PendingPart(e_transfers[i])]
  <2>1. bal[Token] = token
    BY DEF NetTypes
  <2>2. E!PendingAmount(Token) = f
    BY DEF NetTypes, EscrowTypes, Sent, E!Transfer, E!PendingAmount, E!is_pending, PendingPart
  <2>3. E!PrefixSum(E!PendingAmount(Token), e_next_id) = OwedOn(e_transfers, e_next_id)
    <3>1. OwedOn(e_transfers, e_next_id) = PrefixSum(f, e_next_id)
      BY DEF OwedOn
    <3> HIDE DEF f
    <3> QED
      BY <2>2, <3>1 DEF E!PrefixSum, PrefixSum
  <2> QED
    BY <2>1, <2>3 DEF CustodyFine, E!CustodyCoversPending
<1>2. token[Registry] >= R!TotalBonds
  <2>1. R!TotalBonds = BondsIn(r_agents)
    BY DEF R!TotalBonds, BondsIn, R!get_bond, BondIn, R!SumFunctionOnSet, SumFunctionOnSet,
           R!FoldFunctionOnSet, FoldFunctionOnSet, R!MapThenFoldSet, MapThenFoldSet
  <2> QED
    BY <2>1 DEF CustodyFine
<1>3. P!FloatIsSeparate
  <2>1. \A r \in Regions : p_pools[r] # None
    BY NoneIsNoRecord DEF NetTypes, PoolTypes
  <2> DEFINE f == [r \in Regions |-> P!available(p_pools[r])]
  <2>2. [r \in Regions |-> P!float_of(r)] = f
    BY <2>1 DEF P!float_of
  <2>3. token[Pool] = SumFunctionOnSet(f, Regions)
    BY DEF CustodyFine, FloatIn
  <2> HIDE DEF f
  <2>4. P!SumFunctionOnSet(f, Regions) = SumFunctionOnSet(f, Regions)
    BY DEF P!SumFunctionOnSet, SumFunctionOnSet,
           P!FoldFunctionOnSet, FoldFunctionOnSet, P!MapThenFoldSet, MapThenFoldSet
  <2> QED
    BY <2>2, <2>3, <2>4 DEF CustodyFine, P!FloatIsSeparate, P!Open
<1> QED
  BY <1>1, <1>2, <1>3 DEF EachCustodyCovered
----------------------------------------------------------------------------
(* Every call has one of the shapes. *)

\* The balances c after a payment of m that was covered by the balances b.
Paid(b, c, from, to, m) ==
    /\ c \in [Holders -> Nat]
    /\ c[from] = b[from] - m
    /\ c[to] = b[to] + m
    /\ \A x \in Holders : x # from /\ x # to => c[x] = b[x]

LEMMA PaymentEffect ==
    ASSUME NEW b \in [Holders -> Nat], NEW from \in Holders, NEW to \in Holders,
           from # to, NEW m \in Nat, b[from] >= m
    PROVE  Paid(b, [[b EXCEPT ![from] = @ - m] EXCEPT ![to] = @ + m], from, to, m)
<1> DEFINE d == [b EXCEPT ![from] = @ - m]
           c == [d EXCEPT ![to] = @ + m]
<1>1. /\ d \in [Holders -> Nat] /\ d[from] = b[from] - m
      /\ \A x \in Holders : x # from => d[x] = b[x]
  OBVIOUS
<1> HIDE DEF d
<1>2. /\ c \in [Holders -> Nat] /\ c[to] = d[to] + m
      /\ \A x \in Holders : x # to => c[x] = d[x]
  BY <1>1
<1> HIDE DEF c
<1>3. Paid(b, c, from, to, m)
  BY <1>1, <1>2 DEF Paid
<1> QED
  BY <1>3 DEF c, d

\* A payment made by the registry or the pool.
LEMMA TransferPays ==
    ASSUME NetTypes, NEW from \in Holders, NEW to \in Holders, from # to, NEW m \in Nat,
           R!TokenTransfer(from, to, m) \/ P!TokenTransfer(from, to, m), seenByEscrow
    PROVE  LedgerFine /\ Paid(token, token', from, to, m)
<1>1. /\ token \in [Holders -> Nat] /\ token[from] >= m
      /\ token' = [[token EXCEPT ![from] = @ - m] EXCEPT ![to] = @ + m]
  BY DEF NetTypes, R!TokenTransfer, P!TokenTransfer
<1>2. Paid(token, token', from, to, m)
  BY <1>1, PaymentEffect
<1> QED
  BY <1>2 DEF LedgerFine, Paid, seenByEscrow

\* A payment made by the escrow, which names the token.
LEMMA EscrowPays ==
    ASSUME NEW b \in [Holders -> Nat], NEW from \in Holders, NEW to \in Holders,
           from # to, NEW m \in Nat, b[from] >= m
    PROVE  \E c : /\ E!TokenTransfer([t \in {Token} |-> b], Token, from, to, m)
                        = [t \in {Token} |-> c]
                  /\ Paid(b, c, from, to, m)
<1> DEFINE c == [[b EXCEPT ![from] = @ - m] EXCEPT ![to] = @ + m]
<1>1. Paid(b, c, from, to, m)
  BY PaymentEffect
<1>2. E!TokenTransfer([t \in {Token} |-> b], Token, from, to, m)
         = [[t \in {Token} |-> b] EXCEPT ![Token] = c]
  BY DEF E!TokenTransfer
<1> HIDE DEF c
<1>3. [[t \in {Token} |-> b] EXCEPT ![Token] = c] = [t \in {Token} |-> c]
  OBVIOUS
<1> QED
  BY <1>1, <1>2, <1>3

\* Who is who.
LEMMA AddressesDiffer ==
    /\ Escrow \in Holders /\ Registry \in Holders /\ Pool \in Holders
    /\ Treasury \in Holders /\ Senders \subseteq Holders /\ Agents \subseteq Holders
    /\ Escrow # Registry /\ Escrow # Pool /\ Registry # Pool
    /\ \A x \in Senders \cup Agents \cup {Treasury} : x \notin {Escrow, Registry, Pool}
  BY ContractsAreDistinct DEF Holders, Parties

\* Trustlines, payments between accounts, attestations, the clock, the ratio.
LEMMA ElsewhereCalls ==
    ASSUME NetTypes
    PROVE  /\ \A x : change_trust(x) => Elsewhere /\ LedgerFine
           /\ \A s \in Senders : mint(s, INITIAL_SUPPLY) => Elsewhere /\ LedgerFine
           /\ \A s \in Senders, a \in Agents :
                 token_transfer(s, a, AGENT_TOP_UP) => Elsewhere /\ LedgerFine
           /\ \A s, x, e : publish_attestation(s, x, e) => Elsewhere /\ LedgerFine
           /\ \A b \in Ratios : set_collateral_ratio(b) => Elsewhere /\ LedgerFine
           /\ Tick => Elsewhere /\ LedgerFine
<1> USE DEF escrowVars, registryVars, hookVars, poolVars, tokenVars
<1> DEFINE Calm == /\ UNCHANGED <<e_config, e_next_id, e_transfers, r_treasury, r_agents,
                                  h_daily_volume, p_pools, p_exposure>>
                   /\ secured' = secured /\ p_config' = p_config
                   /\ now' \in 0 .. MaxTime
           Apart == \A x \in {Escrow, Registry, Pool} : token'[x] = token[x]
<1>1. p_config \in P!PoolConfig /\ p_config.collateral_ratio_bps \in Nat
  BY RatioType DEF NetTypes, PoolTypes
<1>2. ASSUME Calm, Apart PROVE Elsewhere
  BY <1>1, <1>2 DEF Elsewhere, EscrowStill, RegistryStill, HookStill
<1>3. token \in [Holders -> Nat] /\ bal = [t \in {Token} |-> token] /\ now \in 0 .. MaxTime
  BY DEF NetTypes
<1>4. ASSUME NEW x, change_trust(x) PROVE Elsewhere /\ LedgerFine
  BY <1>2, <1>3, <1>4 DEF change_trust, LedgerFine
<1>5. ASSUME NEW s \in Senders, mint(s, INITIAL_SUPPLY) PROVE Elsewhere /\ LedgerFine
  <2>1. token' = [token EXCEPT ![s] = @ + INITIAL_SUPPLY] /\ INITIAL_SUPPLY \in Nat
    BY <1>5, ScriptsFitTheNetwork DEF mint
  <2>2. token' \in [Holders -> Nat] /\ Apart
    BY <1>3, <2>1, AddressesDiffer
  <2>3. Calm
    BY <1>3, <1>5 DEF mint
  <2> QED
    BY <1>2, <1>5, <2>2, <2>3 DEF mint, LedgerFine, seenByEscrow
<1>6. ASSUME NEW s \in Senders, NEW a \in Agents, token_transfer(s, a, AGENT_TOP_UP)
      PROVE  Elsewhere /\ LedgerFine
  <2>1. CASE s # a
    <3>1. LedgerFine /\ Paid(token, token', s, a, AGENT_TOP_UP)
      BY <1>6, <2>1, TransferPays, AddressesDiffer, ScriptsFitTheNetwork DEF token_transfer
    <3>2. Apart
      BY <3>1, AddressesDiffer DEF Paid
    <3>3. Calm
      BY <1>3, <1>6 DEF token_transfer
    <3> QED
      BY <1>2, <3>1, <3>2, <3>3
  <2>2. CASE s = a
    <3>1. /\ AGENT_TOP_UP \in Nat /\ token[s] >= AGENT_TOP_UP /\ s \in Holders
          /\ token' = [[token EXCEPT ![s] = @ - AGENT_TOP_UP] EXCEPT ![s] = @ + AGENT_TOP_UP]
      BY <1>6, <2>2, AddressesDiffer, ScriptsFitTheNetwork DEF token_transfer, R!TokenTransfer
    <3>2. token' = token
      BY <1>3, <3>1
    <3>3. Calm
      BY <1>3, <1>6 DEF token_transfer
    <3> QED
      BY <1>2, <1>3, <1>6, <3>2, <3>3 DEF token_transfer, LedgerFine, seenByEscrow
  <2> QED
    BY <2>1, <2>2
<1>7. ASSUME NEW s, NEW x, NEW e, publish_attestation(s, x, e) PROVE Elsewhere /\ LedgerFine
  BY <1>2, <1>3, <1>7
     DEF publish_attestation, H!publish_attestation, H!volumeVars, LedgerFine
<1>8. ASSUME NEW b \in Ratios, set_collateral_ratio(b) PROVE Elsewhere /\ LedgerFine
  <2>1. /\ P!validate_ratio(b) /\ p_config' = [p_config EXCEPT !.collateral_ratio_bps = b]
        /\ UNCHANGED <<p_pools, p_exposure, token>>
    BY <1>8 DEF set_collateral_ratio, P!set_collateral_ratio, P!write_config, P!accounts
  <2>2. /\ p_config' \in P!PoolConfig
        /\ p_config'.collateral_ratio_bps = b /\ b \in Nat
    <3>1. b \in P!MIN_COLLATERAL_RATIO_BPS .. P!MAX_COLLATERAL_RATIO_BPS
      BY <2>1 DEF P!validate_ratio
    <3>2. b \in Nat
      BY ConfigurationIsValid
    <3> QED
      BY <1>1, <2>1, <3>1, <3>2 DEF P!PoolConfig
  <2>3. \/ secured' = {}
        \/ secured' = secured /\ p_config'.collateral_ratio_bps <= p_config.collateral_ratio_bps
    BY <1>1, <1>8, <2>2 DEF set_collateral_ratio
  <2> QED
    BY <1>3, <1>8, <2>1, <2>2, <2>3
       DEF set_collateral_ratio, Elsewhere, EscrowStill, RegistryStill, HookStill, LedgerFine
<1>9. ASSUME Tick PROVE Elsewhere /\ LedgerFine
  BY <1>2, <1>3, <1>9, TimesAreNaturals DEF Tick, H!Tick, H!volumeVars, LedgerFine
<1> QED
  BY <1>4, <1>5, <1>6, <1>7, <1>8, <1>9

\* create_transfer: the escrow's record and the hook's commitment are one step.
LEMMA CreateCall ==
    ASSUME NetTypes, NEW s \in Senders, NEW k \in Codes, NEW e \in Int,
           create_transfer(s, AMOUNT, E!Sha256(k), CORRIDOR, e)
    PROVE  Shape /\ LedgerFine
<1> DEFINE n == e_next_id
           t == [id |-> n + 1, sender |-> s, amount |-> AMOUNT, token |-> Token,
                 claim_hash |-> E!Sha256(k), corridor_id |-> CORRIDOR, expiry |-> e,
                 status |-> "Pending", created_at |-> now, settled_at |-> 0,
                 claimed_by |-> None]
<1>1. /\ E!create_transfer(s, AMOUNT, Token, E!Sha256(k), CORRIDOR, e, "ok")
      /\ H!commit_transfer(Escrow, s, AMOUNT, CORRIDOR)
      /\ token' = bal'[Token]
      /\ UNCHANGED <<registryVars, poolVars, secured>>
  BY DEF create_transfer, seenByOthers
<1>2. /\ n \in Nat /\ DOMAIN e_transfers = 1 .. n
      /\ token \in [Holders -> Nat] /\ bal = [x \in {Token} |-> token] /\ now \in Nat
  BY TimesAreNaturals DEF NetTypes, EscrowTypes
<1>3. /\ AMOUNT > 0 /\ e > now /\ bal[Token][s] >= AMOUNT
      /\ bal' = E!TokenTransfer(bal, Token, s, Escrow, AMOUNT)
      /\ e_next_id' = n + 1
      /\ e_transfers' = [i \in DOMAIN e_transfers \cup {t.id} |->
                             IF i = t.id THEN t ELSE e_transfers[i]]
      /\ UNCHANGED <<e_config, now>>
  BY <1>1 DEF E!create_transfer, E!set_transfer
<1>4. AMOUNT \in Nat \ {0} /\ e \in Nat /\ CORRIDOR \in Corridors
  BY <1>2, <1>3, ScriptsFitTheNetwork
<1>5. t \in Sent
  <2>1. E!Sha256(k) \in E!Digests /\ s \in Parties
    BY DEF E!Digests, Parties
  <2> QED
    BY <1>2, <1>4, <2>1 DEF Sent, E!Transfer, E!TransferStatus
<1>6. /\ t.id = n + 1 /\ t.status = "Pending" /\ t.created_at = now /\ t.amount = AMOUNT
      /\ t.sender = s /\ t.corridor_id = CORRIDOR
  OBVIOUS
<1> HIDE DEF t
<1>7. e_transfers' = [i \in 1 .. e_next_id' |-> IF i = t.id THEN t ELSE e_transfers[i]]
  <2>1. DOMAIN e_transfers \cup {t.id} = 1 .. e_next_id'
    BY <1>2, <1>3, <1>6
  <2> QED
    BY <1>3, <2>1
<1>8. PICK c : /\ bal' = [x \in {Token} |-> c]
               /\ Paid(token, c, s, Escrow, AMOUNT)
  <2>1. token[s] >= AMOUNT
    BY <1>2, <1>3
  <2> QED
    BY <1>2, <1>3, <1>4, <2>1, EscrowPays, AddressesDiffer
<1>9. LedgerFine /\ Paid(token, token', s, Escrow, AMOUNT)
  <2>1. token' = c
    BY <1>1, <1>8
  <2> QED
    BY <1>8, <2>1 DEF LedgerFine, Paid
<1>10. /\ token'[Escrow] = token[Escrow] + AMOUNT
       /\ token'[Registry] = token[Registry] /\ token'[Pool] = token[Pool]
  BY <1>9, AddressesDiffer DEF Paid
<1>11. h_daily_volume' =
          [h_daily_volume EXCEPT ![<<t.sender, t.corridor_id, H!day_of(now)>>] = @ + t.amount]
  BY <1>1, <1>6 DEF H!commit_transfer, H!headroom
<1>12. Creates(t)
  BY <1>1, <1>3, <1>5, <1>6, <1>7, <1>10, <1>11
     DEF Creates, RegistryStill, PoolStill, registryVars, poolVars
<1> QED
  BY <1>9, <1>12 DEF Shape

\* What every settlement leaves behind, once its payments are known.
LEMMA SettlementShape ==
    ASSUME NetTypes, NEW i \in 1 .. e_next_id, NEW u,
           E!is_pending(e_transfers[i]),
           u \in Sent, u.id = i, u.status # "Pending",
           <<u.sender, u.amount, u.token, u.corridor_id, u.created_at>> =
              <<e_transfers[i].sender, e_transfers[i].amount, e_transfers[i].token,
                e_transfers[i].corridor_id, e_transfers[i].created_at>>,
           E!set_transfer(u), UNCHANGED <<e_config, e_next_id, now, secured>>,
           UNCHANGED <<registryVars, hookVars, poolVars>>,
           token'[Escrow] = token[Escrow] - u.amount,
           token'[Registry] = token[Registry], token'[Pool] = token[Pool]
    PROVE  Shape
<1>1. DOMAIN e_transfers = 1 .. e_next_id
  BY DEF NetTypes, EscrowTypes
<1>2. e_transfers' = [e_transfers EXCEPT ![i] = u]
  <2>1. DOMAIN e_transfers \cup {u.id} = DOMAIN e_transfers
    BY <1>1
  <2>2. e_transfers' = [j \in DOMAIN e_transfers |-> IF j = i THEN u ELSE e_transfers[j]]
    BY <2>1 DEF E!set_transfer
  <2> QED
    BY <2>2
<1>3. Settles(i, u)
  BY <1>2 DEF Settles, E!is_pending, RegistryStill, HookStill, PoolStill,
              registryVars, hookVars, poolVars
<1> QED
  BY <1>3 DEF Shape

\* A stored transfer, as the calls that settle it see it.
LEMMA StoredTransfer ==
    ASSUME NetTypes, NEW i \in DOMAIN e_transfers
    PROVE  /\ i \in 1 .. e_next_id
           /\ e_transfers[i] \in E!Transfer /\ e_transfers[i].sender \in Senders
           /\ e_transfers[i].id = i /\ e_transfers[i].amount \in Nat
           /\ e_transfers[i].token = Token
           /\ e_transfers[i] \in Sent /\ now \in Nat
<1>1. i \in 1 .. e_next_id /\ e_transfers[i] \in Sent /\ e_transfers[i].id = i
  BY DEF NetTypes, EscrowTypes
<1>2. e_transfers[i] \in E!Transfer /\ e_transfers[i].sender \in Senders
  BY <1>1 DEF Sent
<1> QED
  BY <1>1, <1>2, TimesAreNaturals DEF NetTypes, E!Transfer

\* A cancellation or a refund pays the sender back whole.
LEMMA ReleaseCall ==
    ASSUME NetTypes, NEW i \in DOMAIN e_transfers, E!is_pending(e_transfers[i]),
           NEW status \in {"Cancelled", "Refunded"},
           E!release(e_transfers[i], e_transfers[i].sender, status),
           UNCHANGED <<e_config, e_next_id, now, secured>>,
           UNCHANGED <<registryVars, hookVars, poolVars>>, seenByOthers
    PROVE  Shape /\ LedgerFine
<1> DEFINE t == e_transfers[i]
           u == [t EXCEPT !.status = status, !.settled_at = now]
<1>1. /\ i \in 1 .. e_next_id /\ t \in E!Transfer /\ t.sender \in Senders /\ t.id = i
      /\ t.amount \in Nat /\ t.token = Token /\ now \in Nat
  BY StoredTransfer
<1>2. /\ bal[t.token][Escrow] >= t.amount
      /\ bal' = E!TokenTransfer(bal, t.token, Escrow, t.sender, t.amount)
      /\ E!set_transfer(u)
  BY DEF E!release
<1>3. token \in [Holders -> Nat] /\ bal = [x \in {Token} |-> token] /\ token' = bal'[Token]
  BY DEF NetTypes, seenByOthers
<1>4. PICK c : bal' = [x \in {Token} |-> c] /\ Paid(token, c, Escrow, t.sender, t.amount)
  <2>1. token[Escrow] >= t.amount
    BY <1>1, <1>2, <1>3
  <2> HIDE DEF t
  <2> QED
    BY <1>1, <1>2, <1>3, <2>1, EscrowPays, AddressesDiffer
<1>5. token' = c
  BY <1>3, <1>4
<1>6. /\ token'[Escrow] = token[Escrow] - t.amount
      /\ token'[Registry] = token[Registry] /\ token'[Pool] = token[Pool]
  BY <1>1, <1>4, <1>5, AddressesDiffer DEF Paid
<1>7. LedgerFine
  BY <1>4, <1>5 DEF LedgerFine, Paid
<1>8. /\ u \in E!Transfer /\ u.id = i /\ u.status # "Pending"
      /\ <<u.sender, u.amount, u.token, u.corridor_id, u.created_at>> =
            <<t.sender, t.amount, t.token, t.corridor_id, t.created_at>>
  BY <1>1 DEF E!Transfer, E!TransferStatus
<1>9. u \in Sent
  BY <1>1, <1>8 DEF Sent
<1> HIDE DEF u
<1>10. Shape
  BY <1>1, <1>2, <1>6, <1>8, <1>9, SettlementShape
<1> QED
  BY <1>7, <1>10

\* The fee leaves something for the agent, or at least takes no more than all.
LEMMA FeeFits ==
    ASSUME NetTypes, NEW amount \in Nat
    PROVE  /\ E!fee_for(amount, e_config.fee_bps) \in Nat
           /\ E!fee_for(amount, e_config.fee_bps) <= amount
<1> DEFINE p == amount * FEE_BPS
<1>1. e_config.fee_bps = FEE_BPS /\ FEE_BPS \in Nat /\ FEE_BPS <= 500
  BY ConfigurationIsValid DEF NetTypes, Deployed, E!MAX_FEE_BPS
<1>2. p \in Nat /\ p <= amount * 500
  BY <1>1
<1> HIDE DEF p
<1>3. (p \div 10000) \in Nat /\ (p \div 10000) * 10000 <= p
  BY <1>2
<1>4. amount * 500 <= amount * 10000
  OBVIOUS
<1>5. E!fee_for(amount, e_config.fee_bps) = p \div 10000
  BY <1>1 DEF E!fee_for, p
<1> QED
  BY <1>2, <1>3, <1>4, <1>5

\* A claim pays the agent and the treasury, together the whole amount.
LEMMA ClaimCall ==
    ASSUME NetTypes, NEW a \in Agents, NEW i \in Nat, claim_transfer(a, i, CLAIM_CODE)
    PROVE  Shape /\ LedgerFine
<1> DEFINE t == e_transfers[i]
           fee == E!fee_for(t.amount, e_config.fee_bps)
           payout == t.amount - fee
           paid == E!TokenTransfer(bal, t.token, Escrow, a, payout)
           u == [t EXCEPT !.status = "Claimed", !.settled_at = now, !.claimed_by = a]
<1>1. /\ i \in DOMAIN e_transfers
      /\ E!is_pending(t)
      /\ bal[t.token][Escrow] >= payout
      /\ fee > 0 => /\ paid[t.token][Escrow] >= fee
                    /\ bal' = E!TokenTransfer(paid, t.token, Escrow, e_config.treasury, fee)
      /\ ~(fee > 0) => bal' = paid
      /\ E!set_transfer(u)
      /\ UNCHANGED <<e_config, e_next_id, now>>
  BY DEF claim_transfer, E!claim_transfer
<1>2. /\ token' = bal'[Token]
      /\ UNCHANGED <<registryVars, hookVars, poolVars>> /\ secured' = secured
  BY DEF claim_transfer, seenByOthers
<1>3. /\ i \in 1 .. e_next_id /\ t \in E!Transfer /\ t.sender \in Senders /\ t.id = i
      /\ t.amount \in Nat /\ t.token = Token /\ now \in Nat
  BY <1>1, StoredTransfer
<1>4. fee \in Nat /\ payout \in Nat /\ fee + payout = t.amount
  BY <1>3, FeeFits
<1>5. /\ token \in [Holders -> Nat] /\ bal = [x \in {Token} |-> token]
      /\ e_config.treasury = Treasury
  BY DEF NetTypes, Deployed
<1>6. /\ u \in E!Transfer /\ u.id = i /\ u.status # "Pending"
      /\ <<u.sender, u.amount, u.token, u.corridor_id, u.created_at>> =
            <<t.sender, t.amount, t.token, t.corridor_id, t.created_at>>
  <2>1. a \in Parties \cup {Registry, Pool}
    BY DEF Parties
  <2> QED
    BY <1>3, <2>1 DEF E!Transfer, E!TransferStatus
<1>7. u \in Sent
  BY <1>3, <1>6 DEF Sent
<1> HIDE DEF u, fee, payout, t
<1>8. PICK c : paid = [x \in {Token} |-> c] /\ Paid(token, c, Escrow, a, payout)
  <2>1. token[Escrow] >= payout /\ paid = E!TokenTransfer(bal, Token, Escrow, a, payout)
    BY <1>1, <1>3, <1>5
  <2> HIDE DEF paid
  <2> QED
    BY <1>4, <1>5, <2>1, EscrowPays, AddressesDiffer
<1> HIDE DEF paid
<1>9. /\ c \in [Holders -> Nat] /\ c[Escrow] = token[Escrow] - payout
      /\ c[Registry] = token[Registry] /\ c[Pool] = token[Pool]
  BY <1>8, AddressesDiffer DEF Paid
<1>10. /\ LedgerFine /\ token'[Escrow] = token[Escrow] - t.amount
       /\ token'[Registry] = token[Registry] /\ token'[Pool] = token[Pool]
  <2>1. CASE fee > 0
    <3>1. /\ c[Escrow] >= fee
          /\ bal' = E!TokenTransfer(paid, Token, Escrow, Treasury, fee)
      BY <1>1, <1>3, <1>5, <1>8, <2>1
    <3>2. PICK d : bal' = [x \in {Token} |-> d] /\ Paid(c, d, Escrow, Treasury, fee)
      BY <1>4, <1>8, <1>9, <3>1, EscrowPays, AddressesDiffer
    <3>3. token' = d
      BY <1>2, <3>2
    <3>4. /\ d \in [Holders -> Nat] /\ d[Escrow] = c[Escrow] - fee
          /\ d[Registry] = c[Registry] /\ d[Pool] = c[Pool]
      BY <3>2, AddressesDiffer DEF Paid
    <3>5. token[Escrow] \in Nat
      BY <1>5, AddressesDiffer
    <3> QED
      BY <1>4, <1>9, <3>2, <3>3, <3>4, <3>5 DEF LedgerFine
  <2>2. CASE ~(fee > 0)
    <3>1. token' = c /\ payout = t.amount
      BY <1>1, <1>2, <1>3, <1>4, <1>8, <2>2
    <3> QED
      BY <1>1, <1>8, <1>9, <2>2, <3>1 DEF LedgerFine
  <2> QED
    BY <2>1, <2>2
<1>11. Shape
  <2>1. token'[Escrow] = token[Escrow] - u.amount
    BY <1>6, <1>10
  <2> QED
    BY <1>1, <1>2, <1>3, <1>6, <1>7, <1>10, <2>1, SettlementShape DEF t
<1> QED
  BY <1>10, <1>11

\* Cancellations and refunds.
LEMMA ReleaseCalls ==
    ASSUME NetTypes
    PROVE  /\ \A s, i : cancel_transfer(s, i) => Shape /\ LedgerFine
           /\ \A i : refund_expired(i) => Shape /\ LedgerFine
<1>1. ASSUME NEW s, NEW i, cancel_transfer(s, i)
      PROVE  Shape /\ LedgerFine
  <2>1. /\ i \in DOMAIN e_transfers /\ E!is_pending(e_transfers[i])
        /\ E!release(e_transfers[i], e_transfers[i].sender, "Cancelled")
        /\ UNCHANGED <<e_config, e_next_id, now>>
    BY <1>1 DEF cancel_transfer, E!cancel_transfer
  <2>2. /\ seenByOthers /\ UNCHANGED <<registryVars, hookVars, poolVars>>
        /\ secured' = secured
    BY <1>1 DEF cancel_transfer
  <2> QED
    BY <2>1, <2>2, ReleaseCall
<1>2. ASSUME NEW i, refund_expired(i)
      PROVE  Shape /\ LedgerFine
  <2>1. /\ i \in DOMAIN e_transfers /\ E!is_pending(e_transfers[i])
        /\ E!release(e_transfers[i], e_transfers[i].sender, "Refunded")
        /\ UNCHANGED <<e_config, e_next_id, now>>
    BY <1>2 DEF refund_expired, E!refund_expired
  <2>2. /\ seenByOthers /\ UNCHANGED <<registryVars, hookVars, poolVars>>
        /\ secured' = secured
    BY <1>2 DEF refund_expired
  <2> QED
    BY <2>1, <2>2, ReleaseCall
<1> QED
  BY <1>1, <1>2

\* A status change touches no money.
LEMMA StatusCalls ==
    ASSUME NetTypes, NEW a \in Agents,
           authorize_agent(a) \/ suspend_agent(a) \/ revoke_agent(a)
    PROVE  Shape /\ LedgerFine
<1>1. PICK status \in R!AgentStatus : r_agents' = [r_agents EXCEPT ![a].status = status]
  BY DEF authorize_agent, suspend_agent, revoke_agent, R!authorize_agent,
         R!suspend_agent, R!revoke_agent, R!apply_transition, R!AgentStatus
<1>2. /\ r_agents[a] # None /\ r_treasury' = r_treasury /\ token' = token
      /\ bal' = bal /\ secured' = secured /\ unaffected
  BY DEF authorize_agent, suspend_agent, revoke_agent, R!authorize_agent,
         R!suspend_agent, R!revoke_agent, R!operatorVars
<1> DEFINE old == r_agents[a]
           rec == [old EXCEPT !.status = status]
<1>3. old \in R!Agent /\ r_agents' = [r_agents EXCEPT ![a] = rec]
  BY <1>1, <1>2 DEF NetTypes
<1>4. rec \in R!Agent /\ rec.bond = old.bond /\ old.bond \in Nat
  BY <1>1, <1>3 DEF R!Agent
<1>5. R!get_bond(a) = rec.bond
  BY <1>2, <1>4 DEF R!get_bond
<1> HIDE DEF rec, old
<1>6. LedgerFine
  BY <1>2 DEF NetTypes, LedgerFine
<1>7. token[Registry] \in Nat
  BY AddressesDiffer DEF NetTypes
<1>8. token'[Registry] - token[Registry] >= rec.bond - R!get_bond(a)
  BY <1>2, <1>4, <1>5, <1>7
<1>9. Records(a, rec)
  BY <1>2, <1>3, <1>4, <1>5, <1>8
     DEF Records, EscrowStill, HookStill, PoolStill, unaffected, escrowVars, hookVars, poolVars
<1> QED
  BY <1>6, <1>9 DEF Shape

\* The money of a bond and the record of it, once the payment is known.
LEMMA BondShape ==
    ASSUME NetTypes, NEW a \in Agents, NEW rec \in R!Agent,
           r_agents' = [r_agents EXCEPT ![a] = rec], r_treasury' = r_treasury,
           secured' = without(a), unaffected,
           token'[Registry] - token[Registry] >= rec.bond - R!get_bond(a),
           rec.bond > R!get_bond(a) => a \in known,
           token'[Escrow] = token[Escrow], token'[Pool] = token[Pool]
    PROVE  Shape
<1>1. Records(a, rec)
  BY DEF Records, EscrowStill, HookStill, PoolStill, unaffected, escrowVars, hookVars, poolVars
<1> QED
  BY <1>1 DEF Shape

\* A registration pays the whole new bond in; what a revoked agent left behind
\* stays with the registry.
LEMMA RegisterCall ==
    ASSUME NetTypes, NEW a \in Agents \cap known, register_agent(a, REGION, BOND)
    PROVE  Shape /\ LedgerFine
<1> DEFINE rec == [region_id |-> REGION, bond |-> BOND, status |-> "Pending",
                   slash_count |-> IF r_agents[a] = None THEN 0 ELSE r_agents[a].slash_count]
<1>1. /\ R!TokenTransfer(a, Registry, BOND)
      /\ r_agents' = [r_agents EXCEPT ![a] = rec] /\ r_treasury' = r_treasury
  BY DEF register_agent, R!register_agent, R!operatorVars
<1>2. seenByEscrow /\ secured' = without(a) /\ unaffected
  BY DEF register_agent
<1>3. rec \in R!Agent /\ rec.bond = BOND /\ BOND \in Nat
  <2>1. r_agents[a] # None => r_agents[a].slash_count \in Nat
    BY DEF NetTypes, R!Agent
  <2> QED
    BY <2>1, ScriptsFitTheNetwork DEF R!Agent, R!AgentStatus
<1> HIDE DEF rec
<1>4. LedgerFine /\ Paid(token, token', a, Registry, BOND)
  BY <1>1, <1>2, <1>3, TransferPays, AddressesDiffer
<1>5. /\ token'[Registry] = token[Registry] + BOND /\ token[Registry] \in Nat
      /\ token'[Escrow] = token[Escrow] /\ token'[Pool] = token[Pool]
  BY <1>4, AddressesDiffer DEF Paid, NetTypes
<1>6. R!get_bond(a) \in Nat
  BY BondType DEF NetTypes
<1>7. token'[Registry] - token[Registry] >= rec.bond - R!get_bond(a)
  BY <1>3, <1>5, <1>6
<1> QED
  BY <1>1, <1>2, <1>3, <1>4, <1>5, <1>7, BondShape

\* A slash pays the treasury, a withdrawal pays the agent: in both the record
\* loses what the registry paid.
LEMMA BondLossCalls ==
    ASSUME NetTypes, NEW a \in Agents, NEW m \in Bonded,
           slash_agent(a, m) \/ withdraw_bond(a, m)
    PROVE  Shape /\ LedgerFine
<1> DEFINE old == r_agents[a]
<1>1. /\ m > 0 /\ old # None /\ m <= old.bond /\ r_treasury' = r_treasury
      /\ seenByEscrow /\ secured' = without(a) /\ unaffected
  BY DEF slash_agent, withdraw_bond, R!slash_agent, R!withdraw_bond, R!operatorVars
<1>2. m \in Nat /\ old \in R!Agent /\ old.bond \in Nat /\ R!get_bond(a) = old.bond
  <2>1. m \in Int
    BY AmountsAreIntegers
  <2>2. old \in R!Agent
    BY <1>1 DEF NetTypes
  <2>3. old.bond \in Nat
    BY <2>2 DEF R!Agent
  <2> QED
    BY <1>1, <2>1, <2>2, <2>3 DEF R!get_bond
<1>3. PICK to \in Holders : to \notin {Escrow, Registry, Pool} /\ R!TokenTransfer(Registry, to, m)
  <2>1. CASE slash_agent(a, m)
    <3>1. r_treasury = Treasury
      BY DEF NetTypes, Deployed
    <3>2. R!TokenTransfer(Registry, Treasury, m)
      BY <2>1, <3>1 DEF slash_agent, R!slash_agent
    <3> QED
      BY <3>2, AddressesDiffer
  <2>2. CASE withdraw_bond(a, m)
    <3>1. R!TokenTransfer(Registry, a, m)
      BY <2>2 DEF withdraw_bond, R!withdraw_bond
    <3> QED
      BY <3>1, AddressesDiffer
  <2> QED
    BY <2>1, <2>2
<1>4. PICK rec \in R!Agent : rec.bond = old.bond - m /\ r_agents' = [r_agents EXCEPT ![a] = rec]
  <2>1. CASE slash_agent(a, m)
    <3> DEFINE status == IF /\ old.status = "Authorized"
                            /\ ~R!accepts_bond(r_regions[old.region_id], old.bond - m)
                         THEN "Suspended" ELSE old.status
               rec == [old EXCEPT !.bond = old.bond - m, !.status = status,
                                  !.slash_count = @ + 1]
    <3>1. r_agents' = [r_agents EXCEPT ![a] = rec]
      BY <2>1 DEF slash_agent, R!slash_agent
    <3>2. status \in R!AgentStatus
      BY <1>2 DEF R!Agent, R!AgentStatus
    <3>3. old.bond - m \in Nat /\ old.slash_count + 1 \in Nat
      BY <1>1, <1>2 DEF R!Agent
    <3> HIDE DEF status, old
    <3>4. rec \in R!Agent /\ rec.bond = old.bond - m
      BY <1>2, <3>2, <3>3 DEF R!Agent
    <3> QED
      BY <3>1, <3>4
  <2>2. CASE withdraw_bond(a, m)
    <3> DEFINE rec == [old EXCEPT !.bond = @ - m]
    <3>1. r_agents' = [r_agents EXCEPT ![a] = rec]
      BY <1>2, <2>2 DEF withdraw_bond, R!withdraw_bond, NetTypes
    <3>2. rec \in R!Agent /\ rec.bond = old.bond - m
      BY <1>1, <1>2 DEF R!Agent
    <3> QED
      BY <3>1, <3>2
  <2> QED
    BY <2>1, <2>2
<1> HIDE DEF old
<1>5. LedgerFine /\ Paid(token, token', Registry, to, m)
  BY <1>1, <1>2, <1>3, TransferPays, AddressesDiffer
<1>6. /\ token'[Registry] = token[Registry] - m /\ token[Registry] \in Nat
      /\ token'[Escrow] = token[Escrow] /\ token'[Pool] = token[Pool]
  BY <1>3, <1>5, AddressesDiffer DEF Paid, NetTypes
<1>7. /\ token'[Registry] - token[Registry] >= rec.bond - R!get_bond(a)
      /\ ~(rec.bond > R!get_bond(a))
  BY <1>1, <1>2, <1>4, <1>6
<1> QED
  BY <1>1, <1>4, <1>5, <1>6, <1>7, BondShape

\* The float that a call moved and the region's record of it, once the payment
\* is known.
LEMMA FloatShape ==
    ASSUME NetTypes, NEW u \in Users, NEW r \in Regions, NEW pool \in PoolRecord,
           NEW owed \in Nat,
           p_pools' = [p_pools EXCEPT ![r] = pool],
           p_exposure' = [p_exposure EXCEPT ![u][r] = owed],
           UNCHANGED <<p_config, now>>,
           UNCHANGED <<escrowVars, registryVars, hookVars>>,
           P!available(pool) >= 0,
           token'[Pool] - token[Pool] = P!available(pool) - P!available(p_pools[r]),
           \/ secured' = secured /\ owed <= p_exposure[u][r]
           \/ /\ u \in Agents /\ secured' = secured \cup {<<u, r>>}
              /\ R!get_bond(u) >= P!bond_requirement(owed),
           token'[Escrow] = token[Escrow], token'[Registry] = token[Registry]
    PROVE  Shape
<1>1. Lends(u, r, pool, owed)
  BY DEF Lends, EscrowStill, HookStill, RegistryStill, escrowVars, registryVars, hookVars
<1> QED
  BY <1>1 DEF Shape

LEMMA PoolFields ==
    ASSUME NEW pool \in PoolRecord
    PROVE  /\ pool.total_deposited \in Int /\ pool.total_drawn \in Int
           /\ pool.total_shares \in Int /\ pool.depositor_count \in Int
  BY DEF PoolRecord

\* A region's record with one of its totals changed.
LEMMA PoolWrites ==
    ASSUME NEW pool \in PoolRecord, NEW x \in Int
    PROVE  /\ [pool EXCEPT !.total_drawn = x] \in PoolRecord
           /\ P!available([pool EXCEPT !.total_drawn = x]) = pool.total_deposited - x
  BY DEF PoolRecord, P!available

LEMMA DepositCall ==
    ASSUME NetTypes, CustodyFine, NEW s \in Senders, NEW r \in Regions, NEW m \in Floats,
           deposit_liquidity(s, r, m)
    PROVE  Shape /\ LedgerFine
<1> DEFINE old == p_pools[r]
           minted == P!shares_for(old, m)
           count == IF p_shares[s][r] = 0 THEN P!saturating_add(old.depositor_count)
                    ELSE old.depositor_count
           pool == [old EXCEPT !.total_deposited = @ + m, !.total_shares = @ + minted,
                               !.depositor_count = count]
<1>1. /\ m > 0 /\ P!TokenTransfer(s, Pool, m)
      /\ p_pools' = [p_pools EXCEPT ![r] = pool]
      /\ UNCHANGED <<p_config, p_exposure>>
  BY DEF deposit_liquidity, P!deposit_liquidity
<1>2. /\ seenByEscrow /\ secured' = secured /\ now' = now
      /\ UNCHANGED <<escrowVars, registryVars, hookVars>>
  BY DEF deposit_liquidity
<1>3. /\ m \in Nat /\ old \in PoolRecord /\ P!available(old) >= 0
      /\ s \in Users /\ p_exposure[s][r] \in Nat
      /\ p_exposure' = [p_exposure EXCEPT ![s][r] = p_exposure[s][r]]
  <2>1. m \in Int
    BY AmountsAreIntegers
  <2>2. p_exposure \in [Users -> [Regions -> Nat]] /\ s \in Users
    BY DEF NetTypes, PoolTypes, Users
  <2>3. p_exposure = [p_exposure EXCEPT ![s][r] = p_exposure[s][r]]
    BY <2>2
  <2> QED
    BY <1>1, <2>1, <2>2, <2>3 DEF NetTypes, PoolTypes, CustodyFine
<1> HIDE DEF old
<1>4. /\ old.total_deposited \in Int /\ old.total_drawn \in Int
      /\ old.total_shares \in Int /\ old.depositor_count \in Int
  BY <1>3, PoolFields
<1>5. minted \in Int
  <2> DEFINE y == m * old.total_shares
             z == old.total_deposited
  <2>1. y \in Int /\ z \in Int
    BY <1>3, <1>4
  <2> HIDE DEF y, z
  <2>2. z > 0 => y \div z \in Int
    BY <2>1
  <2>3. minted = IF old.total_shares <= 0 \/ z <= 0 THEN m ELSE y \div z
    BY DEF P!shares_for, y, z
  <2> QED
    BY <1>3, <2>1, <2>2, <2>3
<1>6. count \in Int
  BY <1>4 DEF P!saturating_add, U32Max
<1> HIDE DEF minted, count
<1>7. pool \in PoolRecord /\ P!available(pool) = P!available(old) + m
  <2> DEFINE dep == old.total_deposited + m
             sh == old.total_shares + minted
  <2>1. dep \in Int /\ sh \in Int
    BY <1>3, <1>4, <1>5
  <2>2. pool = [old EXCEPT !.total_deposited = dep, !.total_shares = sh,
                           !.depositor_count = count]
    OBVIOUS
  <2> HIDE DEF dep, sh, pool
  <2>3. /\ pool \in PoolRecord /\ pool.total_deposited = dep
        /\ pool.total_drawn = old.total_drawn
    BY <1>3, <1>6, <2>1, <2>2 DEF PoolRecord
  <2> QED
    BY <1>3, <1>4, <2>3 DEF P!available, dep
<1>8. P!available(old) \in Int
  BY <1>4 DEF P!available
<1> HIDE DEF pool
<1>9. LedgerFine /\ Paid(token, token', s, Pool, m)
  BY <1>1, <1>2, <1>3, TransferPays, AddressesDiffer
<1>10. /\ token'[Pool] = token[Pool] + m /\ token[Pool] \in Nat
       /\ token'[Escrow] = token[Escrow] /\ token'[Registry] = token[Registry]
  BY <1>9, AddressesDiffer DEF Paid, NetTypes
<1>11. /\ P!available(pool) >= 0
       /\ token'[Pool] - token[Pool] = P!available(pool) - P!available(p_pools[r])
       /\ p_exposure[s][r] <= p_exposure[s][r]
  BY <1>3, <1>7, <1>8, <1>10 DEF old
<1> QED
  BY <1>1, <1>2, <1>3, <1>7, <1>9, <1>10, <1>11, FloatShape

LEMMA DrawCall ==
    ASSUME NetTypes, NEW a \in Agents, NEW r \in Regions, NEW m \in Floats,
           draw_liquidity(a, r, m)
    PROVE  Shape /\ LedgerFine
<1> DEFINE old == p_pools[r]
           drawn == old.total_drawn + m
           owed == p_exposure[a][r] + m
           pool == [old EXCEPT !.total_drawn = drawn]
<1>1. /\ m > 0 /\ m <= P!available(old) /\ P!TokenTransfer(Pool, a, m)
      /\ R!get_bond(a) >= P!bond_requirement(owed)
      /\ p_pools' = [p_pools EXCEPT ![r].total_drawn = drawn]
      /\ p_exposure' = [p_exposure EXCEPT ![a][r] = owed]
      /\ p_config' = p_config
  BY DEF draw_liquidity, P!draw_liquidity
<1>2. /\ seenByEscrow /\ secured' = secured \cup {<<a, r>>} /\ now' = now
      /\ UNCHANGED <<escrowVars, registryVars, hookVars>>
  BY DEF draw_liquidity
<1>3. /\ m \in Nat /\ old \in PoolRecord /\ a \in Users /\ owed \in Nat
      /\ p_pools' = [p_pools EXCEPT ![r] = pool]
  <2>1. m \in Int
    BY AmountsAreIntegers
  <2>2. p_exposure \in [Users -> [Regions -> Nat]] /\ a \in Users
    BY DEF NetTypes, PoolTypes, Users
  <2>3. p_exposure[a][r] \in Nat
    BY <2>2
  <2> QED
    BY <1>1, <2>1, <2>2, <2>3 DEF NetTypes, PoolTypes
<1> HIDE DEF old, owed
<1>4. old.total_deposited \in Int /\ old.total_drawn \in Int /\ drawn \in Int
  BY <1>3, PoolFields
<1> HIDE DEF drawn
<1>5. pool \in PoolRecord /\ P!available(pool) = old.total_deposited - drawn
  BY <1>3, <1>4, PoolWrites
<1> HIDE DEF pool
<1>6. LedgerFine /\ Paid(token, token', Pool, a, m)
  BY <1>1, <1>2, <1>3, TransferPays, AddressesDiffer
<1>7. /\ token'[Pool] = token[Pool] - m /\ token[Pool] \in Nat
      /\ token'[Escrow] = token[Escrow] /\ token'[Registry] = token[Registry]
  BY <1>6, AddressesDiffer DEF Paid, NetTypes
<1>8. P!available(old) = old.total_deposited - old.total_drawn
  BY DEF P!available
<1>9. /\ P!available(pool) >= 0
      /\ token'[Pool] - token[Pool] = P!available(pool) - P!available(old)
  BY <1>1, <1>3, <1>4, <1>5, <1>7, <1>8 DEF drawn
<1>10. Shape
  BY <1>1, <1>2, <1>3, <1>5, <1>7, <1>9, FloatShape DEF old
<1> QED
  BY <1>6, <1>10

LEMMA RepayCall ==
    ASSUME NetTypes, CustodyFine, NEW a \in Agents, NEW r \in Regions, NEW m \in Floats,
           repay_liquidity(a, r, m)
    PROVE  Shape /\ LedgerFine
<1> DEFINE old == p_pools[r]
           drawn == old.total_drawn - m
           owed == p_exposure[a][r] - m
           pool == [old EXCEPT !.total_drawn = drawn]
<1>1. /\ m > 0 /\ m <= p_exposure[a][r] /\ P!TokenTransfer(a, Pool, m)
      /\ p_pools' = [p_pools EXCEPT ![r].total_drawn = @ - m]
      /\ p_exposure' = [p_exposure EXCEPT ![a][r] = @ - m]
      /\ p_config' = p_config
  BY DEF repay_liquidity, P!repay_liquidity
<1>2. /\ seenByEscrow /\ secured' = secured /\ now' = now
      /\ UNCHANGED <<escrowVars, registryVars, hookVars>>
  BY DEF repay_liquidity
<1>3. /\ m \in Nat /\ old \in PoolRecord /\ a \in Users /\ P!available(old) >= 0
      /\ owed \in Nat /\ owed <= p_exposure[a][r]
      /\ p_pools' = [p_pools EXCEPT ![r] = pool]
      /\ p_exposure' = [p_exposure EXCEPT ![a][r] = owed]
  <2>1. m \in Int
    BY AmountsAreIntegers
  <2>2. p_exposure \in [Users -> [Regions -> Nat]] /\ a \in Users
    BY DEF NetTypes, PoolTypes, Users
  <2>3. p_exposure[a][r] \in Nat
    BY <2>2
  <2>4. p_pools \in [Regions -> PoolRecord]
    BY DEF NetTypes, PoolTypes
  <2>5. p_exposure' = [p_exposure EXCEPT ![a][r] = owed]
    BY <1>1, <2>2
  <2>6. p_pools' = [p_pools EXCEPT ![r] = pool]
    BY <1>1, <2>4
  <2> QED
    BY <1>1, <2>1, <2>2, <2>3, <2>4, <2>5, <2>6 DEF CustodyFine
<1> HIDE DEF old, owed
<1>4. old.total_deposited \in Int /\ old.total_drawn \in Int /\ drawn \in Int
  BY <1>3, PoolFields
<1> HIDE DEF drawn
<1>5. pool \in PoolRecord /\ P!available(pool) = old.total_deposited - drawn
  BY <1>3, <1>4, PoolWrites
<1> HIDE DEF pool
<1>6. LedgerFine /\ Paid(token, token', a, Pool, m)
  BY <1>1, <1>2, <1>3, TransferPays, AddressesDiffer
<1>7. /\ token'[Pool] = token[Pool] + m /\ token[Pool] \in Nat
      /\ token'[Escrow] = token[Escrow] /\ token'[Registry] = token[Registry]
  BY <1>6, AddressesDiffer DEF Paid, NetTypes
<1>8. P!available(old) = old.total_deposited - old.total_drawn
  BY DEF P!available
<1>9. /\ P!available(pool) >= 0
      /\ token'[Pool] - token[Pool] = P!available(pool) - P!available(old)
  BY <1>3, <1>4, <1>5, <1>7, <1>8 DEF drawn
<1>10. Shape
  <2>1. p_config' = p_config
    BY <1>1
  <2>2. P!available(old) = P!available(p_pools[r])
    BY DEF old
  <2>3. token'[Pool] - token[Pool] = P!available(pool) - P!available(p_pools[r])
    BY <1>9, <2>2
  <2> QED
    BY <1>2, <1>3, <1>5, <1>7, <1>9, <2>1, <2>3, FloatShape
<1> QED
  BY <1>6, <1>10

LEMMA CallsHaveShapes ==
    ASSUME NetTypes, CustodyFine, NetworkStep \/ UNCHANGED network
    PROVE  Shape /\ LedgerFine
<1>1. Elsewhere /\ LedgerFine => Shape /\ LedgerFine
  BY DEF Shape
<1>2. CASE \/ \E s \in Senders : change_trust(s) \/ mint(s, INITIAL_SUPPLY)
           \/ \E a \in Agents : change_trust(a)
           \/ change_trust(Treasury)
           \/ \E s \in Senders, a \in Agents : token_transfer(s, a, AGENT_TOP_UP)
           \/ \E s \in Senders : publish_attestation(s, "Standard", MaxTime + WINDOW)
  BY <1>1, <1>2, ElsewhereCalls
<1>3. CASE \E a \in Agents : authorize_agent(a)
  BY <1>3, StatusCalls
<1>4. CASE \E a \in Agents \cap known : register_agent(a, REGION, BOND)
  BY <1>4, RegisterCall
<1>5. CASE \E s \in Senders, k \in Codes, e \in Int :
              create_transfer(s, AMOUNT, E!Sha256(k), CORRIDOR, e)
  BY <1>5, CreateCall
<1>6. CASE \E a \in Agents, i \in Nat : claim_transfer(a, i, CLAIM_CODE)
  BY <1>6, ClaimCall
<1>7. CASE Outside
  <2>1. CASE \/ \E s \in Senders, i \in 1 .. MaxTransfers : cancel_transfer(s, i)
             \/ \E i \in 1 .. MaxTransfers : refund_expired(i)
    BY <2>1, ReleaseCalls
  <2>2. CASE \E a \in Agents : suspend_agent(a) \/ revoke_agent(a)
    BY <2>2, StatusCalls
  <2>3. CASE \E a \in Agents, m \in Bonded : slash_agent(a, m) \/ withdraw_bond(a, m)
    BY <2>3, BondLossCalls
  <2>4. CASE \E s \in Senders, r \in Regions, m \in Floats : deposit_liquidity(s, r, m)
    BY <2>4, DepositCall
  <2>5. CASE \E a \in Agents, r \in Regions, m \in Floats : draw_liquidity(a, r, m)
    BY <2>5, DrawCall
  <2>6. CASE \E a \in Agents, r \in Regions, m \in Floats : repay_liquidity(a, r, m)
    BY <2>6, RepayCall
  <2>7. CASE (\E b \in Ratios : set_collateral_ratio(b)) \/ Tick
    BY <1>1, <2>7, ElsewhereCalls
  <2> QED
    BY <1>7, <2>1, <2>2, <2>3, <2>4, <2>5, <2>6, <2>7 DEF Outside
<1>8. CASE UNCHANGED network
  <2>1. p_config \in P!PoolConfig /\ p_config.collateral_ratio_bps \in Nat
    BY RatioType DEF NetTypes, PoolTypes
  <2>2. Elsewhere /\ LedgerFine
    BY <1>8, <2>1 DEF network, vars, escrowVars, registryVars, hookVars, poolVars, tokenVars,
                      Elsewhere, EscrowStill, RegistryStill, HookStill, LedgerFine, NetTypes
  <2> QED
    BY <1>1, <2>2
<1> QED
  BY <1>2, <1>3, <1>4, <1>5, <1>6, <1>7, <1>8 DEF NetworkStep
----------------------------------------------------------------------------
(* The inductive invariant and the theorems. *)

NetInv ==
    /\ ScriptsFine
    /\ NetTypes
    /\ CustodyFine
    /\ VolumeMatchesEscrow
    /\ UncoveredOnlyAfterBondLoss
    /\ NoBondUnderLostKey

LEMMA NetInvInit ==
    ASSUME BringUpInit PROVE NetInv
<1> DEFINE empty == [total_deposited |-> 0, total_drawn |-> 0, total_shares |-> 0,
                     depositor_count |-> 0, active |-> TRUE, utilization_cap_bps |-> CAP_BPS]
<1>1. /\ e_config.fee_bps = FEE_BPS /\ e_config.treasury = Treasury /\ r_treasury = Treasury
       /\ e_next_id = 0 /\ e_transfers = << >>
       /\ r_agents = [a \in Agents |-> None]
  BY DEF BringUpInit, Init
<1>2. h_daily_volume = [k \in Senders \X Corridors \X H!Days |-> 0]
  BY DEF BringUpInit, Init
<1>3. /\ p_config = [agent_registry |-> Registry, collateral_ratio_bps |-> RATIO_BPS,
                      default_utilization_cap_bps |-> CAP_BPS, paused |-> FALSE]
       /\ p_pools = [r \in Regions |-> empty]
       /\ p_exposure = [u \in Senders \cup Agents |-> [r \in Regions |-> 0]]
  BY DEF BringUpInit, Init
<1>4. /\ token = [a \in Holders |-> 0] /\ bal = [t \in {Token} |-> token]
       /\ now = 0 /\ secured = {}
  BY DEF BringUpInit, Init
<1>5. issue = NoIssue /\ smoke = NoRun /\ orphan = NoRun
  BY DEF BringUpInit
<1>6. ScriptsFine
  BY <1>5, NoRunIsFine DEF ScriptsFine, NoIssue, Issue
<1>7. NetTypes
  <2>1. Deployed
    BY <1>1 DEF Deployed
  <2>2. EscrowTypes
    BY <1>1 DEF EscrowTypes
  <2>3. p_config \in P!PoolConfig
    <3>1. /\ RATIO_BPS \in P!MIN_COLLATERAL_RATIO_BPS .. P!MAX_COLLATERAL_RATIO_BPS
          /\ CAP_BPS \in 1 .. P!MAX_UTILIZATION_CAP_BPS
      BY ConfigurationIsValid DEF P!validate_ratio, P!valid_cap, P!MAX_UTILIZATION_CAP_BPS
    <3> QED
      BY <1>3, <3>1 DEF P!PoolConfig
  <2>4. p_pools \in [Regions -> PoolRecord] /\ p_exposure \in [Users -> [Regions -> Nat]]
    BY <1>3, ConfigurationIsValid DEF PoolRecord, Users
  <2>5. r_agents \in [Agents -> R!Agent \cup {None}]
    BY <1>1
  <2>6. h_daily_volume \in [Senders \X Corridors \X H!Days -> Nat]
    BY <1>2
  <2>7. token \in [Holders -> Nat] /\ bal = [t \in {Token} |-> token]
    BY <1>4
  <2>8. now \in 0 .. MaxTime /\ secured \subseteq Agents \X Regions
    BY <1>4, TimesAreNaturals
  <2> QED
    BY <2>1, <2>2, <2>3, <2>4, <2>5, <2>6, <2>7, <2>8 DEF NetTypes, PoolTypes
<1>8. CustodyFine
  <2>1. token[Escrow] = 0 /\ token[Registry] = 0 /\ token[Pool] = 0
    BY <1>4, AddressesDiffer
  <2>2. OwedOn(e_transfers, e_next_id) = 0
    BY <1>1, SumEmpty DEF OwedOn
  <2>3. BondsIn(r_agents) = 0
    <3> DEFINE f == [a \in Agents |-> BondIn(r_agents[a])]
    <3>1. \A a \in Agents : f[a] = 0
      BY <1>1 DEF BondIn
    <3> HIDE DEF f
    <3>2. SumFunctionOnSet(f, Agents) = 0
      BY <3>1, PartiesAreFinite, SetSumZero
    <3> QED
      BY <3>2 DEF BondsIn, f
  <2>4. \A r \in Regions : P!available(p_pools[r]) = 0
    BY <1>3 DEF P!available
  <2>5. FloatIn(p_pools) = 0
    <3> DEFINE f == [r \in Regions |-> P!available(p_pools[r])]
    <3>1. \A r \in Regions : f[r] = 0
      BY <2>4
    <3> HIDE DEF f
    <3>2. SumFunctionOnSet(f, Regions) = 0
      BY <3>1, PartiesAreFinite, SetSumZero
    <3> QED
      BY <3>2 DEF FloatIn, f
  <2> QED
    BY <2>1, <2>2, <2>3, <2>4, <2>5 DEF CustodyFine
<1>9. VolumeMatchesEscrow
  <2> SUFFICES ASSUME NEW s \in Senders, NEW c \in Corridors, NEW d \in H!Days
               PROVE  h_daily_volume[<<s, c, d>>] = PrefixSum(CreatedOn(s, c, d), e_next_id)
    BY DEF VolumeMatchesEscrow
  <2>1. h_daily_volume[<<s, c, d>>] = 0
    BY <1>2
  <2>2. PrefixSum(CreatedOn(s, c, d), 0) = 0
    BY SumEmpty
  <2>3. e_next_id = 0
    BY <1>1
  <2> QED
    BY <2>1, <2>2, <2>3
<1>10. UncoveredOnlyAfterBondLoss
  BY <1>4 DEF UncoveredOnlyAfterBondLoss
<1>11. NoBondUnderLostKey
  <2>1. \A a \in Agents : R!get_bond(a) = 0
    BY <1>1 DEF R!get_bond
  <2> QED
    BY <2>1 DEF NoBondUnderLostKey
<1> QED
  BY <1>6, <1>7, <1>8, <1>9, <1>10, <1>11 DEF NetInv

LEMMA NetInvStep ==
    ASSUME NetInv, [BringUpNext]_allVars PROVE NetInv'
<1>1. NetTypes /\ CustodyFine /\ ScriptsFine
  BY DEF NetInv
<1>2. Readable
  BY <1>1, TodayHasABucket DEF NetTypes, EscrowTypes, Readable
<1>3. (NetworkStep \/ UNCHANGED network) /\ known \subseteq known'
  BY <1>1, <1>2, ScriptsDriveNetwork
<1>4. Shape /\ LedgerFine
  BY <1>1, <1>3, CallsHaveShapes
<1>5. NetTypes'
  BY <1>1, <1>4, ShapeKeepsTypes
<1>6. Readable'
  BY <1>5, TimesAreNaturals DEF NetTypes, EscrowTypes, Readable
<1>7. ScriptsFine'
  BY <1>1, <1>2, <1>6, ScriptsStayFine
<1>8. CustodyFine'
  BY <1>1, <1>4, CustodyStep
<1>9. VolumeMatchesEscrow'
  BY <1>1, <1>4, VolumeStep DEF NetInv
<1>10. UncoveredOnlyAfterBondLoss'
  BY <1>1, <1>4, CoveredStep DEF NetInv
<1>11. NoBondUnderLostKey'
  BY <1>1, <1>3, <1>4, KnownStep DEF NetInv
<1> QED
  BY <1>5, <1>7, <1>8, <1>9, <1>10, <1>11 DEF NetInv

LEMMA NetInvAlways == BringUpSpec => []NetInv
<1>1. BringUpInit => NetInv
  BY NetInvInit
<1>2. NetInv /\ [BringUpNext]_allVars => NetInv'
  BY NetInvStep
<1> QED
  BY <1>1, <1>2, PTL DEF BringUpSpec

\* However many accounts use the network, whatever they, the operator and the
\* scripts call in whatever order, and whichever transaction lands late: the
\* escrow's balance covers every pending transfer (create_transfer,
\* claim_transfer, cancel_transfer, refund_expired), the registry's covers the
\* bonds on record (register_agent, slash_agent, withdraw_bond) and the pool's is
\* what its regions say is available (deposit, draw, repay), all out of one token.
THEOREM CustodyStaysCovered == BringUpSpec => []EachCustodyCovered
<1>1. NetInv => EachCustodyCovered
  BY CustodyIsCovered DEF NetInv
<1> QED
  BY <1>1, NetInvAlways, PTL

\* The hook's daily volume of each sender, corridor and day is what the escrow
\* took that day, because create_transfer and the commit_transfer it calls are
\* one step: for any number of transfers, and however they end.
THEOREM VolumeStaysMatched == BringUpSpec => []VolumeMatchesEscrow
<1>1. NetInv => VolumeMatchesEscrow
  BY DEF NetInv
<1> QED
  BY <1>1, NetInvAlways, PTL

\* A position that draw_liquidity let an agent take stays within its bond, at
\* the ratio in force, through any calls but those that cost the agent bond or
\* raise the ratio.
THEOREM DrawsStayCovered == BringUpSpec => []UncoveredOnlyAfterBondLoss
<1>1. NetInv => UncoveredOnlyAfterBondLoss
  BY DEF NetInv
<1> QED
  BY <1>1, NetInvAlways, PTL

\* Wherever a run of smoke-test.ts stops and whenever its last transaction
\* lands, a bond is on record only for an agent whose key was printed.
THEOREM BondKeysAreKept == BringUpSpec => []NoBondUnderLostKey
<1>1. NetInv => NoBondUnderLostKey
  BY DEF NetInv
<1> QED
  BY <1>1, NetInvAlways, PTL

-----------------------------------------------------------------------------
(* Deployment: the transactions of a run, by their places. *)

\* Two lists, one behind the other.
LEMMA Joined ==
    ASSUME NEW m \in Nat, NEW k \in Nat, NEW a, NEW b,
           a = [i \in 1..m |-> a[i]], b = [i \in 1..k |-> b[i]]
    PROVE  /\ a \o b = [i \in 1..(m + k) |-> (a \o b)[i]]
           /\ \A i \in 1..m : (a \o b)[i] = a[i]
           /\ \A i \in 1..k : (a \o b)[m + i] = b[i]
<1> DEFINE S == {a[i] : i \in 1..m} \cup {b[i] : i \in 1..k}
<1>1. /\ [i \in 1..m |-> a[i]] \in Seq(S) /\ Len([i \in 1..m |-> a[i]]) = m
      /\ [i \in 1..k |-> b[i]] \in Seq(S) /\ Len([i \in 1..k |-> b[i]]) = k
  <2>1. (\A i \in 1..m : a[i] \in S) /\ \A i \in 1..k : b[i] \in S
    OBVIOUS
  <2> HIDE DEF S
  <2> QED
    BY <2>1
<1>2. a \in Seq(S) /\ Len(a) = m /\ b \in Seq(S) /\ Len(b) = k
  BY <1>1, Zenon
<1> HIDE DEF S
<1>3. /\ a \o b \in Seq(S) /\ Len(a \o b) = m + k
      /\ \A i \in 1..(m + k) : (a \o b)[i] = IF i <= m THEN a[i] ELSE b[i - m]
  BY <1>2, ConcatProperties
<1>4. a \o b = [i \in 1..(m + k) |-> (a \o b)[i]]
  <2>1. DOMAIN (a \o b) = 1..(m + k) /\ a \o b = [i \in DOMAIN (a \o b) |-> (a \o b)[i]]
    BY <1>3
  <2> QED
    BY <2>1
<1>5. ASSUME NEW i \in 1..m PROVE (a \o b)[i] = a[i]
  BY <1>3
<1>6. ASSUME NEW i \in 1..k PROVE (a \o b)[m + i] = b[i]
  <2>1. m + i \in 1..(m + k) /\ ~(m + i <= m) /\ (m + i) - m = i
    OBVIOUS
  <2> QED
    BY <1>3, <2>1
<1> QED
  BY <1>4, <1>5, <1>6

\* The transactions of a run, by their places in the list.
Transactions(s, r, config, n, c, t) ==
    /\ {n, c, t} \subseteq Nat \ {0}
    /\ DOMAIN s = 1..(10 + 2 * n + c + t) /\ Len(s) = 10 + 2 * n + c + t
    /\ \A i \in 1..4 : s[i] = Tx(<<r, CONTRACTS[i]>>, "create", Absent)
    /\ s[5] = Tx(<<r, "registry">>, "initialize", Absent)
    /\ s[6] = Tx(<<r, "hook">>, "initialize", Absent)
    /\ s[7] = Tx(<<r, "pool">>, "initialize",
                 [registry |-> <<r, "registry">>, cap |-> config.defaultUtilizationCapBps])
    /\ s[8] = Tx(<<r, "escrow">>, "initialize",
                 [registry |-> <<r, "registry">>, hook |-> <<r, "hook">>,
                  feeBps |-> config.feeBps])
    /\ s[9] = Tx(<<r, "hook">>, "set_escrow", <<r, "escrow">>)
    /\ s[10] = Tx(<<r, "hook">>, "set_operator", Attester)
    /\ \A m \in 1..n :
          /\ s[9 + 2 * m] = Tx(<<r, "registry">>, "add_region", config.regions[m])
          /\ s[10 + 2 * m] = Tx(<<r, "pool">>, "open_region", config.regions[m])
    /\ \A m \in 1..c :
          s[10 + 2 * n + m] = Tx(<<r, "registry">>, "map_corridor", config.corridors[m])
    /\ \A m \in 1..t :
          s[10 + 2 * n + c + m] = TierCall(Instances(r), config.complianceTiers[m])

LEMMA NamesAre == Names = {"registry", "hook", "pool", "escrow"}
<1>1. DOMAIN CONTRACTS = 1..4 /\ CONTRACTS[1] = "registry" /\ CONTRACTS[2] = "hook"
      /\ CONTRACTS[3] = "pool" /\ CONTRACTS[4] = "escrow"
  BY DEF CONTRACTS
<1> QED
  BY <1>1 DEF Names, Range

LEMMA ListsOf ==
    ASSUME NEW config \in Configs
    PROVE  LET n == Len(config.regions)
               c == Len(config.corridors)
               t == Len(config.complianceTiers)
           IN  /\ {n, c, t} \subseteq Nat \ {0}
               /\ DOMAIN config.regions = 1..n /\ DOMAIN config.corridors = 1..c
               /\ DOMAIN config.complianceTiers = 1..t
<1>1. \A S : \A s \in Seq(S) \ {<< >>} : Len(s) \in Nat \ {0} /\ DOMAIN s = 1..Len(s)
  <2> SUFFICES ASSUME NEW S, NEW s \in Seq(S), s # << >>
               PROVE  Len(s) \in Nat \ {0} /\ DOMAIN s = 1..Len(s)
    OBVIOUS
  <2>1. Len(s) \in Nat /\ DOMAIN s = 1..Len(s)
    OBVIOUS
  <2>2. Len(s) # 0
    BY EmptySeq
  <2> QED
    BY <2>1, <2>2
<1>2. PICK A, B, C : /\ config.regions \in Seq(A) \ {<< >>}
                     /\ config.corridors \in Seq(B) \ {<< >>}
                     /\ config.complianceTiers \in Seq(C) \ {<< >>}
  BY ConfigsAreParsed
<1> QED
  BY <1>1, <1>2

LEMMA ScriptIs ==
    ASSUME NEW r, NEW config \in Configs
    PROVE  \E n, c, t : /\ n = Len(config.regions) /\ c = Len(config.corridors)
                        /\ t = Len(config.complianceTiers)
                        /\ Transactions(Script(r, config), r, config, n, c, t)
<1>1. PICK n, c, t : /\ n = Len(config.regions) /\ c = Len(config.corridors)
                     /\ t = Len(config.complianceTiers)
  OBVIOUS
<1>2. /\ n \in Nat \ {0} /\ c \in Nat \ {0} /\ t \in Nat \ {0}
      /\ DOMAIN config.regions = 1..n /\ DOMAIN config.corridors = 1..c
      /\ DOMAIN config.complianceTiers = 1..t
  BY <1>1, ListsOf
<1> DEFINE at == Instances(r)
           C == Creations(r)
           I == Initializations(at, config)
           W == Wiring(at)
           X == [i \in 1..(2 * n) |-> RegionCall(at, config.regions, i)]
           Y == [i \in 1..c |-> CorridorCall(at, config.corridors[i])]
           Z == [i \in 1..t |-> TierCall(at, config.complianceTiers[i])]
<1>3. /\ at["registry"] = <<r, "registry">> /\ at["hook"] = <<r, "hook">>
      /\ at["pool"] = <<r, "pool">> /\ at["escrow"] = <<r, "escrow">>
  BY NamesAre DEF Instances
<1>4. Script(r, config) = ((C \o I) \o W) \o ((X \o Y) \o Z)
  BY <1>1, <1>2 DEF Script, Configuration
<1>5. C = [i \in 1..4 |-> C[i]]
  BY DEF Creations, CONTRACTS
<1>6. I = [i \in 1..4 |-> I[i]]
  BY DEF Initializations
<1>7. W = [i \in 1..2 |-> W[i]]
  BY DEF Wiring
<1>8. /\ X = [i \in 1..(2 * n) |-> X[i]] /\ Y = [i \in 1..c |-> Y[i]]
      /\ Z = [i \in 1..t |-> Z[i]]
  OBVIOUS
<1>9. \A i \in 1..4 : C[i] = Tx(<<r, CONTRACTS[i]>>, "create", Absent)
  BY DEF Creations, CONTRACTS
<1>10. /\ I[1] = Tx(<<r, "registry">>, "initialize", Absent)
       /\ I[2] = Tx(<<r, "hook">>, "initialize", Absent)
       /\ I[3] = Tx(<<r, "pool">>, "initialize",
                    [registry |-> <<r, "registry">>,
                     cap |-> config.defaultUtilizationCapBps])
       /\ I[4] = Tx(<<r, "escrow">>, "initialize",
                    [registry |-> <<r, "registry">>, hook |-> <<r, "hook">>,
                     feeBps |-> config.feeBps])
  <2> HIDE DEF at
  <2> QED
    BY <1>3 DEF Initializations
<1>11. /\ W[1] = Tx(<<r, "hook">>, "set_escrow", <<r, "escrow">>)
       /\ W[2] = Tx(<<r, "hook">>, "set_operator", Attester)
  <2> HIDE DEF at
  <2> QED
    BY <1>3 DEF Wiring
<1>12. ASSUME NEW m \in 1..n
       PROVE  /\ 2 * m - 1 \in 1..(2 * n) /\ 2 * m \in 1..(2 * n)
              /\ X[2 * m - 1] = Tx(<<r, "registry">>, "add_region", config.regions[m])
              /\ X[2 * m] = Tx(<<r, "pool">>, "open_region", config.regions[m])
  <2>1. m \in Nat /\ 2 * m - 1 \in 1..(2 * n) /\ 2 * m \in 1..(2 * n)
    BY <1>2
  <2>2. (2 * m - 1) % 2 = 1 /\ ((2 * m - 1) + 1) \div 2 = m
    BY <2>1
  <2>3. (2 * m) % 2 = 0 /\ (2 * m) \div 2 = m
    BY <2>1
  <2>4. /\ X[2 * m - 1] = RegionCall(at, config.regions, 2 * m - 1)
        /\ X[2 * m] = RegionCall(at, config.regions, 2 * m)
    BY <2>1
  <2> HIDE DEF at, X
  <2>5. RegionCall(at, config.regions, 2 * m - 1) = Tx(at["registry"], "add_region", config.regions[m])
    BY <2>2 DEF RegionCall
  <2>6. RegionCall(at, config.regions, 2 * m) = Tx(at["pool"], "open_region", config.regions[m])
    BY <2>3 DEF RegionCall
  <2> QED
    BY <1>3, <2>1, <2>4, <2>5, <2>6
<1>13. \A m \in 1..c : Y[m] = Tx(<<r, "registry">>, "map_corridor", config.corridors[m])
  <2>1. \A m \in 1..c : Y[m] = CorridorCall(at, config.corridors[m])
    OBVIOUS
  <2> HIDE DEF at, Y
  <2> QED
    BY <1>3, <2>1 DEF CorridorCall
<1>14. \A m \in 1..t : Z[m] = TierCall(Instances(r), config.complianceTiers[m])
  OBVIOUS
<1> HIDE DEF at, C, I, W, X, Y, Z
<1>15. /\ C \o I = [i \in 1..8 |-> (C \o I)[i]]
       /\ \A i \in 1..4 : (C \o I)[i] = C[i] /\ (C \o I)[4 + i] = I[i]
  BY <1>5, <1>6, Joined
<1> DEFINE A == C \o I
           B == A \o W
           D == X \o Y
           G == D \o Z
           s == B \o G
<1>16. /\ B = [i \in 1..10 |-> B[i]]
       /\ \A i \in 1..8 : B[i] = A[i]
       /\ \A i \in 1..2 : B[8 + i] = W[i]
  <2>1. A = [i \in 1..8 |-> A[i]]
    BY <1>15
  <2> HIDE DEF A
  <2> QED
    BY <1>7, <2>1, Joined
<1>17. /\ D = [i \in 1..(2 * n + c) |-> D[i]]
       /\ \A i \in 1..(2 * n) : D[i] = X[i]
       /\ \A i \in 1..c : D[2 * n + i] = Y[i]
  <2>1. 2 * n \in Nat /\ c \in Nat
    BY <1>2
  <2> QED
    BY <1>8, <2>1, Joined
<1>18. /\ G = [i \in 1..(2 * n + c + t) |-> G[i]]
       /\ \A i \in 1..(2 * n + c) : G[i] = D[i]
       /\ \A i \in 1..t : G[2 * n + c + i] = Z[i]
  <2>1. 2 * n + c \in Nat /\ t \in Nat
    BY <1>2
  <2> HIDE DEF D
  <2> QED
    BY <1>8, <1>17, <2>1, Joined
<1>19. PICK l \in Nat : l = 2 * n + c + t
  BY <1>2
<1>20. /\ s = [i \in 1..(10 + l) |-> s[i]]
       /\ \A i \in 1..10 : s[i] = B[i]
       /\ \A i \in 1..l : s[10 + i] = G[i]
  <2>1. G = [i \in 1..l |-> G[i]]
    BY <1>18, <1>19
  <2>2. PICK k \in Nat : k = 10
    OBVIOUS
  <2>3. B = [i \in 1..k |-> B[i]] /\ l \in Nat
    BY <1>16, <1>19, <2>2
  <2> HIDE DEF B, G
  <2>4. /\ B \o G = [i \in 1..(k + l) |-> (B \o G)[i]]
        /\ \A i \in 1..k : (B \o G)[i] = B[i]
        /\ \A i \in 1..l : (B \o G)[k + i] = G[i]
    BY <2>1, <2>3, Joined
  <2> QED
    BY <2>2, <2>4
<1>21. Script(r, config) = s
  BY <1>4
<1> HIDE DEF A, B, D, G, s
<1>22. /\ \A i \in 1..4 : s[i] = C[i] /\ s[4 + i] = I[i]
       /\ \A i \in 1..2 : s[8 + i] = W[i]
  <2>1. ASSUME NEW i \in 1..4 PROVE s[i] = C[i] /\ s[4 + i] = I[i]
    <3>1. i \in 1..8 /\ 4 + i \in 1..8 /\ i \in 1..10 /\ 4 + i \in 1..10
      OBVIOUS
    <3>2. A[i] = C[i] /\ A[4 + i] = I[i]
      BY <1>15 DEF A
    <3>3. B[i] = A[i] /\ B[4 + i] = A[4 + i]
      BY <1>16, <3>1
    <3>4. s[i] = B[i] /\ s[4 + i] = B[4 + i]
      BY <1>20, <3>1
    <3> QED
      BY <3>2, <3>3, <3>4
  <2>2. ASSUME NEW i \in 1..2 PROVE s[8 + i] = W[i]
    BY <1>16, <1>20
  <2> QED
    BY <2>1, <2>2
<1>23. /\ \A i \in 1..(2 * n) : s[10 + i] = X[i]
       /\ \A i \in 1..c : s[10 + (2 * n + i)] = Y[i]
       /\ \A i \in 1..t : s[10 + (2 * n + c + i)] = Z[i]
  <2>1. ASSUME NEW i \in 1..(2 * n) PROVE s[10 + i] = X[i]
    <3>1. i \in 1..(2 * n + c) /\ i \in 1..l
      BY <1>2, <1>19
    <3> QED
      BY <1>17, <1>18, <1>20, <3>1
  <2>2. ASSUME NEW i \in 1..c PROVE s[10 + (2 * n + i)] = Y[i]
    <3>1. 2 * n + i \in 1..(2 * n + c) /\ 2 * n + i \in 1..l
      BY <1>2, <1>19
    <3> QED
      BY <1>17, <1>18, <1>20, <3>1
  <2>3. ASSUME NEW i \in 1..t PROVE s[10 + (2 * n + c + i)] = Z[i]
    <3>1. 2 * n + c + i \in 1..l
      BY <1>2, <1>19
    <3> QED
      BY <1>18, <1>20, <3>1
  <2> QED
    BY <2>1, <2>2, <2>3
<1>24. ASSUME NEW m \in 1..n
       PROVE  /\ s[9 + 2 * m] = Tx(<<r, "registry">>, "add_region", config.regions[m])
              /\ s[10 + 2 * m] = Tx(<<r, "pool">>, "open_region", config.regions[m])
  <2>1. 10 + (2 * m - 1) = 9 + 2 * m
    BY <1>2
  <2>2. s[10 + (2 * m - 1)] = X[2 * m - 1] /\ s[10 + 2 * m] = X[2 * m]
    BY <1>12, <1>23
  <2> QED
    BY <1>12, <2>1, <2>2
<1>25. \A m \in 1..c :
          s[10 + 2 * n + m] = Tx(<<r, "registry">>, "map_corridor", config.corridors[m])
  <2> SUFFICES ASSUME NEW m \in 1..c
               PROVE  s[10 + 2 * n + m] = Tx(<<r, "registry">>, "map_corridor", config.corridors[m])
    OBVIOUS
  <2>1. 10 + (2 * n + m) = 10 + 2 * n + m
    BY <1>2
  <2> QED
    BY <1>13, <1>23, <2>1
<1>26. \A m \in 1..t :
          s[10 + 2 * n + c + m] = TierCall(Instances(r), config.complianceTiers[m])
  <2> SUFFICES ASSUME NEW m \in 1..t
               PROVE  s[10 + 2 * n + c + m] = TierCall(Instances(r), config.complianceTiers[m])
    OBVIOUS
  <2>1. 10 + (2 * n + c + m) = 10 + 2 * n + c + m
    BY <1>2
  <2> QED
    BY <1>14, <1>23, <2>1
<1>27. DOMAIN s = 1..(10 + 2 * n + c + t) /\ Len(s) = 10 + 2 * n + c + t
  <2>1. 10 + l \in Nat /\ 10 + l = 10 + 2 * n + c + t
    BY <1>2, <1>19
  <2>2. DOMAIN s = 1..(10 + l)
    BY <1>20
  <2>3. s = [i \in 1..(10 + l) |-> s[i]] => Len(s) = 10 + l
    BY <2>1
  <2> QED
    BY <1>20, <2>1, <2>2, <2>3
<1>28. /\ s[5] = I[1] /\ s[6] = I[2] /\ s[7] = I[3] /\ s[8] = I[4]
       /\ s[9] = W[1] /\ s[10] = W[2]
  BY <1>22
<1>29. Transactions(s, r, config, n, c, t)
  BY <1>2, <1>9, <1>10, <1>11, <1>22, <1>24, <1>25, <1>26, <1>27, <1>28 DEF Transactions
<1> QED
  BY <1>1, <1>21, <1>29

LEMMA Places ==
    ASSUME NEW s, NEW r, NEW config, NEW n, NEW c, NEW t,
           Transactions(s, r, config, n, c, t), NEW i \in DOMAIN s
    PROVE  \/ i \in 1..4
           \/ i \in 5..10
           \/ \E m \in 1..n : i = 9 + 2 * m
           \/ \E m \in 1..n : i = 10 + 2 * m
           \/ \E m \in 1..c : i = 10 + 2 * n + m
           \/ \E m \in 1..t : i = 10 + 2 * n + c + m
<1>1. n \in Nat /\ c \in Nat /\ t \in Nat /\ i \in 1..(10 + 2 * n + c + t) /\ i \in Nat
  BY DEF Transactions
<1>2. CASE i <= 10
  BY <1>1, <1>2
<1>3. CASE 10 < i /\ i <= 10 + 2 * n
  <2>1. PICK j \in Nat : j = i - 10
    BY <1>1, <1>3
  <2>2. PICK h \in Nat : h = j \div 2
    BY <2>1
  <2>3. j = 2 * h \/ j = 2 * h + 1
    BY <2>1, <2>2
  <2>4. CASE j = 2 * h
    <3>1. h \in 1..n /\ i = 10 + 2 * h
      BY <1>1, <1>3, <2>1, <2>2, <2>4
    <3> QED
      BY <3>1
  <2>5. CASE j = 2 * h + 1
    <3>1. h + 1 \in 1..n /\ i = 9 + 2 * (h + 1)
      BY <1>1, <1>3, <2>1, <2>2, <2>5
    <3> QED
      BY <3>1
  <2> QED
    BY <2>3, <2>4, <2>5
<1>4. CASE 10 + 2 * n < i /\ i <= 10 + 2 * n + c
  <2>1. i - (10 + 2 * n) \in 1..c /\ i = 10 + 2 * n + (i - (10 + 2 * n))
    BY <1>1, <1>4
  <2> QED
    BY <2>1
<1>5. CASE 10 + 2 * n + c < i
  <2>1. /\ i - (10 + 2 * n + c) \in 1..t
        /\ i = 10 + 2 * n + c + (i - (10 + 2 * n + c))
    BY <1>1, <1>5
  <2> QED
    BY <2>1
<1> QED
  BY <1>1, <1>2, <1>3, <1>4, <1>5

EntryPoints == {"initialize", "set_escrow", "set_operator", "add_region", "open_region",
                "map_corridor", "set_tier_thresholds"}

\* Every transaction is for one of the run's contracts; the first four, and no
\* other, create them.
LEMMA EachTransaction ==
    ASSUME NEW s, NEW r, NEW config, NEW n, NEW c, NEW t,
           Transactions(s, r, config, n, c, t), NEW i \in DOMAIN s
    PROVE  /\ i \in Nat /\ i > 0
           /\ s[i] = Tx(s[i].to, s[i].op, s[i].arg)
           /\ \E name \in Names : s[i].to = <<r, name>>
           /\ i \in 1..4 => s[i].to = <<r, CONTRACTS[i]>> /\ s[i].op = "create"
           /\ i \notin 1..4 => s[i].op \in EntryPoints
<1> DEFINE Fine == /\ s[i] = Tx(s[i].to, s[i].op, s[i].arg)
                   /\ \E name \in Names : s[i].to = <<r, name>>
                   /\ s[i].op \in EntryPoints
<1>1. i \in Nat /\ i > 0 /\ n \in Nat /\ c \in Nat
  BY DEF Transactions
<1>2. CASE i \in 1..4
  <2>1. s[i] = Tx(<<r, CONTRACTS[i]>>, "create", Absent)
    BY <1>2 DEF Transactions
  <2>2. CONTRACTS[i] \in Names
    BY <1>2 DEF Names, Range, CONTRACTS
  <2> QED
    BY <1>1, <1>2, <2>1, <2>2 DEF Tx
<1>3. CASE i \in 5..10
  <2>1. i = 5 \/ i = 6 \/ i = 7 \/ i = 8 \/ i = 9 \/ i = 10
    BY <1>3
  <2>2. \E name \in Names : \E arg : \/ s[i] = Tx(<<r, name>>, "initialize", arg)
                                     \/ s[i] = Tx(<<r, name>>, "set_escrow", arg)
                                     \/ s[i] = Tx(<<r, name>>, "set_operator", arg)
    BY <2>1, NamesAre DEF Transactions
  <2>3. Fine /\ i \notin 1..4
    BY <1>3, <2>2 DEF Tx, EntryPoints
  <2> QED
    BY <1>1, <2>3
<1>4. CASE \E m \in 1..n : i = 9 + 2 * m \/ i = 10 + 2 * m
  <2>1. PICK m \in 1..n : i = 9 + 2 * m \/ i = 10 + 2 * m
    BY <1>4
  <2>2. \E name \in Names : \E arg : \/ s[i] = Tx(<<r, name>>, "add_region", arg)
                                     \/ s[i] = Tx(<<r, name>>, "open_region", arg)
    BY <2>1, NamesAre DEF Transactions
  <2>3. i \notin 1..4
    BY <1>1, <2>1
  <2>4. Fine
    BY <2>2 DEF Tx, EntryPoints
  <2> QED
    BY <1>1, <2>3, <2>4
<1>5. CASE \E m \in 1..c : i = 10 + 2 * n + m
  <2>1. PICK m \in 1..c : i = 10 + 2 * n + m
    BY <1>5
  <2>2. \E name \in Names : \E arg : s[i] = Tx(<<r, name>>, "map_corridor", arg)
    BY <2>1, NamesAre DEF Transactions
  <2>3. i \notin 1..4
    BY <1>1, <2>1
  <2>4. Fine
    BY <2>2 DEF Tx, EntryPoints
  <2> QED
    BY <1>1, <2>3, <2>4
<1>6. CASE \E m \in 1..t : i = 10 + 2 * n + c + m
  <2>1. PICK m \in 1..t : i = 10 + 2 * n + c + m
    BY <1>6
  <2>2. s[i] = TierCall(Instances(r), config.complianceTiers[m])
    BY <2>1 DEF Transactions
  <2>3. "hook" \in Names /\ Instances(r)["hook"] = <<r, "hook">>
    BY NamesAre DEF Instances
  <2>4. \E name \in Names : \E arg : s[i] = Tx(<<r, name>>, "set_tier_thresholds", arg)
    BY <2>2, <2>3 DEF TierCall
  <2>5. i \notin 1..4
    BY <1>1, <2>1
  <2>6. Fine
    BY <2>4 DEF Tx, EntryPoints
  <2> QED
    BY <1>1, <2>5, <2>6
<1> HIDE DEF Fine
<1> QED
  BY <1>2, <1>3, <1>4, <1>5, <1>6, Places

-----------------------------------------------------------------------------
(* What a run has done. *)

AllLive(r) == \A name \in Names : Live(<<r, name>>)

\* The first k transactions of a run have landed, and nothing else of it.
Landed(r, config, k) ==
    LET s == Script(r, config)
    IN  /\ \A i \in 1..4 : Live(<<r, CONTRACTS[i]>>) <=> i <= k
        /\ \A name \in Names, op \in EntryPoints :
              Taken(<<r, name>>, op) =
                  {s[i].arg : i \in {j \in 1..k : s[j].to = <<r, name>> /\ s[j].op = op}}
        /\ \A i, j \in 1..k :
              /\ s[i].to = s[j].to /\ s[i].op = s[j].op
              /\ s[i].op \in {"add_region", "open_region"}
              /\ s[i].arg.id = s[j].arg.id
              => i = j

\* No process is at work on a run.
Over(r) == \A o \in Operators : job[o] # Idle => job[o].run # r

Jobs == [pc : {"submit", "write", "fill"}, at : Nat, run : Nat, config : Configs]

\* A process is about to submit transaction d + 1 of its own run.
Working(o, r, config, d) ==
    /\ job[o].run = r /\ job[o].config = config /\ job[o].at = d + 1
    /\ loadDeployConfig(config)
    /\ d <= Len(Script(r, config))
    /\ job[o].pc # "submit" => d = Len(Script(r, config))
    /\ Landed(r, config, d)
    /\ \A p \in Operators \ {o} : job[p] # Idle => job[p].run # r

JobFine(o) ==
    job[o] # Idle =>
        \E r \in 1..deploys : \E config \in Configs : \E d \in Nat : Working(o, r, config, d)

\* What a contract holds came from a run that had made all four of its contracts.
CallFine(a) ==
    \A op \in EntryPoints : \A x \in Taken(a, op) :
        /\ AllLive(a[1])
        /\ \E config \in Configs : \E i \in DOMAIN Script(a[1], config) :
              Script(a[1], config)[i] = Tx(a, op, x)

LateFine(tx) ==
    \E r \in 1..deploys : \E config \in Configs : \E i \in DOMAIN Script(r, config) :
        /\ tx = Script(r, config)[i] /\ Over(r)
        /\ i \notin 1..4 => AllLive(r)

FileFine ==
    \/ file = Absent
    \/ file = Torn
    \/ \E r \in 1..deploys : \E config \in Configs :
          /\ file = Output(r, config) /\ loadDeployConfig(config) /\ Over(r)
          /\ Landed(r, config, Len(Script(r, config)))
          /\ \A tx \in late : tx.to[1] # r

DeployTypes ==
    /\ calls \in [Address -> Seq(Noted) \cup {Absent}]
    /\ late \subseteq Scripted
    /\ job \in [Operators -> {Idle} \cup Jobs]
    /\ deploys \in 0..MaxDeploys

\* The runs to come have made nothing.
NoneToCome ==
    \A r \in 1..MaxDeploys : r > deploys => \A name \in Names : ~Live(<<r, name>>)

DeployInv ==
    /\ DeployTypes
    /\ NoneToCome
    /\ \A o \in Operators : JobFine(o)
    /\ \A a \in Address : CallFine(a)
    /\ \A tx \in late : LateFine(tx)
    /\ FileFine

\* A transaction that a contract accepts adds its call to what the contract took.
LEMMA TakenLands ==
    ASSUME DeployTypes, NEW tx \in Scripted, tx.to \in Address, tx.op # "create",
           Live(tx.to), Land(tx)
    PROVE  /\ calls' \in [Address -> Seq(Noted) \cup {Absent}]
           /\ \A a \in Address : Live(a)' = Live(a)
           /\ \A a \in Address, op \in EntryPoints :
                 Taken(a, op)' = IF a = tx.to /\ op = tx.op THEN Taken(a, op) \cup {tx.arg}
                                 ELSE Taken(a, op)
<1> DEFINE q == calls[tx.to]
           call == [op |-> tx.op, arg |-> tx.arg]
<1>1. calls \in [Address -> Seq(Noted) \cup {Absent}]
  BY DEF DeployTypes
<1>2. q \in Seq(Noted) /\ call \in Noted
  BY <1>1 DEF Live, Noted
<1>3. calls' = [calls EXCEPT ![tx.to] = Append(q, call)]
  BY DEF Land
<1>4. Append(q, call) \in Seq(Noted)
  <2> HIDE DEF q, call
  <2> QED
    BY <1>2
<1>5. calls' \in [Address -> Seq(Noted) \cup {Absent}]
  BY <1>1, <1>3, <1>4
<1>6. Absent \notin Seq(Noted)
  BY AbsentIsNoValue
<1>7. Live(tx.to)' /\ \A a \in Address \ {tx.to} : calls'[a] = calls[a]
  BY <1>1, <1>3, <1>4, <1>6 DEF Live
<1>8. \A a \in Address : Live(a)' = Live(a)
  BY <1>7 DEF Live
<1>9. ASSUME NEW a \in Address, NEW op \in EntryPoints, a # tx.to
      PROVE  Taken(a, op)' = Taken(a, op)
  <2>1. calls'[a] = calls[a]
    BY <1>7, <1>9
  <2> QED
    BY <2>1 DEF Taken, Live
<1>10. ASSUME NEW op \in EntryPoints
       PROVE  Taken(tx.to, op)' = IF op = tx.op THEN Taken(tx.to, op) \cup {tx.arg}
                                  ELSE Taken(tx.to, op)
  <2> DEFINE w == Append(q, call)
  <2>1. calls'[tx.to] = w
    BY <1>1, <1>3
  <2>2. Taken(tx.to, op)' = {w[i].arg : i \in {j \in DOMAIN w : w[j].op = op}}
    BY <1>7, <2>1 DEF Taken
  <2>3. Taken(tx.to, op) = {q[i].arg : i \in {j \in DOMAIN q : q[j].op = op}}
    BY DEF Taken
  <2>4. /\ Len(q) \in Nat /\ DOMAIN q = 1..Len(q) /\ DOMAIN w = 1..(Len(q) + 1)
        /\ \A i \in 1..Len(q) : w[i] = q[i]
        /\ w[Len(q) + 1] = call
    <3> HIDE DEF q, call
    <3> QED
      BY <1>2
  <2>5. call.op = tx.op /\ call.arg = tx.arg
    OBVIOUS
  <2> HIDE DEF q, w, call
  <2>6. \A i \in DOMAIN w : i \in 1..Len(q) \/ i = Len(q) + 1
    BY <2>4
  <2>7. CASE op = tx.op
    <3>1. {w[i].arg : i \in {j \in DOMAIN w : w[j].op = op}}
          \subseteq {q[i].arg : i \in {j \in DOMAIN q : q[j].op = op}} \cup {tx.arg}
      BY <2>4, <2>5, <2>6
    <3>2. {q[i].arg : i \in {j \in DOMAIN q : q[j].op = op}} \cup {tx.arg}
          \subseteq {w[i].arg : i \in {j \in DOMAIN w : w[j].op = op}}
      <4>1. ASSUME NEW i \in DOMAIN q, q[i].op = op
            PROVE  q[i].arg \in {w[h].arg : h \in {j \in DOMAIN w : w[j].op = op}}
        <5>1. i \in DOMAIN w /\ w[i] = q[i]
          BY <2>4
        <5> QED
          BY <4>1, <5>1
      <4>2. tx.arg \in {w[h].arg : h \in {j \in DOMAIN w : w[j].op = op}}
        <5>1. Len(q) + 1 \in DOMAIN w /\ w[Len(q) + 1].op = op /\ w[Len(q) + 1].arg = tx.arg
          BY <2>4, <2>5, <2>7
        <5> QED
          BY <5>1
      <4> QED
        BY <4>1, <4>2
    <3> QED
      BY <2>2, <2>3, <2>7, <3>1, <3>2
  <2>8. CASE op # tx.op
    <3>1. {j \in DOMAIN w : w[j].op = op} = {j \in DOMAIN q : q[j].op = op}
      BY <2>4, <2>5, <2>6, <2>8
    <3>2. \A j \in {h \in DOMAIN q : q[h].op = op} : w[j] = q[j]
      BY <2>4
    <3> QED
      BY <2>2, <2>3, <2>8, <3>1, <3>2
  <2> QED
    BY <2>7, <2>8
<1> QED
  BY <1>5, <1>8, <1>9, <1>10

\* A creation leaves a contract that took no call.
LEMMA CreationLands ==
    ASSUME DeployTypes, NEW tx \in Scripted, tx.to \in Address, tx.op = "create",
           ~Live(tx.to), Land(tx)
    PROVE  /\ calls' \in [Address -> Seq(Noted) \cup {Absent}]
           /\ \A a \in Address : Live(a)' = (Live(a) \/ a = tx.to)
           /\ \A a \in Address, op \in EntryPoints : Taken(a, op)' = Taken(a, op)
<1>1. calls \in [Address -> Seq(Noted) \cup {Absent}]
  BY DEF DeployTypes
<1>2. calls' = [calls EXCEPT ![tx.to] = << >>]
  BY DEF Land
<1>3. << >> \in Seq(Noted) /\ << >> # Absent
  <2>1. << >> \in Seq(Noted)
    OBVIOUS
  <2> QED
    BY <2>1, AbsentIsNoValue
<1>4. calls' \in [Address -> Seq(Noted) \cup {Absent}]
  BY <1>1, <1>2, <1>3
<1>5. calls'[tx.to] = << >> /\ \A a \in Address \ {tx.to} : calls'[a] = calls[a]
  BY <1>1, <1>2
<1>6. \A a \in Address : Live(a)' = (Live(a) \/ a = tx.to)
  BY <1>3, <1>5 DEF Live
<1>7. ASSUME NEW a \in Address, NEW op \in EntryPoints PROVE Taken(a, op)' = Taken(a, op)
  <2>1. CASE a = tx.to
    <3>1. Taken(a, op) = {}
      BY <2>1 DEF Taken
    <3>2. DOMAIN << >> = {}
      OBVIOUS
    <3>3. Taken(a, op)' = {}
      BY <1>5, <2>1, <3>2 DEF Taken
    <3> QED
      BY <3>1, <3>3
  <2>2. CASE a # tx.to
    <3>1. calls'[a] = calls[a]
      BY <1>5, <2>2
    <3> QED
      BY <3>1 DEF Taken, Live
  <2> QED
    BY <2>1, <2>2
<1> QED
  BY <1>4, <1>6, <1>7

LEMMA OneTransaction ==
    ASSUME NEW r \in 1..MaxDeploys, NEW config \in Configs, NEW s, s = Script(r, config)
    PROVE  /\ Len(s) \in Nat /\ Len(s) > 10 /\ DOMAIN s = 1..Len(s)
           /\ \A i \in DOMAIN s :
                 /\ i \in Nat /\ i > 0
                 /\ s[i] \in Scripted /\ s[i].to \in Address /\ s[i].to[1] = r
                 /\ s[i] = Tx(s[i].to, s[i].op, s[i].arg)
                 /\ \E name \in Names : s[i].to = <<r, name>>
                 /\ i \in 1..4 => s[i].to = <<r, CONTRACTS[i]>> /\ s[i].op = "create"
                 /\ i \notin 1..4 => s[i].op \in EntryPoints
<1>1. PICK n, c, t : Transactions(s, r, config, n, c, t)
  BY ScriptIs
<1>2. Len(s) \in Nat /\ Len(s) > 10 /\ DOMAIN s = 1..Len(s)
  BY <1>1 DEF Transactions
<1>3. ASSUME NEW i \in DOMAIN s
      PROVE  s[i] \in Scripted /\ s[i].to \in Address /\ s[i].to[1] = r
  <2>1. s[i] \in Scripted
    <3>1. s[i] \in Range(Script(r, config))
      BY DEF Range
    <3> QED
      BY <3>1 DEF Scripted
  <2>2. PICK name \in Names : s[i].to = <<r, name>>
    BY <1>1, EachTransaction
  <2> QED
    BY <2>1, <2>2 DEF Address
<1>4. \A i \in DOMAIN s :
         /\ i \in Nat /\ i > 0
         /\ s[i] = Tx(s[i].to, s[i].op, s[i].arg)
         /\ \E name \in Names : s[i].to = <<r, name>>
         /\ i \in 1..4 => s[i].to = <<r, CONTRACTS[i]>> /\ s[i].op = "create"
         /\ i \notin 1..4 => s[i].op \in EntryPoints
  BY <1>1, EachTransaction
<1> QED
  BY <1>2, <1>3, <1>4

LEMMA ContractsDiffer ==
    \A i, j \in 1..4 : CONTRACTS[i] = CONTRACTS[j] => i = j
<1>1. CONTRACTS[1] = "registry" /\ CONTRACTS[2] = "hook" /\ CONTRACTS[3] = "pool"
      /\ CONTRACTS[4] = "escrow"
  BY DEF CONTRACTS
<1> QED
  BY <1>1

LEMMA AddressesOf ==
    /\ \A r \in 1..MaxDeploys, name \in Names :
          <<r, name>> \in Address /\ <<r, name>>[1] = r /\ <<r, name>>[2] = name
    /\ \A a \in Address : a[1] \in 1..MaxDeploys /\ a[2] \in Names /\ a = <<a[1], a[2]>>
    /\ \A i \in 1..4 : CONTRACTS[i] \in Names
    /\ \A name \in Names : \E i \in 1..4 : name = CONTRACTS[i]
<1>1. DOMAIN CONTRACTS = 1..4
  BY DEF CONTRACTS
<1> QED
  BY <1>1 DEF Address, Names, Range

\* Landed goes on by one transaction.
LEMMA OneMoreLanded ==
    ASSUME DeployTypes, NEW r \in 1..MaxDeploys, NEW config \in Configs,
           NEW d \in Nat, NEW k \in DOMAIN Script(r, config), k = d + 1,
           Landed(r, config, d), Accepts(Script(r, config)[k]), Land(Script(r, config)[k])
    PROVE  Landed(r, config, k)'
<1> DEFINE s == Script(r, config)
           tx == s[k]
<1>1. /\ Len(s) \in Nat /\ DOMAIN s = 1..Len(s)
      /\ \A i \in DOMAIN s :
            /\ i \in Nat /\ i > 0
            /\ s[i] \in Scripted /\ s[i].to \in Address /\ s[i].to[1] = r
            /\ \E name \in Names : s[i].to = <<r, name>>
            /\ i \in 1..4 => s[i].to = <<r, CONTRACTS[i]>> /\ s[i].op = "create"
            /\ i \notin 1..4 => s[i].op \in EntryPoints
  BY OneTransaction
<1>2. /\ \A i \in 1..4 : Live(<<r, CONTRACTS[i]>>) <=> i <= d
      /\ \A name \in Names, op \in EntryPoints :
            Taken(<<r, name>>, op) =
                {s[i].arg : i \in {j \in 1..d : s[j].to = <<r, name>> /\ s[j].op = op}}
      /\ \A i, j \in 1..d :
            /\ s[i].to = s[j].to /\ s[i].op = s[j].op
            /\ s[i].op \in {"add_region", "open_region"}
            /\ s[i].arg.id = s[j].arg.id
            => i = j
  BY DEF Landed
<1>3. k \in Nat /\ k > 0 /\ 1..k = 1..d \cup {k} /\ k \notin 1..d
      /\ 1..k \subseteq DOMAIN s
  BY <1>1
<1>4. "create" \notin EntryPoints
  BY DEF EntryPoints
<1>5. (Landed(r, config, k)' <=>
        /\ \A i \in 1..4 : Live(<<r, CONTRACTS[i]>>)' <=> i <= k
        /\ \A name \in Names, op \in EntryPoints :
              Taken(<<r, name>>, op)' =
                  {s[i].arg : i \in {j \in 1..k : s[j].to = <<r, name>> /\ s[j].op = op}}
        /\ \A i, j \in 1..k :
              /\ s[i].to = s[j].to /\ s[i].op = s[j].op
              /\ s[i].op \in {"add_region", "open_region"}
              /\ s[i].arg.id = s[j].arg.id
              => i = j)
  BY <1>3 DEF Landed
<1>6. CASE k \in 1..4
  <2>1. tx \in Scripted /\ tx.to = <<r, CONTRACTS[k]>> /\ tx.to \in Address /\ tx.op = "create"
    BY <1>1, <1>6
  <2>2. ~Live(tx.to)
    BY <2>1 DEF Accepts
  <2> HIDE DEF s, tx
  <2>3. Land(tx)
    BY DEF s, tx
  <2>4. /\ calls' \in [Address -> Seq(Noted) \cup {Absent}]
        /\ \A a \in Address : Live(a)' = (Live(a) \/ a = tx.to)
        /\ \A a \in Address, op \in EntryPoints : Taken(a, op)' = Taken(a, op)
    BY <2>1, <2>2, <2>3, CreationLands
  <2>5. \A i \in 1..4 : Live(<<r, CONTRACTS[i]>>)' <=> i <= k
    <3> SUFFICES ASSUME NEW i \in 1..4 PROVE Live(<<r, CONTRACTS[i]>>)' <=> i <= k
      OBVIOUS
    <3>1. <<r, CONTRACTS[i]>> \in Address /\ (<<r, CONTRACTS[i]>> = tx.to <=> i = k)
      BY <1>6, <2>1, ContractsDiffer, AddressesOf
    <3>2. Live(<<r, CONTRACTS[i]>>)' <=> (i <= d \/ i = k)
      BY <1>2, <2>4, <3>1
    <3> QED
      BY <1>3, <3>2
  <2>6. ASSUME NEW name \in Names, NEW op \in EntryPoints
        PROVE  Taken(<<r, name>>, op)' =
                   {s[i].arg : i \in {j \in 1..k : s[j].to = <<r, name>> /\ s[j].op = op}}
    <3>1. {j \in 1..k : s[j].to = <<r, name>> /\ s[j].op = op}
          = {j \in 1..d : s[j].to = <<r, name>> /\ s[j].op = op}
      BY <1>3, <1>4, <2>1, <2>6 DEF tx
    <3>2. <<r, name>> \in Address
      BY AddressesOf
    <3> QED
      BY <1>2, <2>4, <3>1, <3>2
  <2>7. ASSUME NEW i \in 1..k, NEW j \in 1..k, s[i].to = s[j].to, s[i].op = s[j].op,
               s[i].op \in {"add_region", "open_region"}, s[i].arg.id = s[j].arg.id
        PROVE  i = j
    <3>1. i # k /\ j # k
      BY <2>1, <2>7 DEF tx
    <3> QED
      BY <1>2, <1>3, <2>7, <3>1
  <2>8. Landed(r, config, k)'
    BY <1>5, <2>5, <2>6, <2>7
  <2> QED
    BY <2>8
<1>7. CASE k \notin 1..4
  <2>1. /\ tx \in Scripted /\ tx.to \in Address /\ tx.op \in EntryPoints /\ tx.op # "create"
        /\ \E name \in Names : tx.to = <<r, name>>
        /\ tx.to[1] = r
    BY <1>1, <1>4, <1>7
  <2>2. Live(tx.to) /\ ArgumentAccepted(tx.to, tx.op, tx.arg)
    BY <2>1 DEF Accepts
  <2> HIDE DEF s, tx
  <2>3. Land(tx)
    BY DEF s, tx
  <2>4. /\ calls' \in [Address -> Seq(Noted) \cup {Absent}]
        /\ \A a \in Address : Live(a)' = Live(a)
        /\ \A a \in Address, op \in EntryPoints :
              Taken(a, op)' = IF a = tx.to /\ op = tx.op THEN Taken(a, op) \cup {tx.arg}
                              ELSE Taken(a, op)
    BY <2>1, <2>2, <2>3, TakenLands
  <2>5. \A i \in 1..4 : Live(<<r, CONTRACTS[i]>>)' <=> i <= k
    <3> SUFFICES ASSUME NEW i \in 1..4 PROVE Live(<<r, CONTRACTS[i]>>)' <=> i <= k
      OBVIOUS
    <3>1. <<r, CONTRACTS[i]>> \in Address /\ i <= d /\ i <= k
      BY <1>3, <1>7, AddressesOf
    <3> QED
      BY <1>2, <2>4, <3>1
  <2>6. ASSUME NEW name \in Names, NEW op \in EntryPoints
        PROVE  Taken(<<r, name>>, op)' =
                   {s[i].arg : i \in {j \in 1..k : s[j].to = <<r, name>> /\ s[j].op = op}}
    <3> DEFINE before == {j \in 1..d : s[j].to = <<r, name>> /\ s[j].op = op}
               after  == {j \in 1..k : s[j].to = <<r, name>> /\ s[j].op = op}
    <3>0. <<r, name>> \in Address
      BY AddressesOf
    <3>1. <<r, name>> \in Address /\ Taken(<<r, name>>, op) = {s[i].arg : i \in before}
      BY <1>2, <3>0
    <3>2. CASE <<r, name>> = tx.to /\ op = tx.op
      <4>1. after = before \cup {k}
        BY <1>3, <3>2 DEF tx
      <4>2. s[k].arg = tx.arg
        BY DEF tx
      <4> HIDE DEF before, after
      <4>3. {s[i].arg : i \in after} = {s[i].arg : i \in before} \cup {tx.arg}
        BY <4>1, <4>2
      <4> QED
        BY <2>4, <3>1, <3>2, <4>3 DEF after
    <3>3. CASE ~(<<r, name>> = tx.to /\ op = tx.op)
      <4>1. after = before
        BY <1>3, <3>3 DEF tx
      <4> QED
        BY <2>4, <3>1, <3>3, <4>1
    <3> QED
      BY <3>2, <3>3
  <2>7. ASSUME NEW j \in 1..d, s[j].to = tx.to, s[j].op = tx.op,
               tx.op \in {"add_region", "open_region"}
        PROVE  s[j].arg.id # tx.arg.id
    <3>1. PICK name \in Names : tx.to = <<r, name>>
      BY <2>1
    <3>2. s[j].arg \in Taken(tx.to, tx.op)
      BY <1>2, <2>1, <2>7, <3>1
    <3>3. s[j].arg.id \in RegionsOf(tx.to, tx.op)
      BY <3>2 DEF RegionsOf
    <3>4. tx.arg.id \notin RegionsOf(tx.to, tx.op)
      BY <2>2, <2>7 DEF ArgumentAccepted
    <3> QED
      BY <3>3, <3>4
  <2>8. ASSUME NEW i \in 1..k, NEW j \in 1..k, s[i].to = s[j].to, s[i].op = s[j].op,
               s[i].op \in {"add_region", "open_region"}, s[i].arg.id = s[j].arg.id
        PROVE  i = j
    <3>1. CASE i = k /\ j # k
      BY <1>3, <2>7, <2>8, <3>1 DEF tx
    <3>2. CASE i # k /\ j = k
      BY <1>3, <2>7, <2>8, <3>2 DEF tx
    <3>3. CASE i # k /\ j # k
      BY <1>2, <1>3, <2>8, <3>3
    <3> QED
      BY <3>1, <3>2, <3>3
  <2>9. Landed(r, config, k)'
    BY <1>5, <2>5, <2>6, <2>8
  <2> QED
    BY <2>9
<1> QED
  BY <1>6, <1>7

\* A step for one run leaves the others as they are.
Mine(r) ==
    /\ \A a \in Address : Live(a) => Live(a)'
    /\ \A a \in Address : a[1] # r =>
          Live(a)' = Live(a) /\ \A op \in EntryPoints : Taken(a, op)' = Taken(a, op)

LEMMA OthersLand ==
    ASSUME NEW r, Mine(r), NEW q \in 1..MaxDeploys, q # r, NEW config \in Configs,
           NEW d \in Nat, Landed(q, config, d)
    PROVE  Landed(q, config, d)'
<1> DEFINE s == Script(q, config)
<1>1. \A name \in Names :
         /\ Live(<<q, name>>)' = Live(<<q, name>>)
         /\ \A op \in EntryPoints : Taken(<<q, name>>, op)' = Taken(<<q, name>>, op)
  BY AddressesOf DEF Mine
<1>2. \A i \in 1..4 : CONTRACTS[i] \in Names
  BY AddressesOf
<1>3. /\ \A i \in 1..4 : Live(<<q, CONTRACTS[i]>>) <=> i <= d
      /\ \A name \in Names, op \in EntryPoints :
            Taken(<<q, name>>, op) =
                {s[i].arg : i \in {j \in 1..d : s[j].to = <<q, name>> /\ s[j].op = op}}
      /\ \A i, j \in 1..d :
            /\ s[i].to = s[j].to /\ s[i].op = s[j].op
            /\ s[i].op \in {"add_region", "open_region"}
            /\ s[i].arg.id = s[j].arg.id
            => i = j
  BY DEF Landed
<1>4. (Landed(q, config, d)' <=>
        /\ \A i \in 1..4 : Live(<<q, CONTRACTS[i]>>)' <=> i <= d
        /\ \A name \in Names, op \in EntryPoints :
              Taken(<<q, name>>, op)' =
                  {s[i].arg : i \in {j \in 1..d : s[j].to = <<q, name>> /\ s[j].op = op}}
        /\ \A i, j \in 1..d :
              /\ s[i].to = s[j].to /\ s[i].op = s[j].op
              /\ s[i].op \in {"add_region", "open_region"}
              /\ s[i].arg.id = s[j].arg.id
              => i = j)
  BY DEF Landed
<1> HIDE DEF s
<1>5. \A i \in 1..4 : Live(<<q, CONTRACTS[i]>>)' <=> i <= d
  BY <1>1, <1>2, <1>3
<1>6. \A name \in Names, op \in EntryPoints :
         Taken(<<q, name>>, op)' =
             {s[i].arg : i \in {j \in 1..d : s[j].to = <<q, name>> /\ s[j].op = op}}
  BY <1>1, <1>3
<1> QED
  BY <1>3, <1>4, <1>5, <1>6

\* What a transaction of a run does when it lands, early or late.
LEMMA TransactionLands ==
    ASSUME DeployTypes, NEW r \in 1..MaxDeploys, NEW config \in Configs,
           NEW i \in DOMAIN Script(r, config), NEW tx, tx = Script(r, config)[i],
           Accepts(tx), Land(tx)
    PROVE  /\ calls' \in [Address -> Seq(Noted) \cup {Absent}]
           /\ Mine(r)
           /\ \A a \in Address, op \in EntryPoints : \A x \in Taken(a, op)' :
                 x \in Taken(a, op) \/ (i \notin 1..4 /\ tx = Tx(a, op, x) /\ a[1] = r)
<1>1. /\ tx \in Scripted /\ tx.to \in Address /\ tx.to[1] = r
      /\ tx = Tx(tx.to, tx.op, tx.arg)
      /\ i \in 1..4 => tx.op = "create"
      /\ i \notin 1..4 => tx.op \in EntryPoints
  BY OneTransaction
<1>2. "create" \notin EntryPoints
  BY DEF EntryPoints
<1>3. CASE i \in 1..4
  <2>1. ~Live(tx.to)
    BY <1>1, <1>3 DEF Accepts
  <2>2. /\ calls' \in [Address -> Seq(Noted) \cup {Absent}]
        /\ \A a \in Address : Live(a)' = (Live(a) \/ a = tx.to)
        /\ \A a \in Address, op \in EntryPoints : Taken(a, op)' = Taken(a, op)
    BY <1>1, <1>3, <2>1, CreationLands
  <2>3. ASSUME NEW a \in Address, a[1] # r PROVE Live(a)' = Live(a)
    <3>1. a # tx.to
      BY <1>1, <2>3
    <3>2. Live(a)' = (Live(a) \/ a = tx.to)
      BY <2>2
    <3>3. Live(a) \in BOOLEAN
      BY DEF Live
    <3> QED
      BY <3>1, <3>2, <3>3
  <2> QED
    BY <2>2, <2>3 DEF Mine
<1>4. CASE i \notin 1..4
  <2>1. Live(tx.to) /\ tx.op # "create"
    BY <1>1, <1>2, <1>4 DEF Accepts
  <2>2. /\ calls' \in [Address -> Seq(Noted) \cup {Absent}]
        /\ \A a \in Address : Live(a)' = Live(a)
        /\ \A a \in Address, op \in EntryPoints :
              Taken(a, op)' = IF a = tx.to /\ op = tx.op THEN Taken(a, op) \cup {tx.arg}
                              ELSE Taken(a, op)
    BY <1>1, <2>1, TakenLands
  <2>3. Mine(r)
    BY <1>1, <2>2 DEF Mine
  <2>4. ASSUME NEW a \in Address, NEW op \in EntryPoints, NEW x \in Taken(a, op)',
               x \notin Taken(a, op)
        PROVE  tx = Tx(a, op, x) /\ a[1] = r
    BY <1>1, <2>2, <2>4
  <2> QED
    BY <1>4, <2>2, <2>3, <2>4
<1> QED
  BY <1>3, <1>4

\* The four parts of the invariant, when the step is one for run r.
LEMMA CallsStay ==
    ASSUME NEW r, NEW config \in Configs, NEW i \in DOMAIN Script(r, config),
           NEW tx, tx = Script(r, config)[i], i \notin 1..4 => AllLive(r), Mine(r),
           \A a \in Address, op \in EntryPoints : \A x \in Taken(a, op)' :
              x \in Taken(a, op) \/ (i \notin 1..4 /\ tx = Tx(a, op, x) /\ a[1] = r),
           NEW a \in Address, CallFine(a)
    PROVE  CallFine(a)'
<1>1. AllLive(a[1]) => AllLive(a[1])'
  <2>1. a[1] \in 1..MaxDeploys
    BY AddressesOf
  <2>2. \A name \in Names : <<a[1], name>> \in Address
    BY <2>1, AddressesOf
  <2> QED
    BY <2>2 DEF AllLive, Mine
<1>2. SUFFICES ASSUME NEW op \in EntryPoints, NEW x \in Taken(a, op)'
               PROVE  /\ AllLive(a[1])'
                      /\ \E c \in Configs : \E j \in DOMAIN Script(a[1], c) :
                            Script(a[1], c)[j] = Tx(a, op, x)
  BY DEF CallFine
<1>3. CASE x \in Taken(a, op)
  BY <1>1, <1>3 DEF CallFine
<1>4. CASE i \notin 1..4 /\ tx = Tx(a, op, x) /\ a[1] = r
  BY <1>1, <1>4
<1> QED
  BY <1>3, <1>4

LEMMA LateStays ==
    ASSUME NEW r, Mine(r), deploys \in 0..MaxDeploys, deploys' \in Nat, deploys' >= deploys,
           \A q \in 1..deploys : Over(q) => Over(q)',
           NEW tx, LateFine(tx)
    PROVE  LateFine(tx)'
<1>1. PICK q \in 1..deploys : \E config \in Configs : \E i \in DOMAIN Script(q, config) :
         /\ tx = Script(q, config)[i] /\ Over(q)
         /\ i \notin 1..4 => AllLive(q)
  BY DEF LateFine
<1>2. PICK config \in Configs : \E i \in DOMAIN Script(q, config) :
         /\ tx = Script(q, config)[i] /\ Over(q)
         /\ i \notin 1..4 => AllLive(q)
  BY <1>1
<1>3. q \in 1..deploys' /\ q \in 1..MaxDeploys
  BY <1>1, DeployBounds
<1>4. Over(q)'
  BY <1>1, <1>2
<1>5. AllLive(q) => AllLive(q)'
  <2>1. \A name \in Names : <<q, name>> \in Address
    BY <1>3, AddressesOf
  <2> QED
    BY <2>1 DEF AllLive, Mine
<1> QED
  BY <1>2, <1>3, <1>4, <1>5 DEF LateFine

LEMMA FileStays ==
    ASSUME NEW r, Mine(r), deploys \in 0..MaxDeploys, deploys' \in Nat, deploys' >= deploys,
           file' = file, FileFine,
           \A q \in 1..deploys :
              Over(q) /\ (\A tx \in late : tx.to[1] # q) =>
                 q # r /\ Over(q)' /\ \A tx \in late' : tx.to[1] # q
    PROVE  FileFine'
<1>1. CASE file = Absent \/ file = Torn
  BY <1>1 DEF FileFine, Torn
<1>2. CASE \E q \in 1..deploys : \E config \in Configs :
              /\ file = Output(q, config) /\ loadDeployConfig(config) /\ Over(q)
              /\ Landed(q, config, Len(Script(q, config)))
              /\ \A tx \in late : tx.to[1] # q
  <2>1. PICK q \in 1..deploys, config \in Configs :
              /\ file = Output(q, config) /\ loadDeployConfig(config) /\ Over(q)
              /\ Landed(q, config, Len(Script(q, config)))
              /\ \A tx \in late : tx.to[1] # q
    BY <1>2
  <2>2. q \in 1..deploys' /\ q \in 1..MaxDeploys
    BY DeployBounds
  <2>3. q # r /\ Over(q)' /\ \A tx \in late' : tx.to[1] # q
    BY <2>1
  <2>4. PICK d \in Nat : d = Len(Script(q, config))
    BY <2>2, OneTransaction
  <2>5. Landed(q, config, d)'
    BY <2>1, <2>2, <2>3, <2>4, OthersLand
  <2>6. /\ file' = Output(q, config) /\ loadDeployConfig(config) /\ Over(q)'
        /\ Landed(q, config, Len(Script(q, config)))'
        /\ \A tx \in late' : tx.to[1] # q
    BY <2>1, <2>3, <2>4, <2>5
  <2> QED
    BY <2>2, <2>6 DEF FileFine
<1> QED
  BY <1>1, <1>2 DEF FileFine

LEMMA JobStays ==
    ASSUME NEW r, Mine(r), deploys \in 0..MaxDeploys, deploys' \in Nat, deploys' >= deploys,
           NEW o \in Operators, JobFine(o), job'[o] = job[o],
           job[o] # Idle =>
              /\ job[o].run # r
              /\ \A p \in Operators \ {o} : job'[p] # Idle => job'[p].run # job[o].run
    PROVE  JobFine(o)'
<1> SUFFICES ASSUME job[o] # Idle
             PROVE  \E q \in 1..deploys' : \E config \in Configs : \E d \in Nat :
                       Working(o, q, config, d)'
  BY DEF JobFine, Idle
<1>1. PICK q \in 1..deploys, config \in Configs, d \in Nat : Working(o, q, config, d)
  BY DEF JobFine
<1>2. q \in 1..deploys' /\ q \in 1..MaxDeploys /\ job[o].run = q
  BY <1>1, DeployBounds DEF Working
<1>3. Landed(q, config, d)'
  BY <1>1, <1>2, OthersLand DEF Working
<1>4. Working(o, q, config, d)'
  BY <1>1, <1>2, <1>3 DEF Working
<1> QED
  BY <1>2, <1>4

LEMMA NothingLands ==
    ASSUME UNCHANGED calls, NEW r
    PROVE  /\ Mine(r)
           /\ \A a \in Address : CallFine(a) => CallFine(a)'
           /\ \A a \in Address : Live(a)' = Live(a)
<1>1. \A a \in Address : Live(a)' = Live(a)
  BY DEF Live
<1>2. \A a \in Address : \A op : Taken(a, op)' = Taken(a, op)
  BY DEF Taken, Live
<1>3. Mine(r)
  BY <1>1, <1>2 DEF Mine
<1>4. ASSUME NEW a \in Address, CallFine(a) PROVE CallFine(a)'
  <2>1. AllLive(a[1])' <=> AllLive(a[1])
    BY DEF AllLive, Live
  <2> QED
    BY <1>2, <1>4, <2>1 DEF CallFine
<1> QED
  BY <1>1, <1>3, <1>4

LEMMA DeployStarts ==
    ASSUME DeployInit PROVE DeployInv
<1>1. DeployTypes
  BY DeployBounds DEF DeployInit, DeployTypes
<1>2. \A a \in Address : ~Live(a) /\ \A op : Taken(a, op) = {}
  BY DEF DeployInit, Live, Taken
<1>3. NoneToCome
  BY <1>2, AddressesOf DEF NoneToCome
<1>4. \A o \in Operators : JobFine(o)
  BY DEF DeployInit, JobFine
<1>5. \A a \in Address : CallFine(a)
  BY <1>2 DEF CallFine
<1>6. (\A tx \in late : LateFine(tx)) /\ FileFine
  BY DEF DeployInit, FileFine
<1> QED
  BY <1>1, <1>3, <1>4, <1>5, <1>6 DEF DeployInv

\* What the invariant says of a process at work.
LEMMA AtWork ==
    ASSUME DeployInv, NEW o \in Operators, job[o] # Idle
    PROVE  /\ job[o] \in Jobs
           /\ \E r \in 1..deploys : \E config \in Configs : \E d \in Nat :
                 /\ Working(o, r, config, d)
                 /\ r \in 1..MaxDeploys /\ ~Over(r)
                 /\ \A p \in Operators \ {o} : job[p] # Idle => job[p].run # r
                 /\ Submitting(o) =>
                       /\ d + 1 \in DOMAIN Script(r, config)
                       /\ NextTx(o) = Script(r, config)[d + 1]
                       /\ d + 1 \notin 1..4 => AllLive(r)
<1>1. job[o] \in Jobs /\ deploys \in 0..MaxDeploys
  BY DEF DeployInv, DeployTypes
<1>2. PICK r \in 1..deploys, config \in Configs, d \in Nat : Working(o, r, config, d)
  BY DEF DeployInv, JobFine
<1>3. r \in 1..MaxDeploys /\ ~Over(r)
  BY <1>1, <1>2, DeployBounds DEF Working, Over
<1>4. \A p \in Operators \ {o} : job[p] # Idle => job[p].run # r
  BY <1>2 DEF Working
<1>5. ASSUME Submitting(o)
      PROVE  /\ d + 1 \in DOMAIN Script(r, config)
             /\ NextTx(o) = Script(r, config)[d + 1]
             /\ d + 1 \notin 1..4 => AllLive(r)
  <2> DEFINE s == Script(r, config)
  <2>1. Todo(o) = s /\ job[o].at = d + 1
    BY <1>2 DEF Working, Todo
  <2>2. Len(s) \in Nat /\ DOMAIN s = 1..Len(s)
    BY <1>3, OneTransaction
  <2>3. d + 1 \in DOMAIN s /\ NextTx(o) = s[d + 1]
    BY <1>5, <2>1, <2>2 DEF Submitting, NextTx
  <2>4. ASSUME d + 1 \notin 1..4, NEW name \in Names PROVE Live(<<r, name>>)
    <3>1. PICK i \in 1..4 : name = CONTRACTS[i]
      BY AddressesOf
    <3>2. i <= d
      BY <2>4
    <3>3. \A j \in 1..4 : Live(<<r, CONTRACTS[j]>>) <=> j <= d
      BY <1>2 DEF Working, Landed
    <3> QED
      BY <3>1, <3>2, <3>3
  <2> QED
    BY <2>3, <2>4 DEF AllLive
<1> QED
  BY <1>1, <1>2, <1>3, <1>4, <1>5

\* A step of a process that lands nothing and goes on with its run or stops.
LEMMA ProcessSteps ==
    ASSUME DeployInv, NEW o \in Operators, job[o] # Idle, UNCHANGED <<calls, deploys>>,
           NEW next, job' = [job EXCEPT ![o] = next],
           \/ next = Idle
           \/ /\ next \in Jobs /\ next.run = job[o].run /\ next.config = job[o].config
              /\ next.at = job[o].at
              /\ next.pc # "submit" => job[o].at = Len(Todo(o)) + 1,
           \/ late' = late
           \/ next = Idle /\ Submitting(o) /\ late' = late \cup {NextTx(o)},
           file' = file \/ FileFine'
    PROVE  DeployInv'
<1>1. PICK r \in 1..deploys, config \in Configs, d \in Nat :
         /\ Working(o, r, config, d)
         /\ r \in 1..MaxDeploys /\ ~Over(r)
         /\ \A p \in Operators \ {o} : job[p] # Idle => job[p].run # r
         /\ Submitting(o) =>
               /\ d + 1 \in DOMAIN Script(r, config)
               /\ NextTx(o) = Script(r, config)[d + 1]
               /\ d + 1 \notin 1..4 => AllLive(r)
  BY AtWork
<1>2. /\ DeployTypes /\ deploys \in 0..MaxDeploys /\ deploys \in Nat
      /\ job \in [Operators -> {Idle} \cup Jobs]
  BY DeployBounds DEF DeployInv, DeployTypes
<1>3. /\ job'[o] = next /\ \A p \in Operators \ {o} : job'[p] = job[p]
      /\ job' \in [Operators -> {Idle} \cup Jobs]
  BY <1>2
<1>4. job[o].run = r /\ job[o].config = config /\ job[o].at = d + 1
  BY <1>1 DEF Working
<1>5. \A p \in Operators : job'[p] # Idle => job[p] # Idle /\ job'[p].run = job[p].run
  BY <1>3
<1>6. \A q \in 1..deploys : Over(q) => Over(q)'
  BY <1>5 DEF Over
<1>7. Mine(r) /\ \A a \in Address : CallFine(a) => CallFine(a)'
  BY NothingLands
<1>8. \A tx \in late' : tx \in late \/ /\ tx = NextTx(o) /\ Submitting(o) /\ next = Idle
  OBVIOUS
<1>9. ASSUME Submitting(o), next = Idle, NEW tx, tx = NextTx(o)
      PROVE  tx \in Scripted /\ tx.to[1] = r /\ LateFine(tx)'
  <2>1. d + 1 \in DOMAIN Script(r, config) /\ tx = Script(r, config)[d + 1]
    BY <1>1, <1>9
  <2>2. tx \in Scripted /\ tx.to[1] = r
    BY <1>1, <2>1, OneTransaction
  <2>3. Over(r)'
    BY <1>1, <1>3, <1>9 DEF Over
  <2>4. d + 1 \notin 1..4 => AllLive(r)'
    BY <1>1, <1>9 DEF AllLive, Live
  <2>5. r \in 1..deploys'
    BY <1>1
  <2> QED
    BY <2>1, <2>2, <2>3, <2>4, <2>5 DEF LateFine
<1>10. DeployTypes'
  <2>1. late' \subseteq Scripted
    BY <1>2, <1>8, <1>9 DEF DeployTypes
  <2> QED
    BY <1>2, <1>3, <2>1 DEF DeployTypes
<1>11. NoneToCome'
  BY NothingLands DEF DeployInv, NoneToCome, Live
<1>12. ASSUME NEW p \in Operators PROVE JobFine(p)'
  <2>1. CASE p = o
    <3>1. CASE next = Idle
      BY <1>3, <2>1, <3>1 DEF JobFine
    <3>2. CASE next # Idle
      <4>1. /\ next \in Jobs /\ next.run = r /\ next.config = config /\ next.at = d + 1
            /\ next.pc # "submit" => d + 1 = Len(Script(r, config)) + 1
        BY <1>4, <3>2 DEF Todo
      <4>2. Landed(r, config, d)'
        <5>1. Landed(r, config, d)
          BY <1>1 DEF Working
        <5>2. Mine(0) /\ r # 0
          BY <1>1, NothingLands
        <5> QED
          BY <1>1, <5>1, <5>2, OthersLand
      <4>3. Len(Script(r, config)) \in Nat
        BY <1>1, OneTransaction
      <4>4. Working(o, r, config, d)'
        BY <1>1, <1>3, <1>5, <4>1, <4>2, <4>3 DEF Working
      <4> QED
        BY <1>1, <2>1, <4>4 DEF JobFine
    <3> QED
      BY <3>1, <3>2
  <2>2. CASE p # o
    <3>1. job'[p] = job[p] /\ JobFine(p)
      BY <1>3, <2>2 DEF DeployInv
    <3>2. job[p] # Idle =>
             /\ job[p].run # r
             /\ \A q \in Operators \ {p} : job'[q] # Idle => job'[q].run # job[p].run
      <4>1. \A q \in Operators \ {p} : job[p] # Idle /\ job[q] # Idle => job[q].run # job[p].run
        BY <3>1 DEF JobFine, Working
      <4> QED
        BY <1>1, <1>5, <2>2, <4>1
    <3>3. deploys' \in Nat /\ deploys' >= deploys
      BY <1>2
    <3> QED
      BY <1>2, <1>7, <3>1, <3>2, <3>3, JobStays
  <2> QED
    BY <2>1, <2>2
<1>13. \A a \in Address : CallFine(a)'
  BY <1>7 DEF DeployInv
<1>14. ASSUME NEW tx \in late' PROVE LateFine(tx)'
  <2>1. CASE tx \in late
    <3>1. LateFine(tx)
      BY <2>1 DEF DeployInv
    <3>2. deploys' \in Nat /\ deploys' >= deploys
      BY <1>2
    <3> QED
      BY <1>2, <1>6, <1>7, <3>1, <3>2, LateStays
  <2>2. CASE tx \notin late
    BY <1>8, <1>9, <2>2
  <2> QED
    BY <2>1, <2>2
<1>15. FileFine'
  <2>1. CASE file' = file
    <3>1. \A q \in 1..deploys :
             Over(q) /\ (\A tx \in late : tx.to[1] # q) =>
                q # r /\ Over(q)' /\ \A tx \in late' : tx.to[1] # q
      BY <1>1, <1>6, <1>8, <1>9
    <3>2. deploys' \in Nat /\ deploys' >= deploys
      BY <1>2
    <3>3. FileFine
      BY DEF DeployInv
    <3> QED
      BY <1>2, <1>7, <2>1, <3>1, <3>2, <3>3, FileStays
  <2> QED
    BY <2>1
<1> QED
  BY <1>10, <1>11, <1>12, <1>13, <1>14, <1>15 DEF DeployInv

LEMMA RunStops ==
    ASSUME DeployInv, NEW o \in Operators, submit_refused(o) \/ submit_unconfirmed(o) \/ abort(o)
    PROVE  DeployInv'
<1>1. job[o] # Idle
  BY DEF submit_refused, submit_unconfirmed, abort, Submitting, Idle
<1>2. UNCHANGED <<calls, deploys, file>> /\ job' = [job EXCEPT ![o] = Idle]
  BY DEF submit_refused, submit_unconfirmed, abort, Stop
<1>3. late' = late \/ (Submitting(o) /\ late' = late \cup {NextTx(o)})
  BY DEF submit_refused, submit_unconfirmed, abort
<1> QED
  BY <1>1, <1>2, <1>3, ProcessSteps

LEMMA RunIsRead ==
    ASSUME DeployInv, NEW o \in Operators, verify(o) PROVE DeployInv'
<1>1. job[o] # Idle /\ job[o].pc = "submit" /\ job[o].at > Len(Todo(o))
  BY DEF verify, Idle
<1>2. /\ UNCHANGED <<calls, deploys, file, late>>
      /\ job' = [job EXCEPT ![o] = Idle] \/ job' = [job EXCEPT ![o].pc = "write"]
  BY DEF verify, Stop
<1>3. job[o] \in Jobs
  BY <1>1, AtWork
<1>4. job[o].at = Len(Todo(o)) + 1
  <2>1. PICK r \in 1..MaxDeploys, config \in Configs, d \in Nat : Working(o, r, config, d)
    BY <1>1, AtWork
  <2>2. Len(Script(r, config)) \in Nat
    BY <2>1, OneTransaction
  <2> QED
    BY <1>1, <2>1, <2>2 DEF Working, Todo
<1>5. CASE job' = [job EXCEPT ![o] = Idle]
  BY <1>1, <1>2, <1>5, ProcessSteps
<1>6. CASE job' = [job EXCEPT ![o].pc = "write"]
  <2>1. PICK next : next = [job[o] EXCEPT !.pc = "write"]
    OBVIOUS
  <2>2. /\ next \in Jobs /\ next.run = job[o].run /\ next.config = job[o].config
        /\ next.at = job[o].at
    BY <1>3, <2>1 DEF Jobs
  <2>3. job' = [job EXCEPT ![o] = next]
    BY <1>6, <2>1
  <2> QED
    BY <1>1, <1>2, <1>4, <2>2, <2>3, ProcessSteps
<1> QED
  BY <1>2, <1>5, <1>6

LEMMA FileIsOpened ==
    ASSUME DeployInv, NEW o \in Operators, open_file(o) PROVE DeployInv'
<1>1. job[o] # Idle /\ job[o].pc = "write" /\ job[o].pc # "submit"
  BY DEF open_file, Idle
<1>2. UNCHANGED <<calls, deploys, late>> /\ job' = [job EXCEPT ![o].pc = "fill"] /\ file' = Torn
  BY DEF open_file
<1>3. job[o] \in Jobs
  BY <1>1, AtWork
<1>4. job[o].at = Len(Todo(o)) + 1
  <2>1. PICK r \in 1..MaxDeploys, config \in Configs, d \in Nat : Working(o, r, config, d)
    BY <1>1, AtWork
  <2> QED
    BY <1>1, <2>1 DEF Working, Todo
<1>5. PICK next : next = [job[o] EXCEPT !.pc = "fill"]
  OBVIOUS
<1>6. /\ next \in Jobs /\ next.run = job[o].run /\ next.config = job[o].config
      /\ next.at = job[o].at
  BY <1>3, <1>5 DEF Jobs
<1>7. job' = [job EXCEPT ![o] = next]
  BY <1>2, <1>5
<1>8. FileFine'
  BY <1>2 DEF FileFine, Torn
<1> QED
  BY <1>1, <1>2, <1>4, <1>6, <1>7, <1>8, ProcessSteps

LEMMA FileIsFilled ==
    ASSUME DeployInv, NEW o \in Operators, fill_file(o) PROVE DeployInv'
<1>1. job[o] # Idle /\ job[o].pc # "submit"
  BY DEF fill_file, Idle
<1>2. /\ UNCHANGED <<calls, deploys, late>> /\ job' = [job EXCEPT ![o] = Idle]
      /\ file' = Output(job[o].run, job[o].config)
  BY DEF fill_file, Stop
<1>3. PICK r \in 1..deploys, config \in Configs, d \in Nat :
         /\ Working(o, r, config, d)
         /\ r \in 1..MaxDeploys /\ ~Over(r)
         /\ \A p \in Operators \ {o} : job[p] # Idle => job[p].run # r
  BY <1>1, AtWork
<1>4. /\ file' = Output(r, config) /\ loadDeployConfig(config)
      /\ d = Len(Script(r, config)) /\ Landed(r, config, d)
  BY <1>1, <1>2, <1>3 DEF Working
<1>5. Landed(r, config, d)'
  <2>1. Mine(0) /\ r # 0
    BY <1>2, <1>3, NothingLands
  <2> QED
    BY <1>3, <1>4, <2>1, OthersLand
<1>6. Over(r)'
  <2>1. job \in [Operators -> {Idle} \cup Jobs]
    BY DEF DeployInv, DeployTypes
  <2> QED
    BY <1>2, <1>3, <2>1 DEF Over
<1>7. ASSUME NEW tx \in late' PROVE tx.to[1] # r
  <2>1. LateFine(tx)
    BY <1>2 DEF DeployInv
  <2>2. PICK q \in 1..deploys : \E c \in Configs : \E i \in DOMAIN Script(q, c) :
           tx = Script(q, c)[i] /\ Over(q)
    BY <2>1 DEF LateFine
  <2>3. q # r /\ q \in 1..MaxDeploys
    <3>1. deploys \in 0..MaxDeploys
      BY DEF DeployInv, DeployTypes
    <3> QED
      BY <1>3, <2>2, <3>1, DeployBounds
  <2> QED
    BY <2>2, <2>3, OneTransaction
<1>8. FileFine'
  BY <1>2, <1>3, <1>4, <1>5, <1>6, <1>7 DEF FileFine
<1> QED
  BY <1>1, <1>2, <1>8, ProcessSteps

LEMMA RunStarts ==
    ASSUME DeployInv, NEW o \in Operators, NEW config \in Configs, NEW force,
           start(o, config, force)
    PROVE  DeployInv'
<1>1. /\ job[o].pc = "idle" /\ deploys < MaxDeploys /\ loadDeployConfig(config)
      /\ deploys' = deploys + 1
      /\ job' = [job EXCEPT ![o] = [pc |-> "submit", at |-> 1, run |-> deploys + 1,
                                    config |-> config]]
      /\ UNCHANGED <<calls, late, file>>
  BY DEF start
<1>2. /\ DeployTypes /\ deploys \in 0..MaxDeploys /\ deploys \in Nat
      /\ job \in [Operators -> {Idle} \cup Jobs]
  BY DeployBounds DEF DeployInv, DeployTypes
<1>3. PICK r \in Nat : r = deploys + 1
  BY <1>2
<1>4. r \in 1..MaxDeploys /\ r \in 1..deploys' /\ r > deploys /\ r \notin 1..deploys
      /\ deploys' \in Nat /\ deploys' >= deploys /\ deploys' \in 0..MaxDeploys
  BY <1>1, <1>2, <1>3, DeployBounds
<1>5. PICK next : next = [pc |-> "submit", at |-> 1, run |-> r, config |-> config]
  OBVIOUS
<1>6. next \in Jobs /\ next.pc = "submit" /\ next.at = 1 /\ next.run = r /\ next.config = config
  BY <1>3, <1>5 DEF Jobs
<1>7. /\ job'[o] = next /\ \A p \in Operators \ {o} : job'[p] = job[p]
      /\ job' \in [Operators -> {Idle} \cup Jobs]
  BY <1>1, <1>2, <1>3, <1>5, <1>6
<1>8. ASSUME NEW p \in Operators, job[p] # Idle PROVE job[p].run # r
  <2>1. PICK q \in 1..deploys, c \in Configs, d \in Nat : Working(p, q, c, d)
    BY <1>8, AtWork
  <2> QED
    BY <1>4, <2>1 DEF Working
<1>9. \A q \in 1..deploys : Over(q) => Over(q)'
  BY <1>4, <1>6, <1>7 DEF Over
<1>10. Mine(r) /\ \A a \in Address : CallFine(a) => CallFine(a)'
  BY <1>1, NothingLands
<1>11. DeployTypes'
  BY <1>1, <1>2, <1>4, <1>7 DEF DeployTypes
<1>12. NoneToCome'
  <2> SUFFICES ASSUME NEW q \in 1..MaxDeploys, q > deploys', NEW name \in Names
               PROVE  ~Live(<<q, name>>)'
    BY DEF NoneToCome
  <2>1. q > deploys
    BY <1>1, <1>2
  <2> QED
    BY <1>1, <2>1 DEF DeployInv, NoneToCome, Live
<1>13. Landed(r, config, 0)'
  <2>1. Landed(r, config, 0)
    <3>1. \A name \in Names : ~Live(<<r, name>>) /\ \A op : Taken(<<r, name>>, op) = {}
      BY <1>4 DEF DeployInv, NoneToCome, Taken
    <3>2. \A i \in 1..4 : ~Live(<<r, CONTRACTS[i]>>) /\ ~(i <= 0)
      BY <3>1, AddressesOf
    <3>3. 1..0 = {}
      OBVIOUS
    <3> QED
      BY <3>1, <3>2, <3>3 DEF Landed
  <2>2. Mine(0) /\ r # 0
    BY <1>1, <1>4, NothingLands
  <2> QED
    BY <1>4, <2>1, <2>2, OthersLand
<1>14. ASSUME NEW p \in Operators PROVE JobFine(p)'
  <2>1. CASE p = o
    <3>1. Len(Script(r, config)) \in Nat
      BY <1>4, OneTransaction
    <3>2. Working(o, r, config, 0)'
      BY <1>1, <1>6, <1>7, <1>8, <1>13, <3>1 DEF Working
    <3> QED
      BY <1>4, <2>1, <3>2 DEF JobFine
  <2>2. CASE p # o
    <3>1. job'[p] = job[p] /\ JobFine(p)
      BY <1>7, <2>2 DEF DeployInv
    <3>2. ASSUME job[p] # Idle
          PROVE  /\ job[p].run # r
                 /\ \A q \in Operators \ {p} : job'[q] # Idle => job'[q].run # job[p].run
      <4>1. \A q \in Operators \ {p} : job[q] # Idle => job[q].run # job[p].run
        BY <3>1, <3>2 DEF JobFine, Working
      <4>2. job[p].run # r
        BY <1>8, <3>2
      <4> QED
        BY <1>6, <1>7, <4>1, <4>2
    <3> QED
      BY <1>2, <1>4, <1>10, <3>1, <3>2, JobStays
  <2> QED
    BY <2>1, <2>2
<1>15. ASSUME NEW tx \in late' PROVE LateFine(tx)'
  <2>1. LateFine(tx)
    BY <1>1 DEF DeployInv
  <2> QED
    BY <1>2, <1>4, <1>9, <1>10, <2>1, LateStays
<1>16. FileFine'
  <2>1. \A q \in 1..deploys :
           Over(q) /\ (\A tx \in late : tx.to[1] # q) =>
              q # r /\ Over(q)' /\ \A tx \in late' : tx.to[1] # q
    BY <1>1, <1>4, <1>9
  <2>2. FileFine /\ file' = file
    BY <1>1 DEF DeployInv
  <2> QED
    BY <1>2, <1>4, <1>10, <2>1, <2>2, FileStays
<1> QED
  BY <1>10, <1>11, <1>12, <1>14, <1>15, <1>16 DEF DeployInv

LEMMA TransactionIsConfirmed ==
    ASSUME DeployInv, NEW o \in Operators, submit_confirmed(o) PROVE DeployInv'
<1>1. /\ Submitting(o) /\ Accepts(NextTx(o)) /\ Land(NextTx(o))
      /\ job' = [job EXCEPT ![o].at = @ + 1]
      /\ UNCHANGED <<late, file, deploys>>
  BY DEF submit_confirmed
<1>2. job[o] # Idle /\ job[o].pc = "submit"
  BY <1>1 DEF Submitting, Idle
<1>3. PICK r \in 1..deploys, config \in Configs, d \in Nat :
         /\ Working(o, r, config, d)
         /\ r \in 1..MaxDeploys /\ ~Over(r)
         /\ \A p \in Operators \ {o} : job[p] # Idle => job[p].run # r
         /\ d + 1 \in DOMAIN Script(r, config)
         /\ NextTx(o) = Script(r, config)[d + 1]
         /\ d + 1 \notin 1..4 => AllLive(r)
  BY <1>1, <1>2, AtWork
<1>4. /\ DeployTypes /\ deploys \in 0..MaxDeploys /\ deploys \in Nat
      /\ job \in [Operators -> {Idle} \cup Jobs] /\ job[o] \in Jobs
      /\ deploys' \in Nat /\ deploys' >= deploys
  BY <1>1, <1>2, AtWork, DeployBounds DEF DeployInv, DeployTypes
<1>5. PICK k \in DOMAIN Script(r, config) : k = d + 1
  BY <1>3
<1>6. PICK tx : tx = Script(r, config)[k]
  OBVIOUS
<1>7. Accepts(tx) /\ Land(tx)
  BY <1>1, <1>3, <1>5, <1>6
<1>8. k \notin 1..4 => AllLive(r)
  BY <1>3, <1>5
<1>9. /\ calls' \in [Address -> Seq(Noted) \cup {Absent}]
      /\ Mine(r)
      /\ \A a \in Address, op \in EntryPoints : \A x \in Taken(a, op)' :
            x \in Taken(a, op) \/ (k \notin 1..4 /\ tx = Tx(a, op, x) /\ a[1] = r)
  BY <1>3, <1>4, <1>6, <1>7, TransactionLands
<1>10. Landed(r, config, k)'
  <2>1. Landed(r, config, d)
    BY <1>3 DEF Working
  <2> QED
    BY <1>3, <1>4, <1>5, <1>6, <1>7, <2>1, OneMoreLanded
<1>11. PICK next : next = [job[o] EXCEPT !.at = k + 1]
  OBVIOUS
<1>12. /\ next \in Jobs /\ next.pc = "submit" /\ next.at = k + 1
       /\ next.run = r /\ next.config = config
  <2>1. k + 1 \in Nat /\ job[o].run = r /\ job[o].config = config
    BY <1>3, <1>5 DEF Working
  <2> QED
    BY <1>2, <1>4, <1>11, <2>1 DEF Jobs
<1>13. /\ job'[o] = next /\ \A p \in Operators \ {o} : job'[p] = job[p]
       /\ job' \in [Operators -> {Idle} \cup Jobs]
  <2>1. job[o].at = k
    BY <1>3, <1>5 DEF Working
  <2>2. job' = [job EXCEPT ![o] = next]
    BY <1>1, <1>11, <2>1
  <2> QED
    BY <1>4, <1>12, <2>2
<1>14. \A q \in 1..deploys : Over(q) => Over(q)' /\ q # r
  BY <1>2, <1>3, <1>12, <1>13 DEF Over
<1>15. DeployTypes'
  BY <1>1, <1>4, <1>9, <1>13 DEF DeployTypes
<1>16. NoneToCome'
  <2> SUFFICES ASSUME NEW q \in 1..MaxDeploys, q > deploys, NEW name \in Names
               PROVE  ~Live(<<q, name>>)'
    BY <1>1 DEF NoneToCome
  <2>1. <<q, name>> \in Address /\ <<q, name>>[1] # r
    BY <1>3, <1>4, AddressesOf
  <2>2. ~Live(<<q, name>>)
    BY DEF DeployInv, NoneToCome
  <2> QED
    BY <1>9, <2>1, <2>2 DEF Mine
<1>17. ASSUME NEW p \in Operators PROVE JobFine(p)'
  <2>1. CASE p = o
    <3>1. Len(Script(r, config)) \in Nat /\ k \in Nat /\ k <= Len(Script(r, config))
      BY <1>3, OneTransaction
    <3>2. \A q \in Operators \ {o} : job'[q] # Idle => job'[q].run # r
      BY <1>3, <1>13
    <3>3. Working(o, r, config, k)'
      BY <1>3, <1>10, <1>12, <1>13, <3>1, <3>2 DEF Working
    <3> QED
      BY <1>1, <1>3, <2>1, <3>1, <3>3 DEF JobFine
  <2>2. CASE p # o
    <3>1. job'[p] = job[p] /\ JobFine(p)
      BY <1>13, <2>2 DEF DeployInv
    <3>2. ASSUME job[p] # Idle
          PROVE  /\ job[p].run # r
                 /\ \A q \in Operators \ {p} : job'[q] # Idle => job'[q].run # job[p].run
      <4>1. \A q \in Operators \ {p} : job[q] # Idle => job[q].run # job[p].run
        BY <3>1, <3>2 DEF JobFine, Working
      <4>2. job[p].run # r
        BY <1>3, <2>2, <3>2
      <4> QED
        BY <1>12, <1>13, <4>1, <4>2
    <3> QED
      BY <1>4, <1>9, <3>1, <3>2, JobStays
  <2> QED
    BY <2>1, <2>2
<1>18. ASSUME NEW a \in Address PROVE CallFine(a)'
  <2>1. CallFine(a)
    BY DEF DeployInv
  <2> QED
    BY <1>6, <1>8, <1>9, <2>1, CallsStay
<1>19. ASSUME NEW t \in late' PROVE LateFine(t)'
  <2>1. LateFine(t)
    BY <1>1 DEF DeployInv
  <2> QED
    BY <1>4, <1>9, <1>14, <2>1, LateStays
<1>20. FileFine'
  <2>1. \A q \in 1..deploys :
           Over(q) /\ (\A t \in late : t.to[1] # q) =>
              q # r /\ Over(q)' /\ \A t \in late' : t.to[1] # q
    BY <1>1, <1>14
  <2>2. FileFine /\ file' = file
    BY <1>1 DEF DeployInv
  <2> QED
    BY <1>4, <1>9, <2>1, <2>2, FileStays
<1> QED
  BY <1>15, <1>16, <1>17, <1>18, <1>19, <1>20 DEF DeployInv

LEMMA LateOneSettles ==
    ASSUME DeployInv, NEW tx \in late, land_late(tx) \/ expire_late(tx) PROVE DeployInv'
<1>1. /\ late' = late \ {tx} /\ UNCHANGED <<file, job, deploys>>
      /\ UNCHANGED calls \/ (Accepts(tx) /\ Land(tx))
  BY DEF land_late, expire_late
<1>2. /\ DeployTypes /\ deploys \in 0..MaxDeploys /\ deploys \in Nat
      /\ deploys' \in Nat /\ deploys' >= deploys
  BY <1>1, DeployBounds DEF DeployInv, DeployTypes
<1>3. LateFine(tx)
  BY DEF DeployInv
<1>4. PICK r \in 1..deploys : \E config \in Configs : \E i \in DOMAIN Script(r, config) :
         /\ tx = Script(r, config)[i] /\ Over(r)
         /\ i \notin 1..4 => AllLive(r)
  BY <1>3 DEF LateFine
<1>5. PICK config \in Configs : \E i \in DOMAIN Script(r, config) :
         /\ tx = Script(r, config)[i] /\ Over(r)
         /\ i \notin 1..4 => AllLive(r)
  BY <1>4
<1>6. PICK i \in DOMAIN Script(r, config) :
         /\ tx = Script(r, config)[i] /\ Over(r)
         /\ i \notin 1..4 => AllLive(r)
  BY <1>5
<1>7. r \in 1..MaxDeploys
  BY <1>2, DeployBounds
<1>8. tx.to[1] = r
  BY <1>6, <1>7, OneTransaction
<1>9. /\ calls' \in [Address -> Seq(Noted) \cup {Absent}]
      /\ Mine(r)
      /\ \A a \in Address : CallFine(a)'
  <2>1. CASE UNCHANGED calls
    BY <1>2, <2>1, NothingLands DEF DeployInv, DeployTypes
  <2>2. CASE Accepts(tx) /\ Land(tx)
    <3>1. /\ calls' \in [Address -> Seq(Noted) \cup {Absent}]
          /\ Mine(r)
          /\ \A a \in Address, op \in EntryPoints : \A x \in Taken(a, op)' :
                x \in Taken(a, op) \/ (i \notin 1..4 /\ tx = Tx(a, op, x) /\ a[1] = r)
      BY <1>2, <1>6, <1>7, <2>2, TransactionLands
    <3>2. ASSUME NEW a \in Address PROVE CallFine(a)'
      <4>1. CallFine(a)
        BY DEF DeployInv
      <4> QED
        BY <1>6, <3>1, <4>1, CallsStay
    <3> QED
      BY <3>1, <3>2
  <2> QED
    BY <1>1, <2>1, <2>2
<1>10. DeployTypes'
  BY <1>1, <1>2, <1>9 DEF DeployTypes
<1>11. NoneToCome'
  <2> SUFFICES ASSUME NEW q \in 1..MaxDeploys, q > deploys, NEW name \in Names
               PROVE  ~Live(<<q, name>>)'
    BY <1>1 DEF NoneToCome
  <2>1. <<q, name>> \in Address /\ <<q, name>>[1] # r
    BY <1>2, <1>4, AddressesOf
  <2>2. ~Live(<<q, name>>)
    BY DEF DeployInv, NoneToCome
  <2> QED
    BY <1>9, <2>1, <2>2 DEF Mine
<1>12. \A q : Over(q) => Over(q)'
  BY <1>1 DEF Over
<1>13. ASSUME NEW p \in Operators PROVE JobFine(p)'
  <2>1. JobFine(p)
    BY DEF DeployInv
  <2>2. ASSUME job[p] # Idle
        PROVE  /\ job[p].run # r
               /\ \A q \in Operators \ {p} : job'[q] # Idle => job'[q].run # job[p].run
    <3>1. \A q \in Operators \ {p} : job[q] # Idle => job[q].run # job[p].run
      BY <2>1, <2>2 DEF JobFine, Working
    <3>2. job[p].run # r
      BY <1>6, <2>2 DEF Over
    <3> QED
      BY <1>1, <3>1, <3>2
  <2> QED
    BY <1>1, <1>2, <1>9, <2>1, <2>2, JobStays
<1>14. ASSUME NEW t \in late' PROVE LateFine(t)'
  <2>1. LateFine(t)
    BY <1>1 DEF DeployInv
  <2> QED
    BY <1>2, <1>9, <1>12, <2>1, LateStays
<1>15. FileFine'
  <2>1. \A q \in 1..deploys :
           Over(q) /\ (\A t \in late : t.to[1] # q) =>
              q # r /\ Over(q)' /\ \A t \in late' : t.to[1] # q
    BY <1>1, <1>8, <1>12
  <2>2. FileFine /\ file' = file
    BY <1>1 DEF DeployInv
  <2> QED
    BY <1>2, <1>9, <2>1, <2>2, FileStays
<1> QED
  BY <1>9, <1>10, <1>11, <1>13, <1>14, <1>15 DEF DeployInv

LEMMA DeployKeepsInv == DeployInv /\ [DeployNext]_deployVars => DeployInv'
<1> SUFFICES ASSUME DeployInv, [DeployNext]_deployVars PROVE DeployInv'
  OBVIOUS
<1>1. ASSUME NEW o \in Operators, Deploy(o) PROVE DeployInv'
  <2>1. ASSUME NEW config \in Configs, NEW force \in BOOLEAN, start(o, config, force)
        PROVE  DeployInv'
    BY <2>1, RunStarts
  <2> QED
    BY <1>1, <2>1, RunStops, RunIsRead, FileIsOpened, FileIsFilled, TransactionIsConfirmed
    DEF Deploy
<1>2. ASSUME NEW tx \in late, land_late(tx) \/ expire_late(tx) PROVE DeployInv'
  BY <1>2, LateOneSettles
<1>3. CASE UNCHANGED deployVars
  <2>1. UNCHANGED <<calls, late, file, job, deploys>>
    BY <1>3 DEF deployVars
  <2>2. UNCHANGED calls
    BY <2>1
  <2>3. /\ Mine(0) /\ (\A a \in Address : CallFine(a) => CallFine(a)')
        /\ \A a \in Address : Live(a)' = Live(a)
    BY <2>2, NothingLands
  <2>4. DeployTypes' /\ NoneToCome'
    BY <2>1 DEF DeployInv, DeployTypes, NoneToCome, Live
  <2>5. deploys \in 0..MaxDeploys /\ deploys' \in Nat /\ deploys' >= deploys
    BY <2>1, DeployBounds DEF DeployInv, DeployTypes
  <2>6. \A q : Over(q) => Over(q)'
    BY <2>1 DEF Over
  <2>7. ASSUME NEW p \in Operators PROVE JobFine(p)'
    <3>1. JobFine(p)
      BY DEF DeployInv
    <3>2. ASSUME job[p] # Idle
          PROVE  /\ job[p].run # 0
                 /\ \A q \in Operators \ {p} : job'[q] # Idle => job'[q].run # job[p].run
      BY <2>1, <3>1, <3>2 DEF JobFine, Working
    <3> QED
      BY <2>1, <2>3, <2>5, <3>1, <3>2, JobStays
  <2>8. ASSUME NEW t \in late' PROVE LateFine(t)'
    <3>1. LateFine(t)
      BY <2>1 DEF DeployInv
    <3> QED
      BY <2>3, <2>5, <2>6, <3>1, LateStays
  <2>9. FileFine'
    <3>1. \A q \in 1..deploys :
             Over(q) /\ (\A t \in late : t.to[1] # q) =>
                q # 0 /\ Over(q)' /\ \A t \in late' : t.to[1] # q
      BY <2>1, <2>6
    <3>2. FileFine /\ file' = file
      BY <2>1 DEF DeployInv
    <3> QED
      BY <2>3, <2>5, <3>1, <3>2, FileStays
  <2> QED
    BY <2>3, <2>4, <2>7, <2>8, <2>9 DEF DeployInv
<1> QED
  BY <1>1, <1>2, <1>3 DEF DeployNext

-----------------------------------------------------------------------------
(* What the invariant says of the file and of the next transaction. *)

\* Which entry point each place of the list calls, and the other way round.
LEMMA CallsAtPlaces ==
    ASSUME NEW s, NEW r, NEW config, NEW n, NEW c, NEW t,
           Transactions(s, r, config, n, c, t)
    PROVE  /\ \A i \in 1..4 : s[i].op = "create"
           /\ s[5].op = "initialize" /\ s[6].op = "initialize"
           /\ s[7].op = "initialize" /\ s[8].op = "initialize"
           /\ s[9].op = "set_escrow" /\ s[10].op = "set_operator"
           /\ \A m \in 1..n : s[9 + 2 * m].op = "add_region" /\ s[10 + 2 * m].op = "open_region"
           /\ \A m \in 1..c : s[10 + 2 * n + m].op = "map_corridor"
           /\ \A m \in 1..t : s[10 + 2 * n + c + m].op = "set_tier_thresholds"
<1>1. \A to, op, arg : Tx(to, op, arg).op = op
  BY DEF Tx
<1>2. \A at, tier : TierCall(at, tier).op = "set_tier_thresholds"
  BY <1>1 DEF TierCall
<1>3. \A i \in 1..4 : s[i].op = "create"
  BY <1>1 DEF Transactions
<1>4. /\ s[5].op = "initialize" /\ s[6].op = "initialize"
      /\ s[7].op = "initialize" /\ s[8].op = "initialize"
      /\ s[9].op = "set_escrow" /\ s[10].op = "set_operator"
  BY <1>1 DEF Transactions
<1>5. \A m \in 1..n : s[9 + 2 * m].op = "add_region" /\ s[10 + 2 * m].op = "open_region"
  BY <1>1 DEF Transactions
<1>6. \A m \in 1..c : s[10 + 2 * n + m].op = "map_corridor"
  BY <1>1 DEF Transactions
<1>7. \A m \in 1..t : s[10 + 2 * n + c + m].op = "set_tier_thresholds"
  BY <1>2 DEF Transactions
<1> QED
  BY <1>3, <1>4, <1>5, <1>6, <1>7

LEMMA PlacesOfCalls ==
    ASSUME NEW s, NEW r, NEW config, NEW n, NEW c, NEW t,
           Transactions(s, r, config, n, c, t), NEW i \in DOMAIN s
    PROVE  /\ s[i].op = "initialize" => i = 5 \/ i = 6 \/ i = 7 \/ i = 8
           /\ s[i].op = "set_escrow" => i = 9
           /\ s[i].op = "set_operator" => i = 10
           /\ s[i].op = "add_region" => \E m \in 1..n : i = 9 + 2 * m
           /\ s[i].op = "open_region" => \E m \in 1..n : i = 10 + 2 * m
           /\ s[i].op = "map_corridor" => \E m \in 1..c : i = 10 + 2 * n + m
           /\ s[i].op = "set_tier_thresholds" => \E m \in 1..t : i = 10 + 2 * n + c + m
<1> DEFINE One == i = 5 \/ i = 6 \/ i = 7 \/ i = 8
           Add == \E m \in 1..n : i = 9 + 2 * m
           Open == \E m \in 1..n : i = 10 + 2 * m
           Map == \E m \in 1..c : i = 10 + 2 * n + m
           Tier == \E m \in 1..t : i = 10 + 2 * n + c + m
<1>1. i \in 1..4 \/ One \/ i = 9 \/ i = 10 \/ Add \/ Open \/ Map \/ Tier
  <2>1. \/ i \in 1..4
        \/ i \in 5..10
        \/ \E m \in 1..n : i = 9 + 2 * m \/ i = 10 + 2 * m
        \/ Map
        \/ Tier
    BY Places
  <2>2. i \in 5..10 => One \/ i = 9 \/ i = 10
    OBVIOUS
  <2> QED
    BY <2>1, <2>2
<1>2. /\ i \in 1..4 => s[i].op = "create"
      /\ One => s[i].op = "initialize"
      /\ i = 9 => s[i].op = "set_escrow"
      /\ i = 10 => s[i].op = "set_operator"
  BY CallsAtPlaces
<1>3. /\ Add => s[i].op = "add_region"
      /\ Open => s[i].op = "open_region"
      /\ Map => s[i].op = "map_corridor"
      /\ Tier => s[i].op = "set_tier_thresholds"
  BY CallsAtPlaces
<1> HIDE DEF One, Add, Open, Map, Tier
<1>4. /\ s[i].op = "initialize" => One
      /\ s[i].op = "set_escrow" => i = 9
      /\ s[i].op = "set_operator" => i = 10
      /\ s[i].op = "add_region" => Add
      /\ s[i].op = "open_region" => Open
      /\ s[i].op = "map_corridor" => Map
      /\ s[i].op = "set_tier_thresholds" => Tier
  BY <1>1, <1>2, <1>3
<1> QED
  BY <1>4 DEF One, Add, Open, Map, Tier

\* What the contracts of a run have taken when all of it has landed.
AllTaken(r, config, n, c, t) ==
    /\ Taken(<<r, "registry">>, "initialize") = {Absent}
    /\ Taken(<<r, "hook">>, "initialize") = {Absent}
    /\ Taken(<<r, "pool">>, "initialize") =
          {[registry |-> <<r, "registry">>, cap |-> config.defaultUtilizationCapBps]}
    /\ Taken(<<r, "escrow">>, "initialize") =
          {[registry |-> <<r, "registry">>, hook |-> <<r, "hook">>,
            feeBps |-> config.feeBps]}
    /\ Taken(<<r, "hook">>, "set_escrow") = {<<r, "escrow">>}
    /\ Taken(<<r, "hook">>, "set_operator") = {Attester}
    /\ Taken(<<r, "registry">>, "add_region") = {config.regions[m] : m \in 1..n}
    /\ Taken(<<r, "pool">>, "open_region") = {config.regions[m] : m \in 1..n}
    /\ Taken(<<r, "registry">>, "map_corridor") = {config.corridors[m] : m \in 1..c}
    /\ Taken(<<r, "hook">>, "set_tier_thresholds") =
          {TierCall(Instances(r), config.complianceTiers[m]).arg : m \in 1..t}

LEMMA WholeRun ==
    ASSUME NEW r \in 1..MaxDeploys, NEW config \in Configs, NEW n, NEW c, NEW t,
           Transactions(Script(r, config), r, config, n, c, t),
           Landed(r, config, Len(Script(r, config)))
    PROVE  AllTaken(r, config, n, c, t)
<1> DEFINE s == Script(r, config)
           k == Len(s)
<1>1. DOMAIN s = 1..k /\ k \in Nat /\ n \in Nat /\ c \in Nat /\ t \in Nat /\ k > 10
      /\ k = 10 + 2 * n + c + t
  BY DEF Transactions
<1>2. ASSUME NEW name \in Names, NEW op \in EntryPoints
      PROVE  Taken(<<r, name>>, op) =
                {s[i].arg : i \in {j \in 1..k : s[j].to = <<r, name>> /\ s[j].op = op}}
  BY DEF Landed
<1>3. /\ "registry" \in Names /\ "hook" \in Names /\ "pool" \in Names /\ "escrow" \in Names
      /\ "initialize" \in EntryPoints /\ "set_escrow" \in EntryPoints
      /\ "set_operator" \in EntryPoints /\ "add_region" \in EntryPoints
      /\ "open_region" \in EntryPoints /\ "map_corridor" \in EntryPoints
      /\ "set_tier_thresholds" \in EntryPoints
  BY NamesAre DEF EntryPoints
<1>4. /\ s[5] = Tx(<<r, "registry">>, "initialize", Absent)
      /\ s[6] = Tx(<<r, "hook">>, "initialize", Absent)
      /\ s[7] = Tx(<<r, "pool">>, "initialize",
                   [registry |-> <<r, "registry">>, cap |-> config.defaultUtilizationCapBps])
      /\ s[8] = Tx(<<r, "escrow">>, "initialize",
                   [registry |-> <<r, "registry">>, hook |-> <<r, "hook">>,
                    feeBps |-> config.feeBps])
      /\ s[9] = Tx(<<r, "hook">>, "set_escrow", <<r, "escrow">>)
      /\ s[10] = Tx(<<r, "hook">>, "set_operator", Attester)
  BY DEF Transactions
<1>5. 5 \in 1..k /\ 6 \in 1..k /\ 7 \in 1..k /\ 8 \in 1..k /\ 9 \in 1..k /\ 10 \in 1..k
  BY <1>1
<1>6. \A j \in 1..k :
         /\ s[j].op = "initialize" => j = 5 \/ j = 6 \/ j = 7 \/ j = 8
         /\ s[j].op = "set_escrow" => j = 9
         /\ s[j].op = "set_operator" => j = 10
         /\ s[j].op = "add_region" => \E m \in 1..n : j = 9 + 2 * m
         /\ s[j].op = "open_region" => \E m \in 1..n : j = 10 + 2 * m
         /\ s[j].op = "map_corridor" => \E m \in 1..c : j = 10 + 2 * n + m
         /\ s[j].op = "set_tier_thresholds" => \E m \in 1..t : j = 10 + 2 * n + c + m
  <2>1. Transactions(s, r, config, n, c, t)
    OBVIOUS
  <2> HIDE DEF s, k
  <2>2. \A j \in 1..k : j \in DOMAIN s
    BY <1>1
  <2> QED
    BY <2>1, <2>2, PlacesOfCalls
<1>7. /\ s[5].to = <<r, "registry">> /\ s[6].to = <<r, "hook">>
      /\ s[7].to = <<r, "pool">> /\ s[8].to = <<r, "escrow">>
  BY <1>4 DEF Tx
<1>8. /\ <<r, "registry">> # <<r, "hook">> /\ <<r, "registry">> # <<r, "pool">>
      /\ <<r, "registry">> # <<r, "escrow">> /\ <<r, "hook">> # <<r, "pool">>
      /\ <<r, "hook">> # <<r, "escrow">> /\ <<r, "pool">> # <<r, "escrow">>
  OBVIOUS
<1>9. \A to, op, arg : Tx(to, op, arg).to = to /\ Tx(to, op, arg).op = op
                       /\ Tx(to, op, arg).arg = arg
  BY DEF Tx
<1> DEFINE Once(name, op, i) ==
               \A j \in 1..k : s[j].to = <<r, name>> /\ s[j].op = op => j = i
           Each(name, op, l, f, g) ==
               /\ \A m \in 1..l : f[m] \in 1..k /\ s[f[m]] = Tx(<<r, name>>, op, g[m])
               /\ \A j \in 1..k : s[j].op = op => \E m \in 1..l : j = f[m]
<1> HIDE DEF s, k
\* An entry point that the run calls once, at place i, or with each of a list, at
\* the places of f.
<1>10. ASSUME NEW name \in Names, NEW op \in EntryPoints, NEW i \in 1..k, Once(name, op, i),
              s[i].to = <<r, name>>, s[i].op = op
       PROVE  Taken(<<r, name>>, op) = {s[i].arg}
  <2>1. {j \in 1..k : s[j].to = <<r, name>> /\ s[j].op = op} = {i}
    BY <1>10
  <2>2. {s[j].arg : j \in {i}} = {s[i].arg}
    OBVIOUS
  <2> QED
    BY <1>2, <2>1, <2>2
<1>11. ASSUME NEW name \in Names, NEW op \in EntryPoints, NEW l, NEW f, NEW g,
              Each(name, op, l, f, g)
       PROVE  Taken(<<r, name>>, op) = {g[m] : m \in 1..l}
  <2>1. \A m \in 1..l : /\ f[m] \in 1..k /\ s[f[m]].to = <<r, name>>
                        /\ s[f[m]].op = op /\ s[f[m]].arg = g[m]
    BY <1>9, <1>11
  <2>2. \A j \in 1..k : s[j].op = op => \E m \in 1..l : j = f[m]
    BY <1>11
  <2>3. {s[i].arg : i \in {j \in 1..k : s[j].to = <<r, name>> /\ s[j].op = op}}
        \subseteq {g[m] : m \in 1..l}
    BY <2>1, <2>2
  <2>4. ASSUME NEW m \in 1..l
        PROVE  g[m] \in {s[i].arg : i \in {j \in 1..k : s[j].to = <<r, name>> /\ s[j].op = op}}
    BY <2>1
  <2> QED
    BY <1>2, <2>3, <2>4
<1>12. /\ Once("registry", "initialize", 5) /\ Once("hook", "initialize", 6)
       /\ Once("pool", "initialize", 7) /\ Once("escrow", "initialize", 8)
       /\ Once("hook", "set_escrow", 9) /\ Once("hook", "set_operator", 10)
  BY <1>6, <1>7, <1>8
<1>13. /\ s[5].to = <<r, "registry">> /\ s[5].op = "initialize" /\ s[5].arg = Absent
       /\ s[6].to = <<r, "hook">> /\ s[6].op = "initialize" /\ s[6].arg = Absent
       /\ s[7].to = <<r, "pool">> /\ s[7].op = "initialize"
       /\ s[8].to = <<r, "escrow">> /\ s[8].op = "initialize"
       /\ s[9].to = <<r, "hook">> /\ s[9].op = "set_escrow" /\ s[9].arg = <<r, "escrow">>
       /\ s[10].to = <<r, "hook">> /\ s[10].op = "set_operator" /\ s[10].arg = Attester
  BY <1>4, <1>9
<1>14. /\ s[7].arg = [registry |-> <<r, "registry">>, cap |-> config.defaultUtilizationCapBps]
       /\ s[8].arg = [registry |-> <<r, "registry">>, hook |-> <<r, "hook">>,
                      feeBps |-> config.feeBps]
  BY <1>4, <1>9
<1> HIDE DEF Once
<1>15. /\ Taken(<<r, "registry">>, "initialize") = {s[5].arg}
       /\ Taken(<<r, "hook">>, "initialize") = {s[6].arg}
       /\ Taken(<<r, "pool">>, "initialize") = {s[7].arg}
       /\ Taken(<<r, "escrow">>, "initialize") = {s[8].arg}
  BY <1>3, <1>5, <1>10, <1>12, <1>13
<1>16. /\ Taken(<<r, "hook">>, "set_escrow") = {s[9].arg}
       /\ Taken(<<r, "hook">>, "set_operator") = {s[10].arg}
  BY <1>3, <1>5, <1>10, <1>12, <1>13
<1>17. /\ \A m \in 1..n :
             /\ 9 + 2 * m \in 1..k /\ 10 + 2 * m \in 1..k
             /\ s[9 + 2 * m] = Tx(<<r, "registry">>, "add_region", config.regions[m])
             /\ s[10 + 2 * m] = Tx(<<r, "pool">>, "open_region", config.regions[m])
       /\ \A m \in 1..c :
             /\ 10 + 2 * n + m \in 1..k
             /\ s[10 + 2 * n + m] = Tx(<<r, "registry">>, "map_corridor", config.corridors[m])
       /\ \A m \in 1..t :
             /\ 10 + 2 * n + c + m \in 1..k
             /\ s[10 + 2 * n + c + m] = TierCall(Instances(r), config.complianceTiers[m])
  <2>1. /\ \A m \in 1..n :
             /\ s[9 + 2 * m] = Tx(<<r, "registry">>, "add_region", config.regions[m])
             /\ s[10 + 2 * m] = Tx(<<r, "pool">>, "open_region", config.regions[m])
        /\ \A m \in 1..c :
             s[10 + 2 * n + m] = Tx(<<r, "registry">>, "map_corridor", config.corridors[m])
        /\ \A m \in 1..t :
             s[10 + 2 * n + c + m] = TierCall(Instances(r), config.complianceTiers[m])
    BY DEF Transactions, s
  <2>2. /\ \A m \in 1..n : 9 + 2 * m \in 1..k /\ 10 + 2 * m \in 1..k
        /\ \A m \in 1..c : 10 + 2 * n + m \in 1..k
        /\ \A m \in 1..t : 10 + 2 * n + c + m \in 1..k
    BY <1>1
  <2> QED
    BY <2>1, <2>2
<1>18. Taken(<<r, "registry">>, "add_region") = {config.regions[m] : m \in 1..n}
  <2>1. PICK f, g : /\ f = [m \in 1..n |-> 9 + 2 * m]
                    /\ g = [m \in 1..n |-> config.regions[m]]
    OBVIOUS
  <2>2. Each("registry", "add_region", n, f, g)
    BY <1>6, <1>17, <2>1
  <2> HIDE DEF Each
  <2>3. Taken(<<r, "registry">>, "add_region") = {g[m] : m \in 1..n}
    BY <1>3, <1>11, <2>2
  <2> QED
    BY <2>1, <2>3
<1>19. Taken(<<r, "pool">>, "open_region") = {config.regions[m] : m \in 1..n}
  <2>1. PICK f, g : /\ f = [m \in 1..n |-> 10 + 2 * m]
                    /\ g = [m \in 1..n |-> config.regions[m]]
    OBVIOUS
  <2>2. Each("pool", "open_region", n, f, g)
    BY <1>6, <1>17, <2>1
  <2> HIDE DEF Each
  <2>3. Taken(<<r, "pool">>, "open_region") = {g[m] : m \in 1..n}
    BY <1>3, <1>11, <2>2
  <2> QED
    BY <2>1, <2>3
<1>20. Taken(<<r, "registry">>, "map_corridor") = {config.corridors[m] : m \in 1..c}
  <2>1. PICK f, g : /\ f = [m \in 1..c |-> 10 + 2 * n + m]
                    /\ g = [m \in 1..c |-> config.corridors[m]]
    OBVIOUS
  <2>2. Each("registry", "map_corridor", c, f, g)
    BY <1>6, <1>17, <2>1
  <2> HIDE DEF Each
  <2>3. Taken(<<r, "registry">>, "map_corridor") = {g[m] : m \in 1..c}
    BY <1>3, <1>11, <2>2
  <2> QED
    BY <2>1, <2>3
<1>21. Taken(<<r, "hook">>, "set_tier_thresholds") =
          {TierCall(Instances(r), config.complianceTiers[m]).arg : m \in 1..t}
  <2>1. PICK f, g : /\ f = [m \in 1..t |-> 10 + 2 * n + c + m]
                    /\ g = [m \in 1..t |-> TierCall(Instances(r), config.complianceTiers[m]).arg]
    OBVIOUS
  <2>2. Instances(r)["hook"] = <<r, "hook">>
    BY <1>3 DEF Instances
  <2>3. \A tier : TierCall(Instances(r), tier) =
                     Tx(<<r, "hook">>, "set_tier_thresholds", TierCall(Instances(r), tier).arg)
    BY <1>9, <2>2 DEF TierCall
  <2>4. Each("hook", "set_tier_thresholds", t, f, g)
    BY <1>6, <1>17, <2>1, <2>3
  <2> HIDE DEF Each
  <2>5. Taken(<<r, "hook">>, "set_tier_thresholds") = {g[m] : m \in 1..t}
    BY <1>3, <1>11, <2>4
  <2> QED
    BY <2>1, <2>5
<1> QED
  BY <1>13, <1>14, <1>15, <1>16, <1>18, <1>19, <1>20, <1>21 DEF AllTaken

LEMMA InvIsWired == DeployInv => RecordedSetIsWired
<1> SUFFICES ASSUME DeployInv, Recorded PROVE RecordedSetIsWired
  BY DEF RecordedSetIsWired
<1>1. PICK r \in 1..deploys, config \in Configs :
         /\ file = Output(r, config) /\ loadDeployConfig(config)
         /\ Landed(r, config, Len(Script(r, config)))
  BY DEF DeployInv, FileFine, Recorded
<1>2. r \in 1..MaxDeploys
  <2>1. deploys \in 0..MaxDeploys
    BY DEF DeployInv, DeployTypes
  <2> QED
    BY <2>1, DeployBounds
<1>3. PICK n, c, t : /\ n = Len(config.regions) /\ c = Len(config.corridors)
                     /\ t = Len(config.complianceTiers)
                     /\ Transactions(Script(r, config), r, config, n, c, t)
  BY ScriptIs
<1>4. /\ n \in Nat \ {0} /\ c \in Nat \ {0} /\ t \in Nat \ {0}
      /\ DOMAIN config.regions = 1..n /\ DOMAIN config.corridors = 1..c
      /\ DOMAIN config.complianceTiers = 1..t
  BY <1>3, ListsOf
<1> DEFINE reg == <<r, "registry">>
           hook == <<r, "hook">>
           pool == <<r, "pool">>
           esc == <<r, "escrow">>
           set == [registry |-> reg, hook |-> hook, feeBps |-> config.feeBps]
           reserve == [registry |-> reg, cap |-> config.defaultUtilizationCapBps]
<1>5. /\ Taken(reg, "initialize") = {Absent} /\ Taken(hook, "initialize") = {Absent}
      /\ Taken(pool, "initialize") = {reserve}
      /\ Taken(esc, "initialize") = {set}
      /\ Taken(hook, "set_escrow") = {esc} /\ Taken(hook, "set_operator") = {Attester}
      /\ Taken(reg, "add_region") = {config.regions[m] : m \in 1..n}
      /\ Taken(pool, "open_region") = {config.regions[m] : m \in 1..n}
      /\ Taken(reg, "map_corridor") = {config.corridors[m] : m \in 1..c}
      /\ Taken(hook, "set_tier_thresholds") =
            {TierCall(Instances(r), config.complianceTiers[m]).arg : m \in 1..t}
  <2>1. Landed(r, config, Len(Script(r, config)))
    BY <1>1
  <2>2. Transactions(Script(r, config), r, config, n, c, t)
    BY <1>3
  <2>3. AllTaken(r, config, n, c, t)
    BY <1>2, <2>1, <2>2, WholeRun
  <2> QED
    BY <2>3 DEF AllTaken
<1>6. /\ file.contracts = Instances(r) /\ file.config = config
      /\ Instances(r)["registry"] = reg /\ Instances(r)["hook"] = hook
      /\ Instances(r)["pool"] = pool /\ Instances(r)["escrow"] = esc
  BY <1>1, NamesAre DEF Output, Instances
<1>7. set.registry = reg /\ set.hook = hook /\ set.feeBps = config.feeBps
      /\ reserve.registry = reg /\ set # Absent
  <2>1. reg \in Address /\ hook \in Address
    BY <1>2, NamesAre, AddressesOf
  <2>2. config.feeBps \in Nat
    BY ConfigsAreParsed
  <2>3. set \in [registry : Address, hook : Address, feeBps : Nat]
    BY <2>1, <2>2
  <2> QED
    BY <2>3, AbsentIsNoValue
<1> HIDE DEF reg, hook, pool, esc, set, reserve
<1>8. \A a, x : Taken(a, "initialize") = {x} => Initialized(a) /\ config_of(a) = x
  BY DEF Initialized, config_of
<1>9. /\ Initialized(reg) /\ Initialized(hook) /\ Initialized(pool) /\ Initialized(esc)
      /\ config_of(esc) = set /\ config_of(pool) = reserve
  BY <1>5, <1>8
<1>10. \A name \in Names : Initialized(Instances(r)[name])
  BY <1>6, <1>9, NamesAre
<1>11. /\ RegionsOf(reg, "add_region") = RegionIds(config)
       /\ RegionsOf(pool, "open_region") = RegionIds(config)
  <2>1. Range(config.regions) = {config.regions[m] : m \in 1..n}
    BY <1>4 DEF Range
  <2>2. Taken(reg, "add_region") = Range(config.regions)
        /\ Taken(pool, "open_region") = Range(config.regions)
    BY <1>5, <2>1
  <2> QED
    BY <2>2 DEF RegionsOf, RegionIds
<1>12. \A x \in Range(config.corridors) : x \in Taken(reg, "map_corridor")
  BY <1>4, <1>5 DEF Range
<1>13. ListCorridors(hook) = CorridorIds(config)
  <2>1. \A tier : TierCall(Instances(r), tier).arg.corridorId = tier.corridorId
    BY DEF TierCall, Tx
  <2>2. Range(config.complianceTiers) = {config.complianceTiers[m] : m \in 1..t}
    BY <1>4 DEF Range
  <2>3. ListCorridors(hook) =
           {arg.corridorId : arg \in
              {TierCall(Instances(r), config.complianceTiers[m]).arg : m \in 1..t}}
    BY <1>5 DEF ListCorridors
  <2>4. TierIds(config) = {x.corridorId : x \in {config.complianceTiers[m] : m \in 1..t}}
    BY <2>2 DEF TierIds
  <2>5. ListCorridors(hook) = TierIds(config)
    BY <2>1, <2>3, <2>4
  <2> QED
    BY <1>1, <2>5 DEF loadDeployConfig
<1>14. /\ RegionIds(config) = Range(Ids(config.regions))
       /\ CorridorIds(config) = Range(Ids(config.corridors))
       /\ RegionIds(config) # {}
  <2>1. \A list : DOMAIN Ids(list) = DOMAIN list /\ \A i \in DOMAIN list : Ids(list)[i] = list[i].id
    BY DEF Ids
  <2>2. \A list : {x.id : x \in Range(list)} = Range(Ids(list))
    BY <2>1 DEF Range
  <2>3. PICK i \in DOMAIN config.regions : i = 1
    BY <1>4
  <2>4. config.regions[i].id \in Range(Ids(config.regions))
    BY <2>1 DEF Range
  <2> QED
    BY <2>2, <2>4 DEF RegionIds, CorridorIds
<1>15. IsInjective(Ids(config.regions))
  <2> SUFFICES ASSUME NEW a \in 1..n, NEW b \in 1..n, config.regions[a].id = config.regions[b].id
               PROVE  a = b
    BY <1>4 DEF IsInjective, Ids
  <2> DEFINE s == Script(r, config)
             k == Len(s)
  <2>1. \A i, j \in 1..k :
           /\ s[i].to = s[j].to /\ s[i].op = s[j].op
           /\ s[i].op \in {"add_region", "open_region"}
           /\ s[i].arg.id = s[j].arg.id
           => i = j
    BY <1>1 DEF Landed
  <2>2. /\ k = 10 + 2 * n + c + t
        /\ s[9 + 2 * a] = Tx(<<r, "registry">>, "add_region", config.regions[a])
        /\ s[9 + 2 * b] = Tx(<<r, "registry">>, "add_region", config.regions[b])
    BY <1>3 DEF Transactions
  <2> HIDE DEF s, k
  <2>3. PICK i, j : i = 9 + 2 * a /\ j = 9 + 2 * b
    OBVIOUS
  <2>4. i \in 1..k /\ j \in 1..k
    BY <1>4, <2>2, <2>3
  <2>5. /\ s[i].to = s[j].to /\ s[i].op = s[j].op /\ s[i].op = "add_region"
        /\ s[i].arg.id = s[j].arg.id
    BY <2>2, <2>3 DEF Tx
  <2>6. i = j
    BY <2>1, <2>4, <2>5
  <2> QED
    BY <2>3, <2>6
<1>16. IsInjective(Ids(config.corridors)) => verify_deployment(Instances(r), config)
  BY <1>6, <1>7, <1>9, <1>11, <1>13, <1>14, <1>15 DEF verify_deployment, sameSet
<1> QED
  BY <1>5, <1>6, <1>7, <1>9, <1>10, <1>11, <1>12, <1>13, <1>16 DEF RecordedSetIsWired

\* A contract that took something took it from the list of its run.
LEMMA InvDangles == DeployInv => NoDanglingReference
<1> SUFFICES ASSUME DeployInv, NEW a \in Address
             PROVE  /\ a[2] = "escrow" /\ Initialized(a) =>
                          Live(config_of(a).registry) /\ Live(config_of(a).hook)
                    /\ a[2] = "pool" /\ Initialized(a) => Live(config_of(a).registry)
                    /\ \A e \in Taken(a, "set_escrow") : Live(e)
  BY DEF NoDanglingReference
<1>1. ASSUME NEW op \in EntryPoints, NEW x \in Taken(a, op)
      PROVE  /\ AllLive(a[1])
             /\ \E config, n, c, t, s : \E i \in DOMAIN s :
                   Transactions(s, a[1], config, n, c, t) /\ s[i] = Tx(a, op, x)
  <2>1. CallFine(a)
    BY DEF DeployInv
  <2>2. PICK config \in Configs : \E i \in DOMAIN Script(a[1], config) :
           Script(a[1], config)[i] = Tx(a, op, x)
    BY <1>1, <2>1 DEF CallFine
  <2>3. PICK n, c, t : Transactions(Script(a[1], config), a[1], config, n, c, t)
    BY ScriptIs
  <2>4. AllLive(a[1])
    BY <1>1, <2>1 DEF CallFine
  <2> QED
    BY <2>2, <2>3, <2>4
<1>2. \A to, op, arg : Tx(to, op, arg).to = to /\ Tx(to, op, arg).op = op
                       /\ Tx(to, op, arg).arg = arg
  BY DEF Tx
<1>3. ASSUME NEW x \in Taken(a, "initialize"), a[2] \in {"escrow", "pool"}
      PROVE  /\ Live(x.registry)
             /\ a[2] = "escrow" => Live(x.hook)
  <2>1. "initialize" \in EntryPoints
    BY DEF EntryPoints
  <2>2. AllLive(a[1])
    BY <1>1, <1>3, <2>1
  <2>3. PICK config, n, c, t, s : \E i \in DOMAIN s :
           Transactions(s, a[1], config, n, c, t) /\ s[i] = Tx(a, "initialize", x)
    BY <1>1, <1>3, <2>1
  <2>4. PICK i \in DOMAIN s :
           Transactions(s, a[1], config, n, c, t) /\ s[i] = Tx(a, "initialize", x)
    BY <2>3
  <2>5. i = 5 \/ i = 6 \/ i = 7 \/ i = 8
    BY <1>2, <2>4, PlacesOfCalls
  <2>6. /\ s[5].to = <<a[1], "registry">> /\ s[6].to = <<a[1], "hook">>
        /\ s[7].to = <<a[1], "pool">> /\ s[8].to = <<a[1], "escrow">>
        /\ s[7].arg.registry = <<a[1], "registry">>
        /\ s[8].arg.registry = <<a[1], "registry">> /\ s[8].arg.hook = <<a[1], "hook">>
    <3>1. /\ s[5] = Tx(<<a[1], "registry">>, "initialize", Absent)
          /\ s[6] = Tx(<<a[1], "hook">>, "initialize", Absent)
          /\ s[7] = Tx(<<a[1], "pool">>, "initialize",
                       [registry |-> <<a[1], "registry">>,
                        cap |-> config.defaultUtilizationCapBps])
          /\ s[8] = Tx(<<a[1], "escrow">>, "initialize",
                       [registry |-> <<a[1], "registry">>, hook |-> <<a[1], "hook">>,
                        feeBps |-> config.feeBps])
      BY <2>4 DEF Transactions
    <3> QED
      BY <3>1 DEF Tx
  <2>7. s[i].to = a /\ s[i].arg = x
    BY <1>2, <2>4
  <2>8. i = 7 \/ i = 8
    BY <1>3, <2>5, <2>6, <2>7
  <2>9. Live(<<a[1], "registry">>) /\ Live(<<a[1], "hook">>)
    BY <2>2, NamesAre DEF AllLive
  <2>10. CASE i = 7
    <3>1. a[2] # "escrow"
      BY <2>6, <2>7, <2>10
    <3> QED
      BY <2>6, <2>7, <2>9, <2>10, <3>1
  <2>11. CASE i = 8
    BY <2>6, <2>7, <2>9, <2>11
  <2> QED
    BY <2>8, <2>10, <2>11
<1>4. Initialized(a) => config_of(a) \in Taken(a, "initialize")
  BY DEF Initialized, config_of
<1>5. ASSUME NEW e \in Taken(a, "set_escrow") PROVE Live(e)
  <2>1. "set_escrow" \in EntryPoints
    BY DEF EntryPoints
  <2>2. AllLive(a[1])
    BY <1>1, <1>5, <2>1
  <2>3. PICK config, n, c, t, s : \E i \in DOMAIN s :
           Transactions(s, a[1], config, n, c, t) /\ s[i] = Tx(a, "set_escrow", e)
    BY <1>1, <1>5, <2>1
  <2>4. PICK i \in DOMAIN s :
           Transactions(s, a[1], config, n, c, t) /\ s[i] = Tx(a, "set_escrow", e)
    BY <2>3
  <2>5. i = 9
    BY <1>2, <2>4, PlacesOfCalls
  <2>6. s[9].arg = <<a[1], "escrow">>
    <3>1. s[9] = Tx(<<a[1], "hook">>, "set_escrow", <<a[1], "escrow">>)
      BY <2>4 DEF Transactions
    <3> QED
      BY <1>2, <3>1
  <2>7. s[i].arg = e
    BY <1>2, <2>4
  <2>8. e = <<a[1], "escrow">>
    BY <2>5, <2>6, <2>7
  <2> QED
    BY <2>2, <2>8, NamesAre DEF AllLive
<1> QED
  BY <1>3, <1>4, <1>5

\* The contracts take the whole list of a configuration within their limits.
LEMMA InvIsAccepted == DeployInv => NeverRefusedHalfway
<1> SUFFICES ASSUME DeployInv, NEW o \in Operators, Submitting(o),
                    WithinContractLimits(job[o].config)
             PROVE  Accepts(NextTx(o))
  BY DEF NeverRefusedHalfway
<1>1. job[o] # Idle
  BY DEF Submitting, Idle
<1>2. PICK r \in 1..MaxDeploys, config \in Configs, d \in Nat :
         /\ Working(o, r, config, d)
         /\ d + 1 \in DOMAIN Script(r, config)
         /\ NextTx(o) = Script(r, config)[d + 1]
         /\ d + 1 \notin 1..4 => AllLive(r)
  BY <1>1, AtWork
<1>3. PICK n, c, t : /\ n = Len(config.regions) /\ c = Len(config.corridors)
                     /\ t = Len(config.complianceTiers)
                     /\ Transactions(Script(r, config), r, config, n, c, t)
  BY ScriptIs
<1>4. /\ n \in Nat \ {0} /\ c \in Nat \ {0} /\ t \in Nat \ {0}
      /\ DOMAIN config.regions = 1..n /\ DOMAIN config.corridors = 1..c
      /\ DOMAIN config.complianceTiers = 1..t
  BY <1>3, ListsOf
<1>5. loadDeployConfig(config) /\ WithinContractLimits(config)
  BY <1>2 DEF Working
<1> DEFINE s == Script(r, config)
<1>6. PICK k \in DOMAIN s : k = d + 1 /\ k \in Nat /\ NextTx(o) = s[k]
  BY <1>2
<1>7. /\ \A i \in 1..4 : Live(<<r, CONTRACTS[i]>>) <=> i <= d
      /\ \A name \in Names, op \in EntryPoints :
            Taken(<<r, name>>, op) =
                {s[i].arg : i \in {j \in 1..d : s[j].to = <<r, name>> /\ s[j].op = op}}
  BY <1>2 DEF Working, Landed
<1>8. Transactions(s, r, config, n, c, t)
  BY <1>3
<1> HIDE DEF s
<1>9. /\ DOMAIN s = 1..(10 + 2 * n + c + t)
      /\ \A j \in 1..d : j \in DOMAIN s /\ j < k /\ j \in Nat
      /\ \A j \in DOMAIN s : j < k => j \in 1..d
  <2>1. DOMAIN s = 1..(10 + 2 * n + c + t)
    BY <1>8 DEF Transactions
  <2>2. PICK l \in Nat : l = 10 + 2 * n + c + t
    BY <1>4
  <2>3. DOMAIN s = 1..l /\ k \in 1..l
    BY <1>6, <2>1, <2>2
  <2>4. \A j \in 1..d : j \in 1..l /\ j < k /\ j \in Nat
    BY <1>6, <2>3
  <2>5. \A j \in 1..l : j < k => j \in 1..d
    BY <1>6, <2>3
  <2> QED
    BY <2>1, <2>3, <2>4, <2>5
<1>10. \A to, op, arg : Tx(to, op, arg).to = to /\ Tx(to, op, arg).op = op
                        /\ Tx(to, op, arg).arg = arg
  BY DEF Tx
<1>11. /\ s[5] = Tx(<<r, "registry">>, "initialize", Absent)
       /\ s[6] = Tx(<<r, "hook">>, "initialize", Absent)
       /\ s[7] = Tx(<<r, "pool">>, "initialize",
                    [registry |-> <<r, "registry">>, cap |-> config.defaultUtilizationCapBps])
       /\ s[8] = Tx(<<r, "escrow">>, "initialize",
                    [registry |-> <<r, "registry">>, hook |-> <<r, "hook">>,
                     feeBps |-> config.feeBps])
       /\ s[9] = Tx(<<r, "hook">>, "set_escrow", <<r, "escrow">>)
       /\ s[10] = Tx(<<r, "hook">>, "set_operator", Attester)
  BY <1>8 DEF Transactions
<1>12. /\ s[5].to = <<r, "registry">> /\ s[6].to = <<r, "hook">>
       /\ s[7].to = <<r, "pool">> /\ s[8].to = <<r, "escrow">>
       /\ s[5].op = "initialize" /\ s[6].op = "initialize"
       /\ s[7].op = "initialize" /\ s[8].op = "initialize"
       /\ s[9].op = "set_escrow" /\ s[10].op = "set_operator"
  BY <1>10, <1>11
<1>13. "create" \notin EntryPoints
  BY DEF EntryPoints
<1>14. /\ \E name \in Names : s[k].to = <<r, name>>
       /\ k \in 1..4 => s[k].to = <<r, CONTRACTS[k]>> /\ s[k].op = "create"
       /\ k \notin 1..4 => s[k].op \in EntryPoints
  BY <1>6, <1>8, EachTransaction
<1>15. CASE k \in 1..4
  <2>1. ~(k <= d)
    BY <1>6
  <2>2. ~Live(<<r, CONTRACTS[k]>>)
    BY <1>7, <1>15, <2>1
  <2> QED
    BY <1>6, <1>14, <1>15, <2>2 DEF Accepts
<1>16. PICK name \in Names : s[k].to = <<r, name>>
  BY <1>14
<1>17. <<r, name>>[1] = r /\ <<r, name>>[2] = name
  OBVIOUS
<1>18. ASSUME k \notin 1..4
       PROVE  Live(s[k].to) /\ s[k].op # "create"
  BY <1>2, <1>6, <1>13, <1>14, <1>16, <1>18 DEF AllLive
<1>19. ASSUME NEW op \in EntryPoints, NEW x
       PROVE  x \in Taken(<<r, name>>, op) <=>
                 \E j \in 1..d : s[j].to = <<r, name>> /\ s[j].op = op /\ s[j].arg = x
  BY <1>7
<1>20. "initialize" \in EntryPoints /\ "add_region" \in EntryPoints
       /\ "open_region" \in EntryPoints
  BY DEF EntryPoints
<1>21. CASE k \in 5..8
  <2>1. k = 5 \/ k = 6 \/ k = 7 \/ k = 8
    BY <1>21
  <2>2. s[k].op = "initialize"
    BY <1>12, <2>1
  <2>3. ~Initialized(s[k].to)
    <3> SUFFICES ASSUME NEW x \in Taken(<<r, name>>, "initialize") PROVE FALSE
      BY <1>16 DEF Initialized
    <3>1. PICK j \in 1..d : s[j].to = <<r, name>> /\ s[j].op = "initialize"
      BY <1>19, <1>20
    <3>2. j \in DOMAIN s /\ j < k
      BY <1>9
    <3>3. j = 5 \/ j = 6 \/ j = 7 \/ j = 8
      BY <1>8, <3>1, <3>2, PlacesOfCalls
    <3>4. s[j].to = s[k].to /\ j # k
      BY <1>6, <1>16, <3>1, <3>2
    <3> QED
      BY <1>12, <2>1, <3>3, <3>4
  <2>4. ArgumentAccepted(s[k].to, s[k].op, s[k].arg)
    <3>1. CASE k = 5 \/ k = 6
      <4>1. s[k].to[2] # "pool" /\ s[k].to[2] # "escrow"
        BY <1>12, <3>1
      <4> QED
        BY <2>2, <4>1 DEF ArgumentAccepted
    <3>2. CASE k = 7
      <4>1. s[k].to[2] = "pool" /\ s[k].arg.cap = config.defaultUtilizationCapBps
        BY <1>10, <1>11, <3>2
      <4> QED
        BY <1>5, <2>2, <4>1 DEF ArgumentAccepted, WithinContractLimits
    <3>3. CASE k = 8
      <4>1. s[k].to[2] = "escrow" /\ s[k].arg.feeBps = config.feeBps
        BY <1>10, <1>11, <3>3
      <4> QED
        BY <1>5, <2>2, <4>1 DEF ArgumentAccepted, WithinContractLimits
    <3> QED
      BY <2>1, <3>1, <3>2, <3>3
  <2> QED
    BY <1>6, <1>18, <1>21, <2>2, <2>3, <2>4 DEF Accepts
<1>22. ASSUME k > 8, ArgumentAccepted(s[k].to, s[k].op, s[k].arg), s[k].op # "initialize"
       PROVE  Accepts(NextTx(o))
  <2>1. 5 \in 1..d /\ 6 \in 1..d /\ 7 \in 1..d /\ 8 \in 1..d
    BY <1>6, <1>22
  <2>2. \E j \in 1..d : s[j].to = <<r, name>> /\ s[j].op = "initialize"
    BY <1>12, <1>16, <2>1, NamesAre
  <2>3. Initialized(s[k].to)
    BY <1>16, <1>19, <1>20, <2>2 DEF Initialized
  <2>4. k \notin 1..4
    BY <1>6, <1>22
  <2> QED
    BY <1>6, <1>18, <1>22, <2>3, <2>4 DEF Accepts
<1>23. CASE k = 9 \/ k = 10
  <2>1. s[k].op = "set_escrow" \/ s[k].op = "set_operator"
    BY <1>12, <1>23
  <2>2. ArgumentAccepted(s[k].to, s[k].op, s[k].arg)
    BY <2>1 DEF ArgumentAccepted
  <2> QED
    BY <1>22, <1>23, <2>1, <2>2
<1>24. CASE \E m \in 1..n : k = 9 + 2 * m
  <2>1. PICK m \in 1..n : k = 9 + 2 * m
    BY <1>24
  <2>2. s[k].op = "add_region" /\ s[k].arg = config.regions[m]
    <3>1. s[k] = Tx(<<r, "registry">>, "add_region", config.regions[m])
      BY <1>8, <2>1 DEF Transactions
    <3> QED
      BY <1>10, <3>1
  <2>3. ASSUME NEW x \in Taken(<<r, name>>, "add_region") PROVE x.id # config.regions[m].id
    <3>1. PICK j \in 1..d : s[j].op = "add_region" /\ s[j].arg = x
      BY <1>19, <1>20, <2>3
    <3>2. j \in DOMAIN s /\ j < k
      BY <1>9
    <3>3. PICK h \in 1..n : j = 9 + 2 * h
      BY <1>8, <3>1, <3>2, PlacesOfCalls
    <3>4. h # m
      BY <2>1, <3>2, <3>3
    <3>5. x = config.regions[h]
      <4>1. s[j] = Tx(<<r, "registry">>, "add_region", config.regions[h])
        BY <1>8, <3>3 DEF Transactions
      <4> QED
        BY <1>10, <3>1, <4>1
    <3> QED
      BY <1>4, <1>5, <3>4, <3>5 DEF WithinContractLimits, IsInjective, Ids
  <2>4. ArgumentAccepted(s[k].to, s[k].op, s[k].arg)
    BY <1>16, <2>2, <2>3 DEF ArgumentAccepted, RegionsOf
  <2>5. k > 8
    BY <1>4, <2>1
  <2> QED
    BY <1>22, <2>2, <2>4, <2>5
<1>25. CASE \E m \in 1..n : k = 10 + 2 * m
  <2>1. PICK m \in 1..n : k = 10 + 2 * m
    BY <1>25
  <2>2. s[k].op = "open_region" /\ s[k].arg = config.regions[m]
    <3>1. s[k] = Tx(<<r, "pool">>, "open_region", config.regions[m])
      BY <1>8, <2>1 DEF Transactions
    <3> QED
      BY <1>10, <3>1
  <2>3. ASSUME NEW x \in Taken(<<r, name>>, "open_region") PROVE x.id # config.regions[m].id
    <3>1. PICK j \in 1..d : s[j].op = "open_region" /\ s[j].arg = x
      BY <1>19, <1>20, <2>3
    <3>2. j \in DOMAIN s /\ j < k
      BY <1>9
    <3>3. PICK h \in 1..n : j = 10 + 2 * h
      BY <1>8, <3>1, <3>2, PlacesOfCalls
    <3>4. h # m
      BY <2>1, <3>2, <3>3
    <3>5. x = config.regions[h]
      <4>1. s[j] = Tx(<<r, "pool">>, "open_region", config.regions[h])
        BY <1>8, <3>3 DEF Transactions
      <4> QED
        BY <1>10, <3>1, <4>1
    <3> QED
      BY <1>4, <1>5, <3>4, <3>5 DEF WithinContractLimits, IsInjective, Ids
  <2>4. config.regions[m].utilizationCapBps <= MAX_UTILIZATION_CAP_BPS
    BY <1>4, <1>5 DEF WithinContractLimits, Range
  <2>5. ArgumentAccepted(s[k].to, s[k].op, s[k].arg)
    BY <1>16, <2>2, <2>3, <2>4 DEF ArgumentAccepted, RegionsOf
  <2>6. k > 8
    BY <1>4, <2>1
  <2> QED
    BY <1>22, <2>2, <2>5, <2>6
<1>26. CASE \E m \in 1..c : k = 10 + 2 * n + m
  <2>1. PICK m \in 1..c : k = 10 + 2 * n + m
    BY <1>26
  <2>2. s[k] = Tx(<<r, "registry">>, "map_corridor", config.corridors[m])
    BY <1>8, <2>1 DEF Transactions
  <2>3. s[k].op = "map_corridor" /\ s[k].arg = config.corridors[m] /\ name = "registry"
    BY <1>10, <1>16, <1>17, <2>2
  <2>4. PICK h \in 1..n : config.regions[h].id = config.corridors[m].regionId
    BY <1>4, <1>5 DEF loadDeployConfig, RegionIds, Range
  <2>5. s[9 + 2 * h] = Tx(<<r, "registry">>, "add_region", config.regions[h])
    BY <1>8 DEF Transactions
  <2>6. PICK j \in 1..d : j = 9 + 2 * h
    BY <1>4, <1>6, <2>1
  <2>7. config.regions[h] \in Taken(<<r, name>>, "add_region")
    BY <1>10, <1>19, <1>20, <2>3, <2>5, <2>6
  <2>8. ArgumentAccepted(s[k].to, s[k].op, s[k].arg)
    BY <1>16, <2>3, <2>4, <2>7 DEF ArgumentAccepted, RegionsOf
  <2>9. k > 8
    BY <1>4, <2>1
  <2> QED
    BY <1>22, <2>3, <2>8, <2>9
<1>27. CASE \E m \in 1..t : k = 10 + 2 * n + c + m
  <2>1. PICK m \in 1..t : k = 10 + 2 * n + c + m
    BY <1>27
  <2>2. s[k] = TierCall(Instances(r), config.complianceTiers[m])
    BY <1>8, <2>1 DEF Transactions
  <2>3. PICK tier : tier = config.complianceTiers[m]
    OBVIOUS
  <2>4. /\ s[k].op = "set_tier_thresholds"
        /\ s[k].arg = [corridorId |-> tier.corridorId, tier1Max |-> tier.tier1Max,
                       tier2Max |-> tier.tier2Max, dailyLimit |-> tier.enhancedDailyLimit]
    BY <1>10, <2>2, <2>3 DEF TierCall
  <2>5. tier \in Range(config.complianceTiers)
    BY <1>4, <2>3 DEF Range
  <2>6. /\ tier.tier1Max <= tier.tier2Max /\ tier.tier2Max <= tier.enhancedDailyLimit
        /\ tier.enhancedDailyLimit > 0
    BY <1>5, <2>5 DEF WithinContractLimits
  <2>7. ArgumentAccepted(s[k].to, s[k].op, s[k].arg)
    BY <2>4, <2>6 DEF ArgumentAccepted
  <2>8. k > 8
    BY <1>4, <2>1
  <2> QED
    BY <1>22, <2>4, <2>7, <2>8
<1>28. k \in 5..10 => k \in 5..8 \/ k = 9 \/ k = 10
  OBVIOUS
<1> QED
  BY <1>6, <1>8, <1>15, <1>21, <1>23, <1>24, <1>25, <1>26, <1>27, <1>28, Places

-----------------------------------------------------------------------------
LEMMA DeployInvHolds == DeploySpec => []DeployInv
<1>1. DeployInit => DeployInv
  BY DeployStarts
<1> QED
  BY <1>1, DeployKeepsInv, PTL DEF DeploySpec

\* scripts/src: the addresses file names four contracts that exist, refer to
\* each other and hold the configuration the file states, whatever was lost,
\* came late or was interrupted in any run.
THEOREM RecordsAreWired == DeploySpec => []RecordedSetIsWired
BY DeployInvHolds, InvIsWired, PTL

\* scripts/src: a run that stops leaves no contract that refers to one that
\* does not exist, and a configuration within the contracts' limits is never
\* refused half-way.
THEOREM NothingIsLeftHalfBuilt == DeploySpec => []NothingLeftHalfBuilt
<1>1. DeployInv => NothingLeftHalfBuilt
  BY InvDangles, InvIsAccepted DEF NothingLeftHalfBuilt
<1> QED
  BY <1>1, DeployInvHolds, PTL
=============================================================================
