# RemitBridge: a TLA+ verification project

RemitBridge moves remittances through four Soroban contracts (an escrow, a
registry of bonded agents, a compliance gate and a pool of float), a backend
that follows the chain, verifies users, quotes prices and lends float to agents,
a phone app for senders, recipients and agents, a console for the operators, and
scripts that put the contracts on chain and try them out. This directory holds
TLA+ models of those parts and of the contracts working together, the TLC
configurations that check them on small instances, and TLAPS proofs about the
four contracts, alone and together under the scripts, KYC, quoting, agent
liquidity, the console and the phone. `PROJECT.json` maps every definition to the
lines it models and lists the runs, mutants, hazards and theorems.

Run from this directory:

    tlc -workers 2 -config EscrowCustody.cfg RemitEscrow
    tlapm RemitEscrow_proofs.tla

## 1. Inventory

| Component | State | Operations | Talks to |
|---|---|---|---|
| Escrow (`contracts/remit-escrow`) | transfers, per-sender index, counters, config, custody in any token | create, cancel, claim, refund; operator settings | calls the hook on create, the registry on claim, token contracts always |
| Agent registry (`contracts/agent-registry`) | agents and bonds, regions and their index, corridor map, counters | register, top up, withdraw; authorize, suspend, revoke, slash; regions | asked by escrow and pool |
| Compliance hook (`contracts/compliance-hook`) | thresholds, attestations, daily volume | publish, revoke, commit; thresholds, operators, pause | asked by the escrow, written by the backend's attester |
| Liquidity pool (`contracts/liquidity-pool`) | per-region pool, shares, exposure, one balance | open, deposit, withdraw, draw, repay; caps, ratio, pause | asks the registry for authorization and bond |
| Event indexer (`backend/src/event-indexer`) | cursor per contract, event log, projections | tick: read a window, project and record each event, save the cursor | RPC node, PostgreSQL |
| KYC orchestration (`backend/src/kyc-orchestration`) | attestation rows | submit, webhook, revoke, expire | provider, compliance hook |
| Agent liquidity (`backend/src/agent-liquidity`) | top-up requests, exposures, alerts | propose, decide, execute, sweep | liquidity pool; shares the exposure row with the indexer |
| Contract invocation (`backend/src/soroban`) | a submitted transaction | simulate, send, poll | used by the three services above |
| Quoting (`backend/src/quoting-service`) and the rate limiter (`backend/src/api/middleware.ts`) | quote rows, signing secret, hits per client | quote, verify | Horizon; predicts the escrow's payout without asking it |
| Operator console (`admin-web/src/lib/auth`, its API routes, `proxy.ts`) | sessions in cookies, login throttle, accounts and secret from the environment | sign in, sign out, forward a mutation | backend |
| Deployment (`scripts/src`) | the four instances, `deployed-addresses.json` | deploy, read back, verify | RPC node |
| Console's liquidity page (`admin-web/src/app/(console)/liquidity`, `components/actions.tsx`) | what each operator's page shows, one call per button | load, reload, decide, execute | backend, through the forwarding route |
| Bring-up scripts (`scripts/src/create-test-token.ts`, `smoke-test.ts`) | where the script is, what it read, which keys it printed | issue and mint; register, attest, send, claim, compare balances | the deployed contracts |
| Mobile app (`mobile/src`) | a stack of screens, calls in flight, the key in the device's keychain | quote, preflight, mint a claim code; look up, scan, verify; follow; ask for float | quoting, transfers and liquidity APIs |
| Transfers API (`backend/src/transfers`) | none of its own | status, preflight, lists | projections |

What is hard here:

- **Custody.** All transfers of all tokens share one address, three operations
  pay it out, and the operator may change fee, treasury, registry, hook and the
  pause flag while money is in flight. Correct means that custody covers what is
  pending, a record settles once, claims and refunds share no instant, and the
  refund stays open whatever the operator does.
- **Books kept by deltas.** The registry's and the pool's counters, indexes and
  shares are updated on many paths. Correct means they match the records behind
  them after every sequence of calls.
- **Boundaries.** Expiry seconds, day rollovers, thresholds that move under
  recorded volume, counters that saturate, products that overflow `i128`.
- **Awaits.** Every backend handler reads a row, waits for the chain or the
  database, and writes from what it read. Errors, crashes, restarts, lost polls,
  late webhooks and second handlers fall between any two of those steps.
- **Retries.** A deployment is some twenty transactions that cannot be undone,
  any of which may be lost or land after the script has given up on it, and the
  operator's answer is to run it again. Correct means that the addresses file
  never names a set that is not complete and wired.
- **Ages.** Quotes, sessions and lockouts are true for a while. Each is checked
  at one instant and used at a later one, in units that round differently.
- **Screens.** A call is answered after its screen has changed, twice, late or
  never; fields stay editable meanwhile; the process may be killed at any point.
  Correct means that what a screen asserts is about what it shows, that no screen
  waits for nothing, and that a code or a key somebody relies on still works.
- **Contracts together.** The escrow's volume lives in the hook and the pool's
  collateral in the registry. Each is read in one call and may change in the
  next.
- **Delivery.** The indexer must lose no event and apply none in a way that
  undoes a later one, whichever tick fails, however full a response is and
  wherever its windows end.
- **Settings of another part.** The quoting service assumes the escrow's fee, and
  the smoke test the deployment's keys; each may have been chosen otherwise.

## 2. Modules

| Module | Models | State and actions |
|---|---|---|
| `RemitEscrow` | the escrow contract | one variable per storage key, token balances in `bal`, ledger time in `now`, and for each registry the agents it lets settle; one action per writing entry point |
| `TransferPromise` | what a sender is promised | promises, purses and a clock: make, pay, give back; `RemitEscrow` is shown to implement it |
| `PrefixSums` | – | the sum of the first `n` values of a function as a recursive function, so that it can be reasoned about |
| `Sifting` | the `filter` of the throttle | the entries of a sequence that are not in a set, likewise |
| `AgentRegistry` | the registry contract | one variable per storage key and `bal` |
| `ComplianceHook` | the hook contract | one variable per storage key, the clock, and `log`, a history of commitments |
| `LiquidityPool` | the pool contract | one variable per storage key and `bal` |
| `SorobanInvoke` | `invoke` and `pollForResult` | the fate of each sent transaction; services extend it and conjoin its operators to their steps |
| `EventIndexer` | `tick`, `persist` and the projections | a program counter per process, the database, the chain |
| `KycOrchestration` | submission, webhook, revocation, expiry | a program counter per handler, attestation rows, the hook's record per address |
| `AgentLiquidity` | proposal, decision, execution, sweep; the console page with its buttons, and the forwarding route's timeout | a program counter per handler, the rows, the pool's exposure, and per desk what the page shows and the call it waits for |
| `Deployment` | `deploy-contracts`, its configuration check, submission and read-back, `verify-deployment` | per contract the calls it has taken, transactions still in the air, the addresses file, a program counter per operator |
| `Console` | login, logout, the gate, the forwarding route, the throttle | cookies and requests in flight, failures by key, accounts and secret, which a deployment changes |
| `Quoting` | `createQuote` with the Horizon source, signature, verification, the limiter | the market, requests in flight, signed quotes, hits by client, and the escrow's fee, which its operator sets |
| `ClaimCode` | `lib/claim.ts` | operators: a code, its display, its repair and its verification |
| `Mobile` | the app's screens, API client, scanner, local wallet, and the routes that answer them | the stack of screens with each screen's state, the calls in flight, the keychain; one action per press, answer and failure |
| `Network` | the four contracts over one token | the variables of the four modules side by side; each entry point is the component's own action together with those of the contracts it calls |
| `BringUp` | `create-test-token` and `smoke-test` against `Network` | the step each script is at, what it has read, which keys were printed, and a transaction left behind by a run that ended |
| `..._proofs` | – | theorems (section 5): of the four contracts in a module each, of `Network` under the scripts and of `Deployment` in `BringUp_proofs`, of `KycOrchestration` and `Quoting` in `Backend_proofs`, of `AgentLiquidity`, `Console` and `Mobile` in `Apps_proofs`; `Sums_proofs` holds the lemmas on sums, finite sets and sifted sequences that they rest on |
| `MC...` | – | symmetry sets and constant expressions for the configurations |

A failing contract call reverts its invocation, so an error return is a step
that does not exist: guards are the conjunction of the code's checks, in the
order of the code. A contract invocation is atomic. In the backend every `await`
ends a step.

In its own module a contract sees the others by their answers. The escrow sees any
verdict of a hook (`Verdicts`) and any set of agents its registry lets settle,
changing at any time (`RegistryMoves`); the pool sees any authorization and any bond.
This covers every behaviour of the other contract and more. `Network` replaces the
answers by the contracts that give them: it instantiates the four modules over one
token, `create_transfer` is the escrow's action and the hook's `commit_transfer` in
one step, `Settlers` is the registry's own answer, and `draw_liquidity` takes status
and bond from the registry's records. It starts as `deploy-contracts.ts` leaves the
contracts, with `ATTESTER_PUBLIC_KEY` as the hook's only operator, and adds the
trustlines that a Stellar asset needs; which accounts `AttesterKey` and `Treasury` are
is a constant. Settings that only one contract reads (fees, pause, caps, thresholds)
stay with that contract's own module.

`TransferPromise` is the abstract specification of the escrow. It knows no contract,
status, fee setting, registry or hook: money put up for a transfer waits in a vault
until it is either paid out, in time and not to the sender, less a cut of at most
`MAX_FEE_BPS`, or given back whole, and nothing else moves money.
`RemitEscrow!KeepsPromise` maps a promise to each transfer record, the vault to the
escrow's custody and the purses to the token balances; every other entry point is a
stutter.

A definition whose comment starts with "Fault" is a wrong version of the one
that follows it. None is used by a specification; each exists to show that a
property notices the mistake.

## 3. Runs

Every run explores its whole bounded state space.

| Run | What it asks | Result |
|---|---|---|
| `EscrowCustody` | Does custody cover all pending transfers; do fees and windows hold; does a settled record stay; does the contract implement `TransferPromise`; does every transfer come to rest? | holds |
| `RegistryBonds` | Are bonds held and returned to their owners only; do the counters match; does the region cap hold; does an authorized agent's bond never sink below the minimum; is what no record claims exactly what fresh starts gave up? | holds |
| `HookGate` | Do the volume buckets hold what was committed; do the ceiling in force and the revocation block hold at each commitment? | holds |
| `PoolFloat` | Do regions share a balance without sharing float; do the books balance, is a share always worth one unit and can nobody gain (`BooksBalance`); do repaying and leaving stay open (`NobodyLockedIn`)? | holds |
| `IndexerCrash` | With a failure at any await, full responses, a start at the tip, two contracts in turn and a rewind by hand: which events below the cursor are not written (`SkipsAreNamed`: those in a ledger that was the tip of a tick, those that a full response left out, and those before a start that a failed tick moved), and is every other one recorded in the end (`EveryEventSettled`); until the rewind, rows that agree with the chain and draws projected twice that converge (`ProjectionsConverge`)? | holds |
| `KycPipeline` | With errors, lost polls, expiries and webhooks: does every hash on chain have a row and an approval deep enough, is an expired row dead on chain (`OnlyVerifiedVouchedFor`), and is a row revoked only after the chain? | holds |
| `TopUpOverlap` | With two desks, overlapping handlers, a poll that gives up, and an error, a crash or an answer that the proxy stops waiting for: does float move only for an approved request; what does `EXECUTED` mean; what does it take to draw twice (`OneRequestOneDraw` lists it)? | holds |
| `DeployRetry` | With lost, late and interrupted steps and two operators: does the addresses file only ever name one complete, wired set; does nothing live refer to nothing and is a configuration within the contracts' limits never refused half-way (`NothingLeftHalfBuilt`)? | holds |
| `ConsoleGate` | With requests delayed at every await, expiring sessions, changed accounts and rotated secrets: is everything that is forwarded backed by a sign-in, its roles and its name; does the throttle lock and open when it says? | holds |
| `QuoteWindow` | With slow and failing reads of a moving market, restarts, rotated secrets and changes of the escrow's fee: is the rate of a live quote recent; how far is the total from the payout (`QuotePredictsPayout`); what is the limiter's worst case? | holds |
| `PhoneFlow` | With answers late, lost and out of order, a digest that throws, edits in between and the process killed: is a verdict about the transfer beside it; is a code minted only for an amount that was cleared; is the funding key kept; does a code copied by hand verify, and no other; does a spinner wait for a call, but on an agent's screen whose digest threw (`NoFrozenScreen`)? | holds |
| `NetworkFlow` | With the contracts in one state, scripts that die half-way and others using the network: does each contract cover what it owes; is the hook's volume what the escrow took; when is float uncovered; is every bond under a key somebody has; is the smoke test's verdict true, and does an undisturbed run pass with keys that fit it (`VerdictTellsTruth`)? | holds |

Seven further configurations each check one sentence of the repository that the
code does not keep, on the instance of the run before or a part of it, and end with
TLC's counterexample. They are documentation of section 6: `PROJECT.json` lists
the runs that hold, whose properties name the same cases as exceptions.

| Configuration | The sentence it checks | What TLC finds |
|---|---|---|
| `IndexerTip.cfg` (`MCEventIndexer`) | "The cursor advances only after the whole batch is written" (`NothingSkipped`), with responses that are never full and nothing that fails | an event in the ledger that was the tip of a tick: the window excludes it, the cursor includes it |
| `IndexerPage.cfg` | the same without the ledgers that were tips (`OnlyTipsSkipped`), with pages of two | an event that a full response left out, below the saved cursor |
| `IndexerLatest.cfg` | "the same window is re-read on restart" (`SameWindowReRead`), from `INDEXER_START_LEDGER=latest` | a tick that fails before the first cursor, and a next one that starts later |
| `QuoteFee.cfg` (`MCQuoting`) | "the quote has to predict the actual payout" (`QuoteFollowsEscrowFee`), with an escrow fee of 500 | a quote and a payout further apart than rounding |
| `PhoneFreeze.cfg` (`MCMobile`) | what the client's results are to prevent, "a frozen screen" (`NoFailureFreezes`) | the agent's screen busy after its digest threw, with no call out |
| `SeparateKeys.cfg` (`MCBringUp`) | "now run against a deployment with separate admin, attester and treasury keys" (`UndisturbedRunPasses`) | a run that nothing disturbed and the hook refused |
| `PrintedKeys.cfg` (`MCBringUp`) | "Add these to scripts/.env" (`UndisturbedRunPasses`), with the issuer as treasury | a run that nothing disturbed and that stopped at the treasury's trustline |

### Bounds

Constants named `Max...` bound counters and are guards of the actions they
limit. `U32Max` and `I128Max` stand for the widths of the code's integers: the
contracts use saturating `u32` counters and checked `i128` arithmetic, so what
matters is what happens at the limit, not where it lies.

- `EscrowCustody`: two addresses, which suffice for a sender, an agent, a
  sender who is an agent and a treasury who is either; two transfers, so that
  one may be paid from the other's custody; `U32Max = 1`, so that the second
  settlement saturates a counter; `I128Max = 20499`, so that the fee of 41 at
  500 bps overflows and that of 20 does not; three ledger seconds around two
  expiries. Amounts and fees include refused ones (0; 501 and 1000 bps). One token: the
  separation of tokens is proved (section 5).
- `RegistryBonds`: two agents, two regions and a cap of one, so that agents
  move between regions and compete; bonds of one and two around two minimum
  bonds, so that raising the minimum leaves an agent below it.
- `HookGate`: days of two seconds, so that a rollover happens twice; three
  commitments, three publications, and thresholds valid, stricter and refused.
- `PoolFloat`: two users who may both provide and draw, two regions in one
  balance, caps and ratios on both sides of their limits, and `I128Max = 100000`,
  which makes the larger products fail.
- `IndexerCrash`: three events of two contracts in up to three ledgers, among them a
  creation, a claim or a refund, a draw and one of the pool that does not decode; a
  page of two, so that one contract can overfill a response; windows whose end is any
  of the ledgers; a start at `latest`, the default, which includes what a fixed start
  does from the first cursor on; a failure at any await, and one rewind. A
  cancellation is projected as a refund is. The three other configurations start at
  ledger one, but for `IndexerLatest`, and have only the failures they need.
- `KycPipeline`: two users, one of them without a Stellar address, two
  submissions, a revocation, one webhook, one error and one lost poll.
- `TopUpOverlap`: one request of one agent the operator can sign for, two
  deciders, two executors, two desks, an endless sequence of sweeps, one fault
  (an error, a crash or an answer that the proxy stops waiting for) and one poll
  that gives up. Bond and amounts let one draw fill the agent's capacity, and
  let a second small one fit beside it; an alert is due once an exposure is counted
  double.
- `DeployRetry`: two operators, two runs, two faults, and eight configurations:
  two sound ones, two refused before anything is sent, two refused by a
  contract, one by the read-back and one by `verify-deployment` only.
- `ConsoleGate`: two people, one address, two secrets or none, account lists
  that grant, change and withdraw roles; two milliseconds to the second and
  windows that are no multiple of it, so that every rounding shows; three
  passwords, one request, one deployment.
- `QuoteWindow`: a market that offers a good path beside a worse and a useless
  one, or nothing that can be used, over five instants against a lifetime of two
  and a timeout of one; four requests against a budget of two, which reach the
  limiter's worst case of three; one at a time, since requests share nothing but
  the limiter, which they have passed; a `RATE_SCALE` of 1000, and amounts at which
  the quote promises a unit too much and three too little; an escrow fee equal to
  the quoting service's constant and one at the contract's cap, changing at any time.

- `PhoneFlow`: up to four screens opened, two calls in flight, two corridors of which
  one is inactive, two settings of the bands, which may change between quote and
  preflight, two transfers and codes of two symbols over `0`, `1` and `A`, displayed
  in groups of one, so that a letter O or I is a misread digit and a separator may
  fall anywhere.
- `NetworkFlow`: one holder, two agent keys, so that a re-run may reuse the key
  or draw a new one, two transfers, so that the id read back may be another's,
  one run of the token script and two of the smoke test, three calls of others or
  late transactions, days of two seconds. Bond, float and ratios are such that a
  slash, a withdrawal and a higher ratio each uncover a draw. The attester's key is
  the operator's and the treasury's is not, as the smoke test needs it; `SeparateKeys`
  and `PrintedKeys` are the same instance with the other choices.

Symmetry is declared only over sets whose members no action or property tells
apart, and in no run that checks liveness. Deadlock checking is off in the KYC,
liquidity, deployment, console, quoting, phone and network runs, where everyone
may be done or the bounded calls are used up.

### Fairness

`EscrowCustody` assumes that ledger time advances and that an open refund is
eventually submitted. The code justifies the second: `refund_expired` requires
no signature and checks neither the pause flag nor the hook nor the registry, so
anyone can submit it. No fairness is assumed of senders, agents or operator.

`IndexerCrash` assumes that ledgers close and that the loop of `run`, which
catches the error of a tick, sleeps and continues, takes its next step. Failures
are bounded, as "a tick eventually gets through". Under it `EveryEventSettled` says
that an event which no later tick can read is lost in one of the three named ways and
in no other.

## 4. Mutants

Each property of each passing run is paired with a plausible mistake in the code
it is about: a dropped guard (`set_fee_bps_unchecked`), a boundary
(`has_expired_early`), a swapped order (`persist_log_first`,
`revokeForSubject_rows_first`), a missing write (`withdraw_bond_unrecorded`,
`push_region_agent_lost`), a wrong base (`shares_for_available`), a missing
timeout (`fetch_answered_late`), a poll that is believed
(`submit_unconfirmed_goes_on`), state that is not cleared
(`LookUpKeepingVerdict`), a missing `await` (`EnsureWithoutAwait`), a missing
cross-contract call (`create_without_commit`), a sum not taken
(`draw_liquidity_uncumulated`). With the mistake in place TLC reports the
property.

## 5. Proofs

TLAPS proves the following for every value of the constants, from the assumptions
named in the modules, which TLC evaluates in the runs. Each proof module has one
shape: an inductive invariant, checked by TLC on the component's run first; a lemma
per action, or per kind of step where several actions do the same to the state;
and the theorems as consequences.

| Theorem | States | Argument |
|---|---|---|
| **Escrow** `TypeCorrect` | `[]TypeOK` | inductive by itself once balances are known to be naturals: no call overdraws an account |
| `WindowsHold` | `[]SettledInWindow` | `TypeOK` and the window of each settled record; a settled record does not change and time only grows |
| `SettlementIsFinal` | `SettledIsFinal` | from `TypeOK` at each step: every payout guards on `Pending` and ids grow |
| `FeesCapped` | `[]FeesWithinCap` | the fee in force is at most `MAX_FEE_BPS`, and the floor of a sum of products is at least the sum of floors |
| `EscrowIsSolvent` | `[]CustodyCoversPending` | below |
| `EscrowKeepsPromise` | `KeepsPromise`: the escrow implements `TransferPromise` | the steps of the ledger are idle, create one record or close one (`StepShape`); these map to a stutter or a passing of time, to `Make`, and to `Pay` or `GiveBack` |
| **Registry** `RegistryInvariant` | `[]RegistryInv` | types, the treasury is set with the administrator, every agent's record is listed in its region, `total_bonded` is what is held |
| `RegistryIsSolvent` | `[]RegistryBooksBalance` | each step changes one record; the sum over the agents changes by the difference of that record's bond |
| `RegionCapIsHard` | `[]RegionCapHolds` | an agent becomes authorized only after the agents of its region were counted, and the index that is counted holds all of them (`AgentsHaveHomes`), so stale entries can only make the count too high |
| `AuthorizedStaysBonded`, `StrandedOnlyByFreshStart` | `AuthorizedBondNeverSinks`, `OnlyFreshStartsStrand` | action properties, from `RegistryInv` and the shape of a step |
| **Hook** `HookTypeCorrect` | `[]TypeOK` | types, with thresholds valid |
| `VolumeIsExact` | `[]VolumeMatchesCommits` | a commitment extends the history by one and changes one bucket by the same amount |
| `CeilingIsEnforced` | `CeilingHoldsWhenItMatters` | an action property: only `commit_transfer` touches a bucket, after `evaluate` |
| **Pool** `PoolBooksBalance` | `[](TypeOK /\ BooksBalance)` | below |
| **Composition** `CustodyStaysCovered` | `[]EachCustodyCovered` | below |
| `VolumeStaysMatched` | `[]VolumeMatchesEscrow` | a creation and its commitment are one step and put the same amount into the same bucket; no other call touches either |
| `DrawsStayCovered` | `[]UncoveredOnlyAfterBondLoss` | a draw compares with the registry's record in the same step; a repayment lowers what is owed, and every call that takes bond away or raises the ratio is one the property excepts |
| `BondKeysAreKept` | `[]NoBondUnderLostKey` | a bond is posted by a run under way, and its agent's key was printed before its first transaction (`RunFine`) |
| **Deployment** `RecordsAreWired` | `[]RecordedSetIsWired` | below |
| `NothingIsLeftHalfBuilt` | `[]NothingLeftHalfBuilt` | below |
| **KYC** `KycInvariant` | `[]KycInv` | below |
| `AnchorsAreRouted`, `VouchedForIsVerified`, `MarkedIsRevoked` | `[]AnchorsHaveRecords`, `[]OnlyVerifiedVouchedFor`, `[]RevocationLanded` | consequences of `KycInv` |
| **Quoting** `LiveQuotesAreRecent` | `[]LiveQuoteIsRecent` | below |
| `QuotesPredictPayouts` | `[]QuotePredictsPayout` | below |
| `BudgetIsKept` | `[]OracleBudget` | below |
| **Liquidity** `OnlyApprovedMoves` | `[]NothingMovesUnapproved` | whoever is past the status check, and every row that says `APPROVED`, has an approval that has been written |
| `DrawnOnce` | `[]OneRequestOneDraw` | a running execution of an undisturbed request is seen: some desk waits for it, or it is on record as abandoned (`RunsAreSeen`). So a second one is started in a named case only; while a request is undisturbed at most one execution of it is past the check, and once it has drawn the row no longer says `APPROVED` |
| **Console** `AuthorityIsTraced` | `[]ForwardedWithAuthority` | a login being signed, a cookie and a request in flight each still agree with a sign-in; a deployment drops the first and the last, so only cookies outlive their secret, and the gate compares it |
| `ThrottleIsTrue` | `[]ThrottleKeepsItsWord` | below |
| **Phone** `MatchesAreTrue` | `[]MatchTellsTruth` | below |
| `CodesAreCleared` | `[]CodeOnlyWhenCleared` | a quote and a preflight come back with one call and are shown or cleared together, so on every screen they are about the same corridor and amount (`SameTerms`), whatever the fields say by then |
| `SpinnersWaitForACall` | `[]NoFrozenScreen` | a call's answer and the spinner go in one step, and only leaving a screen drops its calls (`Awaits`); the one answer that leaves the spinner is a digest that throws, which the agent's screen then carries |
| `KeyIsKept` | `[]FundingKeyKept` | below |
| `CodesSurvive` | `[]CodeSurvivesTheCounter` | below |

*Escrow.* `CustodyCoversPending` is not inductive: it says nothing about ids not
yet given, and `create_transfer` adds one. The invariant proved adds that the records
are exactly those of `1..next_id` and that each pending record has a positive
amount and a known token. A creation adds the amount to the balance and to the
sum; a payout takes it from both.

*Pool.* The books can only be proved together. A deposit is worth as many shares
as tokens because the totals are equal so far (`PriceIsOne`), and the totals are
equal because every deposit was. Added to `BooksBalance` is `ClosedIsEmpty`: a
region that was never opened has no shares and no debts, so that it opens with
zero totals rightly.

*Composition.* `NetInv` is the conjunction of the four properties, the types and
what a run of a script holds, and it is inductive only as a whole. The argument has
three layers. Whatever the scripts do, the network sees a `NetworkStep` by parties
it knows, because a run, or the transaction it left behind, only holds keys that it
was given (`ScriptsFine`). A `NetworkStep` has one of five shapes: it creates a
transfer, settles one, writes an agent's record, lends or takes back float, or
touches none of these (`Creates`, `Settles`, `Records`, `Lends`, `Elsewhere`); a
shape names the one record and what each contract's custody gains or loses. Each
property is then kept by each shape. The proof starts from the deployment's
initial state and uses no theorem of a single contract: those speak of a contract
whose partners answer anything, while `Network` has settings that stay as deployed
and one token. `Network` fixes the widths of the integers and leaves everything else
open.

*Deployment.* `RecordedSetIsWired` speaks of what four contracts hold, many steps and
perhaps several runs after they were given it. The invariant follows every run from
its first transaction (`Working`): of a run at transaction `d + 1`, exactly the first
`d` have landed and nothing else of it (`Landed`), no other process has that run, and
no transaction of it is in the air, because one that was not confirmed stops its run
(`Over`). A read-back is not needed for this; it is a second defence. A transaction in
the air was sent by a run that had made its four contracts, or is one that makes them
(`LateFine`), so whatever a contract holds came from a run whose contracts all exist
(`CallFine`), which is `NoDanglingReference`. `ScriptIs` gives the list of a run by
places, for any configuration: that a run is never refused half-way is then a
comparison of each place with the ones before it (`InvIsAccepted`), and what a finished
run has left is the list read by entry points (`WholeRun`).

*KYC.* None of the three properties is inductive, since each speaks of a call that
landed some steps after the decision it rests on. `RequestFine` says what a
submission has at each await (no row before the provider's answer, a row and a
deep enough approval before anything is sent, the row's user and expiry those of
the submission), `AnchorFine` that an attestation on chain is what its submission
still says, `RevocationFine` that a revocation goes on to the rows only after its
call has landed or a poll has given up.

*Quoting.* `LiveQuoteIsRecent` is about quotes that were read, answered, signed and
stored at four instants. `QuotesInv` says of each request what it carries: once
Horizon has read, its rate was the market's at some instant since the request was
sent (`OfferedSince`); once it is signed, that instant is at most `FETCH_TIMEOUT`
before the window opened; and the quote's numbers are `Price` of some amount, spread
and rate. The clock and the market's history only grow, so what was true of a request
stays true (`PastIsKept`). The arithmetic is one lemma, `FeeBeforeOrAfter`, for any
two fees: with one taken of the amount before a conversion that rounds down, and the
other of what was converted, both rounded down too, the results differ by the
difference of the fees on the converted amount, and by less than two units up, or two
units and the value of a stroop down, for rounding. So the bound holds for the escrow's
fee of every later moment, whenever a quote is redeemed. `set_fee_bps` disturbs nothing
else: what is left to a quote's invariant is that the escrow's fee is at most
`MAX_FEE_BPS`.

*Limiter.* "Less than twice the budget in any window's length" needs more than the
entry's counter. `EntryFine` says that a window holds at most what its entry counts,
that the first of them came at the instant it opened, so every interval that starts
later holds one less; and that an interval which reaches into it from before misses
the request that opened the window before. A refused request counts and is not
admitted, so the bounds are inequalities.

*Throttle.* The code keeps no history: it keeps a list from which every look removes
what is a window old. `KeyFine` says that the list is the end of the key's whole
history, that what came before it is a window old, and that the list is no longer than
the limit. A failure is recorded only while fewer than the limit are recent, so the
window that ends with it is that list and one more (`KeyFails`). For the wait: a list
that has reached the limit drops below it once its first entry is old (`ListEmpties`),
and seconds rounded up are no less than what they stand for (`RoundedUp`).

*Phone.* Nothing on a screen says by itself that it is true; what makes it true is
what the calls in flight may still do to it. `ScreensInv` says of every mounted
screen, not only of the one on top, what it has in common with them (`Awaits`): a
busy agent's screen has exactly one call, a look-up has cleared the verdict before it
was sent, and a comparison was sent with the hash of the transfer that is still on
the screen, unless a reset has taken it away. So a verdict and the transfer beside it
never come from different look-ups. That keys of screens are never reused is a part
of it: an answer finds its screen or none.

*Funding key.* `KeyKept` holds as long as no two provisionings overlapped: a key on
its way to the keychain is then the only one and the keychain is empty, so nothing
was minted yet; every start past the keychain carries the key it holds. A kill
between the two is harmless for that reason. That a generated key is a new one needs
a count of what is in use (`FreshIs`).

*Claim codes.* After one normalisation every character is `Canonical`, and a second
leaves the text as it is (`CanonicalStays`): the agent's phone may normalise what the
recipient's phone has normalised. `ReadBack` takes any writing of a displayed code
apart, whatever the size of its groups: each place holds a separator or the symbol
whose number is the count of symbols up to there (`DisplayIs`), a symbol repairs to
what was meant (`WrittenIs`), and `WithoutCounted` says what is left.

*Sums.* A sum of the first `n` values is a `PrefixSum`, one over a finite set is
the library's `SumFunctionOnSet`. `Sums_proofs` shows what a change of one value,
an extension by one and a bound on every value do to it. The induction goes through
sets of naturals and of subsets instead of an operator parameter. The same holds for
`Without`: what it leaves are entries of the sequence; where everything dropped
comes first it leaves the rest; and each entry kept is at the number that a count of
the kept entries gives it.

Assumptions, beyond naturals where the code has unsigned integers: a contract is no
user of itself, and `None` is no value or record (`NoneIsNo...`); agents, users and
regions are finite sets (`AgentsAreFinite`, `UsersAreFinite`); there are no more users
and regions than a `u32` counts (`CountersFit`: the pool's counters saturate, and
`depositor_count` is wrong beyond); the provider's tiers are the known ones
(`TiersAreKnown`); submissions and revocations are different calls (`CallsAreOurs`),
and so are decisions and executions (`CallsDiffer`); roles are those that
`parseOperatorAccounts` accepts (`RolesAreKnown`). Of the network: contracts and
accounts have different addresses (`ContractsAreDistinct`), senders, agents and
regions are finite sets (`PartiesAreFinite`), the deployment's fee, ratio and cap are
ones the contracts accept (`ConfigurationIsValid`), and the scripts use a region, a
corridor and amounts of it (`ScriptsFitTheNetwork`). Of the market: it lists finitely
many paths, amounts and fees have no sign, and no spread is more than the whole rate
(`MarketIsPriced`: `scripts/src/env.ts:100` and `backend/src/config/env.ts:53` stop at
2 000 bps; `applyBps` itself would let ten times the rate pass). That no agent is paid
more than it put in leaves out agents that the operator has made the treasury, to
which slashed bonds go. Of a configuration: its lists are not empty and its records
have the fields and types that the schema asks for (`ConfigsAreParsed`,
`scripts/src/env.ts:82`), and `Absent` is no value (`AbsentIsNoValue`). Of the phone:
an empty field is no number and no verdict (`NullIsNoAnswer`), inputs are texts
(`InputsAreTexts`), codes on the ledger and from the random source are codes
(`CodesAreCodes`), codes and display groups are not empty, and the alphabet has none
of the letters that are repaired, none in lower case and no separator
(`CodeAssumption`, `mobile/src/lib/claim.ts`).

Only model-checked:

- liveness (`EveryTransferSettles`, `EveryEventSettled`) and `ENABLED`
  (`NobodyLockedIn`, a part of `VerdictTellsTruth`), which the prover does not
  handle;
- the indexer: the property worth proving, `NothingSkipped`, does not hold (section
  6). What does, `SkipsAreNamed`, names the ways in which events are lost and
  is left to TLC, as is `ProjectionsConverge`, which speaks of the time before the
  first rewind.

## 6. Disagreements between the code and what is said of it

These were met while modelling. Where brackets follow, TLC showed it on these models
with the property, the configuration, or the change to a property or a run, they name;
the others were read off the code. First the ones that cost somebody money:

- An agent that is revoked and registers again before withdrawing loses the bond
  still on record; "The remaining bond stays claimable by the agent"
  (`interfaces/src/agent_registry.rs:24`). `OnlyFreshStartsStrand` says that
  nothing else strands tokens in the registry [what the registry holds is the sum
  of the bonds on record].
- A top-up is drawn twice when two executions overlap: from two desks, from one
  desk that was reloaded, or whose form left its table in a refresh, while its own
  execution was running, from one whose call the proxy gave up on after 15 seconds
  while the backend still polls, after a crash behind the draw, or after a second
  decision revives an executed request; "only approved requests can be executed"
  (`agent-liquidity/service.ts:211`). `OneRequestOneDraw` lists these and says
  there are no others [at most one draw per request]. A poll that gives up leaves
  `EXECUTED` behind a draw that may never land.
- A slash, a withdrawal after suspension or a higher ratio leaves drawn float
  under-collateralised; the pool says so itself (`liquidity-pool/src/lib.rs:58-61`),
  and `UncoveredOnlyAfterBondLoss` says it is the only way. The sentence that
  `withdraw_liquidity` enforces the utilization cap (`lib.rs:32`) is not what the
  code does: it compares with what is available.
- `create-test-token` prints the keys it made as its last step, so a run that
  dies before leaves its supply under a key nobody has; "ADMIN_SECRET_KEY below
  is the only copy" [the holder of the supply is known].
- The indexer never reads the ledger that was the tip of a tick: it asks for
  events up to `endLedger`, which the node excludes (`event-indexer/indexer.ts:73`),
  saves that ledger as the cursor (`:140`) and goes on behind it; "The cursor
  advances only after the whole batch is written" (`:24`) [`IndexerTip`]. Of a
  response that was full, the events beyond the 200th are behind the cursor too
  [`IndexerPage`]. A window that starts at the tip is empty in the models; a node
  that refuses such a range fails the tick instead, which is `Crash`. So is a
  start ledger that the node no longer has, or `0`.
- A quote's fee is the constant 200 under the comment "read from configuration,
  not hardcoded" (`quoting-service/service.ts:61`), so after `set_fee_bps`, or a
  deployment at another fee, a sender is promised what the escrow does not pay
  [`QuoteFee`]. `QuotePredictsPayout` says by how much.

The rest:

- A digest that throws while the agent verifies a code leaves the screen busy:
  `check` has no catch (`agent/index.tsx:55-60`, `claim.ts:82`), as
  `startTransfer` of the sender's screen has; "an unhandled rejection in a
  cash-out flow presents to the customer as a frozen screen" (`api/client.ts:15`)
  [`PhoneFreeze`]. `NoFrozenScreen` says that there is no other such place.
- The smoke test publishes the attestation as the admin (`smoke-test.ts:279`),
  while the deployment enrols `ATTESTER_PUBLIC_KEY` only
  (`deploy-contracts.ts:233`) and `initialize` of the hook nobody, so with an
  attester key of its own, as `scripts/src/env.ts:49-54` asks for, the run is
  refused; "Both are now run against a deployment with separate admin, attester and
  treasury keys" (`CHANGELOG.md:77-78`) [`SeparateKeys`]. With the keys that
  `create-test-token` prints it stops earlier: the `TREASURY_PUBLIC_KEY` is the
  issuer, which cannot trust its own asset (`create-test-token.ts:290`)
  [`PrintedKeys`].
- On the phone: a quote that was on its way when another corridor was chosen is shown,
  with the currency of the chosen one and the corridor of its own (`sender/index.tsx`)
  [the quote shown is for the chosen corridor]. The default corridor is the first of a
  list that holds inactive ones, and neither quote nor preflight refuses it. Going
  back, or "Send another", mints a second code from the same quote; "There is no way
  back from here" (`sender/claim.tsx:18`) [one code per quote]. Two provisionings of
  the key at once overwrite each other [`FundingKeyKept` without `raced`]. Status
  answers out of order show another transfer's status under the id typed
  (`recipient/index.tsx`) [the status shown is of the id shown]. The agent is told to
  "Release the cash and then submit the claim" (`agent/index.tsx:181`) from a status
  read earlier. A lost answer to a float request invites a second request. The scanner
  stays latched when another transfer is looked up without a verdict. Headroom,
  "computed from the contract's own collateral ratio" (`float.tsx:19`), is computed by
  the backend with a constant 15 000.
- The smoke test's check "the transfer is settled, not pending" only asks whether
  a record exists; the escrow's balance is what makes the verdict true
  (`VerdictTellsTruth`). The id may be another's transfer (`smoke-test.ts:316`).
  A reused agent key is refused by `register_agent`, so a re-run with it stops
  there. The comment on the expiry reasons about the drift between the clocks the
  wrong way round (a ledger clock that is ahead makes the expiry nearer).
- A revocation between the insertion of a row and its publication marks the row,
  and the publication then overwrites the revocation on chain; "Both the database
  and the chain must agree" (`kyc-orchestration/service.ts:244`) [the hash of a
  row marked by a revocation is not live once everyone is done].
- `count_authorized` counts agents that moved to another region, through an
  index that is never pruned ("Count agents currently allowed to settle in a
  region", `registry.rs:51`) [the count equals the authorized agents of the
  region].
- The daily ceiling is per calendar day, so twice the limit fits around midnight
  ("Rolling daily ceiling", `interfaces/src/compliance.rs:63`) [no window of a
  day's length holds more than the limit].
- `is_valid` accepts a daily limit equal to `tier2_max`, under which no Enhanced
  amount fits (`interfaces/src/compliance.rs:83-84`) [some amount up to the limit
  needs Enhanced].
- A withdrawal may take the reserve the utilization cap "guarantees"
  (`interfaces/src/liquidity.rs:26-27`) [utilization stays under the highest cap].
- A rewind into a window that was read in one piece renumbers its events, and a
  settled row goes back to `PENDING` ("idempotent on replay",
  `docs/runbook.md:328`); two indexers do the same to each other ("so it can be
  scaled", `docker-compose.yml:94`) [no settled row
  goes back].
- With `INDEXER_START_LEDGER=latest` a crash before the first saved cursor moves
  the window ("the same window is re-read on restart", `docs/events.md:344`)
  [`IndexerLatest`].
- `pool.repaid` is not projected, and an agent's status, which arrives as an
  array, never is [row equals chain once the events are logged].
- A poll that gives up counts as a confirmation, so a row may be `REVOKED` with
  no revocation on chain (`rpc.ts:120-123`, `kyc-orchestration/service.ts:245`)
  [`RevocationLanded` without its condition on polls].
- A webhook's approval makes a row `ACTIVE` and publishes nothing
  (`http-provider.ts:183`) [an active row's hash was published].
- Two decisions on one request both pass the check for `PENDING`
  (`agent-liquidity/service.ts:184`); an error after the draw was sent leaves
  `FAILED`; a draw for an agent the operator does not sign for always fails
  (`contracts.ts:331-336`); the executor adds a draw the indexer has already
  written; two sweeps at once open an alert twice [the documented life of a
  request; no draw behind `FAILED`; failures only by the pool's rules; row equals
  pool at rest; one open alert of a kind].
- `loadDeployConfig` accepts fees and caps up to 10 000 bps, a default cap of 0 and a
  region listed twice; the contracts refuse them, after others are already live ("a
  deployment that half-succeeds is far worse than one that refuses to start",
  `scripts/src/env.ts:33-34`) [`NeverRefusedHalfway` without `WithinContractLimits`].
  A corridor listed twice deploys, and `verify-deployment` then calls the deployment
  wrong.
- The read-back does not cover `set_escrow`, `set_operator`, `map_corridor` and
  `tier2_max` ("verify every read-back", `docs/contracts.md:435`);
  `RecordedSetIsWired` shows that they hold all the same, because no step is skipped.
- Two deployments started together both find no addresses file
  (`deploy-contracts.ts:131`) and the second to finish repoints it [one complete
  set of contracts unless a run was forced].
- A tick is stamped when the answer arrives, so `assertFresh` never refuses one
  (`quoting-service/oracle.ts:93`); what bounds the age is the request's timeout.
  With the fee at the constant, the total of a quote may still exceed the
  converted payout by one unit [`QuoteFollowsEscrowFee` with no slack].
- Read, not modelled: "A quote is single-use" (`quoting-service/service.ts:117`), but
  `consumeQuote` has no caller and would overwrite an earlier use; `backfill` of the
  indexer's CLI fetches and logs and writes nothing; a user without an address is
  attested under the attester's own (`kyc-orchestration/service.ts:209`);
  `docs/runbook.md:312` says raw events are stored first, and the code projects first.

## 7. Not modelled

- Of quoting: `consumeQuote` (no caller), the static and pool price sources, the
  parsing of `SDEX_ASSETS`, display strings.
- Of the console: the pages other than liquidity, which only read; the propose
  and revoke forms, each one call that the backend modules take as an input;
  password hashing (`scryptSync`, synchronous, so checking and counting a password
  is one step).
- Of the scripts: a dry run, which submits and writes nothing; requests to
  Friendbot, which can only end a run, as any other step can.
- Of the phone: signing, which no screen calls, and clearing the key; formatting
  and layout. The chain side of a claim code is the preimage and hash of
  `RemitEscrow`.
- Of the transfers API: the list routes. The OpenAPI document, configuration,
  logging, error classes and server assembly keep no state.
- Contract invocation: the encoding of arguments, which the repository tests
  against the contracts' interfaces.
- Storage lifetimes: every write renews them, and no entry point relies on an
  expired one. Contract events appear where the indexer reads them.
- Cryptography: SHA-256 and signatures are injective constructors; provider
  hashes appear as the facts they establish.
- Allowances and fees of the token contracts: a token transfer succeeds exactly
  when the balance suffices and, in `Network`, the receiver has a trustline.

## 8. What remains

Modelled and checked: the four contracts, each alone and together, the abstract
escrow, the indexer, KYC, liquidity with its page, deployment and bring-up, the
console's gate, quoting and the phone. Proved: the safety of the four contracts,
alone and composed, the refinement of `TransferPromise`, deployment, KYC, quoting with
its limiter, liquidity, the console's gate with its throttle, and the phone. What stays
with TLC is listed in section 5, with the reason. Of that list `NothingSkipped` of
the indexer becomes the theorem to prove once a window ends behind its tip and is
read in as many pages as it takes.
