------------------------------- MODULE Mobile -------------------------------
(***************************************************************************)
(* The phone application: the navigation stack, the five screens that do   *)
(* something, the wallet's key in the device keychain, and the part of the *)
(* API that the screens call (transfers/router.ts, the agent detail and    *)
(* the top-up proposal).                                                   *)
(*                                                                         *)
(* Every await ends a step.  A request is answered from the read model at  *)
(* some moment and its answer arrives later, in any order, or is lost: the *)
(* client turns a timeout into a failed answer.  A screen stays mounted    *)
(* under the ones pushed above it; leaving it unmounts it, and an answer   *)
(* for an unmounted screen changes nothing, except that a claim code under *)
(* way is still pushed.  The system may kill the application at any time:  *)
(* only the keychain survives.  Error texts are left out.                  *)
(*                                                                         *)
(* A definition whose comment starts with "Fault" is no part of the model: *)
(* it is a wrong version of the definition after it, one that a property   *)
(* of this module is shown to notice.                                      *)
(***************************************************************************)
EXTENDS ClaimCode, Integers, FiniteSets, SequencesExt

CONSTANTS
    CorridorList,       \* the corridors in the order the API lists them
    Bandings,           \* settings of the corridors: active, tier1Max, tier2Max, dailyLimit
    PhoneAmounts,       \* amounts that people type and the format accepts
    LedgerCodes,        \* claim codes of the transfers on the ledger, by transfer id
    TransferStatuses,   \* statuses of a transfer
    Typed,              \* transfer ids that people type, also ids of no transfer
    NotNumeric,         \* a text in a transfer id field that is not a number
    Inputs,             \* what is typed or scanned as a claim code
    Drawn,              \* claim codes that the random source yields
    AgentIds,           \* agent ids with a record
    Null,               \* null, an empty field, or a missing answer
    Failed,             \* an answer with ok false
    MaxScreens,         \* bound: screens opened, the first one included
    MaxCounter,         \* bound: agent, recipient and float screens are among the first opened
    MaxCalls,           \* bound: calls in flight
    MaxTopUps           \* bound: top-ups proposed

ASSUME CodesAreCodes ==
    /\ \A id \in DOMAIN LedgerCodes : LedgerCodes[id] \in ClaimCodes
    /\ Drawn \subseteq ClaimCodes
ASSUME InputsAreTexts == Inputs \subseteq Seq(STRING)
ASSUME NullIsNoAnswer == Null \notin Nat /\ Null # "matches"
ASSUME PhoneBoundsAreNaturals ==
    MaxScreens \in Nat \ {0} /\ {MaxCounter, MaxCalls, MaxTopUps} \subseteq Nat

Corridors == ToSet(CorridorList)
numeric(id) == id \notin {Null, NotNumeric}
TransferIds == DOMAIN LedgerCodes

VARIABLES
    stack,      \* mounted screens, the visible one last
    opened,     \* screens opened so far; the next one's key
    calls,      \* what the screens await
    store,      \* the secret in SecureStore, Null when there is none
    proposed,   \* top-ups recorded by the backend
    minted,     \* history: the params the claim screens were given, and on what grounds
    raced       \* history: two provisionings of the key overlapped

phoneVars == <<stack, opened, calls, store, proposed, minted, raced>>
wallet == <<store, raced>>

(***************************************************************************)
(* Screens and the navigation stack.                                       *)
(***************************************************************************)
HomeScreen(k) == [kind |-> "home", key |-> k]
SenderScreen(k) ==
    [kind |-> "sender", key |-> k, corridors |-> {}, corridorId |-> Null,
     amount |-> Null, quote |-> Null, preflight |-> Null, busy |-> FALSE]
SenderClaimScreen(k, params) == [kind |-> "claim", key |-> k, params |-> params]
RecipientScreen(k) ==
    [kind |-> "recipient", key |-> k, transferId |-> Null,
     transfer |-> Null, busy |-> FALSE]
AgentScreen(k) ==
    [kind |-> "agent", key |-> k, transferId |-> Null, code |-> <<>>, transfer |-> Null,
     verification |-> Null, busy |-> FALSE, handled |-> FALSE, checked |-> Null,
     threw |-> FALSE]
AgentFloatScreen(k) ==
    [kind |-> "float", key |-> k, agentId |-> Null, agent |-> Null, amount |-> Null,
     reasonGiven |-> FALSE, busy |-> FALSE, submitted |-> Null]

top == Last(stack)
on(kind) == top.kind = kind
mounted(k) == \E i \in DOMAIN stack : stack[i].key = k
screen(k) == stack[CHOOSE i \in DOMAIN stack : stack[i].key = k]
put(s) == [i \in DOMAIN stack |-> IF stack[i].key = s.key THEN s ELSE stack[i]]
shown(s) == stack' = put(s)

free == CHOOSE n \in 1 .. MaxCalls : \A c \in calls : c.no # n
canCall == Cardinality(calls) < MaxCalls
call(c) == calls' = calls \cup {c}
answered(c, a) == calls' = (calls \ {c}) \cup {[c EXCEPT !.answer = a]}
done(c) == calls' = calls \ {c}

\* The first call of a screen that has just been mounted.
onMount(s) ==
    IF s.kind = "sender"
    THEN canCall /\ call([no |-> free, op |-> "corridors", key |-> s.key, answer |-> Null])
    ELSE UNCHANGED calls

Push(s) ==
    /\ opened < MaxScreens
    /\ opened' = opened + 1
    /\ stack' = Append(stack, s)
    /\ onMount(s)
    /\ UNCHANGED <<wallet, proposed, minted>>

\* The buttons of the home screen.
OpenSender == on("home") /\ Push(SenderScreen(opened))
OpenRecipient == on("home") /\ opened < MaxCounter /\ Push(RecipientScreen(opened))
OpenAgent == on("home") /\ opened < MaxCounter /\ Push(AgentScreen(opened))
OpenFloat == on("home") /\ opened < MaxCounter /\ Push(AgentFloatScreen(opened))

\* The header's back button, or the system's where the header shows none.
\* Answers for the screen no longer matter, unless they do more than set state.
Back ==
    /\ Len(stack) > 1
    /\ stack' = Front(stack)
    /\ calls' = {c \in calls : c.key # top.key \/ c.op \in {"start", "topup"}}
    /\ UNCHANGED <<opened, wallet, proposed, minted>>

Replace(s) ==
    /\ opened < MaxScreens
    /\ opened' = opened + 1
    /\ stack' = Append(Front(stack), s)
    /\ onMount(s)
    /\ UNCHANGED <<wallet, proposed, minted>>

\* "Send another" and "Done" on the claim screen.
LeaveClaim ==
    on("claim") /\ (Replace(SenderScreen(opened)) \/ Replace(HomeScreen(opened)))

\* The process dies.  The keychain and the backend keep what they have, and a
\* write to the keychain that was under way may or may not be done.
Killed ==
    /\ opened < MaxScreens
    /\ opened' = opened + 1
    /\ stack' = <<HomeScreen(opened)>>
    /\ calls' = {}
    /\ store' \in {store} \cup {c.address : c \in {d \in calls : d.op = "start" /\ d.step = "set"}}
    /\ UNCHANGED <<raced, proposed, minted>>

(***************************************************************************)
(* Sender: a corridor, an amount, a quote with what compliance requires,   *)
(* and a claim code.                                                       *)
(***************************************************************************)
ListCorridors(c) ==
    /\ c.op = "corridors" /\ c.answer = Null
    /\ \/ \E bands \in Bandings : answered(c, {r \in Corridors : bands[r].active})
       \/ answered(c, Failed)
    /\ UNCHANGED <<stack, opened, wallet, proposed, minted>>

\* The default corridor is the first of the whole list, active or not.
CorridorsLoaded(c) ==
    /\ c.op = "corridors" /\ c.answer # Null
    /\ LET s == screen(c.key)
       IN  IF c.answer = Failed
           THEN UNCHANGED stack
           ELSE shown([s EXCEPT !.corridors = c.answer,
                                !.corridorId = IF @ = Null THEN Head(CorridorList) ELSE @])
    /\ done(c)
    /\ UNCHANGED <<opened, wallet, proposed, minted>>

\* A chip is never disabled, also while an answer is awaited.
ChooseCorridor(r) ==
    /\ on("sender") /\ r \in top.corridors
    /\ shown([top EXCEPT !.corridorId = r, !.quote = Null, !.preflight = Null])
    /\ UNCHANGED <<opened, calls, wallet, proposed, minted>>

\* Editing the amount leaves a quote for the old one on the screen.
TypeAmount(a) ==
    /\ on("sender")
    /\ shown([top EXCEPT !.amount = a])
    /\ UNCHANGED <<opened, calls, wallet, proposed, minted>>

loadQuote ==
    /\ on("sender") /\ ~ top.busy
    /\ top.corridorId # Null /\ top.amount # Null
    /\ canCall
    /\ shown([top EXCEPT !.busy = TRUE, !.quote = Null, !.preflight = Null])
    /\ call([no |-> free, op |-> "quote", key |-> top.key, corridor |-> top.corridorId,
             amount |-> top.amount, quote |-> Null, preflight |-> Null])
    /\ UNCHANGED <<opened, wallet, proposed, minted>>

requiredTier(band, a) ==
    CASE a <= band.tier1Max -> "NONE"
      [] a > band.tier1Max /\ a <= band.tier2Max -> "STANDARD"
      [] OTHER -> "ENHANCED"

\* The quote itself is the module Quoting's concern: here it is issued or refused.
Quote(c) ==
    /\ c.op = "quote" /\ c.quote = Null
    /\ \E q \in {[corridor |-> c.corridor, amount |-> c.amount], Failed} :
           calls' = (calls \ {c}) \cup {[c EXCEPT !.quote = q]}
    /\ UNCHANGED <<stack, opened, wallet, proposed, minted>>

\* POST /transfers/preflight, from the settings of the moment.
Preflight(c) ==
    /\ c.op = "quote" /\ c.preflight = Null
    /\ \E p \in {Failed} \cup
               {[corridor |-> c.corridor, amount |-> c.amount,
                 requiredTier |-> requiredTier(bands[c.corridor], c.amount),
                 withinDailyLimit |-> c.amount <= bands[c.corridor].dailyLimit] :
                    bands \in Bandings} :
           calls' = (calls \ {c}) \cup {[c EXCEPT !.preflight = p]}
    /\ UNCHANGED <<stack, opened, wallet, proposed, minted>>

\* Promise.all: both answers are there.
QuoteLoaded(c) ==
    /\ c.op = "quote" /\ c.quote # Null /\ c.preflight # Null
    /\ LET s == [screen(c.key) EXCEPT !.busy = FALSE]
       IN  IF Failed \in {c.quote, c.preflight}
           THEN shown(s)
           ELSE shown([s EXCEPT !.quote = c.quote, !.preflight = c.preflight])
    /\ done(c)
    /\ UNCHANGED <<opened, wallet, proposed, minted>>

\* The quote cards are shown, with the button below them enabled.
cleared(s) ==
    /\ s.quote # Null /\ s.preflight # Null
    /\ s.preflight.withinDailyLimit /\ s.preflight.requiredTier = "NONE"

\* Fault: the code is made for what the fields say, not for what was quoted.
StartWithTypedAmount ==
    /\ on("sender") /\ ~ top.busy
    /\ top.amount # Null /\ cleared(top)
    /\ canCall
    /\ shown([top EXCEPT !.busy = TRUE])
    /\ call([no |-> free, op |-> "start", key |-> top.key, step |-> "get", address |-> Null,
             quote |-> [corridor |-> top.corridorId, amount |-> top.amount], preflight |-> top.preflight,
             dest |-> IF top.corridorId \in top.corridors THEN top.corridorId ELSE Null])
    /\ UNCHANGED <<opened, wallet, proposed, minted>>

startTransfer ==
    /\ on("sender") /\ ~ top.busy
    /\ cleared(top)
    /\ canCall
    /\ shown([top EXCEPT !.busy = TRUE])
    /\ call([no |-> free, op |-> "start", key |-> top.key, step |-> "get", address |-> Null,
             quote |-> top.quote, preflight |-> top.preflight,
             dest |-> IF top.corridorId \in top.corridors THEN top.corridorId ELSE Null])
    /\ UNCHANGED <<opened, wallet, proposed, minted>>

\* A keypair that nothing refers to.
fresh ==
    CHOOSE n \in 1 .. MaxScreens + MaxCalls :
        n \notin {m.params.address : m \in minted} \cup {c.address : c \in {d \in calls : d.op = "start"}}

\* ensureKeypair reads the keychain; a key is generated where there is none.
EnsureRead(c) ==
    /\ c.op = "start" /\ c.step = "get"
    /\ \/ /\ store # Null
          /\ calls' = (calls \ {c}) \cup {[c EXCEPT !.step = "code", !.address = store]}
          /\ UNCHANGED raced
       \/ /\ store = Null
          /\ calls' = (calls \ {c}) \cup {[c EXCEPT !.step = "set", !.address = fresh]}
          /\ raced' = (raced \/ \E d \in calls : d.op = "start" /\ d.step = "set")
    /\ UNCHANGED <<stack, opened, store, proposed, minted>>

\* Fault: setItemAsync is not awaited, and the write may never happen.
EnsureWithoutAwait(c) ==
    /\ c.op = "start" /\ c.step = "set"
    /\ store' \in {store, c.address}
    /\ calls' = (calls \ {c}) \cup {[c EXCEPT !.step = "code"]}
    /\ UNCHANGED <<stack, opened, raced, proposed, minted>>

EnsureWrite(c) ==
    /\ c.op = "start" /\ c.step = "set"
    /\ store' = c.address
    /\ calls' = (calls \ {c}) \cup {[c EXCEPT !.step = "code"]}
    /\ UNCHANGED <<stack, opened, raced, proposed, minted>>

\* The code is drawn and hashed, and the claim screen pushed, wherever the
\* sender is by then.  No code is drawn twice.
MintCode(c) ==
    /\ c.op = "start" /\ c.step = "code"
    /\ opened < MaxScreens
    /\ \E code \in Drawn \ {m.params.claimCode : m \in minted} :
           LET params == [claimCode |-> code, claimHash |-> hashClaimCode(code),
                          corridor |-> c.quote.corridor, amount |-> c.quote.amount,
                          dest |-> c.dest, address |-> c.address]
               idle == IF mounted(c.key)
                       THEN put([screen(c.key) EXCEPT !.busy = FALSE]) ELSE stack
           IN  /\ minted' = minted \cup {[params |-> params, preflight |-> c.preflight]}
               /\ stack' = Append(idle, SenderClaimScreen(opened, params))
    /\ opened' = opened + 1
    /\ done(c)
    /\ UNCHANGED <<wallet, proposed>>

\* Fault: the catch branch leaves the spinner on.
StartFailsBusy(c) ==
    /\ c.op = "start"
    /\ done(c)
    /\ UNCHANGED <<stack, opened, wallet, proposed, minted>>

\* The keychain or the random source throws.
StartFails(c) ==
    /\ c.op = "start"
    /\ stack' = IF mounted(c.key)
                THEN put([screen(c.key) EXCEPT !.busy = FALSE]) ELSE stack
    /\ done(c)
    /\ UNCHANGED <<opened, wallet, proposed, minted>>

(***************************************************************************)
(* The status of a transfer, for the agent and the recipient.              *)
(***************************************************************************)
\* A row of the read model at any moment of the transfer's life.
serialiseTransfer(id) ==
    {[id |-> id, claimHash |-> hashClaimCode(LedgerCodes[id]), status |-> st,
      expired |-> st = "PENDING" /\ past] :
        st \in TransferStatuses, past \in BOOLEAN}

askStatus(k, id) == call([no |-> free, op |-> "status", key |-> k, id |-> id, answer |-> Null])

\* GET /transfers/:id/status, answered or not.
TransferStatus(c) ==
    /\ c.op = "status" /\ c.answer = Null
    /\ \/ c.id \in TransferIds /\ \E t \in serialiseTransfer(c.id) : answered(c, t)
       \/ answered(c, Failed)
    /\ UNCHANGED <<stack, opened, wallet, proposed, minted>>

(***************************************************************************)
(* Agent: look a transfer up, take the customer's code, compare.           *)
(***************************************************************************)
payable(s) == s.transfer # Null /\ s.transfer.status = "PENDING" /\ ~ s.transfer.expired
enabled(s) == s.verification = Null

\* The scanner's latch is armed again when the scanner is mounted or enabled
\* afresh, and its effect runs when it is disabled too.
rearmed(old, new) ==
    IF payable(new) /\ (~ payable(old) \/ enabled(old) # enabled(new))
    THEN [new EXCEPT !.handled = FALSE] ELSE new

TypeTransferId(id) ==
    /\ on("agent")
    /\ shown([top EXCEPT !.transferId = id])
    /\ UNCHANGED <<opened, calls, wallet, proposed, minted>>

\* Fault: the last verdict stays while another transfer is looked up.
LookUpKeepingVerdict ==
    /\ on("agent") /\ ~ top.busy /\ numeric(top.transferId)
    /\ canCall
    /\ shown([top EXCEPT !.busy = TRUE])
    /\ askStatus(top.key, top.transferId)
    /\ UNCHANGED <<opened, wallet, proposed, minted>>

loadTransfer ==
    /\ on("agent") /\ ~ top.busy /\ numeric(top.transferId)
    /\ canCall
    /\ shown(rearmed(top, [top EXCEPT !.busy = TRUE, !.verification = Null]))
    /\ askStatus(top.key, top.transferId)
    /\ UNCHANGED <<opened, wallet, proposed, minted>>

TransferLoaded(c) ==
    /\ c.op = "status" /\ c.answer # Null
    /\ screen(c.key).kind = "agent"
    /\ LET s == screen(c.key)
       IN  shown(rearmed(s, [s EXCEPT !.busy = FALSE,
                                      !.transfer = IF c.answer = Failed THEN Null ELSE c.answer]))
    /\ done(c)
    /\ UNCHANGED <<opened, wallet, proposed, minted>>

TypeCode(raw) ==
    /\ on("agent") /\ payable(top)
    /\ shown([top EXCEPT !.code = raw])
    /\ UNCHANGED <<opened, calls, wallet, proposed, minted>>

\* The camera reports a code: the first one counts until the latch is re-armed.
handleScan(payload) ==
    /\ on("agent") /\ payable(top) /\ enabled(top) /\ ~ top.handled
    /\ normaliseClaimCode(payload) # <<>>
    /\ shown([top EXCEPT !.code = normaliseClaimCode(payload), !.handled = TRUE])
    /\ UNCHANGED <<opened, calls, wallet, proposed, minted>>

check ==
    /\ on("agent") /\ payable(top) /\ ~ top.busy /\ top.code # <<>>
    /\ canCall
    /\ shown([top EXCEPT !.busy = TRUE])
    /\ call([no |-> free, op |-> "check", key |-> top.key, code |-> top.code,
             claimHash |-> top.transfer.claimHash])
    /\ UNCHANGED <<opened, wallet, proposed, minted>>

CodeChecked(c) ==
    /\ c.op = "check"
    /\ LET s == screen(c.key)
       IN  shown(rearmed(s,
               [s EXCEPT !.verification = verifyClaimCode(normaliseClaimCode(c.code), c.claimHash),
                         !.checked = c.code, !.busy = FALSE]))
    /\ done(c)
    /\ UNCHANGED <<opened, wallet, proposed, minted>>

\* The digest of a well-formed code throws, and check has no catch: the verdict
\* and the spinner stay as they are.
CodeCheckThrows(c) ==
    /\ c.op = "check"
    /\ isWellFormedClaimCode(normaliseClaimCode(c.code))
    /\ shown([screen(c.key) EXCEPT !.threw = TRUE])
    /\ done(c)
    /\ UNCHANGED <<opened, wallet, proposed, minted>>

\* "Start the next customer" is not disabled while a code is being compared.
reset ==
    /\ on("agent") /\ payable(top) /\ top.verification # Null
    /\ shown([top EXCEPT !.code = <<>>, !.transfer = Null, !.verification = Null])
    /\ UNCHANGED <<opened, calls, wallet, proposed, minted>>

(***************************************************************************)
(* Recipient: follow the transfer.  The code that the recipient enters is  *)
(* only shown, as text and as a QR code.                                   *)
(***************************************************************************)
\* Every edit that leaves a number asks for its status, whatever is in flight.
FollowTransfer(id) ==
    /\ on("recipient") /\ id # top.transferId
    /\ IF numeric(id)
       THEN /\ canCall
            /\ shown([top EXCEPT !.transferId = id, !.busy = TRUE])
            /\ askStatus(top.key, id)
       ELSE shown([top EXCEPT !.transferId = id]) /\ UNCHANGED calls
    /\ UNCHANGED <<opened, wallet, proposed, minted>>

checkStatus ==
    /\ on("recipient") /\ ~ top.busy /\ top.transferId # Null
    /\ IF numeric(top.transferId)
       THEN /\ canCall
            /\ shown([top EXCEPT !.busy = TRUE])
            /\ askStatus(top.key, top.transferId)
       ELSE shown([top EXCEPT !.transfer = Null]) /\ UNCHANGED calls
    /\ UNCHANGED <<opened, wallet, proposed, minted>>

StatusLoaded(c) ==
    /\ c.op = "status" /\ c.answer # Null
    /\ screen(c.key).kind = "recipient"
    /\ shown([screen(c.key) EXCEPT !.busy = FALSE,
                                   !.transfer = IF c.answer = Failed THEN Null ELSE c.answer])
    /\ done(c)
    /\ UNCHANGED <<opened, wallet, proposed, minted>>

(***************************************************************************)
(* Float: an agent's record and a request for a top-up.                    *)
(***************************************************************************)
TypeAgentId(a) ==
    /\ on("float")
    /\ shown([top EXCEPT !.agentId = a])
    /\ UNCHANGED <<opened, calls, wallet, proposed, minted>>

loadAgent ==
    /\ on("float") /\ ~ top.busy /\ top.agentId # Null
    /\ canCall
    /\ shown([top EXCEPT !.busy = TRUE, !.submitted = Null])
    /\ call([no |-> free, op |-> "agent", key |-> top.key, agent |-> top.agentId, answer |-> Null])
    /\ UNCHANGED <<opened, wallet, proposed, minted>>

\* GET /agents/:id.
AgentDetail(c) ==
    /\ c.op = "agent" /\ c.answer = Null
    /\ \/ c.agent \in AgentIds /\ answered(c, c.agent)
       \/ answered(c, Failed)
    /\ UNCHANGED <<stack, opened, wallet, proposed, minted>>

AgentLoaded(c) ==
    /\ c.op = "agent" /\ c.answer # Null
    /\ shown([screen(c.key) EXCEPT !.busy = FALSE,
                                   !.agent = IF c.answer = Failed THEN Null ELSE c.answer])
    /\ done(c)
    /\ UNCHANGED <<opened, wallet, proposed, minted>>

FillRequest(a, given) ==
    /\ on("float") /\ top.agent # Null
    /\ shown([top EXCEPT !.amount = a, !.reasonGiven = given])
    /\ UNCHANGED <<opened, calls, wallet, proposed, minted>>

requestTopUp ==
    /\ on("float") /\ ~ top.busy
    /\ top.agent # Null /\ top.amount # Null /\ top.reasonGiven
    /\ canCall
    /\ shown([top EXCEPT !.busy = TRUE])
    /\ call([no |-> free, op |-> "topup", key |-> top.key, agent |-> top.agent,
             amount |-> top.amount, answer |-> Null])
    /\ UNCHANGED <<opened, wallet, proposed, minted>>

\* POST /agents/liquidity/top-ups: recorded, or refused, or the answer is lost
\* after it was recorded.
ProposeTopUp(c) ==
    /\ c.op = "topup" /\ c.answer = Null
    /\ \/ /\ Len(proposed) < MaxTopUps
          /\ proposed' = Append(proposed, [agent |-> c.agent, amount |-> c.amount])
          /\ answered(c, Len(proposed) + 1) \/ answered(c, Failed)
       \/ answered(c, Failed) /\ UNCHANGED proposed
    /\ UNCHANGED <<stack, opened, wallet, minted>>

TopUpRequested(c) ==
    /\ c.op = "topup" /\ c.answer # Null
    /\ IF ~ mounted(c.key)
       THEN UNCHANGED stack
       ELSE LET s == [screen(c.key) EXCEPT !.busy = FALSE]
            IN  IF c.answer = Failed
                THEN shown(s)
                ELSE shown([s EXCEPT !.submitted = c.answer, !.amount = Null,
                                     !.reasonGiven = FALSE])
    /\ done(c)
    /\ UNCHANGED <<opened, wallet, proposed, minted>>

PhoneInit ==
    /\ stack = <<HomeScreen(0)>> /\ opened = 1 /\ calls = {}
    /\ store = Null /\ raced = FALSE
    /\ proposed = <<>> /\ minted = {}

Tap ==
    \/ OpenSender \/ OpenRecipient \/ OpenAgent \/ OpenFloat \/ Back \/ LeaveClaim
    \/ \E r \in Corridors : ChooseCorridor(r)
    \/ \E a \in PhoneAmounts \cup {Null} : TypeAmount(a)
    \/ loadQuote \/ startTransfer
    \/ \E id \in Typed \cup {NotNumeric} : TypeTransferId(id) \/ FollowTransfer(id)
    \/ \E raw \in Inputs : TypeCode(raw) \/ handleScan(raw)
    \/ loadTransfer \/ check \/ reset \/ checkStatus
    \/ \E a \in AgentIds : TypeAgentId(a)
    \/ \E a \in PhoneAmounts, given \in BOOLEAN : FillRequest(a, given)
    \/ loadAgent \/ requestTopUp

\* The next thing to happen to a call: the backend, the keychain or the
\* timeout answers, or the screen goes on.
Proceed(c) ==
    \/ ListCorridors(c) \/ CorridorsLoaded(c)
    \/ Quote(c) \/ Preflight(c) \/ QuoteLoaded(c)
    \/ EnsureRead(c) \/ EnsureWrite(c) \/ MintCode(c) \/ StartFails(c)
    \/ TransferStatus(c) \/ TransferLoaded(c) \/ StatusLoaded(c)
    \/ CodeChecked(c) \/ CodeCheckThrows(c)
    \/ AgentDetail(c) \/ AgentLoaded(c) \/ ProposeTopUp(c) \/ TopUpRequested(c)

PhoneNext ==
    \/ Tap
    \/ \E c \in calls : Proceed(c)
    \/ Killed

PhoneSpec == PhoneInit /\ [][PhoneNext]_phoneVars

(***************************************************************************)
(* Properties.                                                             *)
(***************************************************************************)

\* A payout shown as matching is for a code that the agent checked against the
\* very transfer on the screen, whatever was looked up, scanned, retyped or
\* reset in between (agent/index.tsx).
MatchTellsTruth ==
    \A i \in DOMAIN stack :
        LET s == stack[i]
        IN  s.kind = "agent" /\ payable(s) /\ s.verification = "matches"
                => /\ isWellFormedClaimCode(s.checked)
                   /\ normaliseClaimCode(s.checked) = LedgerCodes[s.transfer.id]

\* A claim code exists only for a corridor and an amount that the backend has
\* answered as needing no verification and as within the daily limit, although
\* the fields stay editable while the answer is on its way ("the tier
\* requirement is resolved before the claim code exists", sender/index.tsx).
CodeOnlyWhenCleared ==
    \A m \in minted :
        /\ m.preflight.corridor = m.params.corridor /\ m.preflight.amount = m.params.amount
        /\ m.preflight.requiredTier = "NONE" /\ m.preflight.withinDailyLimit

\* The account that a claim screen named as the funding account is the one the
\* keychain holds, after any kill and restart, unless two provisionings of the
\* key overlapped (local-wallet.ts).
FundingKeyKept == raced \/ \A m \in minted : m.params.address = store

\* Whichever way a displayed code is written down, the agent's phone takes it
\* for that code and for no other: the recipient's phone normalises it, shows it
\* as a QR code, and the scanner normalises it again (lib/claim.ts).
CodeSurvivesTheCounter ==
    on("claim") =>
        LET m == top.params
            display == formatClaimCode(m.claimCode)
            symbols == UNION {Written(display[i]) : i \in DOMAIN display}
        IN  \A w \in [DOMAIN display -> symbols] :
                (\A i \in DOMAIN display : w[i] \in Written(display[i])) =>
                    /\ isWellFormedClaimCode(w)
                    /\ verifyClaimCode(normaliseClaimCode(normaliseClaimCode(w)), m.claimHash)
                           = "matches"
                    /\ \A n \in minted :
                           n.params.claimCode # m.claimCode =>
                               verifyClaimCode(w, n.params.claimHash) = "mismatch"

waiting(s) == s.kind \notin {"home", "claim"} /\ s.busy
awaited(s) == \E c \in calls : c.key = s.key

\* A screen that shows its spinner, with its buttons disabled, awaits a call
\* that is still to come back, whatever failed, timed out or was answered in
\* another order, unless it is an agent's screen on which the digest of a claim
\* code threw: check of agent/index.tsx is the one place where a failure leaves
\* a screen frozen.
NoFrozenScreen ==
    \A i \in DOMAIN stack :
        LET s == stack[i]
        IN  waiting(s) => awaited(s) \/ (s.kind = "agent" /\ s.threw)

\* The same without the exception, as the client would have it: "an unhandled
\* rejection in a cash-out flow presents to the customer as a frozen screen at
\* the exact moment they are being handed money" (api/client.ts).
NoFailureFreezes == \A i \in DOMAIN stack : waiting(stack[i]) => awaited(stack[i])
=============================================================================
