------------------------------ MODULE Quoting ------------------------------
(***************************************************************************)
(* Quotes: backend/src/quoting-service, behind the rate limiter of         *)
(* api/middleware.ts, with the arithmetic of lib/money.ts.                 *)
(*                                                                         *)
(* The price source is the Stellar DEX read through Horizon.  A request is *)
(* sent, the market is read some time later, the answer comes back before  *)
(* the client's timeout or not at all; each is a step, and so is the       *)
(* insertion of the row.  The market moves with the clock.  A signature is *)
(* a constructor: it is the signed body and the secret, which also stands  *)
(* for the key pair derived from it.  Of the escrow there is its fee,      *)
(* which the operator sets and the quoting service never reads.            *)
(*                                                                         *)
(* A definition whose comment starts with "Fault" is no part of the model: *)
(* it is a wrong version of the definition after it, one that a property   *)
(* of this module is shown to notice.                                      *)
(***************************************************************************)
EXTENDS Integers, Sequences, FiniteSets, FiniteSetsExt

CONSTANTS
    Clients,        \* client addresses, the limiter's keys
    SourceAmounts,  \* amounts a client asks for, in stroops of the source asset
    Spreads,        \* values of Corridor.spreadBps
    FeeLevels,      \* values given to the escrow's fee_bps
    Books,          \* sets of paths the market may offer
    Secrets,        \* values of QUOTE_SIGNING_SECRET_KEY
    Absent,         \* an absent entry, a rate that is not there
    RATE_SCALE,     \* 10^7 in the code
    QUOTE_TTL,      \* how long a quote is valid
    MAX_TICK_AGE,   \* how old a tick may be
    FETCH_TIMEOUT,  \* how long Horizon has to answer
    WINDOW, MAX,    \* the limiter's window and its budget
    MaxInstant,     \* bound: the clock
    MaxRequests,    \* bound: quotes asked for
    MaxInFlight,    \* bound: quotes being made at a time
    MaxRestarts     \* bound: restarts of the backend

ASSUME SettingsArePositive ==
    {RATE_SCALE, QUOTE_TTL, WINDOW, MAX} \subseteq Nat \ {0}
ASSUME BoundsAreNaturals ==
    {MAX_TICK_AGE, FETCH_TIMEOUT, MaxInstant, MaxRequests, MaxInFlight, MaxRestarts}
        \subseteq Nat
\* A market lists finitely many paths; an amount asked for has no sign; a
\* corridor's spread comes from the configuration that scripts/src/env.ts:100
\* has checked, which allows a fifth of this, and never makes a rate negative.
ASSUME MarketIsPriced ==
    /\ SourceAmounts \cup FeeLevels \subseteq Nat /\ Spreads \subseteq 0..10000
    /\ \A paths \in Books : /\ IsFiniteSet(paths)
                            /\ paths \subseteq [source : Nat, destination : Nat]
ASSUME AbsentIsNoEntry == Absent \notin [count : Nat, resetAt : Nat]

VARIABLES
    now,
    book,       \* the paths the market offers
    secret,     \* the signing secret of the running process
    hits,       \* the limiter's entries by client
    requests,   \* quotes being made, each at a stage of createQuote
    quotes,     \* signed quotes whose row was inserted and which were returned
    asked,      \* requests so far
    market,     \* history: the best rate at each instant, from instant 0
    admitted,   \* history: requests this process's limiter let through
    restarts,
    escrow_fee  \* the escrow's config.fee_bps

history == <<market, admitted>>
quotingVars == <<now, book, secret, hits, requests, quotes, asked, history, restarts, escrow_fee>>
----------------------------------------------------------------------------
(* lib/money.ts and the choice of a rate. *)

\* Rounds down, like fee_for in the escrow.
applyBps(amount, bps) == (amount * bps) \div 10000

\* The best path, each priced on its own amounts; a path without a source
\* amount is passed over, and a rate of zero is none.
fetchRate(paths) ==
    LET usable == {p \in paths : p.source > 0}
        rates  == {(p.destination * RATE_SCALE) \div p.source : p \in usable}
        best   == IF rates = {} THEN 0 ELSE Max(rates)
    IN  IF best > 0 THEN best ELSE Absent

\* The rate that createQuote takes the escrow to charge, and the most that the
\* escrow can be set to charge.
ESCROW_FEE_BPS == 200
MAX_FEE_BPS == 500

\* Fault: the fee is taken of the amount before its conversion.
Price_fee_first(amount, rate, bps) ==
    LET clientRate == rate - applyBps(rate, bps)
        converted  == (amount * clientRate) \div RATE_SCALE
        fee        == applyBps(amount, ESCROW_FEE_BPS)
    IN  [midRate |-> rate, spreadBps |-> bps, clientRate |-> clientRate,
         amount |-> amount, fee |-> fee, total |-> converted - fee]

\* createQuote's numbers.
Price(amount, rate, bps) ==
    LET clientRate == rate - applyBps(rate, bps)
        converted  == (amount * clientRate) \div RATE_SCALE
        fee        == applyBps(converted, ESCROW_FEE_BPS)
    IN  [midRate |-> rate, spreadBps |-> bps, clientRate |-> clientRate,
         amount |-> amount, fee |-> fee, total |-> converted - fee]
----------------------------------------------------------------------------
(* signer.ts and the freshness check. *)

assertFresh(observedAt) == now - observedAt <= MAX_TICK_AGE

validityWindow == now + QUOTE_TTL

\* The key pair is derived from the secret and known by it.
signQuote(body) == [body |-> body, signature |-> <<body, secret>>, signingKey |-> secret]

verifyQuote(quote) ==
    /\ quote.signingKey = secret
    /\ quote.signature = <<quote.body, secret>>

isQuoteLive(quote) == quote.body.validUntil > now
----------------------------------------------------------------------------
(* The limiter. *)

\* Fault: windows start at multiples of the window's length.
rateLimit_aligned(client) ==
    LET entry == hits[client]
    IN  IF entry = Absent \/ entry.resetAt <= now
        THEN [count |-> 1, resetAt |-> ((now \div WINDOW) + 1) * WINDOW]
        ELSE [entry EXCEPT !.count = @ + 1]

\* The client's entry after one more request, a refused one included.
rateLimit(client) ==
    LET entry == hits[client]
    IN  IF entry = Absent \/ entry.resetAt <= now
        THEN [count |-> 1, resetAt |-> now + WINDOW]
        ELSE [entry EXCEPT !.count = @ + 1]
----------------------------------------------------------------------------
(* One request: the limiter and the corridor row, the market read at       *)
(* Horizon, the answer and the signature, the row.                         *)

Ask(client) ==
    /\ asked < MaxRequests
    /\ Cardinality(requests) < MaxInFlight
    /\ asked' = asked + 1
    /\ hits' = [hits EXCEPT ![client] = rateLimit(client)]
    /\ UNCHANGED <<now, book, secret, quotes, market, restarts, escrow_fee>>

post_quotes(client, amount, spreadBps) ==
    /\ Ask(client)
    /\ rateLimit(client).count <= MAX
    /\ requests' = requests \cup
           {[id |-> asked, stage |-> "asked", sent |-> now,
             amount |-> amount, spreadBps |-> spreadBps]}
    /\ admitted' = Append(admitted, [client |-> client, at |-> now])

post_quotes_limited(client) ==
    /\ Ask(client)
    /\ rateLimit(client).count > MAX
    /\ UNCHANGED <<requests, admitted>>

\* Horizon looks at the market, at some time after the request was sent.
horizon_reads(r) ==
    /\ r.stage = "asked"
    /\ requests' = (requests \ {r}) \cup
           {[id |-> r.id, stage |-> "read", sent |-> r.sent, amount |-> r.amount,
             spreadBps |-> r.spreadBps, rate |-> fetchRate(book)]}
    /\ UNCHANGED <<now, book, secret, hits, quotes, asked, history, restarts, escrow_fee>>

\* Fault: the request has no timeout.
fetch_answered_late(r) ==
    /\ r.stage = "read"
    /\ r.rate # Absent
    /\ assertFresh(now)
    /\ LET body == [quoteId |-> r.id, validUntil |-> validityWindow,
                    price |-> Price(r.amount, r.rate, r.spreadBps)]
       IN  requests' = (requests \ {r}) \cup
               {[id |-> r.id, stage |-> "signed", quote |-> signQuote(body)]}
    /\ UNCHANGED <<now, book, secret, hits, quotes, asked, history, restarts, escrow_fee>>

\* The answer arrives in time.  The tick is stamped on receipt, so it is
\* fresh by construction; the quote is priced and signed in the same turn of
\* the event loop.
fetch_answered(r) ==
    /\ r.stage = "read"
    /\ now - r.sent <= FETCH_TIMEOUT
    /\ r.rate # Absent
    /\ assertFresh(now)
    /\ LET body == [quoteId |-> r.id, validUntil |-> validityWindow,
                    price |-> Price(r.amount, r.rate, r.spreadBps)]
       IN  requests' = (requests \ {r}) \cup
               {[id |-> r.id, stage |-> "signed", quote |-> signQuote(body)]}
    /\ UNCHANGED <<now, book, secret, hits, quotes, asked, history, restarts, escrow_fee>>

\* Horizon cannot be reached, times out, answers with an error or with no
\* usable path.
fetch_failed(r) ==
    /\ r.stage \in {"asked", "read"}
    /\ requests' = requests \ {r}
    /\ UNCHANGED <<now, book, secret, hits, quotes, asked, history, restarts, escrow_fee>>

quote_create(r) ==
    /\ r.stage = "signed"
    /\ requests' = requests \ {r}
    /\ quotes' = quotes \cup {r.quote}
    /\ UNCHANGED <<now, book, secret, hits, asked, history, restarts, escrow_fee>>

quote_create_failed(r) ==
    /\ r.stage = "signed"
    /\ requests' = requests \ {r}
    /\ UNCHANGED <<now, book, secret, hits, quotes, asked, history, restarts, escrow_fee>>
----------------------------------------------------------------------------
(* The process and the world. *)

\* The limiter and the requests are in memory; the secret is read at boot.
Restart(newSecret) ==
    /\ restarts < MaxRestarts
    /\ restarts' = restarts + 1
    /\ secret' = newSecret
    /\ hits' = [c \in Clients |-> Absent]
    /\ requests' = {}
    /\ admitted' = <<>>
    /\ UNCHANGED <<now, book, quotes, asked, market, escrow_fee>>

MarketMoves(newBook) ==
    /\ now < MaxInstant
    /\ now' = now + 1
    /\ book' = newBook
    /\ market' = Append(market, fetchRate(newBook))
    /\ UNCHANGED <<secret, hits, requests, quotes, asked, admitted, restarts, escrow_fee>>

\* The escrow's own setting, by its admin, at any time.
set_fee_bps(fee) ==
    /\ fee <= MAX_FEE_BPS
    /\ escrow_fee' = fee
    /\ UNCHANGED <<now, book, secret, hits, requests, quotes, asked, history, restarts>>

QuotingInit ==
    /\ now = 0
    /\ escrow_fee \in {fee \in FeeLevels : fee <= MAX_FEE_BPS}
    /\ book \in Books
    /\ secret \in Secrets
    /\ hits = [c \in Clients |-> Absent]
    /\ requests = {} /\ quotes = {}
    /\ asked = 0
    /\ market = <<fetchRate(book)>>
    /\ admitted = <<>>
    /\ restarts = 0

QuotingNext ==
    \/ \E c \in Clients, a \in SourceAmounts, s \in Spreads : post_quotes(c, a, s)
    \/ \E c \in Clients : post_quotes_limited(c)
    \/ \E r \in requests : horizon_reads(r)
    \/ \E r \in requests : fetch_answered(r)
    \/ \E r \in requests : fetch_failed(r)
    \/ \E r \in requests : quote_create(r)
    \/ \E r \in requests : quote_create_failed(r)
    \/ \E s \in Secrets : Restart(s)
    \/ \E b \in Books : MarketMoves(b)
    \/ \E f \in FeeLevels : set_fee_bps(f)

QuotingSpec == QuotingInit /\ [][QuotingNext]_quotingVars
----------------------------------------------------------------------------
(* A quote that POST /quotes/verify finds signed and live carries a mid    *)
(* rate that the market really offered less than the quote's lifetime plus *)
(* Horizon's timeout ago.  The tick's own timestamp cannot give this: it   *)
(* is taken when the answer arrives, so assertFresh never refuses one.     *)
(* What bounds the age is the timeout of the request, the single turn in   *)
(* which the rate is received and the window opened, and the strict        *)
(* comparison in isQuoteLive (signer.ts:90, "authoritative for longer than *)
(* the oracle data behind it is trustworthy").                             *)
LiveQuoteIsRecent ==
    \A q \in quotes : verifyQuote(q) /\ isQuoteLive(q) =>
        \E at \in 0..now : /\ now - at < QUOTE_TTL + FETCH_TIMEOUT
                           /\ market[at + 1] = q.body.price.midRate

\* What the escrow pays out of the amount of a price b, at its fee in force,
\* converted at the client's rate.
Paid(b) == ((b.amount - applyBps(b.amount, escrow_fee)) * b.clientRate) \div RATE_SCALE

(* A quote misses the payout by the difference of the fees and by nothing  *)
(* else.  The escrow takes its fee of the amount before conversion, at the *)
(* rate in force when it pays; the quote takes a constant rate of the      *)
(* converted amount, and both round down twice.  In ten-thousandths of a   *)
(* unit, the total promised less the payout is the converted amount times  *)
(* the difference of the two rates, and rounding: less than two units too  *)
(* high, and too low by less than two units and the value of one stroop.   *)
QuotePredictsPayout ==
    \A q \in quotes :
        LET b         == q.body.price
            converted == b.total + b.fee
            gap       == 10000 * (b.total - Paid(b)) - converted * (escrow_fee - ESCROW_FEE_BPS)
        IN  gap < 20000 /\ gap > -10000 * (2 + b.clientRate \div RATE_SCALE)

(* The quote predicts the payout, up to rounding, as service.ts:61 has it: *)
(* "the escrow's fee_bps is the authority, and the quote has to predict    *)
(* the actual payout".  True only while the fee is the constant: the run   *)
(* QuoteFee sets another.                                                  *)
QuoteFollowsEscrowFee ==
    \A q \in quotes :
        LET b == q.body.price
        IN  /\ b.total <= Paid(b) + 1
            /\ Paid(b) <= b.total + (b.clientRate \div RATE_SCALE) + 1

(* The limiter's windows are fixed, so a client can meet two of them in    *)
(* one window's length; but a window opens with a request, so a client     *)
(* gets through less than twice the budget in any interval of that length  *)
(* between two restarts of the process.                                    *)
OracleBudget ==
    \A c \in Clients, from \in 0..now :
        Cardinality({i \in DOMAIN admitted :
                        /\ admitted[i].client = c
                        /\ admitted[i].at \in from..(from + WINDOW - 1)}) < 2 * MAX
============================================================================
