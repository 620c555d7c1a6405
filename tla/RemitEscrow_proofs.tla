------------------------ MODULE RemitEscrow_proofs ------------------------
(***************************************************************************)
(* Proofs about RemitEscrow, for every value of its constants: types,      *)
(* the finality of settlement, the windows of claims and refunds, the cap  *)
(* on fees, the cover of everything pending, and the refinement of         *)
(* TransferPromise.                                                        *)
(*                                                                         *)
(* Every step does one of three things to the ledger: nothing, add one     *)
(* pending record and take its amount into custody, or close one pending   *)
(* record and pay out its amount.  StepShape proves that once, and all the *)
(* theorems after it reason from it.                                       *)
(***************************************************************************)
EXTENDS RemitEscrow, Sums_proofs

\* A record is stored under its own id: what lets a settlement, which writes
\* transfers[t.id], replace the record it read and no other.
RecordsKeyed == \A i \in 1..next_id : transfers[i].id = i

TypeInv == TypeOK /\ RecordsKeyed
----------------------------------------------------------------------------
(* Facts about the helpers. *)

Balances == [Tokens -> [Accounts -> Nat]]

\* A covered token transfer leaves natural balances.
LEMMA TokenTransferType ==
    ASSUME NEW b \in Balances, NEW k \in Tokens, NEW m \in Nat,
           NEW from \in Accounts, NEW to \in Accounts, b[k][from] >= m
    PROVE  TokenTransfer(b, k, from, to, m) \in Balances
<1> DEFINE debited == [b[k] EXCEPT ![from] = @ - m]
           row == [debited EXCEPT ![to] = @ + m]
<1>1. b[k] \in [Accounts -> Nat]
  BY DEF Balances
<1>2. debited \in [Accounts -> Nat]
  BY <1>1
<1>3. row \in [Accounts -> Nat]
  BY <1>2
<1>4. TokenTransfer(b, k, from, to, m) = [b EXCEPT ![k] = row]
  BY DEF TokenTransfer
<1> QED
  BY <1>3, <1>4 DEF Balances

\* The fee is a natural number no greater than the amount.
LEMMA FeeType ==
    ASSUME NEW amount \in Nat, NEW bps \in Nat, bps <= MAX_FEE_BPS
    PROVE  /\ fee_for(amount, bps) \in Nat
           /\ fee_for(amount, bps) <= amount
           /\ fee_for(amount, bps) * 10000 <= amount * MAX_FEE_BPS
<1> DEFINE p == amount * bps
<1>1. p \in Nat /\ p <= amount * 500
  BY DEF MAX_FEE_BPS
<1> HIDE DEF p
<1>2. (p \div 10000) \in Nat /\ (p \div 10000) * 10000 <= p
  BY <1>1
<1>3. amount * 500 <= amount * 10000
  OBVIOUS
<1> QED
  BY <1>1, <1>2, <1>3 DEF fee_for, p, MAX_FEE_BPS

\* Writing a well-formed record under a used id, or the next one, keeps the
\* record map dense, well-formed and keyed.
LEMMA SetTransferType ==
    ASSUME TypeInv, NEW t \in Transfer, set_transfer(t),
           \/ next_id' = next_id /\ t.id \in 1..next_id
           \/ next_id' = next_id + 1 /\ t.id = next_id + 1
    PROVE  /\ next_id' \in Nat
           /\ DOMAIN transfers' = 1..next_id'
           /\ \A i \in 1..next_id' : transfers'[i] \in Transfer
           /\ RecordsKeyed'
<1>1. /\ next_id \in Nat /\ DOMAIN transfers = 1..next_id
      /\ \A i \in 1..next_id : transfers[i] \in Transfer /\ transfers[i].id = i
  BY DEF TypeInv, TypeOK, RecordsKeyed
<1>2. next_id' \in Nat /\ 1..next_id' = 1..next_id \union {t.id}
  BY <1>1
<1>3. /\ DOMAIN transfers' = 1..next_id'
      /\ \A i \in 1..next_id' :
            transfers'[i] = IF i = t.id THEN t ELSE transfers[i]
  BY <1>1, <1>2 DEF set_transfer
<1> QED
  BY <1>1, <1>2, <1>3 DEF RecordsKeyed

\* Settling a record changes its status, time and claimant, not its type or id.
LEMMA SettledType ==
    ASSUME NEW t \in Transfer, NEW s \in TransferStatus, NEW at \in Nat,
           NEW who \in Addresses \union {None}
    PROVE  LET done == [t EXCEPT !.status = s, !.settled_at = at]
               claimed == [t EXCEPT !.status = s, !.settled_at = at,
                                    !.claimed_by = who]
           IN  /\ done \in Transfer /\ done.id = t.id
               /\ claimed \in Transfer /\ claimed.id = t.id
BY DEF Transfer

\* Releasing custody keeps the balances and the records well typed.
LEMMA ReleaseType ==
    ASSUME TypeInv, NEW i \in DOMAIN transfers, NEW s \in TransferStatus,
           release(transfers[i], transfers[i].sender, s), next_id' = next_id
    PROVE  /\ bal' \in Balances
           /\ next_id' \in Nat /\ DOMAIN transfers' = 1..next_id'
           /\ \A j \in 1..next_id' : transfers'[j] \in Transfer
           /\ RecordsKeyed'
<1> DEFINE t == transfers[i]
           done == [t EXCEPT !.status = s, !.settled_at = now]
<1>1. /\ i \in 1..next_id /\ t \in Transfer /\ t.id = i /\ now \in Nat
      /\ bal \in Balances
  BY DEF TypeInv, TypeOK, RecordsKeyed, Balances
<1>2. t.sender \in Accounts /\ t.amount \in Nat /\ t.token \in Tokens
  BY <1>1 DEF Transfer, Accounts
<1>3. /\ bal[t.token][Escrow] >= t.amount
      /\ bal' = TokenTransfer(bal, t.token, Escrow, t.sender, t.amount)
      /\ set_transfer(done)
  BY DEF release
<1>4. bal' \in Balances
  <2> Escrow \in Accounts
    BY DEF Accounts
  <2> QED
    BY <1>1, <1>2, <1>3, TokenTransferType
<1>5. done \in Transfer /\ done.id \in 1..next_id
  BY <1>1, SettledType
<1> HIDE DEF done
<1> QED
  BY <1>3, <1>4, <1>5, SetTransferType
----------------------------------------------------------------------------
(* Type correctness, one lemma per group of actions. *)

\* The operator's entry points write the configuration and nothing else.
LEMMA AdministerType ==
    ASSUME TypeInv, Administer
    PROVE  TypeInv'
<1>1. UNCHANGED <<ledger, settlers, now>>
  BY DEF Administer, initialize, set_admin, write_config, set_fee_bps,
         set_treasury, set_agent_registry, set_compliance_hook,
         set_max_expiry, set_paused, ledger
<1>2. /\ admin' \in Admins \union {None}
      /\ IF admin' = None THEN config' = None ELSE config' \in EscrowConfig
  <2>1. ASSUME NEW a \in Admins, NEW r \in Registries, NEW h \in Hooks,
               NEW t \in Accounts, NEW f \in FeeLevels, NEW m \in ExpiryLimits,
               initialize(a, r, h, t, f, m)
        PROVE  admin' \in Admins /\ config' \in EscrowConfig
    <3>1. f \in Nat /\ m \in Nat \ {0}
      BY <2>1, FeesAreNaturals, TimesAreNaturals DEF initialize
    <3> QED
      BY <2>1, <3>1 DEF initialize, EscrowConfig
  <2>2. ASSUME NEW a \in Admins, set_admin(a)
        PROVE  admin' \in Admins /\ config' \in EscrowConfig
    BY <2>2 DEF set_admin, Initialized, TypeInv, TypeOK
  <2>3. ASSUME NEW c, write_config(c), Initialized => c \in EscrowConfig
        PROVE  admin' \in Admins /\ config' \in EscrowConfig
    BY <2>3 DEF write_config, Initialized, TypeInv, TypeOK
  <2>4. Initialized => config \in EscrowConfig
    BY DEF Initialized, TypeInv, TypeOK
  <2>5. ASSUME NEW f \in FeeLevels, set_fee_bps(f)
        PROVE  admin' \in Admins /\ config' \in EscrowConfig
    BY <2>3, <2>4, <2>5, FeesAreNaturals DEF set_fee_bps, EscrowConfig
  <2>6. ASSUME NEW t \in Accounts, set_treasury(t)
        PROVE  admin' \in Admins /\ config' \in EscrowConfig
    BY <2>3, <2>4, <2>6 DEF set_treasury, EscrowConfig
  <2>7. ASSUME NEW r \in Registries, set_agent_registry(r)
        PROVE  admin' \in Admins /\ config' \in EscrowConfig
    BY <2>3, <2>4, <2>7 DEF set_agent_registry, EscrowConfig
  <2>8. ASSUME NEW h \in Hooks, set_compliance_hook(h)
        PROVE  admin' \in Admins /\ config' \in EscrowConfig
    BY <2>3, <2>4, <2>8 DEF set_compliance_hook, EscrowConfig
  <2>9. ASSUME NEW m \in ExpiryLimits, set_max_expiry(m)
        PROVE  admin' \in Admins /\ config' \in EscrowConfig
    BY <2>3, <2>4, <2>9, TimesAreNaturals DEF set_max_expiry, EscrowConfig
  <2>10. ASSUME NEW q \in BOOLEAN, set_paused(q)
         PROVE  admin' \in Admins /\ config' \in EscrowConfig
    BY <2>3, <2>4, <2>10 DEF set_paused, EscrowConfig
  <2> QED
    BY <2>1, <2>2, <2>5, <2>6, <2>7, <2>8, <2>9, <2>10, NoneIsNoValue
       DEF Administer
<1> QED
  BY <1>1, <1>2 DEF TypeInv, TypeOK, RecordsKeyed, ledger

\* A capped sum of two naturals is a natural: the u32 counters stay counters.
LEMMA SaturatingAddType ==
    ASSUME NEW n \in Nat PROVE saturating_add(n) \in Nat
BY DEF saturating_add

\* A new transfer is a well-formed record under the next id.
LEMMA CreateType ==
    ASSUME TypeInv,
           NEW s \in Addresses, NEW m \in Amounts, NEW k \in Tokens,
           NEW d \in Digests, NEW c \in Corridors, NEW e \in Expiries,
           NEW v \in Verdicts, create_transfer(s, m, k, d, c, e, v)
    PROVE  TypeInv'
<1> DEFINE t == [id |-> next_id + 1, sender |-> s, amount |-> m, token |-> k,
                 claim_hash |-> d, corridor_id |-> c, expiry |-> e,
                 status |-> "Pending", created_at |-> now, settled_at |-> 0,
                 claimed_by |-> None]
<1>1. /\ next_id \in Nat /\ now \in Nat /\ bal \in Balances
      /\ stats \in EscrowStats /\ sender_transfers \in [Addresses -> Seq(Nat)]
  BY DEF TypeInv, TypeOK, Balances
<1>2. m \in Nat \ {0} /\ e \in Nat
  BY AmountsAreIntegers, TimesAreNaturals DEF create_transfer
<1>3. t \in Transfer /\ t.id = next_id + 1
  BY <1>1, <1>2 DEF Transfer, TransferStatus
<1>4. /\ bal[k][s] >= m
      /\ bal' = TokenTransfer(bal, k, s, Escrow, m)
      /\ next_id' = next_id + 1
      /\ set_transfer(t)
      /\ push_sender_transfer(s, next_id + 1)
      /\ stats' = [stats EXCEPT !.created = saturating_add(@),
                                !.volume_locked = @ + m]
      /\ UNCHANGED <<admin, config, settlers, now>>
  BY DEF create_transfer
<1> HIDE DEF t
<1>5. bal' \in Balances
  <2> s \in Accounts /\ Escrow \in Accounts
    BY DEF Accounts
  <2> QED
    BY <1>1, <1>2, <1>4, TokenTransferType
<1>6. /\ next_id' \in Nat /\ DOMAIN transfers' = 1..next_id'
      /\ \A i \in 1..next_id' : transfers'[i] \in Transfer
      /\ RecordsKeyed'
  BY <1>3, <1>4, SetTransferType
<1>7. stats' \in EscrowStats
  <2>1. stats.created \in Nat /\ stats.volume_locked \in Int
    BY <1>1 DEF EscrowStats
  <2>2. saturating_add(stats.created) \in Nat /\ stats.volume_locked + m \in Int
    BY <1>2, <2>1, SaturatingAddType
  <2> QED
    BY <1>1, <1>4, <2>2 DEF EscrowStats
<1>8. sender_transfers' \in [Addresses -> Seq(Nat)]
  BY <1>1, <1>4 DEF push_sender_transfer
<1> QED
  BY <1>4, <1>5, <1>6, <1>7, <1>8 DEF TypeInv, TypeOK, Balances

\* Cancelling and refunding release custody to the sender.
LEMMA GiveBackType ==
    ASSUME TypeInv, NEW i \in Ids,
           \/ refund_expired(i)
           \/ \E s \in Addresses : cancel_transfer(s, i)
    PROVE  TypeInv'
<1>1. /\ i \in DOMAIN transfers
      /\ \E s \in TransferStatus :
            release(transfers[i], transfers[i].sender, s)
      /\ UNCHANGED <<admin, config, next_id, sender_transfers, settlers, now>>
      /\ \/ stats' = [stats EXCEPT !.refunded = saturating_add(@),
                                   !.volume_locked = @ - transfers[i].amount]
         \/ stats' = [stats EXCEPT !.cancelled = saturating_add(@),
                                   !.volume_locked = @ - transfers[i].amount]
  BY DEF refund_expired, cancel_transfer, TransferStatus
<1>2. stats \in EscrowStats /\ transfers[i].amount \in Nat
  BY <1>1 DEF TypeInv, TypeOK, Transfer
<1>3. stats' \in EscrowStats
  <2>1. /\ stats.refunded \in Nat /\ stats.cancelled \in Nat
        /\ stats.volume_locked \in Int
    BY <1>2 DEF EscrowStats
  <2>2. /\ saturating_add(stats.refunded) \in Nat
        /\ saturating_add(stats.cancelled) \in Nat
        /\ stats.volume_locked - transfers[i].amount \in Int
    BY <1>2, <2>1, SaturatingAddType
  <2> QED
    BY <1>1, <1>2, <2>2 DEF EscrowStats
<1>4. /\ bal' \in Balances
      /\ next_id' \in Nat /\ DOMAIN transfers' = 1..next_id'
      /\ \A j \in 1..next_id' : transfers'[j] \in Transfer
      /\ RecordsKeyed'
  BY <1>1, ReleaseType
<1> QED
  BY <1>1, <1>3, <1>4 DEF TypeInv, TypeOK, Balances

\* A claim splits the amount between the agent and the treasury.  The fee is
\* no greater than the amount because the configured rate is within the cap,
\* so the payout never goes negative.
FeeCapped == admin # None => config.fee_bps <= MAX_FEE_BPS

\* claim_transfer keeps the state well typed: the fee never exceeds the amount
\* released, so the treasury's and the claimant's shares are both naturals.
LEMMA ClaimType ==
    ASSUME TypeInv, FeeCapped, NEW a \in Addresses, NEW i \in Ids,
           NEW r \in Reveals, claim_transfer(a, i, r)
    PROVE  TypeInv'
<1> DEFINE t == transfers[i]
           fee == fee_for(t.amount, config.fee_bps)
           payout == t.amount - fee
           paid == TokenTransfer(bal, t.token, Escrow, a, payout)
           done == [t EXCEPT !.status = "Claimed", !.settled_at = now,
                             !.claimed_by = a]
<1>1. /\ i \in 1..next_id /\ t \in Transfer /\ t.id = i /\ now \in Nat
      /\ bal \in Balances /\ stats \in EscrowStats /\ config \in EscrowConfig
      /\ config.fee_bps <= MAX_FEE_BPS
  BY DEF claim_transfer, Initialized, TypeInv, TypeOK, RecordsKeyed, Balances,
         FeeCapped
<1>2. /\ t.amount \in Nat /\ t.token \in Tokens /\ config.fee_bps \in Nat
      /\ config.treasury \in Accounts
  BY <1>1 DEF Transfer, EscrowConfig
<1>3. fee \in Nat /\ payout \in Nat
  BY <1>1, <1>2, FeeType
<1>4. /\ bal[t.token][Escrow] >= payout
      /\ IF fee > 0
         THEN /\ paid[t.token][Escrow] >= fee
              /\ bal' = TokenTransfer(paid, t.token, Escrow, config.treasury,
                                      fee)
         ELSE bal' = paid
      /\ set_transfer(done)
      /\ stats' = [stats EXCEPT !.claimed = saturating_add(@),
                                !.volume_locked = @ - t.amount,
                                !.volume_settled = @ + t.amount,
                                !.fees_collected = @ + fee]
      /\ UNCHANGED <<admin, config, next_id, sender_transfers, settlers, now>>
  BY DEF claim_transfer
<1>5. done \in Transfer /\ done.id \in 1..next_id
  <2>1. "Claimed" \in TransferStatus /\ a \in Addresses \union {None}
    BY DEF TransferStatus
  <2> QED
    BY <1>1, <2>1 DEF Transfer
<1> HIDE DEF fee, payout, paid, done
<1>6. bal' \in Balances
  <2>1. a \in Accounts /\ Escrow \in Accounts
    BY DEF Accounts
  <2>2. paid \in Balances
    BY <1>1, <1>2, <1>3, <1>4, <2>1, TokenTransferType DEF paid
  <2> QED
    BY <1>2, <1>3, <1>4, <2>1, <2>2, TokenTransferType
<1>7. /\ next_id' \in Nat /\ DOMAIN transfers' = 1..next_id'
      /\ \A j \in 1..next_id' : transfers'[j] \in Transfer
      /\ RecordsKeyed'
  BY <1>4, <1>5, SetTransferType
<1>8. stats' \in EscrowStats
  <2>1. /\ stats.claimed \in Nat /\ stats.volume_locked \in Int
        /\ stats.volume_settled \in Nat /\ stats.fees_collected \in Nat
    BY <1>1 DEF EscrowStats
  <2>2. /\ saturating_add(stats.claimed) \in Nat
        /\ stats.volume_locked - t.amount \in Int
        /\ stats.volume_settled + t.amount \in Nat
        /\ stats.fees_collected + fee \in Nat
    BY <1>2, <1>3, <2>1, SaturatingAddType
  <2> QED
    BY <1>1, <1>4, <2>2 DEF EscrowStats
<1> QED
  BY <1>4, <1>6, <1>7, <1>8 DEF TypeInv, TypeOK, Balances

\* initialize and set_fee_bps are the only writers of the rate, and both check.
LEMMA FeeCappedStep ==
    ASSUME TypeInv, FeeCapped, [Next]_vars
    PROVE  FeeCapped'
<1>1. CASE Administer
  <2>1. ASSUME admin # None PROVE config \in EscrowConfig
    BY <2>1 DEF TypeInv, TypeOK
  <2> QED
    BY <1>1, <2>1 DEF FeeCapped, Administer, initialize, set_admin, write_config,
         set_fee_bps, set_treasury, set_agent_registry, set_compliance_hook,
         set_max_expiry, set_paused, Initialized, EscrowConfig
<1>2. CASE UNCHANGED <<admin, config>>
  BY <1>2 DEF FeeCapped
<1>3. ~Administer => UNCHANGED <<admin, config>>
  <2>1. \A s, m, t, d, c, e, v : create_transfer(s, m, t, d, c, e, v)
                                     => UNCHANGED <<admin, config>>
    BY DEF create_transfer
  <2>2. \A a, i, r : claim_transfer(a, i, r) => UNCHANGED <<admin, config>>
    BY DEF claim_transfer
  <2>3. \A s, i : cancel_transfer(s, i) \/ refund_expired(i)
                      => UNCHANGED <<admin, config>>
    BY DEF cancel_transfer, refund_expired
  <2>4. \A g, a, c : RegistryMoves(g, a, c) \/ Tick
                         => UNCHANGED <<admin, config>>
    BY DEF RegistryMoves, Tick
  <2> QED
    BY <2>1, <2>2, <2>3, <2>4 DEF Next, vars, Tick
<1> QED
  BY <1>1, <1>2, <1>3
----------------------------------------------------------------------------
Inv == TypeInv /\ FeeCapped

\* The escrow before initialize satisfies the inductive invariant.
LEMMA InvInit == Init => Inv
<1> SUFFICES ASSUME Init PROVE Inv
  OBVIOUS
<1>1. bal \in Balances
  BY BoundsAreNaturals DEF Init, Balances
<1>2. /\ next_id = 0 /\ DOMAIN transfers = 1..next_id
      /\ sender_transfers \in [Addresses -> Seq(Nat)]
      /\ settlers \in [Registries -> SUBSET (Addresses \X Corridors)]
      /\ now \in Nat
  BY DEF Init
<1>3. stats \in EscrowStats
  BY DEF Init, EscrowStats
<1> QED
  BY <1>1, <1>2, <1>3 DEF Init, Inv, TypeInv, TypeOK, RecordsKeyed, FeeCapped,
     Balances

\* Every entry point, every other holder of the token and the clock preserve it.
LEMMA InvStep == Inv /\ [Next]_vars => Inv'
<1> SUFFICES ASSUME Inv, [Next]_vars PROVE TypeInv'
  BY FeeCappedStep DEF Inv
<1>1. CASE Administer
  BY <1>1, AdministerType DEF Inv
<1>2. ASSUME NEW s \in Addresses, NEW m \in Amounts, NEW t \in Tokens,
             NEW d \in Digests, NEW c \in Corridors, NEW e \in Expiries,
             NEW v \in Verdicts, create_transfer(s, m, t, d, c, e, v)
      PROVE  TypeInv'
  BY <1>2, CreateType DEF Inv
<1>3. ASSUME NEW s \in Addresses, NEW i \in Ids, cancel_transfer(s, i)
      PROVE  TypeInv'
  BY <1>3, GiveBackType DEF Inv
<1>4. ASSUME NEW a \in Addresses, NEW i \in Ids, NEW r \in Reveals,
             claim_transfer(a, i, r)
      PROVE  TypeInv'
  BY <1>4, ClaimType DEF Inv
<1>5. ASSUME NEW i \in Ids, refund_expired(i)
      PROVE  TypeInv'
  BY <1>5, GiveBackType DEF Inv
<1>6. ASSUME NEW g \in Registries, NEW a \in Addresses, NEW c \in Corridors,
             RegistryMoves(g, a, c)
      PROVE  TypeInv'
  <2>1. settlers \in [Registries -> SUBSET (Addresses \X Corridors)]
    BY DEF Inv, TypeInv, TypeOK
  <2>2. <<a, c>> \in Addresses \X Corridors
    OBVIOUS
  <2>3. settlers' \in [Registries -> SUBSET (Addresses \X Corridors)]
    BY <1>6, <2>1, <2>2 DEF RegistryMoves
  <2>4. UNCHANGED <<admin, config, next_id, transfers, sender_transfers, stats,
                    bal, now>>
    BY <1>6 DEF RegistryMoves, ledger
  <2> QED
    BY <2>3, <2>4 DEF Inv, TypeInv, TypeOK, RecordsKeyed
<1>7. CASE Tick
  BY <1>7 DEF Tick, Inv, TypeInv, TypeOK, RecordsKeyed, ledger
<1>8. CASE UNCHANGED vars
  BY <1>8 DEF vars, Inv, TypeInv, TypeOK, RecordsKeyed
<1> QED
  BY <1>1, <1>2, <1>3, <1>4, <1>5, <1>6, <1>7, <1>8 DEF Next

\* Every reachable state is well typed: in particular no balance ever goes
\* negative, so no sequence of calls overdraws the custody or an account.
THEOREM TypeCorrect == Spec => []TypeOK
<1>1. Spec => []Inv
  BY InvInit, InvStep, PTL DEF Spec
<1>2. Inv => TypeOK
  BY DEF Inv, TypeInv
<1> QED
  BY <1>1, <1>2, PTL
----------------------------------------------------------------------------
(* What a step does to the ledger. *)

Created(t) ==
    /\ t \in Transfer
    /\ t.id = next_id + 1
    /\ t.status = "Pending" /\ t.created_at = now /\ t.claimed_by = None
    /\ t.expiry > now /\ bal[t.token][t.sender] >= t.amount
    /\ next_id' = next_id + 1
    /\ set_transfer(t)
    /\ bal' = TokenTransfer(bal, t.token, t.sender, Escrow, t.amount)
    /\ stats'.volume_settled = stats.volume_settled
    /\ stats'.fees_collected = stats.fees_collected
    /\ stats'.volume_locked = stats.volume_locked + t.amount
    /\ now' = now

\* How a record closes: given back, or claimed inside the window.
GivenBack(t, u) ==
    /\ \/ u.status = "Cancelled"
       \/ u.status = "Refunded" /\ now > t.expiry
    /\ u.claimed_by = t.claimed_by
    /\ bal' = TokenTransfer(bal, t.token, Escrow, t.sender, t.amount)
    /\ stats'.volume_settled = stats.volume_settled
    /\ stats'.fees_collected = stats.fees_collected

ClaimedBy(a, t, u) ==
    LET fee    == fee_for(t.amount, config.fee_bps)
        payout == t.amount - fee
        paid   == TokenTransfer(bal, t.token, Escrow, a, payout)
    IN  /\ u.status = "Claimed" /\ ~(now > t.expiry)
        /\ u.claimed_by = a /\ a # t.sender
        /\ bal[t.token][Escrow] >= payout
        /\ bal' = IF fee > 0
                  THEN TokenTransfer(paid, t.token, Escrow, config.treasury, fee)
                  ELSE paid
        /\ stats'.volume_settled = stats.volume_settled + t.amount
        /\ stats'.fees_collected = stats.fees_collected + fee

Closed(i, u) ==
    LET t == transfers[i]
    IN  /\ t.status = "Pending"
        /\ u \in Transfer /\ Terms(u) = Terms(t) /\ u.settled_at = now
        /\ next_id' = next_id
        /\ set_transfer(u)
        /\ stats'.volume_locked = stats.volume_locked - t.amount
        /\ now' = now
        /\ \/ GivenBack(t, u)
           \/ /\ config \in EscrowConfig /\ config.fee_bps <= MAX_FEE_BPS
              /\ \E a \in Addresses : ClaimedBy(a, t, u)

Idle ==
    /\ UNCHANGED <<next_id, transfers, bal, stats>>
    /\ now' \in {now, now + 1}

\* Every step of the escrow idles, creates or closes.
LEMMA StepShape ==
    ASSUME Inv, [Next]_vars
    PROVE  \/ Idle
           \/ \E t : Created(t)
           \/ \E i \in 1..next_id : \E u : Closed(i, u)
<1> USE DEF Inv
<1>0. /\ now \in Nat /\ next_id \in Nat /\ DOMAIN transfers = 1..next_id
      /\ stats \in EscrowStats
      /\ \A i \in 1..next_id : transfers[i] \in Transfer
  BY DEF TypeInv, TypeOK
<1>1. ASSUME Administer PROVE Idle
  BY <1>0, <1>1 DEF Administer, initialize, set_admin, write_config, set_fee_bps,
         set_treasury, set_agent_registry, set_compliance_hook,
         set_max_expiry, set_paused, ledger, Idle
<1>2. ASSUME NEW s \in Addresses, NEW m \in Amounts, NEW k \in Tokens,
             NEW d \in Digests, NEW c \in Corridors, NEW e \in Expiries,
             NEW v \in Verdicts, create_transfer(s, m, k, d, c, e, v)
      PROVE  \E t : Created(t)
  <2> DEFINE t == [id |-> next_id + 1, sender |-> s, amount |-> m,
                   token |-> k, claim_hash |-> d, corridor_id |-> c,
                   expiry |-> e, status |-> "Pending", created_at |-> now,
                   settled_at |-> 0, claimed_by |-> None]
  <2>1. m \in Nat \ {0} /\ e \in Nat
    BY <1>2, AmountsAreIntegers, TimesAreNaturals DEF create_transfer
  <2>2. t \in Transfer
    BY <1>0, <2>1 DEF Transfer, TransferStatus
  <2>3. /\ next_id' = next_id + 1 /\ set_transfer(t)
        /\ bal' = TokenTransfer(bal, k, s, Escrow, m)
        /\ stats' = [stats EXCEPT !.created = saturating_add(@),
                                  !.volume_locked = @ + m]
        /\ now' = now /\ e > now /\ bal[k][s] >= m
    BY <1>2 DEF create_transfer
  <2>4. /\ stats'.volume_settled = stats.volume_settled
        /\ stats'.fees_collected = stats.fees_collected
        /\ stats'.volume_locked = stats.volume_locked + m
    BY <1>0, <2>3 DEF EscrowStats
  <2>5. /\ t.id = next_id + 1 /\ t.status = "Pending" /\ t.created_at = now
        /\ t.claimed_by = None /\ t.token = k /\ t.sender = s /\ t.amount = m
        /\ t.expiry = e
    OBVIOUS
  <2> HIDE DEF t
  <2>6. Created(t)
    BY <2>2, <2>3, <2>4, <2>5 DEF Created
  <2> QED
    BY <2>6
<1>3. ASSUME NEW i \in Ids,
             (\E s \in Addresses : cancel_transfer(s, i)) \/ refund_expired(i)
      PROVE  \E j \in 1..next_id : \E u : Closed(j, u)
  <2> DEFINE t == transfers[i]
             u(x) == [t EXCEPT !.status = x, !.settled_at = now]
  <2>1. PICK x \in {"Cancelled", "Refunded"} :
            /\ i \in 1..next_id /\ t.status = "Pending"
            /\ x = "Refunded" => now > t.expiry
            /\ bal' = TokenTransfer(bal, t.token, Escrow, t.sender, t.amount)
            /\ set_transfer(u(x))
            /\ next_id' = next_id /\ now' = now
            /\ \/ stats' = [stats EXCEPT !.cancelled = saturating_add(@),
                                         !.volume_locked = @ - t.amount]
               \/ stats' = [stats EXCEPT !.refunded = saturating_add(@),
                                         !.volume_locked = @ - t.amount]
    BY <1>0, <1>3 DEF cancel_transfer, refund_expired, release, is_pending,
                      has_expired
  <2>2. t \in Transfer
    BY <1>0, <2>1
  <2>3. /\ u(x) \in Transfer /\ Terms(u(x)) = Terms(t)
        /\ u(x).settled_at = now /\ u(x).status = x
        /\ u(x).claimed_by = t.claimed_by
    BY <1>0, <2>1, <2>2 DEF Transfer, Terms, TransferStatus
  <2>4. /\ stats'.volume_settled = stats.volume_settled
        /\ stats'.fees_collected = stats.fees_collected
        /\ stats'.volume_locked = stats.volume_locked - t.amount
    BY <1>0, <2>1 DEF EscrowStats
  <2> DEFINE w == u(x)
  <2>5. /\ w \in Transfer /\ Terms(w) = Terms(t) /\ w.settled_at = now
        /\ w.status = x /\ w.claimed_by = t.claimed_by /\ set_transfer(w)
    BY <2>1, <2>3
  <2> HIDE DEF w
  <2>6. GivenBack(t, w)
    BY <2>1, <2>4, <2>5 DEF GivenBack
  <2>7. Closed(i, w)
    BY <2>1, <2>4, <2>5, <2>6 DEF Closed
  <2> QED
    BY <2>1, <2>7
<1>4. ASSUME NEW a \in Addresses, NEW i \in Ids, NEW r \in Reveals,
             claim_transfer(a, i, r)
      PROVE  \E j \in 1..next_id : \E u : Closed(j, u)
  <2> DEFINE t == transfers[i]
             u == [t EXCEPT !.status = "Claimed", !.settled_at = now,
                            !.claimed_by = a]
             fee == fee_for(t.amount, config.fee_bps)
             payout == t.amount - fee
             paid == TokenTransfer(bal, t.token, Escrow, a, payout)
  <2>1. /\ i \in 1..next_id /\ t.status = "Pending"
        /\ config \in EscrowConfig /\ config.fee_bps <= MAX_FEE_BPS
        /\ ~(now > t.expiry) /\ t.sender # a
        /\ bal[t.token][Escrow] >= payout
        /\ IF fee > 0
           THEN bal' = TokenTransfer(paid, t.token, Escrow,
                                     config.treasury, fee)
           ELSE bal' = paid
        /\ set_transfer(u)
        /\ stats' = [stats EXCEPT !.claimed = saturating_add(@),
                                  !.volume_locked = @ - t.amount,
                                  !.volume_settled = @ + t.amount,
                                  !.fees_collected = @ + fee]
        /\ next_id' = next_id /\ now' = now
    BY <1>0, <1>4 DEF claim_transfer, Initialized, TypeInv, TypeOK, FeeCapped,
                      is_pending, has_expired
  <2>2. t \in Transfer
    BY <1>0, <2>1
  <2>3. /\ u \in Transfer /\ Terms(u) = Terms(t) /\ u.settled_at = now
        /\ u.status = "Claimed" /\ u.claimed_by = a
    BY <1>0, <2>2 DEF Transfer, Terms, TransferStatus
  <2>4. /\ stats'.volume_settled = stats.volume_settled + t.amount
        /\ stats'.fees_collected = stats.fees_collected + fee
        /\ stats'.volume_locked = stats.volume_locked - t.amount
    BY <1>0, <2>1 DEF EscrowStats
  <2> HIDE DEF u
  <2>5. ClaimedBy(a, t, u)
    BY <2>1, <2>3, <2>4 DEF ClaimedBy
  <2>6. Closed(i, u)
    BY <2>1, <2>3, <2>4, <2>5 DEF Closed
  <2> QED
    BY <2>1, <2>6
<1>5. ASSUME NEW g \in Registries, NEW a \in Addresses, NEW c \in Corridors,
             RegistryMoves(g, a, c)
      PROVE  Idle
  BY <1>0, <1>5 DEF RegistryMoves, ledger, Idle
<1>6. ASSUME Tick PROVE Idle
  BY <1>0, <1>6 DEF Tick, ledger, Idle
<1>7. ASSUME UNCHANGED vars PROVE Idle
  BY <1>0, <1>7 DEF vars, Idle
<1> QED
  <2>1. Next => \/ Idle
                \/ \E t : Created(t)
                \/ \E i \in 1..next_id : \E u : Closed(i, u)
    BY <1>1, <1>2, <1>3, <1>4, <1>5, <1>6 DEF Next
  <2> QED
    BY <1>7, <2>1
----------------------------------------------------------------------------
(* What creating and closing do to the record map. *)

\* create_transfer adds one record under the next id and touches no other.
LEMMA CreatedRecords ==
    ASSUME Inv, NEW t, Created(t)
    PROVE  /\ next_id \in Nat /\ next_id' = next_id + 1
           /\ DOMAIN transfers' = 1..next_id'
           /\ transfers'[next_id + 1] = t
           /\ \A i \in 1..next_id : transfers'[i] = transfers[i]
<1>1. next_id \in Nat /\ DOMAIN transfers = 1..next_id
  BY DEF Inv, TypeInv, TypeOK
<1>2. t.id = next_id + 1 /\ next_id' = next_id + 1 /\ set_transfer(t)
  BY DEF Created
<1> QED
  BY <1>1, <1>2 DEF set_transfer

\* release rewrites one existing record and touches no other.
LEMMA ClosedRecords ==
    ASSUME Inv, NEW i \in 1..next_id, NEW u, Closed(i, u)
    PROVE  /\ next_id \in Nat /\ next_id' = next_id
           /\ DOMAIN transfers' = 1..next_id
           /\ transfers[i] \in Transfer
           /\ transfers'[i] = u
           /\ \A j \in 1..next_id : j # i => transfers'[j] = transfers[j]
<1>1. /\ next_id \in Nat /\ DOMAIN transfers = 1..next_id
      /\ transfers[i].id = i /\ transfers[i] \in Transfer
  BY DEF Inv, TypeInv, TypeOK, RecordsKeyed
<1>2. u.id = i /\ next_id' = next_id /\ set_transfer(u)
  BY <1>1 DEF Closed, Terms
<1> QED
  BY <1>1, <1>2 DEF set_transfer
----------------------------------------------------------------------------
(* Settlement is final. *)

\* A transfer's terms never change and a settled record never changes at all,
\* whatever the callers, the operator and the clock do: no second payout.
THEOREM SettlementIsFinal == Spec => SettledIsFinal
<1> DEFINE Final == \A i \in 1..next_id :
                        /\ i \in DOMAIN transfers'
                        /\ Terms(transfers'[i]) = Terms(transfers[i])
                        /\ ~is_pending(transfers[i])
                              => transfers'[i] = transfers[i]
<1>1. ASSUME Inv, [Next]_vars PROVE Final
  <2>1. ASSUME Idle PROVE Final
    <3>1. next_id \in Nat /\ DOMAIN transfers = 1..next_id
      BY <1>1 DEF Inv, TypeInv, TypeOK
    <3> QED
      BY <2>1, <3>1 DEF Idle
  <2>2. ASSUME NEW t, Created(t) PROVE Final
    <3>1. /\ next_id \in Nat /\ next_id' = next_id + 1
          /\ DOMAIN transfers' = 1..next_id'
          /\ \A i \in 1..next_id : transfers'[i] = transfers[i]
      BY <1>1, <2>2, CreatedRecords
    <3> QED
      BY <3>1
  <2>3. ASSUME NEW i \in 1..next_id, NEW u, Closed(i, u) PROVE Final
    <3>1. /\ DOMAIN transfers' = 1..next_id /\ transfers'[i] = u
          /\ \A j \in 1..next_id : j # i => transfers'[j] = transfers[j]
      BY <1>1, <2>3, ClosedRecords
    <3>2. Terms(u) = Terms(transfers[i]) /\ is_pending(transfers[i])
      BY <2>3 DEF Closed, is_pending
    <3> QED
      BY <3>1, <3>2
  <2> QED
    BY <1>1, <2>1, <2>2, <2>3, StepShape
<1>2. Spec => []Inv
  BY InvInit, InvStep, PTL DEF Spec
<1> HIDE DEF Final
<1>3. Spec => [][Final]_vars
  BY <1>1, <1>2, PTL DEF Spec
<1> QED
  BY <1>3, PTL DEF SettledIsFinal, Final
----------------------------------------------------------------------------
(* Claims and refunds keep to their windows. *)

\* No record is from the future: what makes a settlement time, read from the
\* clock, no earlier than the creation time.
CreatedInPast == \A i \in 1..next_id : transfers[i].created_at <= now

WindowInv == Inv /\ CreatedInPast /\ SettledInWindow

\* Every step keeps the settlements inside their windows and the creation times
\* in the past.
LEMMA WindowStep == WindowInv /\ [Next]_vars => WindowInv'
<1> SUFFICES ASSUME WindowInv, [Next]_vars
             PROVE  CreatedInPast' /\ SettledInWindow'
  BY InvStep DEF WindowInv
<1>1. Inv /\ CreatedInPast /\ SettledInWindow
  BY DEF WindowInv
<1>2. /\ next_id \in Nat /\ now \in Nat
      /\ \A i \in 1..next_id : transfers[i] \in Transfer
  BY <1>1 DEF Inv, TypeInv, TypeOK
<1>3. ASSUME Idle PROVE CreatedInPast' /\ SettledInWindow'
  <2>1. \A i \in 1..next_id : transfers[i].created_at \in Nat
    BY <1>2 DEF Transfer
  <2> QED
    BY <1>1, <1>2, <1>3, <2>1 DEF Idle, CreatedInPast, SettledInWindow
<1>4. ASSUME NEW t, Created(t) PROVE CreatedInPast' /\ SettledInWindow'
  <2>1. /\ next_id' = next_id + 1 /\ transfers'[next_id + 1] = t
        /\ \A i \in 1..next_id : transfers'[i] = transfers[i]
    BY <1>1, <1>4, CreatedRecords
  <2>2. /\ t.status = "Pending" /\ t.created_at = now /\ t.claimed_by = None
        /\ now' = now
    BY <1>4 DEF Created
  <2>3. \A i \in 1..next_id' : i \in 1..next_id \/ i = next_id + 1
    BY <1>2, <2>1
  <2>4. CreatedInPast'
    BY <1>1, <1>2, <2>1, <2>2, <2>3 DEF CreatedInPast
  <2>5. SettledInWindow'
    BY <1>1, <2>1, <2>2, <2>3 DEF SettledInWindow
  <2> QED
    BY <2>4, <2>5
<1>5. ASSUME NEW i \in 1..next_id, NEW u, Closed(i, u)
      PROVE  CreatedInPast' /\ SettledInWindow'
  <2> DEFINE t == transfers[i]
  <2>1. /\ next_id' = next_id /\ transfers'[i] = u
        /\ \A j \in 1..next_id : j # i => transfers'[j] = transfers[j]
    BY <1>1, <1>5, ClosedRecords
  <2>2. /\ t.status = "Pending" /\ u.settled_at = now /\ now' = now
        /\ u.created_at = t.created_at /\ u.sender = t.sender
        /\ u.expiry = t.expiry
    BY <1>5 DEF Closed, Terms
  <2>3. t.created_at <= now /\ t.claimed_by = None
    BY <1>1, <2>2 DEF CreatedInPast, SettledInWindow
  <2>4. t.created_at \in Nat /\ t.expiry \in Nat
    BY <1>2 DEF Transfer
  <2>5. \/ u.status = "Cancelled" /\ u.claimed_by = None
        \/ u.status = "Refunded" /\ now > t.expiry /\ u.claimed_by = None
        \/ /\ u.status = "Claimed" /\ now <= t.expiry
           /\ u.claimed_by \in Addresses \ {t.sender}
    BY <1>2, <1>5, <2>3, <2>4 DEF Closed, GivenBack, ClaimedBy
  <2>6. CreatedInPast'
    BY <1>1, <2>1, <2>2, <2>3 DEF CreatedInPast
  <2>7. SettledInWindow'
    <3> SUFFICES ASSUME NEW j \in 1..next_id
                 PROVE  LET r == transfers'[j]
                        IN  /\ r.status # "Pending"
                                  => r.settled_at >= r.created_at
                            /\ r.status = "Claimed"
                                  => /\ r.settled_at <= r.expiry
                                     /\ r.claimed_by \notin {None, r.sender}
                            /\ r.status = "Refunded" => r.settled_at > r.expiry
                            /\ r.status # "Claimed" => r.claimed_by = None
      BY <2>1 DEF SettledInWindow
    <3>1. CASE j = i
      BY <1>2, <2>1, <2>2, <2>3, <2>4, <2>5, <3>1, NoneIsNoValue
    <3>2. CASE j # i
      BY <1>1, <2>1, <3>2 DEF SettledInWindow
    <3> QED
      BY <3>1, <3>2
  <2> QED
    BY <2>6, <2>7
<1> QED
  BY <1>1, <1>3, <1>4, <1>5, StepShape

\* A claim settles no later than the expiry and never to the sender, a refund
\* only after it, for transfers of any number racing each other.
THEOREM WindowsHold == Spec => []SettledInWindow
<1>1. Init => WindowInv
  <2>1. Init => Inv
    BY InvInit
  <2>2. Init => CreatedInPast /\ SettledInWindow
    BY DEF Init, CreatedInPast, SettledInWindow
  <2> QED
    BY <2>1, <2>2 DEF WindowInv
<1>2. WindowInv => SettledInWindow
  BY DEF WindowInv
<1> QED
  BY <1>1, <1>2, WindowStep, PTL DEF Spec
----------------------------------------------------------------------------
(* Fees stay within the cap. *)

\* Every step keeps the fees taken within the cap on the volume settled.
LEMMA FeeStep == Inv /\ FeesWithinCap /\ [Next]_vars => FeesWithinCap'
<1> SUFFICES ASSUME Inv, FeesWithinCap, [Next]_vars PROVE FeesWithinCap'
  OBVIOUS
<1>1. stats.fees_collected \in Nat /\ stats.volume_settled \in Nat
  BY DEF Inv, TypeInv, TypeOK, EscrowStats
<1>2. ASSUME /\ stats'.fees_collected = stats.fees_collected
             /\ stats'.volume_settled = stats.volume_settled
      PROVE  FeesWithinCap'
  BY <1>2 DEF FeesWithinCap, MAX_FEE_BPS
<1>3. ASSUME NEW i \in 1..next_id, NEW u, Closed(i, u), NEW a \in Addresses,
             ClaimedBy(a, transfers[i], u), config \in EscrowConfig,
             config.fee_bps <= MAX_FEE_BPS
      PROVE  FeesWithinCap'
  <2> DEFINE amount == transfers[i].amount
             fee == fee_for(amount, config.fee_bps)
  <2>1. amount \in Nat /\ config.fee_bps \in Nat
    BY <1>3 DEF Inv, TypeInv, TypeOK, Transfer, EscrowConfig
  <2>2. fee \in Nat /\ fee * 10000 <= amount * MAX_FEE_BPS
    BY <1>3, <2>1, FeeType
  <2>3. /\ stats'.volume_settled = stats.volume_settled + amount
        /\ stats'.fees_collected = stats.fees_collected + fee
    BY <1>3 DEF ClaimedBy
  <2> HIDE DEF amount, fee
  <2> QED
    BY <1>1, <2>1, <2>2, <2>3 DEF FeesWithinCap, MAX_FEE_BPS
<1>4. ASSUME NEW i \in 1..next_id, NEW u, Closed(i, u) PROVE FeesWithinCap'
  BY <1>2, <1>3, <1>4 DEF Closed, GivenBack
<1>5. ASSUME NEW t, Created(t) PROVE FeesWithinCap'
  BY <1>2, <1>5 DEF Created
<1>6. ASSUME Idle PROVE FeesWithinCap'
  BY <1>2, <1>6 DEF Idle
<1> QED
  BY <1>4, <1>5, <1>6, StepShape

\* However the rate moves between claims, all the fees taken so far are at most
\* MAX_FEE_BPS of all the volume settled so far.
THEOREM FeesCapped == Spec => []FeesWithinCap
<1>1. Init => FeesWithinCap
  BY DEF Init, FeesWithinCap, MAX_FEE_BPS
<1>2. Spec => []Inv
  BY InvInit, InvStep, PTL DEF Spec
<1> QED
  BY <1>1, <1>2, FeeStep, PTL DEF Spec
----------------------------------------------------------------------------
(* Solvency. *)

Part(c, m) == IF c THEN m ELSE 0

\* What a token transfer does to one balance, its own ends coinciding or not.
LEMMA TokenTransferEffect ==
    ASSUME NEW b \in Balances, NEW k \in Tokens, NEW m \in Nat,
           NEW from \in Accounts, NEW to \in Accounts,
           NEW j \in Tokens, NEW a \in Accounts
    PROVE  TokenTransfer(b, k, from, to, m)[j][a] =
              (b[j][a] - Part(j = k /\ a = from, m)) + Part(j = k /\ a = to, m)
<1> DEFINE debited == [b[k] EXCEPT ![from] = @ - m]
           row == [debited EXCEPT ![to] = @ + m]
<1>1. b[k] \in [Accounts -> Nat] /\ b[j] \in [Accounts -> Nat]
  BY DEF Balances
<1>2. TokenTransfer(b, k, from, to, m) = [b EXCEPT ![k] = row]
  BY DEF TokenTransfer
<1>3. CASE j # k
  BY <1>1, <1>2, <1>3 DEF Balances, Part
<1>4. CASE j = k
  <2>1. TokenTransfer(b, k, from, to, m)[j][a] = row[a]
    BY <1>2, <1>4 DEF Balances
  <2>2. debited \in [Accounts -> Int]
    BY <1>1
  <2>3. row[a] = IF a = to THEN debited[to] + m ELSE debited[a]
    BY <2>2
  <2>4. debited[a] = b[k][a] - Part(a = from, m)
    BY <1>1 DEF Part
  <2> QED
    BY <1>1, <1>4, <2>1, <2>3, <2>4 DEF Part
<1> QED
  BY <1>3, <1>4

Pending(k) == PrefixSum(PendingAmount(k), next_id)

\* What is owed in a token is a natural number.
LEMMA PendingType ==
    ASSUME TypeInv, NEW k \in Tokens
    PROVE  /\ \A i \in 1..next_id : PendingAmount(k)[i] \in Nat
           /\ Pending(k) \in Int
<1>1. next_id \in Nat /\ \A i \in 1..next_id : transfers[i] \in Transfer
  BY DEF TypeInv, TypeOK
<1>2. \A i \in 1..next_id : PendingAmount(k)[i] \in Nat
  BY <1>1 DEF PendingAmount, Transfer
<1>3. Pending(k) \in Int
  BY <1>1, <1>2, SumType DEF Pending
<1> QED
  BY <1>2, <1>3

\* A created transfer adds its amount to what is owed in its token.
LEMMA CreatedPending ==
    ASSUME Inv, NEW t, Created(t), NEW k \in Tokens
    PROVE  Pending(k)' = Pending(k) + Part(k = t.token, t.amount)
<1> DEFINE g == [i \in 1..next_id' |->
                    IF is_pending(transfers'[i]) /\ transfers'[i].token = k
                    THEN transfers'[i].amount ELSE 0]
<1>1. /\ next_id \in Nat /\ next_id' = next_id + 1
      /\ transfers'[next_id + 1] = t
      /\ \A i \in 1..next_id : transfers'[i] = transfers[i]
  BY CreatedRecords
<1>2. \A i \in 1..next_id : PendingAmount(k)[i] = g[i]
  BY <1>1 DEF PendingAmount
<1>3. g[next_id + 1] = Part(k = t.token, t.amount)
  BY <1>1 DEF Created, is_pending, Part
<1>4. Pending(k)' = PrefixSum(g, next_id + 1)
  BY <1>1 DEF Pending, PendingAmount
<1> HIDE DEF g
<1>5. PrefixSum(g, next_id + 1) = Pending(k) + g[next_id + 1]
  BY <1>1, <1>2, SumExtend DEF Pending
<1> QED
  BY <1>3, <1>4, <1>5

\* A closed transfer takes its amount away from it.
LEMMA ClosedPending ==
    ASSUME Inv, NEW i \in 1..next_id, NEW u, Closed(i, u), NEW k \in Tokens
    PROVE  Pending(k)' = Pending(k) - Part(k = transfers[i].token,
                                           transfers[i].amount)
<1> DEFINE f == PendingAmount(k)
           g == [j \in 1..next_id |->
                    IF is_pending(transfers'[j]) /\ transfers'[j].token = k
                    THEN transfers'[j].amount ELSE 0]
           part == Part(k = transfers[i].token, transfers[i].amount)
<1>1. /\ next_id \in Nat /\ next_id' = next_id
      /\ transfers[i] \in Transfer /\ transfers'[i] = u
      /\ \A j \in 1..next_id : j # i => transfers'[j] = transfers[j]
  BY ClosedRecords
<1>2. transfers[i].status = "Pending" /\ u.status # "Pending"
  BY DEF Closed, GivenBack, ClaimedBy
<1>3. f[i] = part /\ g[i] = 0
  BY <1>1, <1>2 DEF PendingAmount, is_pending, Part
<1>4. \A j \in 1..next_id : j # i => f[j] = g[j]
  BY <1>1 DEF PendingAmount
<1>5. \A j \in 1..next_id : f[j] \in Int
  BY PendingType DEF Inv
<1>6. \A j \in 1..next_id : f[j] \in Int /\ g[j] \in Int
  BY <1>3, <1>4, <1>5
<1>7. Pending(k)' = PrefixSum(g, next_id) /\ Pending(k) = PrefixSum(f, next_id)
  BY <1>1 DEF Pending, PendingAmount
<1>8. Pending(k) \in Int /\ part \in Int
  <2>1. Pending(k) \in Int
    BY PendingType DEF Inv
  <2> QED
    BY <1>1, <2>1 DEF Part, Transfer
<1> HIDE DEF f, g, part
<1>9. PrefixSum(g, next_id) = (PrefixSum(f, next_id) - f[i]) + g[i]
  <2>1. DifferAt(f, g, next_id, i)
    BY <1>4, <1>6 DEF DifferAt
  <2> QED
    BY <1>1, <2>1, SumUpdate
<1> QED
  BY <1>3, <1>7, <1>8, <1>9 DEF part

\* What creating, giving back and claiming do to the custody.
LEMMA CreatedCustody ==
    ASSUME Inv, NEW t, Created(t), NEW k \in Tokens
    PROVE  bal'[k][Escrow] = bal[k][Escrow] + Part(k = t.token, t.amount)
<1>1. /\ bal \in Balances /\ t \in Transfer
      /\ bal' = TokenTransfer(bal, t.token, t.sender, Escrow, t.amount)
  BY DEF Inv, TypeInv, TypeOK, Balances, Created
<1>2. /\ t.token \in Tokens /\ t.amount \in Nat /\ t.sender \in Accounts
      /\ t.sender # Escrow /\ Escrow \in Accounts
  BY <1>1, EscrowIsNoUser DEF Transfer, Accounts
<1>3. bal[k][Escrow] \in Nat
  BY <1>1, <1>2 DEF Balances
<1>4. bal'[k][Escrow] =
         (bal[k][Escrow] - Part(k = t.token /\ Escrow = t.sender, t.amount))
             + Part(k = t.token /\ Escrow = Escrow, t.amount)
  BY <1>1, <1>2, TokenTransferEffect
<1> QED
  BY <1>2, <1>3, <1>4 DEF Part

\* Closing a transfer lowers the custody of its token by exactly its amount.
LEMMA ClosedCustody ==
    ASSUME Inv, NEW i \in 1..next_id, NEW u, Closed(i, u), NEW k \in Tokens
    PROVE  /\ bal'[k][Escrow] \in Int
           /\ bal'[k][Escrow] >= bal[k][Escrow] - Part(k = transfers[i].token,
                                                       transfers[i].amount)
<1> DEFINE t == transfers[i]
<1>1. bal \in Balances /\ t \in Transfer
  BY DEF Inv, TypeInv, TypeOK, Balances
<1>2. /\ t.token \in Tokens /\ t.amount \in Nat /\ t.sender \in Accounts
      /\ t.sender # Escrow /\ Escrow \in Accounts
  BY <1>1, EscrowIsNoUser DEF Transfer, Accounts
<1>3. bal[k][Escrow] \in Nat
  BY <1>1, <1>2 DEF Balances
<1>4. ASSUME GivenBack(t, u)
      PROVE  bal'[k][Escrow] = bal[k][Escrow] - Part(k = t.token, t.amount)
  <2>1. bal' = TokenTransfer(bal, t.token, Escrow, t.sender, t.amount)
    BY <1>4 DEF GivenBack
  <2>2. bal'[k][Escrow] =
           (bal[k][Escrow] - Part(k = t.token /\ Escrow = Escrow, t.amount))
               + Part(k = t.token /\ Escrow = t.sender, t.amount)
    BY <1>1, <1>2, <2>1, TokenTransferEffect
  <2> QED
    BY <1>2, <1>3, <2>2 DEF Part
<1>5. ASSUME NEW a \in Addresses, ClaimedBy(a, t, u), config \in EscrowConfig,
             config.fee_bps <= MAX_FEE_BPS
      PROVE  /\ bal'[k][Escrow] \in Int
             /\ bal'[k][Escrow] >= bal[k][Escrow] - Part(k = t.token, t.amount)
  <2> DEFINE fee == fee_for(t.amount, config.fee_bps)
             payout == t.amount - fee
             paid == TokenTransfer(bal, t.token, Escrow, a, payout)
  <2>1. config.fee_bps \in Nat /\ config.treasury \in Accounts
    BY <1>5 DEF EscrowConfig
  <2>2. fee \in Nat /\ payout \in Nat /\ fee + payout = t.amount
    <3>1. fee \in Nat /\ fee <= t.amount
      BY <1>2, <1>5, <2>1, FeeType
    <3> HIDE DEF fee
    <3> QED
      BY <1>2, <3>1
  <2>3. /\ bal[t.token][Escrow] >= payout
        /\ bal' = IF fee > 0 THEN TokenTransfer(paid, t.token, Escrow,
                                                config.treasury, fee)
                  ELSE paid
    BY <1>5 DEF ClaimedBy
  <2>4. a \in Accounts /\ a # Escrow
    BY EscrowIsNoUser DEF Accounts
  <2> HIDE DEF fee, payout
  <2>5. paid \in Balances
    BY <1>1, <1>2, <2>2, <2>3, <2>4, TokenTransferType
  <2>6. paid[k][Escrow] =
           (bal[k][Escrow] - Part(k = t.token /\ Escrow = Escrow, payout))
               + Part(k = t.token /\ Escrow = a, payout)
    BY <1>1, <1>2, <2>2, <2>4, TokenTransferEffect
  <2> HIDE DEF paid
  <2>7. paid[k][Escrow] = bal[k][Escrow] - Part(k = t.token, payout)
    BY <1>3, <2>2, <2>4, <2>6 DEF Part
  <2>8. CASE fee > 0
    <3>1. bal'[k][Escrow] =
             (paid[k][Escrow] - Part(k = t.token /\ Escrow = Escrow, fee))
                 + Part(k = t.token /\ Escrow = config.treasury, fee)
      BY <1>2, <2>1, <2>2, <2>3, <2>5, <2>8, TokenTransferEffect
    <3> QED
      BY <1>2, <1>3, <2>2, <2>7, <3>1 DEF Part
  <2>9. CASE ~(fee > 0)
    <3>1. payout = t.amount
      BY <1>2, <2>2, <2>9
    <3> QED
      BY <1>2, <1>3, <2>3, <2>7, <2>9, <3>1 DEF Part
  <2> QED
    BY <2>8, <2>9
<1>6. Part(k = t.token, t.amount) \in Int
  BY <1>2 DEF Part
<1> QED
  BY <1>3, <1>4, <1>5, <1>6 DEF Closed

\* Every step keeps the custody of each token at least what is owed in it.
LEMMA CustodyStep == Inv /\ CustodyCoversPending /\ [Next]_vars
                        => CustodyCoversPending'
<1> SUFFICES ASSUME Inv, CustodyCoversPending, [Next]_vars, NEW k \in Tokens
             PROVE  bal'[k][Escrow] >= Pending(k)'
  BY DEF CustodyCoversPending, Pending
<1>1. bal[k][Escrow] >= Pending(k)
  BY DEF CustodyCoversPending, Pending
<1>2. bal[k][Escrow] \in Int /\ Pending(k) \in Int
  <2>1. bal[k][Escrow] \in Nat
    BY DEF Inv, TypeInv, TypeOK, Accounts
  <2> QED
    BY <2>1, PendingType DEF Inv
<1>3. ASSUME Idle PROVE bal'[k][Escrow] >= Pending(k)'
  BY <1>1, <1>3 DEF Idle, Pending, PendingAmount
<1>4. ASSUME NEW t, Created(t) PROVE bal'[k][Escrow] >= Pending(k)'
  <2>1. Part(k = t.token, t.amount) \in Int
    BY <1>4 DEF Created, Transfer, Part
  <2> QED
    BY <1>1, <1>2, <1>4, <2>1, CreatedPending, CreatedCustody
<1>5. ASSUME NEW i \in 1..next_id, NEW u, Closed(i, u)
      PROVE  bal'[k][Escrow] >= Pending(k)'
  <2>1. Part(k = transfers[i].token, transfers[i].amount) \in Int
    BY DEF Inv, TypeInv, TypeOK, Transfer, Part
  <2>2. Pending(k)' = Pending(k) - Part(k = transfers[i].token,
                                        transfers[i].amount)
    BY <1>5, ClosedPending
  <2>3. /\ bal'[k][Escrow] \in Int
        /\ bal'[k][Escrow] >= bal[k][Escrow] - Part(k = transfers[i].token,
                                                    transfers[i].amount)
    BY <1>5, ClosedCustody
  <2> QED
    BY <1>1, <1>2, <2>1, <2>2, <2>3
<1> QED
  BY <1>3, <1>4, <1>5, StepShape

\* The escrow is solvent: in every token, what it holds covers the sum of all
\* its pending transfers, for any number of transfers, senders and tokens and
\* any interleaving of claims, cancellations, refunds and operator changes.
THEOREM EscrowIsSolvent == Spec => []CustodyCoversPending
<1>1. Init => CustodyCoversPending
  <2> SUFFICES ASSUME Init, NEW k \in Tokens
               PROVE  bal[k][Escrow] >= PrefixSum(PendingAmount(k), next_id)
    BY DEF CustodyCoversPending
  <2>1. next_id = 0 /\ bal[k][Escrow] = 0
    BY DEF Init, Accounts
  <2>2. PrefixSum(PendingAmount(k), 0) = 0
    BY SumEmpty
  <2> QED
    BY <2>1, <2>2
<1>2. Spec => []Inv
  BY InvInit, InvStep, PTL DEF Spec
<1> QED
  BY <1>1, <1>2, CustodyStep, PTL DEF Spec
----------------------------------------------------------------------------
(* The contract implements TransferPromise. *)

\* What Promises maps the records to: a sequence whose entries change exactly
\* where a record does.
LEMMA PromisesShape ==
    ASSUME Inv
    PROVE  /\ next_id \in Nat /\ Len(Promises) = next_id
           /\ DOMAIN Promises = 1..next_id
           /\ \A i \in 1..next_id : Promises[i] = PromiseOf(transfers[i])
<1>1. next_id \in Nat
  BY DEF Inv, TypeInv, TypeOK
<1> QED
  BY <1>1 DEF Promises

\* A token transfer is a move of the promise's purse.
LEMMA TransferIsMove ==
    ASSUME NEW b, NEW k, NEW from, NEW to, NEW m
    PROVE  TokenTransfer(b, k, from, to, m) =
              [b EXCEPT ![k] = Promised!Moved(b[k], from, to, m)]
  BY DEF TokenTransfer, Promised!Moved

\* A created record is a promise made: the amount leaves the sender's purse for
\* the vault and may be paid for some time to come.
LEMMA CreatedIsMake ==
    ASSUME Inv, NEW t, Created(t) PROVE Promised!Make
<1> DEFINE n == next_id
           P == Promises
           Q == Promises'
           c == t.token
           p == t.sender
           given == bal[c][p] - bal'[c][p]
<1>1. /\ t \in Transfer /\ t.expiry > now /\ bal[c][p] >= t.amount
      /\ bal' = TokenTransfer(bal, c, p, Escrow, t.amount) /\ now' = now
      /\ t.status = "Pending"
  BY DEF Created
<1>2. /\ c \in Tokens /\ p \in Addresses /\ t.amount \in Nat \ {0}
      /\ p \in Accounts /\ Escrow \in Accounts /\ p # Escrow
      /\ bal \in Balances /\ bal[c][p] \in Nat
  BY <1>1, EscrowIsNoUser
     DEF Transfer, Accounts, Inv, TypeInv, TypeOK, Balances
<1>3. given = t.amount
  <2>1. bal'[c][p] = (bal[c][p] - Part(c = c /\ p = p, t.amount))
                         + Part(c = c /\ p = Escrow, t.amount)
    BY <1>1, <1>2, TokenTransferEffect
  <2> QED
    BY <1>2, <2>1 DEF Part
<1>4. bal' = [bal EXCEPT ![c] = Promised!Moved(bal[c], p, Escrow, given)]
  BY <1>1, <1>3, TransferIsMove
<1>5. /\ n \in Nat /\ next_id' = n + 1
      /\ transfers'[n + 1] = t
      /\ \A i \in 1..n : transfers'[i] = transfers[i]
  BY CreatedRecords
<1>6. Q = [i \in 1..(n + 1) |-> PromiseOf(transfers'[i])]
  BY <1>5 DEF Promises, PromiseOf, OutcomeOf
<1>7. PromiseOf(t) = [sender |-> p, currency |-> c, amount |-> given,
                      until |-> t.expiry, outcome |-> "open"]
  BY <1>1, <1>3 DEF PromiseOf, OutcomeOf
<1>8. Q = Append(P, PromiseOf(t)) /\ Len(Q) = Len(P) + 1
  <2>1. P = [i \in 1..n |-> PromiseOf(transfers[i])] /\ Len(P) = n
    BY <1>5 DEF Promises
  <2>2. \A i \in 1..n : Q[i] = PromiseOf(transfers[i])
    BY <1>5, <1>6
  <2>3. Q[n + 1] = PromiseOf(t) /\ Len(Q) = n + 1
    BY <1>5, <1>6
  <2>4. Append(P, PromiseOf(t)) =
           [i \in 1..(n + 1) |-> IF i = n + 1 THEN PromiseOf(t)
                                 ELSE PromiseOf(transfers[i])]
    BY <1>5, <2>1
  <2>5. \A i \in 1..(n + 1) : i # n + 1 => i \in 1..n
    BY <1>5
  <2> HIDE DEF P
  <2> QED
    BY <1>6, <2>1, <2>2, <2>3, <2>4, <2>5
<1>9. Q[Len(P) + 1].until = t.expiry
  BY <1>5, <1>6, <1>7, PromisesShape DEF PromiseOf
<1>10. /\ given > 0 /\ given <= bal[c][p]
       /\ Q[Len(P) + 1].until > now
       /\ bal' = [bal EXCEPT ![c] = Promised!Moved(bal[c], p, Escrow, given)]
       /\ Q = Append(P, [sender |-> p, currency |-> c, amount |-> given,
                         until |-> Q[Len(P) + 1].until, outcome |-> "open"])
  BY <1>1, <1>2, <1>3, <1>4, <1>7, <1>8, <1>9
<1>11. p \in Addresses /\ c \in Tokens /\ Len(Q) = Len(P) + 1 /\ now' = now
  BY <1>1, <1>2, <1>8
<1> HIDE DEF p, c
<1> QED
  BY <1>10, <1>11, Zenon DEF Promised!Make

\* Closing a record closes its promise and touches no other.
LEMMA ClosedIsClosed ==
    ASSUME Inv, NEW i \in 1..next_id, NEW u, Closed(i, u)
    PROVE  /\ i \in DOMAIN Promises
           /\ Promises[i] = PromiseOf(transfers[i])
           /\ Promises[i].outcome = "open"
           /\ Promised!Closed(i, OutcomeOf(u.status))
<1>1. /\ next_id \in Nat /\ next_id' = next_id
      /\ transfers'[i] = u
      /\ \A j \in 1..next_id : j # i => transfers'[j] = transfers[j]
  BY ClosedRecords
<1>2. transfers[i].status = "Pending" /\ Terms(u) = Terms(transfers[i])
  BY DEF Closed
<1>3. Promises = [j \in 1..next_id |-> PromiseOf(transfers[j])]
  BY DEF Promises
<1>4. Promises' = [j \in 1..next_id |-> PromiseOf(transfers'[j])]
  BY <1>1 DEF Promises, PromiseOf, OutcomeOf
<1>5. PromiseOf(u) =
         [PromiseOf(transfers[i]) EXCEPT !.outcome = OutcomeOf(u.status)]
  BY <1>2 DEF PromiseOf, Terms
<1>6. PromiseOf(transfers[i]).outcome = "open"
  BY <1>2 DEF PromiseOf, OutcomeOf
<1>7. Promises' = [Promises EXCEPT ![i] = PromiseOf(u)]
  BY <1>1, <1>3, <1>4
<1> QED
  BY <1>3, <1>5, <1>6, <1>7 DEF Promised!Closed

\* A cancellation or a refund gives the money back.
LEMMA GivenBackIsGiveBack ==
    ASSUME Inv, NEW i \in 1..next_id, NEW u, Closed(i, u),
           GivenBack(transfers[i], u)
    PROVE  Promised!GiveBack
<1> DEFINE t == transfers[i]
           pr == Promises[i]
<1>1. /\ i \in DOMAIN Promises /\ pr = PromiseOf(t) /\ pr.outcome = "open"
      /\ Promised!Closed(i, OutcomeOf(u.status))
  BY ClosedIsClosed
<1>2. OutcomeOf(u.status) = "returned"
  BY DEF GivenBack, OutcomeOf
<1>3. bal' = [bal EXCEPT ![t.token] =
                 Promised!Moved(bal[t.token], Escrow, t.sender, t.amount)]
  BY TransferIsMove DEF GivenBack
<1>4. pr.currency = t.token /\ pr.sender = t.sender /\ pr.amount = t.amount
  BY <1>1 DEF PromiseOf
<1>5. now' = now
  BY DEF Closed
<1> QED
  BY <1>1, <1>2, <1>3, <1>4, <1>5 DEF Promised!GiveBack

\* A claim pays: inside the window, not to the sender, less a bounded cut.  A
\* claim whose fee rounds to nothing pays a cut of nothing.
LEMMA ClaimIsPay ==
    ASSUME Inv, NEW i \in 1..next_id, NEW u, Closed(i, u),
           NEW a \in Addresses, ClaimedBy(a, transfers[i], u),
           config \in EscrowConfig, config.fee_bps <= MAX_FEE_BPS
    PROVE  Promised!Pay
<1> DEFINE t == transfers[i]
           pr == Promises[i]
           k == t.token
           fee == fee_for(t.amount, config.fee_bps)
           payout == t.amount - fee
           paid == TokenTransfer(bal, k, Escrow, a, payout)
           row == Promised!Moved(bal[k], Escrow, a, payout)
<1>1. /\ i \in DOMAIN Promises /\ pr = PromiseOf(t) /\ pr.outcome = "open"
      /\ Promised!Closed(i, OutcomeOf(u.status))
  BY ClosedIsClosed
<1>2. /\ OutcomeOf(u.status) = "paid" /\ ~(now > t.expiry) /\ a # t.sender
      /\ bal' = IF fee > 0
                THEN TokenTransfer(paid, k, Escrow, config.treasury, fee)
                ELSE paid
      /\ bal[k][Escrow] >= payout
  BY DEF ClaimedBy, OutcomeOf
<1>3. /\ bal \in Balances /\ t \in Transfer /\ now \in Nat
      /\ k \in Tokens /\ t.amount \in Nat /\ t.expiry \in Nat
      /\ a \in Accounts /\ a # Escrow /\ Escrow \in Accounts
      /\ config.fee_bps \in Nat /\ config.treasury \in Accounts
  BY EscrowIsNoUser
     DEF Inv, TypeInv, TypeOK, Balances, Transfer, Accounts, EscrowConfig
<1>4. /\ pr.currency = k /\ pr.sender = t.sender /\ pr.amount = t.amount
      /\ pr.until = t.expiry
  BY <1>1 DEF PromiseOf
<1>5. /\ fee \in Nat /\ fee <= t.amount
      /\ fee * 10000 <= t.amount * MAX_FEE_BPS
  BY <1>3, FeeType
<1> HIDE DEF fee
<1>6. fee \in 0 .. (pr.amount * MAX_FEE_BPS) \div 10000
  BY <1>3, <1>4, <1>5 DEF MAX_FEE_BPS
<1>7. payout \in Nat
  BY <1>3, <1>5
<1>8. /\ paid = [bal EXCEPT ![k] = row]
      /\ paid[k] = row
      /\ row \in [Accounts -> Int]
  <2>1. paid = [bal EXCEPT ![k] = row]
    BY TransferIsMove
  <2>2. bal[k] \in [Accounts -> Nat]
    BY <1>3 DEF Balances
  <2>3. row \in [Accounts -> Int]
    BY <1>3, <1>7, <2>2 DEF Promised!Moved
  <2> HIDE DEF row
  <2>4. paid[k] = row
    BY <1>3, <2>1 DEF Balances
  <2> QED
    BY <2>1, <2>3, <2>4
<1> HIDE DEF paid, row
<1>9. \E collector \in Addresses \cup {Escrow} :
         bal' = [bal EXCEPT ![k] = Promised!Moved(row, Escrow, collector, fee)]
  <2>1. CASE fee > 0
    <3>1. bal' = [paid EXCEPT ![k] =
                     Promised!Moved(row, Escrow, config.treasury, fee)]
      BY <1>2, <1>8, <2>1, TransferIsMove
    <3>2. bal' = [bal EXCEPT ![k] =
                     Promised!Moved(row, Escrow, config.treasury, fee)]
      BY <1>3, <1>8, <3>1 DEF Balances
    <3> QED
      BY <1>3, <3>2 DEF Accounts
  <2>2. CASE fee = 0
    <3>1. Promised!Moved(row, Escrow, Escrow, fee) = row
      BY <1>3, <1>8, <2>2 DEF Promised!Moved
    <3>2. bal' = [bal EXCEPT ![k] = row]
      BY <1>2, <1>8, <2>2
    <3> QED
      BY <3>1, <3>2
  <2> QED
    BY <1>5, <2>1, <2>2
<1>10. now' = now /\ now <= pr.until
  BY <1>2, <1>3, <1>4 DEF Closed
<1>11. PICK collector \in Addresses \cup {Escrow} :
          bal' = [bal EXCEPT ![k] = Promised!Moved(row, Escrow, collector, fee)]
  BY <1>9
<1>12. bal' = [bal EXCEPT ![pr.currency] =
                  Promised!Moved(Promised!Moved(bal[pr.currency], Escrow, a,
                                                pr.amount - fee),
                                 Escrow, collector, fee)]
  BY <1>4, <1>11 DEF row
<1>13. a \in Addresses \ {pr.sender}
  BY <1>2, <1>4
<1> QED
  BY <1>1, <1>2, <1>6, <1>10, <1>12, <1>13 DEF Promised!Pay

\* The escrow contract implements the promise: every entry point, in any state
\* the operator leaves the contract in, makes a promise, pays it, gives it back
\* or moves no money at all.
THEOREM EscrowKeepsPromise == Spec => KeepsPromise
<1>1. Init => Promised!PromiseInit
  <2> SUFFICES ASSUME Init PROVE Promised!PromiseInit
    OBVIOUS
  <2>1. next_id = 0 /\ now = 0
    BY DEF Init
  <2>2. Promises = << >>
    BY <2>1 DEF Promises
  <2> QED
    BY <2>1, <2>2 DEF Init, Promised!PromiseInit, Accounts
<1>2. Inv /\ [Next]_vars => [Promised!PromiseNext]_(Promised!promiseVars)
  <2> SUFFICES ASSUME Inv, [Next]_vars
               PROVE  Promised!PromiseNext \/ UNCHANGED Promised!promiseVars
    OBVIOUS
  <2>1. CASE Idle
    <3>1. Promises' = Promises
      BY <2>1 DEF Idle, Promises, PromiseOf, OutcomeOf
    <3> QED
      BY <2>1, <3>1 DEF Idle, Promised!PromiseNext, Promised!TimePasses,
                        Promised!promiseVars
  <2>2. ASSUME NEW t, Created(t) PROVE Promised!PromiseNext
    BY <2>2, CreatedIsMake DEF Promised!PromiseNext
  <2>3. ASSUME NEW i \in 1..next_id, NEW u, Closed(i, u)
        PROVE  Promised!PromiseNext
    BY <2>3, GivenBackIsGiveBack, ClaimIsPay DEF Closed, Promised!PromiseNext
  <2> QED
    BY <2>1, <2>2, <2>3, StepShape
<1>3. Spec => []Inv
  BY InvInit, InvStep, PTL DEF Spec
<1> QED
  BY <1>1, <1>2, <1>3, PTL DEF Spec, KeepsPromise, Promised!PromiseSpec
============================================================================
