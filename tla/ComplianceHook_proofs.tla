----------------------- MODULE ComplianceHook_proofs -----------------------
(***************************************************************************)
(* Proofs about the compliance gate, for every set of senders, corridors,  *)
(* callers and amounts, every day length and every bound.                  *)
(***************************************************************************)
EXTENDS ComplianceHook, Sums_proofs, TLAPS

USE DEF Tiers, Attestation, Commitment

\* Whole days only grow with the time.
LEMMA DayIsMonotone ==
    ASSUME NEW a \in Nat, NEW b \in Nat, a <= b
    PROVE  day_of(a) \in Nat /\ day_of(a) <= day_of(b)
<1> DEFINE d == SECONDS_PER_DAY
<1>1. d \in Nat \ {0}
  BY TimesAreNaturals
<1> HIDE DEF d
<1>2. /\ a \div d \in Int /\ a % d \in 0..(d - 1)
      /\ b \div d \in Int /\ b % d \in 0..(d - 1)
      /\ a = d * (a \div d) + (a % d) /\ b = d * (b \div d) + (b % d)
  BY <1>1, Z3
<1>3. ASSUME NEW q \in Int, NEW p \in Int, NEW r \in 0..(d - 1),
             NEW s \in 0..(d - 1), d * q + r <= d * p + s
      PROVE  q <= p
  <2>1. SUFFICES ASSUME q >= p + 1 PROVE FALSE
    OBVIOUS
  <2>2. d * q >= d * (p + 1) /\ d * (p + 1) = d * p + d
    BY <1>1, <2>1
  <2> QED
    BY <1>1, <1>3, <2>2
<1>4. a \div d <= b \div d
  BY <1>2, <1>3
<1>5. a \div d >= 0
  <2>1. 0 \in 0..(d - 1) /\ d * 0 + 0 <= d * (a \div d) + (a % d)
    BY <1>1, <1>2
  <2> QED
    BY <1>2, <1>3, <2>1
<1> QED
  BY <1>2, <1>4, <1>5 DEF day_of, d

\* The ledger clock is always on one of the days the model keeps volume for.
LEMMA TodayIsADay ==
    ASSUME TypeOK
    PROVE  /\ day_of(now) \in Days /\ now \in Nat
           /\ Days \subseteq Nat
<1>1. now \in Nat /\ MaxTime \in Nat /\ now <= MaxTime
  BY TimesAreNaturals DEF TypeOK
<1>2. /\ day_of(now) \in Nat /\ day_of(MaxTime) \in Nat
      /\ day_of(now) <= day_of(MaxTime)
  BY <1>1, DayIsMonotone
<1> QED
  BY <1>1, <1>2 DEF Days

\* A counter that saturates stays a natural number.
LEMMA CounterType ==
    ASSUME NEW n \in Nat PROVE saturating_add(n) \in Nat
  BY BoundsAreNaturals DEF saturating_add

LEMMA TypeInit == Init => TypeOK
<1> SUFFICES ASSUME Init PROVE TypeOK
  OBVIOUS
<1>1. now \in 0..MaxTime
  BY TimesAreNaturals DEF Init
<1>2. log \in Seq(Commitment) /\ corridor_list \in Seq(Corridors)
  BY DEF Init
<1>3. stats \in [attestations_issued : Nat, attestations_revoked : Nat,
                 transfers_committed : Nat, enhanced_tier_transfers : Nat]
  BY DEF Init
<1>4. daily_volume \in [Subjects \X Corridors \X Days -> Nat]
  BY DEF Init
<1> QED
  BY <1>1, <1>2, <1>3, <1>4 DEF Init, TypeOK

\* What every step but a commitment leaves alone.
NoCommitment == UNCHANGED <<volumeVars, stats.transfers_committed>>

\* commit_transfer, seen from the books: one bucket of today grows by the
\* amount, which evaluate has allowed, and the log gains that commitment.
Committed(s, m, c) ==
    /\ evaluate(s, m, c)
    /\ m \in Nat \ {0}
    /\ daily_volume' = [daily_volume EXCEPT ![<<s, c, day_of(now)>>] =
                           daily_volume[<<s, c, day_of(now)>>] + m]
    /\ log' = Append(log, [sender |-> s, corridor |-> c, amount |-> m,
                           at |-> now])
    /\ stats'.transfers_committed =
          saturating_add(stats.transfers_committed)

\* Every step keeps the types, and is a commitment or leaves the books alone.
LEMMA TypeStep ==
    ASSUME TypeOK, [Next]_vars
    PROVE  /\ TypeOK'
           /\ \/ NoCommitment
              \/ \E s \in Subjects, m \in Amounts, c \in Corridors :
                    Committed(s, m, c)
<1> USE DEF settings, corridorVars, volumeVars, NoCommitment
<1>1. ASSUME NEW a \in Admins, initialize(a) PROVE TypeOK' /\ NoCommitment
  BY <1>1 DEF TypeOK, initialize
<1>2. ASSUME NEW o \in Attesters, NEW b \in BOOLEAN, set_operator(o, b)
      PROVE  TypeOK' /\ NoCommitment
  BY <1>2 DEF TypeOK, set_operator
<1>3. ASSUME NEW e \in Callers, set_escrow(e) PROVE TypeOK' /\ NoCommitment
  BY <1>3 DEF TypeOK, set_escrow
<1>4. ASSUME NEW p \in BOOLEAN, set_paused(p) PROVE TypeOK' /\ NoCommitment
  BY <1>4 DEF TypeOK, set_paused
<1>5. ASSUME NEW c \in Corridors, NEW th \in ThresholdInputs,
             set_tier_thresholds(c, th)
      PROVE  TypeOK' /\ NoCommitment
  <2>1. corridor_list' \in Seq(Corridors)
    BY <1>5 DEF TypeOK, set_tier_thresholds, push_corridor
  <2>2. thresholds' \in [Corridors -> ThresholdInputs \union {None}]
    BY <1>5 DEF TypeOK, set_tier_thresholds
  <2>3. \A k \in Corridors : thresholds'[k] # None => is_valid(thresholds'[k])
    BY <1>5 DEF TypeOK, set_tier_thresholds
  <2> QED
    BY <1>5, <2>1, <2>2, <2>3 DEF TypeOK, set_tier_thresholds
<1>6. ASSUME NEW o \in Attesters, NEW s \in Subjects, NEW t \in Tiers,
             NEW e \in Expiries, publish_attestation(o, s, t, e)
      PROVE  TypeOK' /\ NoCommitment
  <2>1. attestation' \in [Subjects -> Attestation \union {None}]
    BY <1>6, TimesAreNaturals DEF TypeOK, publish_attestation
  <2>2. /\ stats' \in [attestations_issued : Nat, attestations_revoked : Nat,
                       transfers_committed : Nat,
                       enhanced_tier_transfers : Nat]
        /\ stats'.transfers_committed = stats.transfers_committed
    BY <1>6, CounterType DEF TypeOK, publish_attestation
  <2> QED
    BY <1>6, <2>1, <2>2 DEF TypeOK, publish_attestation
<1>7. ASSUME NEW o \in Attesters, NEW s \in Subjects, revoke_attestation(o, s)
      PROVE  TypeOK' /\ NoCommitment
  <2>1. attestation' \in [Subjects -> Attestation \union {None}]
    <3>1. attestation \in [Subjects -> Attestation \union {None}]
      BY DEF TypeOK
    <3>2. attestation[s] \in Attestation
      BY <1>7, <3>1 DEF revoke_attestation
    <3>3. [attestation[s] EXCEPT !.revoked = TRUE] \in Attestation
      BY <3>2
    <3> QED
      BY <1>7, <3>1, <3>3 DEF revoke_attestation
  <2>2. /\ stats' \in [attestations_issued : Nat, attestations_revoked : Nat,
                       transfers_committed : Nat,
                       enhanced_tier_transfers : Nat]
        /\ stats'.transfers_committed = stats.transfers_committed
    BY <1>7, CounterType DEF TypeOK, revoke_attestation
  <2> QED
    BY <1>7, <2>1, <2>2 DEF TypeOK, revoke_attestation
<1>8. ASSUME NEW k \in Callers, NEW s \in Subjects, NEW m \in Amounts,
             NEW c \in Corridors, commit_transfer(k, s, m, c)
      PROVE  TypeOK' /\ Committed(s, m, c)
  <2>1. m \in Nat \ {0}
    BY <1>8, AmountsAreIntegers DEF commit_transfer, evaluate
  <2>2. daily_volume' \in [Subjects \X Corridors \X Days -> Nat]
    BY <1>8, <2>1, TodayIsADay DEF TypeOK, commit_transfer, headroom
  <2>3. log' \in Seq(Commitment)
    BY <1>8, <2>1, TodayIsADay DEF TypeOK, commit_transfer
  <2>4. /\ stats' \in [attestations_issued : Nat, attestations_revoked : Nat,
                       transfers_committed : Nat,
                       enhanced_tier_transfers : Nat]
        /\ stats'.transfers_committed =
              saturating_add(stats.transfers_committed)
    BY <1>8, CounterType DEF TypeOK, commit_transfer
  <2>5. TypeOK'
    BY <1>8, <2>2, <2>3, <2>4 DEF TypeOK, commit_transfer
  <2> QED
    BY <1>8, <2>1, <2>4, <2>5 DEF commit_transfer, headroom, Committed
<1>9. ASSUME Tick PROVE TypeOK' /\ NoCommitment
  BY <1>9, TimesAreNaturals DEF TypeOK, Tick
<1>10. ASSUME UNCHANGED vars PROVE TypeOK' /\ NoCommitment
  BY <1>10 DEF TypeOK, vars
<1> QED
  BY <1>1, <1>2, <1>3, <1>4, <1>5, <1>6, <1>7, <1>8, <1>9, <1>10
     DEF Next, Operate, Attest

\* The contract's storage keeps its types, its thresholds stay valid, and the
\* clock stays on a day that has a bucket.
THEOREM HookTypeCorrect == Spec => []TypeOK
<1>1. TypeOK /\ [Next]_vars => TypeOK'
  BY TypeStep
<1> QED
  BY TypeInit, <1>1, PTL DEF Spec
----------------------------------------------------------------------------
(* The buckets. *)

\* One commitment, seen from one bucket: the bucket and the sum it stands for
\* grow by the same amount, the one just committed if it is this bucket's.
LEMMA BucketFollowsLog ==
    ASSUME TypeOK, NEW s \in Subjects, NEW m \in Amounts, NEW c \in Corridors,
           Committed(s, m, c),
           NEW u \in Subjects, NEW k \in Corridors, NEW d \in Days
    PROVE  LET mine == IF u = s /\ k = c /\ d = day_of(now) THEN m ELSE 0
           IN  /\ daily_volume'[<<u, k, d>>] = daily_volume[<<u, k, d>>] + mine
               /\ PrefixSum(CommittedOn(u, k, d), Len(log))' =
                     PrefixSum(CommittedOn(u, k, d), Len(log)) + mine
<1> DEFINE mine == IF u = s /\ k = c /\ d = day_of(now) THEN m ELSE 0
           n == Len(log)
           f == CommittedOn(u, k, d)
           g == CommittedOn(u, k, d)'
<1>1. m \in Nat \ {0} /\ day_of(now) \in Days /\ now \in Nat
  BY TodayIsADay DEF Committed
<1>2. daily_volume'[<<u, k, d>>] = daily_volume[<<u, k, d>>] + mine
  <2> DEFINE today == <<s, c, day_of(now)>>
             bucket == <<u, k, d>>
  <2>1. /\ daily_volume \in [Subjects \X Corridors \X Days -> Nat]
        /\ today \in Subjects \X Corridors \X Days
        /\ bucket \in Subjects \X Corridors \X Days
    BY <1>1 DEF TypeOK
  <2>2. daily_volume' =
           [daily_volume EXCEPT ![today] = daily_volume[today] + m]
    BY DEF Committed
  <2>3. bucket = today <=> u = s /\ k = c /\ d = day_of(now)
    OBVIOUS
  <2> HIDE DEF today, bucket
  <2>4. daily_volume[bucket] \in Nat
    BY <2>1
  <2>5. CASE bucket = today
    BY <1>1, <2>1, <2>2, <2>3, <2>5 DEF bucket
  <2>6. CASE bucket # today
    <3>1. daily_volume'[bucket] = daily_volume[bucket] /\ mine = 0
      BY <2>1, <2>2, <2>3, <2>6
    <3> QED
      BY <2>4, <3>1 DEF bucket
  <2> QED
    BY <2>5, <2>6
<1>3. /\ n \in Nat /\ Len(log') = n + 1
      /\ \A i \in 1..n : log'[i] = log[i]
      /\ log'[n + 1] = [sender |-> s, corridor |-> c, amount |-> m, at |-> now]
  BY <1>1 DEF TypeOK, Committed
<1>4. f = [i \in 1..n |-> IF log[i].sender = u /\ log[i].corridor = k
                                /\ day_of(log[i].at) = d
                          THEN log[i].amount ELSE 0]
  BY DEF CommittedOn
<1>5. g = [i \in 1..Len(log') |->
              IF log'[i].sender = u /\ log'[i].corridor = k
                   /\ day_of(log'[i].at) = d
              THEN log'[i].amount ELSE 0]
  BY DEF CommittedOn, day_of
<1> HIDE DEF f, g, n
<1>6. \A i \in 1..n : f[i] = g[i]
  BY <1>3, <1>4, <1>5
<1>7. g[n + 1] = mine
  BY <1>3, <1>5
<1>8. PrefixSum(g, n + 1) = PrefixSum(f, n) + mine
  <2>1. PrefixSum(g, n + 1) = PrefixSum(f, n) + g[n + 1]
    BY <1>3, <1>6, SumExtend
  <2> QED
    BY <1>7, <2>1
<1>9. PrefixSum(CommittedOn(u, k, d), Len(log))' = PrefixSum(g, n + 1)
  BY <1>3 DEF g, PrefixSum
<1> QED
  BY <1>2, <1>8, <1>9 DEF f, n

\* The saturating counter of commitments follows the length of the log.
LEMMA CounterFollowsLog ==
    ASSUME NEW n \in Nat
    PROVE  saturating_add(IF n < U32Max THEN n ELSE U32Max) =
              IF n + 1 < U32Max THEN n + 1 ELSE U32Max
  BY BoundsAreNaturals DEF saturating_add

\* Each day's bucket holds exactly what commit_transfer recorded for that
\* sender, corridor and day, whatever the operator, the attesters and the clock
\* do between two commitments.
THEOREM VolumeIsExact == Spec => []VolumeMatchesCommits
<1>1. Init => VolumeMatchesCommits
  <2> SUFFICES ASSUME Init PROVE VolumeMatchesCommits
    OBVIOUS
  <2>1. Len(log) = 0 /\ stats.transfers_committed = 0
    BY DEF Init
  <2>2. ASSUME NEW s \in Subjects, NEW c \in Corridors, NEW d \in Days
        PROVE  daily_volume[<<s, c, d>>] =
                  PrefixSum(CommittedOn(s, c, d), Len(log))
    BY <2>1, SumEmpty DEF Init
  <2> QED
    BY <2>1, <2>2, BoundsAreNaturals DEF VolumeMatchesCommits
<1>2. TypeOK /\ VolumeMatchesCommits /\ [Next]_vars => VolumeMatchesCommits'
  <2> SUFFICES ASSUME TypeOK, VolumeMatchesCommits, [Next]_vars
               PROVE  VolumeMatchesCommits'
    OBVIOUS
  <2>1. CASE NoCommitment
    <3>1. daily_volume' = daily_volume /\ log' = log
          /\ stats'.transfers_committed = stats.transfers_committed
      BY <2>1 DEF NoCommitment, volumeVars
    <3> QED
      BY <3>1 DEF VolumeMatchesCommits, CommittedOn, day_of, Days
  <2>2. ASSUME NEW s \in Subjects, NEW m \in Amounts, NEW c \in Corridors,
               Committed(s, m, c)
        PROVE  VolumeMatchesCommits'
    <3>1. ASSUME NEW u \in Subjects, NEW k \in Corridors, NEW d \in Days
          PROVE  daily_volume'[<<u, k, d>>] =
                    PrefixSum(CommittedOn(u, k, d), Len(log))'
      BY <2>2, BucketFollowsLog DEF VolumeMatchesCommits
    <3>2. Len(log) \in Nat /\ Len(log') = Len(log) + 1
      BY <2>2 DEF TypeOK, Committed
    <3>3. stats'.transfers_committed =
             IF Len(log') < U32Max THEN Len(log') ELSE U32Max
      BY <2>2, <3>2, CounterFollowsLog DEF VolumeMatchesCommits, Committed
    <3> QED
      BY <3>1, <3>3 DEF VolumeMatchesCommits, Days, day_of
  <2> QED
    BY <2>1, <2>2, TypeStep
<1> QED
  BY <1>1, <1>2, HookTypeCorrect, PTL DEF Spec

\* A bucket never falls; it grows only on its own day, within the limit in
\* force at that moment, for a sender without a revoked attestation.
THEOREM CeilingIsEnforced == Spec => CeilingHoldsWhenItMatters
<1> DEFINE Kept(s, c, d) ==
        LET before == daily_volume[<<s, c, d>>]
            after  == daily_volume'[<<s, c, d>>]
        IN  /\ after >= before
            /\ after > before => /\ d = day_of(now)
                                 /\ after <= thresholds[c].daily_limit
                                 /\ attestation[s] # None
                                       => ~attestation[s].revoked
<1>1. TypeOK /\ [Next]_vars =>
         [\A s \in Subjects, c \in Corridors, d \in Days : Kept(s, c, d)]_vars
  <2> SUFFICES ASSUME TypeOK, [Next]_vars,
                      NEW u \in Subjects, NEW k \in Corridors, NEW d \in Days
               PROVE  Kept(u, k, d)
    OBVIOUS
  <2>1. daily_volume[<<u, k, d>>] \in Nat
    BY DEF TypeOK
  <2>2. CASE NoCommitment
    BY <2>1, <2>2 DEF NoCommitment, volumeVars
  <2>3. ASSUME NEW s \in Subjects, NEW m \in Amounts, NEW c \in Corridors,
               Committed(s, m, c)
        PROVE  Kept(u, k, d)
    <3>1. daily_volume'[<<u, k, d>>] = daily_volume[<<u, k, d>>] +
             IF u = s /\ k = c /\ d = day_of(now) THEN m ELSE 0
      BY <2>3, BucketFollowsLog
    <3>2. m \in Nat /\ evaluate(s, m, c)
      BY <2>3 DEF Committed
    <3> QED
      BY <2>1, <3>1, <3>2 DEF evaluate, attested, headroom
  <2> QED
    BY <2>2, <2>3, TypeStep
<1> QED
  BY <1>1, HookTypeCorrect, PTL DEF Spec, CeilingHoldsWhenItMatters
============================================================================
