------------------------ MODULE LiquidityPool_proofs ------------------------
(***************************************************************************)
(* Proofs about the liquidity pool, for every finite set of users and of   *)
(* regions, any amounts, bonds, ratios and caps.                           *)
(*                                                                         *)
(* A step changes settings, opens a region, or moves one user's position   *)
(* in one region.  Moved says what the four float operations have in       *)
(* common once shares cost exactly one token each, which the books         *)
(* themselves guarantee: that is why they are proved as one invariant.     *)
(***************************************************************************)
EXTENDS LiquidityPool, Sums_proofs

\* A region that was never opened has no shares and no debts, so opening it
\* with zero totals is right.
ClosedIsEmpty ==
    \A r \in Regions \ Open, u \in Users : shares[u][r] = 0 /\ exposure[u][r] = 0

PoolInv == TypeOK /\ ClosedIsEmpty /\ BooksBalance
----------------------------------------------------------------------------
(* Tables of one number per user and region. *)

Positions == [Users -> [Regions -> Nat]]
Column(f, r) == SumFunctionOnSet([u \in Users |-> f[u][r]], Users)
Row(f, u) == SumFunctionOnSet(f[u], Regions)

\* Table g is f with the entry of u and r changed by d.
Bumped(f, g, u, r, d) ==
    /\ g \in Positions
    /\ g[u][r] = f[u][r] + d
    /\ \A v \in Users, q \in Regions : v # u \/ q # r => g[v][q] = f[v][q]

LEMMA EntrySet ==
    ASSUME NEW f \in Positions, NEW u \in Users, NEW r \in Regions, NEW n \in Nat,
           NEW d \in Int, n = f[u][r] + d, NEW g, g = [f EXCEPT ![u][r] = n]
    PROVE  Bumped(f, g, u, r, d)
<1> DEFINE line == [f[u] EXCEPT ![r] = n]
<1>1. f[u] \in [Regions -> Nat]
  BY DEF Positions
<1>2. line \in [Regions -> Nat] /\ line[r] = n
      /\ \A q \in Regions : q # r => line[q] = f[u][q]
  BY <1>1
<1>3. g = [f EXCEPT ![u] = line]
  OBVIOUS
<1> HIDE DEF line
<1>4. g \in Positions /\ g[u] = line /\ \A v \in Users : v # u => g[v] = f[v]
  BY <1>2, <1>3 DEF Positions
<1> QED
  BY <1>2, <1>4 DEF Bumped

LEMMA EntryKept ==
    ASSUME NEW f \in Positions, NEW u \in Users, NEW r \in Regions
    PROVE  Bumped(f, f, u, r, 0)
<1>1. f[u][r] \in Nat
  BY DEF Positions
<1> QED
  BY <1>1 DEF Bumped

\* The sums a changed entry is part of change with it, the others stay.
LEMMA BumpedSums ==
    ASSUME NEW f \in Positions, NEW g, NEW u \in Users, NEW r \in Regions,
           NEW d \in Int, Bumped(f, g, u, r, d)
    PROVE  /\ Column(g, r) = Column(f, r) + d
           /\ \A q \in Regions : q # r => Column(g, q) = Column(f, q)
           /\ Row(g, u) = Row(f, u) + d
           /\ \A v \in Users : v # u => Row(g, v) = Row(f, v)
<1>1. /\ g \in Positions /\ g[u][r] = f[u][r] + d
      /\ \A v \in Users, q \in Regions : v # u \/ q # r => g[v][q] = f[v][q]
      /\ \A v \in Users, q \in Regions : f[v][q] \in Nat /\ g[v][q] \in Nat
  BY DEF Bumped, Positions
<1>2. \A q \in Regions : Column(f, q) \in Nat
  <2> SUFFICES ASSUME NEW q \in Regions PROVE Column(f, q) \in Nat
    OBVIOUS
  <2> DEFINE F == [v \in Users |-> f[v][q]]
  <2>1. \A v \in Users : F[v] \in Nat
    BY <1>1
  <2>2. Column(f, q) = SumFunctionOnSet(F, Users)
    BY DEF Column
  <2> HIDE DEF F
  <2> QED
    BY <2>1, <2>2, UsersAreFinite, SetSumType
<1>3. \A v \in Users : Row(f, v) \in Nat
  <2> SUFFICES ASSUME NEW v \in Users PROVE Row(f, v) \in Nat
    OBVIOUS
  <2>1. \A q \in Regions : f[v][q] \in Nat
    BY <1>1
  <2> QED
    BY <2>1, UsersAreFinite, SetSumType DEF Row
<1>4. Column(g, r) = Column(f, r) + d
  <2> DEFINE F == [v \in Users |-> f[v][r]]
             G == [v \in Users |-> g[v][r]]
  <2>1. /\ \A v \in Users : F[v] \in Int /\ G[v] \in Int
        /\ \A v \in Users : v # u => F[v] = G[v]
        /\ G[u] = F[u] + d /\ F[u] \in Int
    BY <1>1
  <2>2. Column(f, r) = SumFunctionOnSet(F, Users)
        /\ Column(g, r) = SumFunctionOnSet(G, Users)
    BY DEF Column
  <2> HIDE DEF F, G
  <2>3. SumFunctionOnSet(G, Users) = SumFunctionOnSet(F, Users) + d
    BY <2>1, UsersAreFinite, SetSumBump
  <2> QED
    BY <1>2, <2>1, <2>2, <2>3
<1>5. ASSUME NEW q \in Regions, q # r
      PROVE  Column(g, q) = Column(f, q)
  <2> DEFINE F == [v \in Users |-> f[v][q]]
             G == [v \in Users |-> g[v][q]]
  <2>1. \A v \in Users : F[v] = G[v]
    BY <1>1, <1>5
  <2>2. Column(f, q) = SumFunctionOnSet(F, Users)
        /\ Column(g, q) = SumFunctionOnSet(G, Users)
    BY DEF Column
  <2> HIDE DEF F, G
  <2> QED
    BY <2>1, <2>2, UsersAreFinite, SetSumSame
<1>6. Row(g, u) = Row(f, u) + d
  <2> DEFINE F == f[u]
             G == g[u]
  <2>1. /\ \A q \in Regions : F[q] \in Int /\ G[q] \in Int
        /\ \A q \in Regions : q # r => F[q] = G[q]
        /\ G[r] = F[r] + d /\ F[r] \in Int
    BY <1>1
  <2>2. Row(f, u) = SumFunctionOnSet(F, Regions)
        /\ Row(g, u) = SumFunctionOnSet(G, Regions)
    BY DEF Row
  <2> HIDE DEF F, G
  <2>3. SumFunctionOnSet(G, Regions) = SumFunctionOnSet(F, Regions) + d
    BY <2>1, UsersAreFinite, SetSumBump
  <2> QED
    BY <1>3, <2>1, <2>2, <2>3
<1>7. ASSUME NEW v \in Users, v # u
      PROVE  Row(g, v) = Row(f, v)
  <2>1. \A q \in Regions : f[v][q] = g[v][q]
    BY <1>1, <1>7
  <2> QED
    BY <2>1, UsersAreFinite, SetSumSame DEF Row
<1> QED
  BY <1>4, <1>5, <1>6, <1>7
----------------------------------------------------------------------------
(* What a step does. *)

Holders(r) == {u \in Users : shares[u][r] > 0}

\* The depositor counter when a holding changes by d.
count_after(n, held, d) ==
    CASE held = 0 /\ d > 0       -> saturating_add(n)
      [] held > 0 /\ held + d = 0 -> saturating_sub(n)
      [] OTHER                    -> n

\* User u's position in the open region r changes by ds shares and de of debt,
\* the pool's record becomes p, and the tokens follow.
Moved(u, r, p, ds, de) ==
    /\ pools[r] # None
    /\ p \in PoolState
    /\ ds \in Int /\ de \in Int
    /\ pools' = [pools EXCEPT ![r] = p]
    /\ Bumped(shares, shares', u, r, ds)
    /\ Bumped(exposure, exposure', u, r, de)
    /\ bal' \in [Accounts -> Nat]
    /\ bal'[Pool] = bal[Pool] + (ds - de)
    /\ bal'[u] = bal[u] - (ds - de)
    /\ \A x \in Users \ {u} : bal'[x] = bal[x]
    /\ p.total_deposited = pools[r].total_deposited + ds
    /\ p.total_shares = pools[r].total_shares + ds
    /\ p.total_drawn = pools[r].total_drawn + de
    /\ p.total_drawn <= p.total_deposited
    /\ p.depositor_count =
          count_after(pools[r].depositor_count, shares[u][r], ds)
    /\ stats' \in LiquidityStats
    /\ stats'.regions_opened = stats.regions_opened
    /\ UNCHANGED <<admin, config, region_list>>

\* The counters of depositors and regions never reach the width at which they
\* would stop counting.
LEMMA CounterHasRoom ==
    ASSUME NEW S, IsFiniteSet(S), Cardinality(S) <= U32Max, NEW T \in SUBSET S,
           NEW x \in S, x \notin T
    PROVE  saturating_add(Cardinality(T)) = Cardinality(T) + 1
<1>1. IsFiniteSet(T) /\ T \union {x} \in SUBSET S
  BY FS_Subset
<1>2. Cardinality(T \union {x}) = Cardinality(T) + 1
  BY <1>1, FS_AddElement
<1>3. Cardinality(T \union {x}) <= Cardinality(S)
  BY <1>1, FS_Subset
<1>4. Cardinality(T) \in Nat /\ Cardinality(S) \in Nat
  BY <1>1, FS_CardinalityType
<1> QED
  BY <1>2, <1>3, <1>4, BoundsAreNaturals DEF saturating_add

\* The count of holders follows a holding.
LEMMA HoldersFollow ==
    ASSUME PoolInv, NEW u \in Users, NEW r \in Regions, NEW d \in Int,
           Bumped(shares, shares', u, r, d)
    PROVE  /\ Cardinality(Holders(r)') =
                 count_after(Cardinality(Holders(r)), shares[u][r], d)
           /\ \A q \in Regions : q # r => Holders(q)' = Holders(q)
<1>1. /\ shares \in Positions /\ shares' \in Positions
      /\ shares'[u][r] = shares[u][r] + d
      /\ \A v \in Users, q \in Regions : v # u \/ q # r =>
            shares'[v][q] = shares[v][q]
  BY DEF PoolInv, TypeOK, Bumped, Positions
<1>2. shares[u][r] \in Nat /\ shares'[u][r] \in Nat
  BY <1>1 DEF Positions
<1>3. \A q \in Regions : q # r => Holders(q)' = Holders(q)
  BY <1>1 DEF Holders
<1>4. \A v : v # u => (v \in Holders(r) <=> v \in Holders(r)')
  BY <1>1 DEF Holders
<1>5. Holders(r) \in SUBSET Users /\ IsFiniteSet(Holders(r))
  <2>1. Holders(r) \in SUBSET Users
    BY DEF Holders
  <2> QED
    BY <2>1, UsersAreFinite, FS_Subset
<1>6. /\ u \in Holders(r) <=> shares[u][r] > 0
      /\ u \in Holders(r)' <=> shares[u][r] + d > 0
  BY <1>1 DEF Holders
<1> DEFINE c == Cardinality(Holders(r))
           e == Cardinality(Holders(r)')
<1>7. /\ c \in Nat
      /\ (u \in Holders(r) <=> u \in Holders(r)') => e = c
      /\ u \in Holders(r) /\ u \notin Holders(r)' => e = c - 1 /\ c > 0
      /\ u \notin Holders(r) /\ u \in Holders(r)' => e = c + 1
  BY <1>4, <1>5, CountAfter
<1>8. u \notin Holders(r) => saturating_add(c) = c + 1
  BY <1>5, UsersAreFinite, CountersFit, CounterHasRoom
<1> HIDE DEF c, e
<1>9. e = count_after(c, shares[u][r], d)
  <2>1. CASE shares[u][r] = 0 /\ d > 0
    <3>1. u \notin Holders(r) /\ u \in Holders(r)'
      BY <1>2, <1>6, <2>1
    <3> QED
      BY <1>7, <1>8, <2>1, <3>1 DEF count_after
  <2>2. CASE shares[u][r] > 0 /\ shares[u][r] + d = 0
    <3>1. u \in Holders(r) /\ u \notin Holders(r)'
      BY <1>2, <1>6, <2>2
    <3>2. e = saturating_sub(c)
      BY <1>7, <3>1 DEF saturating_sub
    <3> QED
      BY <1>2, <2>2, <3>2 DEF count_after
  <2>3. CASE /\ ~(shares[u][r] = 0 /\ d > 0)
             /\ ~(shares[u][r] > 0 /\ shares[u][r] + d = 0)
    <3>1. u \in Holders(r) <=> u \in Holders(r)'
      BY <1>1, <1>2, <1>6, <2>3
    <3> QED
      BY <1>7, <2>3, <3>1 DEF count_after
  <2> QED
    BY <2>1, <2>2, <2>3
<1> QED
  BY <1>3, <1>9 DEF c, e

\* A move of a position keeps the books.
LEMMA MovedKeepsBooks ==
    ASSUME PoolInv, NEW u \in Users, NEW r \in Regions, NEW p, NEW ds, NEW de,
           Moved(u, r, p, ds, de)
    PROVE  PoolInv'
<1>0. TypeOK /\ ClosedIsEmpty /\ BooksBalance
  BY DEF PoolInv
<1>1. /\ pools \in [Regions -> PoolState \union {None}]
      /\ shares \in Positions /\ exposure \in Positions
      /\ p \in PoolState /\ ds \in Int /\ de \in Int /\ p # None
  <2>1. p \in PoolState
    BY DEF Moved
  <2> QED
    BY <1>0, <2>1, NoneIsNoRecord DEF TypeOK, Moved, Positions
<1>2. /\ pools[r] # None /\ pools[r] \in PoolState
      /\ pools'[r] = p /\ \A q \in Regions : q # r => pools'[q] = pools[q]
      /\ pools' \in [Regions -> PoolState \union {None}]
  <2>1. pools' = [pools EXCEPT ![r] = p] /\ pools[r] # None
    BY DEF Moved
  <2> QED
    BY <1>1, <2>1
<1>3. Bumped(shares, shares', u, r, ds) /\ Bumped(exposure, exposure', u, r, de)
  BY DEF Moved
<1>4. /\ shares' \in Positions /\ exposure' \in Positions
      /\ \A v \in Users, q \in Regions : v # u \/ q # r =>
            shares'[v][q] = shares[v][q] /\ exposure'[v][q] = exposure[v][q]
  BY <1>3 DEF Bumped
<1>5. TypeOK'
  <2>1. /\ UNCHANGED <<admin, config, region_list>>
        /\ stats' \in LiquidityStats /\ bal' \in [Accounts -> Nat]
    BY DEF Moved
  <2> QED
    BY <1>0, <1>2, <1>4, <2>1 DEF TypeOK, Positions
<1>6. Open' = Open
  BY <1>1, <1>2 DEF Open
<1>7. ClosedIsEmpty'
  BY <1>0, <1>2, <1>4, <1>6 DEF ClosedIsEmpty, Open
<1>8. /\ Column(shares', r) = Column(shares, r) + ds
      /\ \A q \in Regions : q # r => Column(shares', q) = Column(shares, q)
      /\ Row(shares', u) = Row(shares, u) + ds
      /\ \A v \in Users : v # u => Row(shares', v) = Row(shares, v)
  BY <1>1, <1>3, BumpedSums
<1>9. /\ Column(exposure', r) = Column(exposure, r) + de
      /\ \A q \in Regions : q # r => Column(exposure', q) = Column(exposure, q)
      /\ Row(exposure', u) = Row(exposure, u) + de
      /\ \A v \in Users : v # u => Row(exposure', v) = Row(exposure, v)
  BY <1>1, <1>3, BumpedSums
<1>10. /\ p.total_deposited \in Nat /\ p.total_drawn \in Nat
       /\ pools[r].total_deposited \in Nat /\ pools[r].total_drawn \in Nat
       /\ pools[r].total_shares \in Nat
  BY <1>1, <1>2 DEF PoolState
<1>11. Pool \in Accounts /\ u \in Accounts /\ u # Pool /\ Users \subseteq Accounts
       /\ \A x \in Accounts : bal[x] \in Nat /\ bal'[x] \in Nat
  BY <1>0, <1>5, PoolIsNoUser DEF TypeOK, Accounts
<1>12. FloatIsSeparate'
  <2> DEFINE F == [q \in Regions |-> float_of(q)]
             G == [q \in Regions |-> float_of(q)']
  <2>1. \A q \in Regions : float_of(q) \in Int /\ float_of(q)' \in Int
    BY <1>1, <1>2 DEF float_of, available, PoolState
  <2>2. \A q \in Regions : q # r => float_of(q)' = float_of(q)
    BY <1>2 DEF float_of, available
  <2>3. float_of(r)' = float_of(r) + (ds - de)
    <3>1. /\ float_of(r) = pools[r].total_deposited - pools[r].total_drawn
          /\ float_of(r)' = p.total_deposited - p.total_drawn
      BY <1>1, <1>2 DEF float_of, available
    <3>2. /\ p.total_deposited = pools[r].total_deposited + ds
          /\ p.total_drawn = pools[r].total_drawn + de
      BY DEF Moved
    <3> QED
      BY <1>1, <1>10, <3>1, <3>2
  <2>4. /\ \A q \in Regions : F[q] \in Int /\ G[q] \in Int
        /\ \A q \in Regions : q # r => F[q] = G[q]
        /\ G[r] = F[r] + (ds - de)
    BY <2>1, <2>2, <2>3
  <2> HIDE DEF F, G
  <2>5. SumFunctionOnSet(G, Regions) = SumFunctionOnSet(F, Regions) + (ds - de)
    <3>1. ds - de \in Int
      BY <1>1
    <3> QED
      BY <2>4, <3>1, UsersAreFinite, SetSumBump
  <2>6. bal[Pool] = SumFunctionOnSet(F, Regions)
    BY <1>0 DEF BooksBalance, FloatIsSeparate, F
  <2>7. bal'[Pool] = bal[Pool] + (ds - de)
    BY DEF Moved
  <2>8. bal'[Pool] = SumFunctionOnSet(G, Regions)
    BY <2>5, <2>6, <2>7
  <2>9. \A q \in Open' : available(pools[q])' >= 0
    <3> SUFFICES ASSUME NEW q \in Open' PROVE available(pools[q])' >= 0
      OBVIOUS
    <3>1. q \in Open /\ q \in Regions
      BY <1>6 DEF Open
    <3>2. CASE q = r
      <4>1. p.total_drawn <= p.total_deposited
        BY DEF Moved
      <4> QED
        BY <1>2, <1>10, <3>2, <4>1 DEF available
    <3>3. CASE q # r
      BY <1>0, <1>2, <3>1, <3>3 DEF available, BooksBalance, FloatIsSeparate
    <3> QED
      BY <3>2, <3>3
  <2> QED
    BY <2>8, <2>9 DEF FloatIsSeparate, G
<1>13. NobodyGains'
  <2> SUFFICES ASSUME NEW v \in Users
               PROVE  bal'[v] + Row(shares', v) - Row(exposure', v) = InitialBalance
    BY DEF NobodyGains, Row
  <2>1. bal[v] + Row(shares, v) - Row(exposure, v) = InitialBalance
    BY <1>0 DEF BooksBalance, NobodyGains, Row
  <2>2. Row(shares, v) \in Nat /\ Row(exposure, v) \in Nat
    <3>1. \A q \in Regions : shares[v][q] \in Nat /\ exposure[v][q] \in Nat
      BY <1>1 DEF Positions
    <3> QED
      BY <3>1, UsersAreFinite, SetSumType DEF Row
  <2>3. CASE v = u
    <3>1. bal'[u] = bal[u] - (ds - de)
      BY DEF Moved
    <3> QED
      BY <1>1, <1>8, <1>9, <1>11, <2>1, <2>2, <2>3, <3>1
  <2>4. CASE v # u
    <3>1. bal'[v] = bal[v]
      BY <2>4 DEF Moved
    <3> QED
      BY <1>8, <1>9, <2>1, <2>4, <3>1
  <2> QED
    BY <2>3, <2>4
<1>14. ASSUME NEW q \in Open'
       PROVE  /\ pools'[q].total_shares = Column(shares', q)
              /\ pools'[q].total_shares = pools'[q].total_deposited
              /\ pools'[q].total_drawn = Column(exposure', q)
              /\ pools'[q].depositor_count = Cardinality(Holders(q)')
  <2>1. q \in Open /\ q \in Regions
    BY <1>6, <1>14 DEF Open
  <2>2. /\ pools[q].total_shares = Column(shares, q)
        /\ pools[q].total_shares = pools[q].total_deposited
        /\ pools[q].total_drawn = Column(exposure, q)
        /\ pools[q].depositor_count = Cardinality(Holders(q))
    BY <1>0, <2>1 DEF BooksBalance, SharesIn, ExposureIn, Column, Holders
  <2>3. CASE q = r
    <3>1. /\ p.total_deposited = pools[r].total_deposited + ds
          /\ p.total_shares = pools[r].total_shares + ds
          /\ p.total_drawn = pools[r].total_drawn + de
          /\ p.depositor_count =
                count_after(pools[r].depositor_count, shares[u][r], ds)
      BY DEF Moved
    <3>2. Cardinality(Holders(r)') =
             count_after(Cardinality(Holders(r)), shares[u][r], ds)
      BY <1>1, <1>3, HoldersFollow
    <3> QED
      BY <1>2, <1>8, <1>9, <2>2, <2>3, <3>1, <3>2
  <2>4. CASE q # r
    <3>1. Holders(q)' = Holders(q)
      BY <1>1, <1>3, <2>1, <2>4, HoldersFollow
    <3> QED
      BY <1>2, <1>8, <1>9, <2>1, <2>2, <2>4, <3>1
  <2> QED
    BY <2>3, <2>4
<1>15. stats'.regions_opened = Cardinality(Open')
  BY <1>0, <1>6 DEF BooksBalance, Moved
<1>16. BooksBalance'
  BY <1>12, <1>13, <1>14, <1>15
     DEF BooksBalance, SharesIn, ExposureIn, Column, Holders
<1> QED
  BY <1>5, <1>7, <1>16 DEF PoolInv
----------------------------------------------------------------------------
(* The four float operations move a position. *)

\* A covered transfer between two accounts.
LEMMA TransferEffect ==
    ASSUME TypeOK, NEW from \in Accounts, NEW to \in Accounts, from # to,
           NEW m \in Nat, TokenTransfer(from, to, m)
    PROVE  /\ bal' \in [Accounts -> Nat]
           /\ bal'[from] = bal[from] - m /\ bal'[to] = bal[to] + m
           /\ \A x \in Accounts \ {from, to} : bal'[x] = bal[x]
<1>1. bal \in [Accounts -> Nat]
  BY DEF TypeOK
<1> DEFINE debited == [bal EXCEPT ![from] = @ - m]
<1>2. bal[from] >= m /\ bal' = [debited EXCEPT ![to] = @ + m]
  BY DEF TokenTransfer
<1>3. debited \in [Accounts -> Nat]
  BY <1>1, <1>2
<1>4. debited[from] = bal[from] - m /\ debited[to] = bal[to]
      /\ \A x \in Accounts \ {from} : debited[x] = bal[x]
  BY <1>1
<1> HIDE DEF debited
<1> QED
  BY <1>2, <1>3, <1>4

\* At a price of one, a product with the total divides back exactly.
LEMMA PriceIsOne ==
    ASSUME NEW n \in Nat, NEW m \in Nat, m > 0
    PROVE  (n * m) \div m = n
  OBVIOUS

\* The record of a pool after a deposit or a withdrawal.
WithTotals(pool, deposited, issued, count) ==
    [pool EXCEPT !.total_deposited = deposited, !.total_shares = issued,
                 !.depositor_count = count]

LEMMA TotalsSet ==
    ASSUME NEW pool \in PoolState, NEW x \in Nat, NEW y \in Nat, NEW z \in Nat
    PROVE  /\ WithTotals(pool, x, y, z) \in PoolState
           /\ WithTotals(pool, x, y, z).total_deposited = x
           /\ WithTotals(pool, x, y, z).total_shares = y
           /\ WithTotals(pool, x, y, z).depositor_count = z
           /\ WithTotals(pool, x, y, z).total_drawn = pool.total_drawn
<1> DEFINE one == [pool EXCEPT !.total_deposited = x]
           two == [one EXCEPT !.total_shares = y]
           all == [two EXCEPT !.depositor_count = z]
<1>1. one \in PoolState /\ one.total_deposited = x
      /\ one.total_drawn = pool.total_drawn
  BY DEF PoolState
<1> HIDE DEF one
<1>2. two \in PoolState /\ two.total_deposited = x /\ two.total_shares = y
      /\ two.total_drawn = pool.total_drawn
  BY <1>1 DEF PoolState
<1> HIDE DEF two
<1>3. all \in PoolState /\ all.total_deposited = x /\ all.total_shares = y
      /\ all.depositor_count = z /\ all.total_drawn = pool.total_drawn
  BY <1>2 DEF PoolState
<1>4. WithTotals(pool, x, y, z) = all
  BY DEF WithTotals, one, two
<1> HIDE DEF all
<1> QED
  BY <1>3, <1>4

LEMMA SaturatingType ==
    ASSUME NEW n \in Nat
    PROVE  saturating_add(n) \in Nat /\ saturating_sub(n) \in Nat
  BY BoundsAreNaturals DEF saturating_add, saturating_sub

\* What every operation on an open region starts from.
LEMMA OpenRegion ==
    ASSUME PoolInv, NEW u \in Users, NEW r \in Regions, pools[r] # None
    PROVE  /\ pools[r] \in PoolState
           /\ pools[r].total_deposited \in Nat /\ pools[r].total_drawn \in Nat
           /\ pools[r].depositor_count \in Nat
           /\ pools[r].total_shares = pools[r].total_deposited
           /\ pools[r].total_drawn <= pools[r].total_deposited
           /\ exposure[u][r] <= pools[r].total_drawn
           /\ shares[u][r] \in Nat /\ exposure[u][r] \in Nat
           /\ Pool \in Accounts /\ u \in Accounts /\ u # Pool
           /\ Users \ {u} = Accounts \ {u, Pool}
           /\ bal[u] \in Nat /\ bal[Pool] \in Nat
           /\ shares \in Positions /\ exposure \in Positions
           /\ stats \in LiquidityStats
<1>0. TypeOK /\ BooksBalance /\ r \in Open
  BY DEF PoolInv, Open
<1>1. pools[r] \in PoolState
  BY <1>0 DEF TypeOK, Open
<1>2. /\ pools[r].total_deposited \in Nat /\ pools[r].total_drawn \in Nat
      /\ pools[r].depositor_count \in Nat
  BY <1>1 DEF PoolState
<1>3. shares \in Positions /\ exposure \in Positions /\ stats \in LiquidityStats
  BY <1>0 DEF TypeOK, Positions
<1>4. shares[u][r] \in Nat /\ exposure[u][r] \in Nat
  BY <1>3 DEF Positions
<1>5. available(pools[r]) >= 0
  BY <1>0 DEF BooksBalance, FloatIsSeparate
<1>6. pools[r].total_drawn <= pools[r].total_deposited
  BY <1>2, <1>5 DEF available
<1>7. exposure[u][r] <= pools[r].total_drawn
  <2> DEFINE F == [v \in Users |-> exposure[v][r]]
  <2>1. /\ \A v \in Users : F[v] \in Nat
        /\ F[u] = exposure[u][r]
    BY <1>3 DEF Positions
  <2>2. pools[r].total_drawn = SumFunctionOnSet(F, Users)
    BY <1>0 DEF BooksBalance, ExposureIn
  <2> HIDE DEF F
  <2>3. F[u] <= SumFunctionOnSet(F, Users)
    BY <2>1, UsersAreFinite, SetSumCovers
  <2> QED
    BY <2>1, <2>2, <2>3
<1>8. /\ Pool \in Accounts /\ u \in Accounts /\ u # Pool
      /\ Users \ {u} = Accounts \ {u, Pool}
  BY PoolIsNoUser DEF Accounts
<1>9. bal[u] \in Nat /\ bal[Pool] \in Nat
  BY <1>0, <1>8 DEF TypeOK
<1>10. pools[r].total_shares = pools[r].total_deposited
  BY <1>0 DEF BooksBalance
<1> QED
  BY <1>1, <1>2, <1>3, <1>4, <1>6, <1>7, <1>8, <1>9, <1>10

LEMMA DepositMoves ==
    ASSUME PoolInv, NEW u \in Users, NEW r \in Regions, NEW m \in Amounts,
           deposit_liquidity(u, r, m)
    PROVE  \E p, ds, de : Moved(u, r, p, ds, de)
<1> DEFINE pool == pools[r]
           held == shares[u][r]
           count == IF held = 0 THEN saturating_add(pool.depositor_count)
                    ELSE pool.depositor_count
           deposited == pool.total_deposited + m
           issued == pool.total_shares + m
           p == WithTotals(pool, deposited, issued, count)
<1>1. /\ m \in Nat /\ m > 0 /\ pools[r] # None
      /\ TokenTransfer(u, Pool, m)
      /\ UNCHANGED <<admin, config, region_list, exposure>>
  BY AmountsAreIntegers DEF deposit_liquidity
<1>2. /\ pool \in PoolState
      /\ pool.total_deposited \in Nat /\ pool.total_drawn \in Nat
      /\ pool.depositor_count \in Nat
      /\ pool.total_shares = pool.total_deposited
      /\ pool.total_drawn <= pool.total_deposited
      /\ held \in Nat /\ shares \in Positions /\ exposure \in Positions
      /\ stats \in LiquidityStats
      /\ Pool \in Accounts /\ u \in Accounts /\ u # Pool
      /\ Users \ {u} = Accounts \ {u, Pool}
      /\ bal[u] \in Nat /\ bal[Pool] \in Nat
  BY <1>1, OpenRegion
<1>3. shares_for(pool, m) = m
  <2>1. CASE pool.total_deposited <= 0
    BY <2>1 DEF shares_for
  <2>2. CASE pool.total_deposited > 0
    BY <1>1, <1>2, <2>2, PriceIsOne DEF shares_for
  <2> QED
    BY <1>2, <2>1, <2>2
<1>4. /\ shares' = [shares EXCEPT ![u][r] = held + m]
      /\ pools' = [pools EXCEPT ![r] = p]
      /\ stats' = [stats EXCEPT !.total_deposits = saturating_add(@)]
  BY <1>3 DEF deposit_liquidity, WithTotals
<1>5. /\ stats' \in LiquidityStats /\ stats'.regions_opened = stats.regions_opened
  <2>1. saturating_add(stats.total_deposits) \in Nat
    BY <1>2, SaturatingType DEF LiquidityStats
  <2> QED
    BY <1>2, <1>4, <2>1 DEF LiquidityStats
<1>6. count = count_after(pool.depositor_count, held, m) /\ count \in Nat
  BY <1>1, <1>2, SaturatingType DEF count_after
<1> HIDE DEF count
<1>7. /\ p \in PoolState /\ p.total_deposited = pool.total_deposited + m
      /\ p.total_shares = pool.total_shares + m /\ p.depositor_count = count
      /\ p.total_drawn = pool.total_drawn
  <2>1. deposited \in Nat /\ issued \in Nat /\ count \in Nat /\ pool \in PoolState
    BY <1>2, <1>1, <1>2, <1>6
  <2> HIDE DEF deposited, issued, pool
  <2>2. /\ p \in PoolState /\ p.total_deposited = deposited
        /\ p.total_shares = issued /\ p.depositor_count = count
        /\ p.total_drawn = pool.total_drawn
    BY <2>1, TotalsSet
  <2> QED
    BY <2>2 DEF deposited, issued
<1>8. /\ bal' \in [Accounts -> Nat]
      /\ bal'[u] = bal[u] - m /\ bal'[Pool] = bal[Pool] + m
      /\ \A x \in Users \ {u} : bal'[x] = bal[x]
  <2>1. TypeOK
    BY DEF PoolInv
  <2> QED
    BY <1>1, <1>2, <2>1, TransferEffect
<1>9. Bumped(shares, shares', u, r, m)
  <2>1. held + m \in Nat /\ m \in Int
    BY <1>1, <1>2
  <2> QED
    BY <1>2, <1>4, <2>1, EntrySet
<1>10. Bumped(exposure, exposure', u, r, 0)
  BY <1>1, <1>2, EntryKept
<1> HIDE DEF p
<1>11. Moved(u, r, p, m, 0)
  BY <1>1, <1>2, <1>4, <1>5, <1>6, <1>7, <1>8, <1>9, <1>10 DEF Moved
<1> QED
  BY <1>11

LEMMA WithdrawMoves ==
    ASSUME PoolInv, NEW u \in Users, NEW r \in Regions, NEW m \in Amounts,
           withdraw_liquidity(u, r, m)
    PROVE  \E p, ds, de : Moved(u, r, p, ds, de)
<1> DEFINE pool == pools[r]
           held == shares[u][r]
           count == IF held = m THEN saturating_sub(pool.depositor_count)
                    ELSE pool.depositor_count
           deposited == pool.total_deposited - m
           issued == pool.total_shares - m
           p == WithTotals(pool, deposited, issued, count)
<1>1. /\ m \in Nat /\ m > 0 /\ pools[r] # None
      /\ m <= held /\ pool.total_shares > 0
      /\ UNCHANGED <<admin, config, region_list, exposure>>
  BY AmountsAreIntegers DEF withdraw_liquidity
<1>2. /\ pool \in PoolState
      /\ pool.total_deposited \in Nat /\ pool.total_drawn \in Nat
      /\ pool.depositor_count \in Nat
      /\ pool.total_shares = pool.total_deposited
      /\ pool.total_drawn <= pool.total_deposited
      /\ held \in Nat /\ shares \in Positions /\ exposure \in Positions
      /\ stats \in LiquidityStats
      /\ Pool \in Accounts /\ u \in Accounts /\ u # Pool
      /\ Users \ {u} = Accounts \ {u, Pool}
      /\ bal[u] \in Nat /\ bal[Pool] \in Nat
  BY <1>1, OpenRegion
<1>3. amount_for(pool, m) = m
  BY <1>1, <1>2, PriceIsOne DEF amount_for
<1>4. /\ shares' = [shares EXCEPT ![u][r] = held - m]
      /\ pools' = [pools EXCEPT ![r] = p]
      /\ stats' = [stats EXCEPT !.total_withdrawals = saturating_add(@)]
      /\ TokenTransfer(Pool, u, m)
      /\ m <= available(pool)
  BY <1>3 DEF withdraw_liquidity, WithTotals
<1>5. /\ stats' \in LiquidityStats /\ stats'.regions_opened = stats.regions_opened
  <2>1. saturating_add(stats.total_withdrawals) \in Nat
    BY <1>2, SaturatingType DEF LiquidityStats
  <2> QED
    BY <1>2, <1>4, <2>1 DEF LiquidityStats
<1> DEFINE d == 0 - m
<1>6. count = count_after(pool.depositor_count, held, d) /\ count \in Nat
  BY <1>1, <1>2, SaturatingType DEF count_after
<1>7. /\ d \in Int
      /\ pool.total_deposited - m \in Nat /\ pool.total_shares - m \in Nat
      /\ pool.total_deposited - m = pool.total_deposited + d
      /\ pool.total_shares - m = pool.total_shares + d
      /\ held - m = held + d /\ held - m \in Nat
      /\ pool.total_drawn <= pool.total_deposited + d
      /\ bal[Pool] - m = bal[Pool] + (d - 0) /\ bal[u] + m = bal[u] - (d - 0)
  BY <1>1, <1>2, <1>4 DEF available
<1> HIDE DEF count, d
<1>8. /\ p \in PoolState /\ p.total_deposited = pool.total_deposited - m
      /\ p.total_shares = pool.total_shares - m /\ p.depositor_count = count
      /\ p.total_drawn = pool.total_drawn
  <2>1. deposited \in Nat /\ issued \in Nat /\ count \in Nat /\ pool \in PoolState
    BY <1>2, <1>6, <1>7
  <2> HIDE DEF deposited, issued, pool
  <2>2. /\ p \in PoolState /\ p.total_deposited = deposited
        /\ p.total_shares = issued /\ p.depositor_count = count
        /\ p.total_drawn = pool.total_drawn
    BY <2>1, TotalsSet
  <2> QED
    BY <2>2 DEF deposited, issued
<1>9. /\ bal' \in [Accounts -> Nat]
      /\ bal'[u] = bal[u] + m /\ bal'[Pool] = bal[Pool] - m
      /\ \A x \in Users \ {u} : bal'[x] = bal[x]
  <2>1. TypeOK
    BY DEF PoolInv
  <2> QED
    BY <1>1, <1>2, <1>4, <2>1, TransferEffect
<1>10. Bumped(shares, shares', u, r, d)
  BY <1>2, <1>4, <1>7, EntrySet
<1>11. Bumped(exposure, exposure', u, r, 0)
  BY <1>1, <1>2, EntryKept
<1> HIDE DEF p
<1>12. Moved(u, r, p, d, 0)
  BY <1>1, <1>2, <1>4, <1>5, <1>6, <1>7, <1>8, <1>9, <1>10, <1>11 DEF Moved
<1> QED
  BY <1>12

\* draw_liquidity and repay_liquidity change the debt and leave the shares.
LEMMA DebtMoves ==
    ASSUME PoolInv, NEW u \in Users, NEW r \in Regions, NEW m \in Amounts,
           \/ \E ok \in BOOLEAN, b \in Bonds : draw_liquidity(u, r, m, ok, b)
           \/ repay_liquidity(u, r, m)
    PROVE  \E p, ds, de : Moved(u, r, p, ds, de)
<1>1. m \in Nat /\ m > 0 /\ pools[r] # None
  BY AmountsAreIntegers DEF draw_liquidity, repay_liquidity
<1> DEFINE pool == pools[r]
           owed == exposure[u][r]
<1>2. /\ pool \in PoolState
      /\ pool.total_deposited \in Nat /\ pool.total_drawn \in Nat
      /\ pool.total_shares \in Nat
      /\ pool.total_drawn <= pool.total_deposited
      /\ owed <= pool.total_drawn /\ owed \in Nat
      /\ shares[u][r] \in Nat /\ shares \in Positions /\ exposure \in Positions
      /\ stats \in LiquidityStats
      /\ Pool \in Accounts /\ u \in Accounts /\ u # Pool
      /\ Users \ {u} = Accounts \ {u, Pool}
      /\ bal[u] \in Nat /\ bal[Pool] \in Nat /\ TypeOK
  BY <1>1, OpenRegion DEF PoolInv
<1>3. PICK d \in Int :
         /\ owed + d \in Nat
         /\ pool.total_drawn + d \in Nat
         /\ pool.total_drawn + d <= pool.total_deposited
         /\ exposure' = [exposure EXCEPT ![u][r] = owed + d]
         /\ pools' = [pools EXCEPT ![r].total_drawn = pool.total_drawn + d]
         /\ stats' = stats \/ stats' =
               [stats EXCEPT !.total_draws = saturating_add(stats.total_draws)]
         /\ bal' \in [Accounts -> Nat]
         /\ bal'[Pool] = bal[Pool] - d /\ bal'[u] = bal[u] + d
         /\ \A x \in Users \ {u} : bal'[x] = bal[x]
         /\ UNCHANGED <<admin, config, region_list, shares>>
  <2>1. ASSUME NEW ok \in BOOLEAN, NEW b \in Bonds, draw_liquidity(u, r, m, ok, b)
        PROVE  /\ m <= pool.total_deposited - pool.total_drawn
               /\ exposure' = [exposure EXCEPT ![u][r] = owed + m]
               /\ pools' = [pools EXCEPT ![r].total_drawn = pool.total_drawn + m]
               /\ stats' = [stats EXCEPT !.total_draws =
                               saturating_add(stats.total_draws)]
               /\ TokenTransfer(Pool, u, m)
               /\ UNCHANGED <<admin, config, region_list, shares>>
    BY <2>1 DEF draw_liquidity, available
  <2>2. CASE \E ok \in BOOLEAN, b \in Bonds : draw_liquidity(u, r, m, ok, b)
    <3>1. /\ m <= pool.total_deposited - pool.total_drawn
          /\ exposure' = [exposure EXCEPT ![u][r] = owed + m]
          /\ pools' = [pools EXCEPT ![r].total_drawn = pool.total_drawn + m]
          /\ stats' = [stats EXCEPT !.total_draws =
                          saturating_add(stats.total_draws)]
          /\ TokenTransfer(Pool, u, m)
          /\ UNCHANGED <<admin, config, region_list, shares>>
      BY <2>1, <2>2
    <3>2. /\ bal' \in [Accounts -> Nat]
          /\ bal'[Pool] = bal[Pool] - m /\ bal'[u] = bal[u] + m
          /\ \A x \in Users \ {u} : bal'[x] = bal[x]
      BY <1>1, <1>2, <3>1, TransferEffect
    <3>3. /\ m \in Int /\ owed + m \in Nat /\ pool.total_drawn + m \in Nat
          /\ pool.total_drawn + m <= pool.total_deposited
      BY <1>1, <1>2, <3>1
    <3> HIDE DEF pool, owed
    <3> QED
      BY <3>1, <3>2, <3>3
  <2>3. CASE repay_liquidity(u, r, m)
    <3>1. /\ m <= owed
          /\ exposure' = [exposure EXCEPT ![u][r] = owed - m]
          /\ pools' = [pools EXCEPT ![r].total_drawn = pool.total_drawn - m]
          /\ TokenTransfer(u, Pool, m)
          /\ UNCHANGED <<admin, config, region_list, shares, stats>>
      BY <2>3 DEF repay_liquidity
    <3>2. /\ bal' \in [Accounts -> Nat]
          /\ bal'[Pool] = bal[Pool] + m /\ bal'[u] = bal[u] - m
          /\ \A x \in Users \ {u} : bal'[x] = bal[x]
      BY <1>1, <1>2, <3>1, TransferEffect
    <3> DEFINE d == 0 - m
    <3>3. /\ d \in Int /\ owed + d \in Nat /\ pool.total_drawn + d \in Nat
          /\ pool.total_drawn + d <= pool.total_deposited
          /\ owed + d = owed - m /\ pool.total_drawn + d = pool.total_drawn - m
          /\ bal[Pool] + m = bal[Pool] - d /\ bal[u] - m = bal[u] + d
      BY <1>1, <1>2, <3>1
    <3> HIDE DEF pool, owed, d
    <3> QED
      BY <3>1, <3>2, <3>3
  <2> QED
    BY <2>2, <2>3
<1> DEFINE drawn == pool.total_drawn + d
           p == [pool EXCEPT !.total_drawn = drawn]
<1>4. pools' = [pools EXCEPT ![r] = p]
  BY <1>3
<1>5. drawn \in Nat /\ drawn = pool.total_drawn + d
  BY <1>3
<1> HIDE DEF drawn
<1>6. /\ p \in PoolState /\ p.total_drawn = drawn
      /\ p.total_deposited = pool.total_deposited
      /\ p.total_shares = pool.total_shares
      /\ p.depositor_count = pool.depositor_count
  BY <1>2, <1>5 DEF PoolState
<1> HIDE DEF p
<1>7. Bumped(exposure, exposure', u, r, d)
  BY <1>2, <1>3, EntrySet
<1>8. Bumped(shares, shares', u, r, 0)
  BY <1>2, <1>3, EntryKept
<1>9. /\ stats' \in LiquidityStats /\ stats'.regions_opened = stats.regions_opened
  <2>1. saturating_add(stats.total_draws) \in Nat
    BY <1>2, SaturatingType DEF LiquidityStats
  <2>2. stats' = stats \/ stats' =
           [stats EXCEPT !.total_draws = saturating_add(stats.total_draws)]
    BY <1>3
  <2> QED
    BY <1>2, <2>1, <2>2 DEF LiquidityStats
<1>10. count_after(pool.depositor_count, shares[u][r], 0) = pool.depositor_count
  BY <1>2 DEF count_after
<1>11. /\ bal'[Pool] = bal[Pool] + (0 - d) /\ bal'[u] = bal[u] - (0 - d)
       /\ p.total_deposited = pool.total_deposited + 0
       /\ p.total_shares = pool.total_shares + 0
       /\ p.total_drawn <= p.total_deposited
  BY <1>2, <1>3, <1>5, <1>6
<1>12. /\ bal' \in [Accounts -> Nat]
       /\ \A x \in Users \ {u} : bal'[x] = bal[x]
       /\ UNCHANGED <<admin, config, region_list>>
  BY <1>3
<1>13. /\ p.total_drawn = pool.total_drawn + d
       /\ p.depositor_count =
             count_after(pool.depositor_count, shares[u][r], 0)
  BY <1>5, <1>6, <1>10
<1>14. 0 \in Int /\ d \in Int /\ p \in PoolState
  BY <1>6
<1>15. Moved(u, r, p, 0, d)
  BY <1>1, <1>4, <1>7, <1>8, <1>9, <1>11, <1>12, <1>13, <1>14 DEF Moved
<1> QED
  BY <1>15
----------------------------------------------------------------------------
(* Settings and the opening of a region. *)

\* The regions' settings may change, their totals do not.
SameTotals ==
    /\ pools' \in [Regions -> PoolState \union {None}]
    /\ \A r \in Regions : (pools'[r] = None) <=> (pools[r] = None)
    /\ \A r \in Open : /\ pools'[r].total_deposited = pools[r].total_deposited
                       /\ pools'[r].total_drawn = pools[r].total_drawn
                       /\ pools'[r].total_shares = pools[r].total_shares
                       /\ pools'[r].depositor_count = pools[r].depositor_count

\* Settings change, no total does.
LEMMA SettingsKeepBooks ==
    ASSUME PoolInv, TypeOK', UNCHANGED <<shares, exposure, stats, bal>>,
           SameTotals
    PROVE  PoolInv'
<1> USE DEF SameTotals
<1>0. ClosedIsEmpty /\ BooksBalance
  BY DEF PoolInv
<1>1. Open' = Open
  BY DEF Open
<1>2. ClosedIsEmpty'
  BY <1>0, <1>1 DEF ClosedIsEmpty
<1>3. FloatIsSeparate'
  <2> DEFINE F == [q \in Regions |-> float_of(q)]
             G == [q \in Regions |-> float_of(q)']
  <2>1. \A q \in Regions : F[q] = G[q]
    BY DEF float_of, available, Open
  <2>2. bal[Pool] = SumFunctionOnSet(F, Regions)
    BY <1>0 DEF BooksBalance, FloatIsSeparate
  <2> HIDE DEF F, G
  <2>3. bal'[Pool] = SumFunctionOnSet(G, Regions)
    BY <2>1, <2>2, UsersAreFinite, SetSumSame
  <2>4. \A q \in Open' : available(pools[q])' >= 0
    BY <1>0, <1>1 DEF available, BooksBalance, FloatIsSeparate
  <2> QED
    BY <2>3, <2>4 DEF FloatIsSeparate, G
<1>4. NobodyGains'
  BY <1>0 DEF BooksBalance, NobodyGains
<1>5. \A q \in Open' : /\ pools'[q].total_shares = SharesIn(q)'
                       /\ pools'[q].total_shares = pools'[q].total_deposited
                       /\ pools'[q].total_drawn = ExposureIn(q)'
                       /\ pools'[q].depositor_count =
                             Cardinality({u \in Users : shares'[u][q] > 0})
  <2>1. \A q : SharesIn(q)' = SharesIn(q) /\ ExposureIn(q)' = ExposureIn(q)
    BY DEF SharesIn, ExposureIn
  <2>2. \A q \in Open : /\ pools[q].total_shares = SharesIn(q)
                        /\ pools[q].total_shares = pools[q].total_deposited
                        /\ pools[q].total_drawn = ExposureIn(q)
                        /\ pools[q].depositor_count =
                              Cardinality({u \in Users : shares[u][q] > 0})
    BY <1>0 DEF BooksBalance
  <2> QED
    BY <1>1, <2>1, <2>2
<1>6. BooksBalance'
  BY <1>0, <1>1, <1>3, <1>4, <1>5 DEF BooksBalance
<1> QED
  BY <1>2, <1>6 DEF PoolInv

LEMMA ValidCap ==
    ASSUME NEW c \in Caps, valid_cap(c)
    PROVE  c \in 1..MAX_UTILIZATION_CAP_BPS
<1>1. c \in Nat
  BY SettingsAreNaturals
<1> QED
  BY <1>1 DEF valid_cap, MAX_UTILIZATION_CAP_BPS

\* The setters of the administrator.
LEMMA SettingsStep ==
    ASSUME PoolInv,
           \/ \E a \in Admins, g \in Registries, b \in Ratios, c \in Caps :
                 initialize(a, g, b, c)
           \/ \E a \in Admins : set_admin(a)
           \/ \E g \in Registries : set_agent_registry(g)
           \/ \E b \in Ratios : set_collateral_ratio(b)
           \/ \E c \in Caps : set_default_utilization_cap(c)
           \/ \E on \in BOOLEAN : set_paused(on)
           \/ \E r \in Regions, c \in Caps : set_utilization_cap(r, c)
           \/ \E r \in Regions, on \in BOOLEAN : set_region_active(r, on)
           \/ UNCHANGED vars
    PROVE  PoolInv'
<1>0. TypeOK
  BY DEF PoolInv
<1>1. UNCHANGED <<shares, exposure, stats, bal, region_list>>
  BY DEF initialize, set_admin, set_agent_registry, set_collateral_ratio,
         set_default_utilization_cap, set_paused, write_config,
         set_utilization_cap, set_region_active, accounts, vars
<1>2. /\ admin' \in Admins \union {None}
      /\ (admin' = None) = (config' = None)
      /\ config' # None => config' \in PoolConfig
  <2>1. ASSUME NEW c \in PoolConfig, config' = c, admin # None, admin' = admin
        PROVE  /\ admin' \in Admins \union {None}
               /\ (admin' = None) = (config' = None)
               /\ config' # None => config' \in PoolConfig
    BY <1>0, <2>1, NoneIsNoRecord DEF TypeOK
  <2>2. admin # None => config \in PoolConfig
    BY <1>0 DEF TypeOK
  <2>3. ASSUME NEW a \in Admins, NEW g \in Registries, NEW b \in Ratios,
               NEW c \in Caps, initialize(a, g, b, c)
        PROVE  admin' \in Admins /\ config' \in PoolConfig
    <3>1. /\ b \in MIN_COLLATERAL_RATIO_BPS..MAX_COLLATERAL_RATIO_BPS
          /\ c \in 1..MAX_UTILIZATION_CAP_BPS
      BY <2>3, ValidCap DEF initialize, validate_ratio
    <3> QED
      BY <2>3, <3>1 DEF initialize, PoolConfig
  <2>4. ASSUME NEW g \in Registries, set_agent_registry(g)
        PROVE  admin # None /\ admin' = admin /\ config' \in PoolConfig
    BY <2>2, <2>4 DEF set_agent_registry, write_config, Initialized, PoolConfig
  <2>5. ASSUME NEW b \in Ratios, set_collateral_ratio(b)
        PROVE  admin # None /\ admin' = admin /\ config' \in PoolConfig
    BY <2>2, <2>5
       DEF set_collateral_ratio, validate_ratio, write_config, Initialized,
           PoolConfig
  <2>6. ASSUME NEW c \in Caps, set_default_utilization_cap(c)
        PROVE  admin # None /\ admin' = admin /\ config' \in PoolConfig
    <3>1. c \in 1..MAX_UTILIZATION_CAP_BPS
      BY <2>6, ValidCap DEF set_default_utilization_cap
    <3> QED
      BY <2>2, <2>6, <3>1
         DEF set_default_utilization_cap, write_config, Initialized, PoolConfig
  <2>7. ASSUME NEW on \in BOOLEAN, set_paused(on)
        PROVE  admin # None /\ admin' = admin /\ config' \in PoolConfig
    BY <2>2, <2>7 DEF set_paused, write_config, Initialized, PoolConfig
  <2>8. CASE UNCHANGED <<admin, config>>
    BY <1>0, <2>8 DEF TypeOK
  <2>9. ASSUME NEW a \in Admins, set_admin(a)
        PROVE  admin' \in Admins /\ config' \in PoolConfig
    BY <2>2, <2>9 DEF set_admin, Initialized
  <2>10. ASSUME admin' \in Admins, config' \in PoolConfig
         PROVE  /\ (admin' = None) = (config' = None)
                /\ admin' \in Admins \union {None}
    BY <2>10, NoneIsNoRecord, NoneIsNoValue
  <2> QED
    BY <2>1, <2>3, <2>4, <2>5, <2>6, <2>7, <2>8, <2>9, <2>10
       DEF set_utilization_cap, set_region_active, vars
<1>3. SameTotals
  <2>0. pools \in [Regions -> PoolState \union {None}]
    BY <1>0 DEF TypeOK
  <2>1. CASE UNCHANGED pools
    BY <2>0, <2>1 DEF SameTotals
  <2>2. ASSUME NEW r \in Regions, NEW p \in PoolState, pools[r] # None,
               pools' = [pools EXCEPT ![r] = p],
               p.total_deposited = pools[r].total_deposited,
               p.total_drawn = pools[r].total_drawn,
               p.total_shares = pools[r].total_shares,
               p.depositor_count = pools[r].depositor_count
        PROVE  SameTotals
    <3>1. p # None
      BY NoneIsNoRecord
    <3> QED
      BY <2>0, <2>2, <3>1 DEF Open, SameTotals
  <2>3. ASSUME NEW r \in Regions, NEW c \in Caps, set_utilization_cap(r, c)
        PROVE  SameTotals
    <3> DEFINE p == [pools[r] EXCEPT !.utilization_cap_bps = c]
    <3>1. pools[r] # None /\ pools' = [pools EXCEPT ![r] = p]
      BY <2>3 DEF set_utilization_cap
    <3>2. c \in 1..MAX_UTILIZATION_CAP_BPS /\ pools[r] \in PoolState
      BY <2>0, <2>3, <3>1, ValidCap DEF set_utilization_cap
    <3>3. /\ p \in PoolState
          /\ p.total_deposited = pools[r].total_deposited
          /\ p.total_drawn = pools[r].total_drawn
          /\ p.total_shares = pools[r].total_shares
          /\ p.depositor_count = pools[r].depositor_count
      BY <3>2 DEF PoolState
    <3> HIDE DEF p
    <3> QED
      BY <2>2, <3>1, <3>3
  <2>4. ASSUME NEW r \in Regions, NEW on \in BOOLEAN, set_region_active(r, on)
        PROVE  SameTotals
    <3> DEFINE p == [pools[r] EXCEPT !.active = on]
    <3>1. pools[r] # None /\ pools' = [pools EXCEPT ![r] = p]
      BY <2>4 DEF set_region_active
    <3>2. pools[r] \in PoolState
      BY <2>0, <3>1
    <3>3. /\ p \in PoolState
          /\ p.total_deposited = pools[r].total_deposited
          /\ p.total_drawn = pools[r].total_drawn
          /\ p.total_shares = pools[r].total_shares
          /\ p.depositor_count = pools[r].depositor_count
      BY <3>2 DEF PoolState
    <3> HIDE DEF p
    <3> QED
      BY <2>2, <3>1, <3>3
  <2> QED
    BY <2>1, <2>3, <2>4
       DEF initialize, set_admin, set_agent_registry, set_collateral_ratio,
           set_default_utilization_cap, set_paused, write_config, vars
<1>4. TypeOK'
  BY <1>0, <1>1, <1>2, <1>3 DEF TypeOK, SameTotals
<1> QED
  BY <1>1, <1>3, <1>4, SettingsKeepBooks

\* A region opens with empty totals, and nobody has a position in it.
LEMMA OpenStep ==
    ASSUME PoolInv, NEW r \in Regions, NEW c \in Caps, open_region(r, c)
    PROVE  PoolInv'
<1>0. TypeOK /\ ClosedIsEmpty /\ BooksBalance
  BY DEF PoolInv
<1> DEFINE cap == IF c = 0 THEN config.default_utilization_cap_bps ELSE c
           p == [total_deposited |-> 0, total_drawn |-> 0, total_shares |-> 0,
                 depositor_count |-> 0, active |-> TRUE,
                 utilization_cap_bps |-> cap]
<1>1. /\ admin # None /\ pools[r] = None /\ c <= MAX_UTILIZATION_CAP_BPS
      /\ pools' = [pools EXCEPT ![r] = p]
      /\ region_list' = Append(region_list, r)
      /\ stats' = [stats EXCEPT !.regions_opened =
                      saturating_add(stats.regions_opened)]
      /\ UNCHANGED <<admin, config, shares, exposure, bal>>
  BY DEF open_region, Initialized, accounts
<1>2. cap \in 1..MAX_UTILIZATION_CAP_BPS
  <2>1. config \in PoolConfig
    BY <1>0, <1>1 DEF TypeOK
  <2>2. c <= MAX_UTILIZATION_CAP_BPS
    BY DEF open_region
  <2>3. c # 0 => c \in 1..MAX_UTILIZATION_CAP_BPS
    BY <2>2, ValidCap DEF valid_cap
  <2>4. config.default_utilization_cap_bps \in 1..MAX_UTILIZATION_CAP_BPS
    BY <2>1 DEF PoolConfig
  <2> QED
    BY <2>3, <2>4
<1> HIDE DEF cap
<1>3. /\ p \in PoolState /\ p # None /\ p.total_deposited = 0
      /\ p.total_drawn = 0 /\ p.total_shares = 0 /\ p.depositor_count = 0
  <2>1. /\ p \in PoolState /\ p.total_deposited = 0
        /\ p.total_drawn = 0 /\ p.total_shares = 0 /\ p.depositor_count = 0
    BY <1>2 DEF PoolState
  <2> HIDE DEF p
  <2> QED
    BY <2>1, NoneIsNoRecord
<1> HIDE DEF p
<1>4. /\ pools \in [Regions -> PoolState \union {None}]
      /\ pools' \in [Regions -> PoolState \union {None}]
      /\ pools'[r] = p /\ \A q \in Regions : q # r => pools'[q] = pools[q]
  BY <1>0, <1>1, <1>3 DEF TypeOK
<1>5. Open' = Open \union {r} /\ r \notin Open
  BY <1>1, <1>3, <1>4 DEF Open
<1>6. stats \in LiquidityStats /\ stats.regions_opened = Cardinality(Open)
  BY <1>0 DEF TypeOK, BooksBalance
<1>7. saturating_add(Cardinality(Open)) = Cardinality(Open) + 1
      /\ Cardinality(Open') = Cardinality(Open) + 1
      /\ Cardinality(Open) \in Nat
  <2>1. Open \in SUBSET Regions
    BY DEF Open
  <2>2. IsFiniteSet(Open)
    BY <2>1, UsersAreFinite, FS_Subset
  <2>3. saturating_add(Cardinality(Open)) = Cardinality(Open) + 1
    BY <1>5, <2>1, UsersAreFinite, CountersFit, CounterHasRoom
  <2> QED
    BY <1>5, <2>2, <2>3, FS_AddElement, FS_CardinalityType
<1>8. stats' \in LiquidityStats /\ stats'.regions_opened = Cardinality(Open')
  BY <1>1, <1>6, <1>7 DEF LiquidityStats
<1>9. TypeOK'
  <2>1. region_list' \in Seq(Regions)
    BY <1>0, <1>1 DEF TypeOK
  <2> QED
    BY <1>0, <1>1, <1>4, <1>8, <2>1 DEF TypeOK
<1>10. ClosedIsEmpty'
  BY <1>0, <1>1, <1>5 DEF ClosedIsEmpty
<1>11. FloatIsSeparate'
  <2> DEFINE F == [q \in Regions |-> float_of(q)]
             G == [q \in Regions |-> float_of(q)']
  <2>1. \A q \in Regions : float_of(q)' = float_of(q)
    BY <1>1, <1>3, <1>4 DEF float_of, available
  <2>2. \A q \in Regions : F[q] = G[q]
    BY <2>1
  <2>3. bal[Pool] = SumFunctionOnSet(F, Regions)
    BY <1>0 DEF BooksBalance, FloatIsSeparate
  <2> HIDE DEF F, G
  <2>4. bal'[Pool] = SumFunctionOnSet(G, Regions)
    BY <1>1, <2>2, <2>3, UsersAreFinite, SetSumSame
  <2>5. \A q \in Open : q # r /\ available(pools[q]) >= 0
    BY <1>0, <1>5 DEF BooksBalance, FloatIsSeparate
  <2>6. \A q \in Open' : available(pools[q])' >= 0
    <3>1. available(pools[r])' = 0
      BY <1>3, <1>4 DEF available
    <3>2. \A q \in Open : available(pools[q])' = available(pools[q])
      BY <1>4, <2>5 DEF available, Open
    <3> QED
      BY <1>5, <2>5, <3>1, <3>2
  <2> QED
    BY <2>4, <2>6 DEF FloatIsSeparate, G
<1>12. NobodyGains'
  BY <1>0, <1>1 DEF BooksBalance, NobodyGains
<1>13. SharesIn(r) = 0 /\ ExposureIn(r) = 0 /\ {u \in Users : shares[u][r] > 0} = {}
  <2> DEFINE F == [u \in Users |-> shares[u][r]]
             G == [u \in Users |-> exposure[u][r]]
  <2>1. \A u \in Users : shares[u][r] = 0 /\ exposure[u][r] = 0
    BY <1>0, <1>5 DEF ClosedIsEmpty
  <2>2. \A u \in Users : F[u] = 0 /\ G[u] = 0
    BY <2>1
  <2>3. {u \in Users : shares[u][r] > 0} = {}
    BY <2>1
  <2>4. SharesIn(r) = SumFunctionOnSet(F, Users)
        /\ ExposureIn(r) = SumFunctionOnSet(G, Users)
    BY DEF SharesIn, ExposureIn
  <2> HIDE DEF F, G
  <2> QED
    BY <2>2, <2>3, <2>4, UsersAreFinite, SetSumZero
<1>14. \A q \in Open' : /\ pools'[q].total_shares = SharesIn(q)'
                        /\ pools'[q].total_shares = pools'[q].total_deposited
                        /\ pools'[q].total_drawn = ExposureIn(q)'
                        /\ pools'[q].depositor_count =
                              Cardinality({u \in Users : shares'[u][q] > 0})
  <2>1. \A q : SharesIn(q)' = SharesIn(q) /\ ExposureIn(q)' = ExposureIn(q)
    BY <1>1 DEF SharesIn, ExposureIn
  <2>2. \A q \in Open : /\ pools[q].total_shares = SharesIn(q)
                        /\ pools[q].total_shares = pools[q].total_deposited
                        /\ pools[q].total_drawn = ExposureIn(q)
                        /\ pools[q].depositor_count =
                              Cardinality({u \in Users : shares[u][q] > 0})
    BY <1>0 DEF BooksBalance
  <2>3. \A q \in Open : pools'[q] = pools[q]
    BY <1>4, <1>5 DEF Open
  <2>4. Cardinality({u \in Users : shares[u][r] > 0}) = 0
    BY <1>13, FS_EmptySet
  <2>5. shares' = shares
    BY <1>1
  <2>6. /\ pools'[r].total_shares = SharesIn(r)'
        /\ pools'[r].total_shares = pools'[r].total_deposited
        /\ pools'[r].total_drawn = ExposureIn(r)'
        /\ pools'[r].depositor_count =
              Cardinality({u \in Users : shares'[u][r] > 0})
    BY <1>3, <1>4, <1>13, <2>1, <2>4, <2>5
  <2>7. ASSUME NEW q \in Open
        PROVE  /\ pools'[q].total_shares = SharesIn(q)'
               /\ pools'[q].total_shares = pools'[q].total_deposited
               /\ pools'[q].total_drawn = ExposureIn(q)'
               /\ pools'[q].depositor_count =
                     Cardinality({u \in Users : shares'[u][q] > 0})
    BY <2>1, <2>2, <2>3, <2>5
  <2> QED
    BY <1>5, <2>6, <2>7
<1>15. BooksBalance'
  BY <1>8, <1>11, <1>12, <1>14 DEF BooksBalance
<1> QED
  BY <1>9, <1>10, <1>15 DEF PoolInv
----------------------------------------------------------------------------
(* The theorems. *)

LEMMA PoolStarts == Init => PoolInv
<1> SUFFICES ASSUME Init PROVE PoolInv
  OBVIOUS
<1>1. Open = {}
  BY DEF Init, Open
<1>2. Pool \in Accounts /\ Users \subseteq Accounts
  BY DEF Accounts
<1>3. TypeOK
  <2>1. bal \in [Accounts -> Nat]
    BY BoundsAreNaturals DEF Init
  <2>2. stats \in LiquidityStats
    BY DEF Init, LiquidityStats
  <2> QED
    BY <2>1, <2>2 DEF Init, TypeOK
<1>4. ClosedIsEmpty
  BY DEF Init, ClosedIsEmpty
<1>5. FloatIsSeparate
  <2> DEFINE F == [q \in Regions |-> float_of(q)]
  <2>1. \A q \in Regions : F[q] = 0
    BY DEF Init, float_of
  <2> HIDE DEF F
  <2>2. SumFunctionOnSet(F, Regions) = 0
    BY <2>1, UsersAreFinite, SetSumZero
  <2>3. bal[Pool] = 0
    BY <1>2 DEF Init
  <2> QED
    BY <1>1, <2>2, <2>3 DEF FloatIsSeparate, F
<1>6. NobodyGains
  <2> SUFFICES ASSUME NEW u \in Users
               PROVE  bal[u] + Row(shares, u) - Row(exposure, u) = InitialBalance
    BY DEF NobodyGains, Row
  <2>1. \A q \in Regions : shares[u][q] = 0 /\ exposure[u][q] = 0
    BY DEF Init
  <2>2. Row(shares, u) = 0 /\ Row(exposure, u) = 0
    BY <2>1, UsersAreFinite, SetSumZero DEF Row
  <2>3. bal[u] = InitialBalance
    BY <1>2, PoolIsNoUser DEF Init
  <2> QED
    BY <2>2, <2>3, BoundsAreNaturals
<1>7. stats.regions_opened = Cardinality(Open)
  BY <1>1, FS_EmptySet DEF Init
<1>8. BooksBalance
  BY <1>1, <1>5, <1>6, <1>7 DEF BooksBalance
<1> QED
  BY <1>3, <1>4, <1>8 DEF PoolInv

\* The pool's storage keeps its types, and its books balance: through every
\* order of deposits, exits, draws and repayments in any regions, the tokens it
\* holds are exactly the float of its open regions, the totals are the sums of
\* the accounts behind them, a share is worth exactly one token, and no user
\* gains or loses.
THEOREM PoolBooksBalance == Spec => [](TypeOK /\ BooksBalance)
<1>1. PoolInv /\ [Next]_vars => PoolInv'
  <2> SUFFICES ASSUME PoolInv, [Next]_vars PROVE PoolInv'
    OBVIOUS
  <2>1. ASSUME NEW u \in Users, NEW r \in Regions, NEW m \in Amounts,
               \/ deposit_liquidity(u, r, m)
               \/ withdraw_liquidity(u, r, m)
               \/ \E ok \in BOOLEAN, b \in Bonds : draw_liquidity(u, r, m, ok, b)
               \/ repay_liquidity(u, r, m)
        PROVE  PoolInv'
    <3>1. \E p, ds, de : Moved(u, r, p, ds, de)
      BY <2>1, DepositMoves, WithdrawMoves, DebtMoves
    <3> QED
      BY <3>1, MovedKeepsBooks
  <2>2. ASSUME NEW r \in Regions, NEW c \in Caps, open_region(r, c)
        PROVE  PoolInv'
    BY <2>2, OpenStep
  <2>3. CASE \/ \E a \in Admins, g \in Registries, b \in Ratios, c \in Caps :
                   initialize(a, g, b, c)
             \/ \E a \in Admins : set_admin(a)
             \/ \E g \in Registries : set_agent_registry(g)
             \/ \E b \in Ratios : set_collateral_ratio(b)
             \/ \E c \in Caps : set_default_utilization_cap(c)
             \/ \E on \in BOOLEAN : set_paused(on)
             \/ \E r \in Regions, c \in Caps : set_utilization_cap(r, c)
             \/ \E r \in Regions, on \in BOOLEAN : set_region_active(r, on)
             \/ UNCHANGED vars
    BY <2>3, SettingsStep
  <2> QED
    BY <2>1, <2>2, <2>3 DEF Next, Operate
<1>2. PoolInv => TypeOK /\ BooksBalance
  BY DEF PoolInv
<1> QED
  BY <1>1, <1>2, PoolStarts, PTL DEF Spec
============================================================================
