---------------------------- MODULE Sums_proofs ----------------------------
(***************************************************************************)
(* What PrefixSum, SumFunctionOnSet of the Functions module, and Without   *)
(* compute: the facts the proofs about balances and the throttle need.     *)
(*                                                                         *)
(* Induction is by least counterexample: the set of numbers at which a     *)
(* fact fails, if it is not empty, has a least element.                    *)
(***************************************************************************)
EXTENDS PrefixSums, Sifting, Functions, FiniteSetTheorems, WellFoundedInduction, TLAPS

\* A nonempty set of naturals has a least element.
LEMMA LeastElement ==
    ASSUME NEW T, T \subseteq Nat, T # {}
    PROVE  \E x \in T : \A y \in T : ~(y < x)
<1> DEFINE R == OpToRel(<, Nat)
<1>1. IsWellFoundedOn(R, Nat)
  BY NatLessThanWellFounded
<1>2. \A y, x \in Nat : y < x => <<y, x>> \in R
  BY DEF OpToRel
<1> HIDE DEF R
<1>3. \E x \in T : \A y \in T : ~(<<y, x>> \in R)
  BY <1>1, WFMin
<1> QED
  BY <1>2, <1>3

\* s is the table of the sums f[1] + ... + f[i], for i in 0..n.
Table(s, f, n) ==
    s = [i \in 0..n |-> IF i = 0 THEN 0 ELSE s[i - 1] + f[i]]

\* A table of length n + 1 is a table of length n with one more entry.
LEMMA TableExtends ==
    ASSUME NEW f, NEW n \in Nat, NEW s, Table(s, f, n)
    PROVE  \E t : Table(t, f, n + 1)
<1> DEFINE t == [i \in 0..(n + 1) |->
                    IF i = n + 1 THEN s[n] + f[n + 1] ELSE s[i]]
<1>1. \A i \in 0..n : s[i] = IF i = 0 THEN 0 ELSE s[i - 1] + f[i]
  BY DEF Table
<1>2. \A i \in 0..(n + 1) : t[i] = IF i = 0 THEN 0 ELSE t[i - 1] + f[i]
  <2> SUFFICES ASSUME NEW i \in 0..(n + 1)
               PROVE  t[i] = IF i = 0 THEN 0 ELSE t[i - 1] + f[i]
    OBVIOUS
  <2>1. CASE i = n + 1
    <3>1. i # 0 /\ i - 1 = n /\ n \in 0..(n + 1) /\ n # n + 1
      BY <2>1
    <3>2. t[i] = s[n] + f[n + 1] /\ t[n] = s[n]
      BY <2>1, <3>1
    <3> QED
      BY <2>1, <3>1, <3>2
  <2>2. CASE i # n + 1 /\ i # 0
    <3>1. i \in 0..n /\ i - 1 \in 0..(n + 1) /\ i - 1 # n + 1
      BY <2>2
    <3>2. t[i] = s[i] /\ t[i - 1] = s[i - 1]
      BY <2>2, <3>1
    <3> QED
      BY <1>1, <2>2, <3>1, <3>2
  <2>3. CASE i = 0
    <3>1. 0 \in 0..n /\ 0 # n + 1
      OBVIOUS
    <3> QED
      BY <1>1, <2>3, <3>1
  <2> QED
    BY <2>1, <2>2, <2>3
<1>3. t = [i \in 0..(n + 1) |-> t[i]]
  OBVIOUS
<1> HIDE DEF t
<1>4. Table(t, f, n + 1)
  BY <1>2, <1>3 DEF Table
<1> QED
  BY <1>4

\* There is a table of every length.
LEMMA TableExists ==
    ASSUME NEW f, NEW n \in Nat
    PROVE  \E s : Table(s, f, n)
<1> DEFINE bad == {m \in Nat : ~\E s : Table(s, f, m)}
<1> SUFFICES ASSUME bad # {} PROVE FALSE
  OBVIOUS
<1>1. PICK m \in bad : \A y \in bad : ~(y < m)
  <2> bad \subseteq Nat
    OBVIOUS
  <2> HIDE DEF bad
  <2> QED
    BY LeastElement
<1>2. m \in Nat /\ ~\E s : Table(s, f, m)
  BY <1>1
<1>3. m # 0
  <2> DEFINE z == [i \in 0..0 |-> 0]
  <2>1. \A i \in 0..0 : i = 0
    OBVIOUS
  <2>2. z = [i \in 0..0 |-> IF i = 0 THEN 0 ELSE z[i - 1] + f[i]]
    BY <2>1
  <2> HIDE DEF z
  <2>3. Table(z, f, 0)
    BY <2>2 DEF Table
  <2> QED
    BY <1>2, <2>3
<1>4. m - 1 \in Nat /\ (m - 1) + 1 = m /\ m - 1 < m
  BY <1>2, <1>3
<1>5. \E s : Table(s, f, m - 1)
  BY <1>1, <1>4
<1>6. \E t : Table(t, f, (m - 1) + 1)
  BY <1>4, <1>5, TableExtends
<1> QED
  BY <1>2, <1>4, <1>6

\* Tables of sequences that agree, agree.
LEMMA TablesAgree ==
    ASSUME NEW f, NEW g, NEW n \in Nat, NEW s, NEW t,
           Table(s, f, n), Table(t, g, n), \A i \in 1..n : f[i] = g[i]
    PROVE  \A j \in 0..n : s[j] = t[j]
<1> DEFINE bad == {j \in 0..n : s[j] # t[j]}
<1> SUFFICES ASSUME bad # {} PROVE FALSE
  OBVIOUS
<1>1. PICK j \in bad : \A y \in bad : ~(y < j)
  <2> bad \subseteq Nat
    OBVIOUS
  <2> HIDE DEF bad
  <2> QED
    BY LeastElement
<1>2. \A i \in 0..n : /\ s[i] = IF i = 0 THEN 0 ELSE s[i - 1] + f[i]
                      /\ t[i] = IF i = 0 THEN 0 ELSE t[i - 1] + g[i]
  BY DEF Table
<1>3. j \in 0..n /\ s[j] # t[j]
  BY <1>1
<1>4. j # 0
  BY <1>2, <1>3
<1>5. j \in 1..n /\ j - 1 \in 0..n /\ j - 1 < j
  BY <1>3, <1>4
<1>6. s[j - 1] = t[j - 1]
  BY <1>1, <1>5
<1> QED
  BY <1>2, <1>3, <1>4, <1>5, <1>6

\* PrefixSum reads the last entry of any table.
LEMMA SumIsTable ==
    ASSUME NEW f, NEW n \in Nat, NEW s, Table(s, f, n)
    PROVE  PrefixSum(f, n) = s[n]
<1> DEFINE c == CHOOSE t : Table(t, f, n)
<1>1. Table(c, f, n)
  OBVIOUS
<1>2. PrefixSum(f, n) = c[n]
  BY DEF PrefixSum, Table
<1> HIDE DEF c
<1>3. n \in 0..n
  OBVIOUS
<1> QED
  BY <1>1, <1>2, <1>3, TablesAgree
----------------------------------------------------------------------------
\* The sum of nothing is 0.
LEMMA SumEmpty ==
    ASSUME NEW f PROVE PrefixSum(f, 0) = 0
<1>1. PICK s : Table(s, f, 0)
  BY TableExists
<1>2. s[0] = 0
  BY <1>1 DEF Table
<1> QED
  BY <1>1, <1>2, SumIsTable

\* Sums of integers are integers.
LEMMA SumType ==
    ASSUME NEW f, NEW n \in Nat, \A i \in 1..n : f[i] \in Int
    PROVE  PrefixSum(f, n) \in Int
<1>1. PICK s : Table(s, f, n)
  BY TableExists
<1> DEFINE bad == {j \in 0..n : s[j] \notin Int}
<1>2. SUFFICES ASSUME bad # {} PROVE FALSE
  <2>1. n \in 0..n
    OBVIOUS
  <2> QED
    BY <1>1, <2>1, SumIsTable
<1>3. PICK j \in bad : \A y \in bad : ~(y < j)
  <2>1. bad \subseteq Nat /\ bad # {}
    BY <1>2
  <2> HIDE DEF bad
  <2> QED
    BY <2>1, LeastElement
<1>4. \A i \in 0..n : s[i] = IF i = 0 THEN 0 ELSE s[i - 1] + f[i]
  BY <1>1 DEF Table
<1>5. j \in 0..n /\ s[j] \notin Int
  BY <1>3
<1>6. j # 0
  BY <1>4, <1>5
<1>7. j \in 1..n /\ j - 1 \in 0..n /\ j - 1 < j
  BY <1>5, <1>6
<1>8. s[j - 1] \in Int
  BY <1>3, <1>7
<1> QED
  BY <1>4, <1>5, <1>6, <1>7, <1>8

\* Sums of sequences that agree are equal.
LEMMA SumSame ==
    ASSUME NEW f, NEW g, NEW n \in Nat, \A i \in 1..n : f[i] = g[i]
    PROVE  PrefixSum(f, n) = PrefixSum(g, n)
<1>1. PICK s : Table(s, f, n)
  BY TableExists
<1>2. \A i \in 0..n : (IF i = 0 THEN 0 ELSE s[i - 1] + f[i])
                        = (IF i = 0 THEN 0 ELSE s[i - 1] + g[i])
  OBVIOUS
<1>3. Table(s, g, n)
  BY <1>1, <1>2 DEF Table
<1> QED
  BY <1>1, <1>3, SumIsTable

\* One more term.
LEMMA SumExtend ==
    ASSUME NEW f, NEW g, NEW n \in Nat, \A i \in 1..n : f[i] = g[i]
    PROVE  PrefixSum(g, n + 1) = PrefixSum(f, n) + g[n + 1]
<1>1. PICK t : Table(t, g, n + 1)
  BY TableExists
<1> DEFINE s == [i \in 0..n |-> t[i]]
<1>2. \A i \in 0..(n + 1) : t[i] = IF i = 0 THEN 0 ELSE t[i - 1] + g[i]
  BY <1>1 DEF Table
<1>3. \A i \in 0..n : s[i] = IF i = 0 THEN 0 ELSE s[i - 1] + g[i]
  <2> SUFFICES ASSUME NEW i \in 0..n
               PROVE  s[i] = IF i = 0 THEN 0 ELSE s[i - 1] + g[i]
    OBVIOUS
  <2>1. i \in 0..(n + 1) /\ (i # 0 => i - 1 \in 0..n)
    OBVIOUS
  <2> QED
    BY <1>2, <2>1
<1>4. s = [i \in 0..n |-> s[i]] /\ s[n] = t[n]
  OBVIOUS
<1> HIDE DEF s
<1>5. Table(s, g, n)
  BY <1>3, <1>4 DEF Table
<1>6. PrefixSum(g, n) = t[n]
  BY <1>4, <1>5, SumIsTable
<1>7. PrefixSum(g, n + 1) = t[n + 1]
  BY <1>1, SumIsTable
<1>8. t[n + 1] = t[n] + g[n + 1]
  <2>1. n + 1 \in 0..(n + 1) /\ n + 1 # 0 /\ (n + 1) - 1 = n
    OBVIOUS
  <2> QED
    BY <1>2, <2>1
<1>9. PrefixSum(f, n) = PrefixSum(g, n)
  BY SumSame
<1> QED
  BY <1>6, <1>7, <1>8, <1>9

\* Two integer sequences of length n that differ at k at most.
DifferAt(f, g, n, k) ==
    /\ \A i \in 1..n : f[i] \in Int /\ g[i] \in Int
    /\ \A i \in 1..n : i # k => f[i] = g[i]

\* One changed term.
LEMMA SumUpdate ==
    ASSUME NEW n \in Nat, NEW f, NEW g, NEW k \in 1..n, DifferAt(f, g, n, k)
    PROVE  PrefixSum(g, n) = (PrefixSum(f, n) - f[k]) + g[k]
<1>1. PICK s : Table(s, f, n)
  BY TableExists
<1>2. PICK t : Table(t, g, n)
  BY TableExists
<1>3. \A i \in 0..n : /\ s[i] = IF i = 0 THEN 0 ELSE s[i - 1] + f[i]
                      /\ t[i] = IF i = 0 THEN 0 ELSE t[i - 1] + g[i]
  BY <1>1, <1>2 DEF Table
<1> DEFINE ok(j) == /\ s[j] \in Int /\ t[j] \in Int
                    /\ t[j] = IF j < k THEN s[j] ELSE (s[j] - f[k]) + g[k]
           bad == {j \in 0..n : ~ok(j)}
<1>4. ASSUME bad # {} PROVE FALSE
  <2>1. PICK j \in bad : \A y \in bad : ~(y < j)
    <3>1. bad \subseteq Nat /\ bad # {}
      BY <1>4
    <3> HIDE DEF bad
    <3> QED
      BY <3>1, LeastElement
  <2>2. j \in 0..n /\ ~ok(j)
    BY <2>1
  <2>3. j # 0
    BY <1>3, <2>2
  <2>4. j \in 1..n /\ j - 1 \in 0..n /\ j - 1 < j
    BY <2>2, <2>3
  <2>5. ok(j - 1)
    BY <2>1, <2>4
  <2>6. s[j] = s[j - 1] + f[j] /\ t[j] = t[j - 1] + g[j]
    BY <1>3, <2>3, <2>4
  <2>7. f[j] \in Int /\ g[j] \in Int /\ f[k] \in Int /\ g[k] \in Int
    BY <2>4 DEF DifferAt
  <2>8. CASE j < k
    BY <2>2, <2>4, <2>5, <2>6, <2>7, <2>8 DEF DifferAt
  <2>9. CASE j = k
    BY <2>2, <2>4, <2>5, <2>6, <2>7, <2>9
  <2>10. CASE j > k
    BY <2>2, <2>4, <2>5, <2>6, <2>7, <2>10 DEF DifferAt
  <2> QED
    BY <2>4, <2>8, <2>9, <2>10
<1>5. ok(n) /\ ~(n < k)
  BY <1>4
<1> QED
  BY <1>1, <1>2, <1>5, SumIsTable
----------------------------------------------------------------------------
(* Sums over a finite set. *)

\* The element a sum over T takes first, and what is left.
First(T) == CHOOSE x \in T : TRUE
Rest(T) == T \ {First(T)}

\* A nonempty finite set is its first element and a smaller set.
LEMMA RestIsSmaller ==
    ASSUME NEW T, IsFiniteSet(T), T # {}
    PROVE  /\ First(T) \in T
           /\ IsFiniteSet(Rest(T))
           /\ Cardinality(T) \in Nat /\ Cardinality(Rest(T)) \in Nat
           /\ Cardinality(Rest(T)) = Cardinality(T) - 1
<1>1. First(T) \in T
  BY DEF First
<1>2. /\ IsFiniteSet(T \ {First(T)})
      /\ Cardinality(T \ {First(T)}) = Cardinality(T) - 1
  BY <1>1, FS_RemoveElement
<1>3. Cardinality(T) \in Nat /\ Cardinality(T \ {First(T)}) \in Nat
  BY <1>2, FS_CardinalityType
<1> QED
  BY <1>1, <1>2, <1>3 DEF Rest

\* Induction over the subsets of a finite set: if a fact fails for some, it
\* fails for one that is empty or whose rest it holds for.
LEMMA SmallestSubset ==
    ASSUME NEW S, IsFiniteSet(S), NEW B, B \subseteq SUBSET S, B # {}
    PROVE  \E T \in B : T = {} \/ (T # {} /\ Rest(T) \notin B)
<1> DEFINE sizes == {Cardinality(T) : T \in B}
<1>1. \A T \in B : IsFiniteSet(T) /\ Cardinality(T) \in Nat
  BY FS_Subset, FS_CardinalityType
<1>2. sizes \subseteq Nat /\ sizes # {}
  BY <1>1
<1>3. PICK n \in sizes : \A y \in sizes : ~(y < n)
  <2> HIDE DEF sizes
  <2> QED
    BY <1>2, LeastElement
<1>4. PICK T \in B : Cardinality(T) = n
  BY <1>3
<1>5. CASE T # {} /\ Rest(T) \in B
  <2>1. Cardinality(Rest(T)) = n - 1 /\ n \in Nat
    BY <1>1, <1>4, <1>5, RestIsSmaller
  <2>2. Cardinality(Rest(T)) \in sizes
    BY <1>5
  <2> QED
    BY <1>3, <2>1, <2>2
<1> QED
  BY <1>5

\* s is the table of the sums over the subsets of S with at most n elements.
UpTo(S, n) == {T \in SUBSET S : Cardinality(T) <= n}
Term(s, f, T) == IF T = {} THEN 0 ELSE f[First(T)] + s[Rest(T)]
Layer(s, f, S, n) == s = [T \in UpTo(S, n) |-> Term(s, f, T)]

\* There is a table of every depth.
LEMMA LayerExists ==
    ASSUME NEW f, NEW S, IsFiniteSet(S), NEW n \in Nat
    PROVE  \E s : Layer(s, f, S, n)
<1> DEFINE bad == {m \in Nat : ~\E s : Layer(s, f, S, m)}
<1> SUFFICES ASSUME bad # {} PROVE FALSE
  OBVIOUS
<1>1. PICK m \in bad : \A y \in bad : ~(y < m)
  <2> bad \subseteq Nat
    OBVIOUS
  <2> HIDE DEF bad
  <2> QED
    BY LeastElement
<1>2. m \in Nat /\ ~\E s : Layer(s, f, S, m)
  BY <1>1
<1>3. \A T \in SUBSET S : /\ IsFiniteSet(T) /\ Cardinality(T) \in Nat
                          /\ Cardinality(T) = 0 <=> T = {}
  BY FS_Subset, FS_CardinalityType, FS_EmptySet
<1>4. \A T \in SUBSET S : T # {} => /\ Rest(T) \in SUBSET S
                                    /\ Cardinality(Rest(T)) = Cardinality(T) - 1
  BY <1>3, RestIsSmaller DEF Rest
<1>5. m # 0
  <2> DEFINE z == [T \in UpTo(S, 0) |-> 0]
  <2>1. \A T \in UpTo(S, 0) : T = {}
    BY <1>3 DEF UpTo
  <2>2. z = [T \in UpTo(S, 0) |-> Term(z, f, T)]
    BY <2>1 DEF Term
  <2> HIDE DEF z
  <2>3. Layer(z, f, S, 0)
    BY <2>2 DEF Layer
  <2> QED
    BY <1>2, <2>3
<1>6. m - 1 \in Nat /\ m - 1 < m
  BY <1>2, <1>5
<1>7. PICK s : Layer(s, f, S, m - 1)
  BY <1>1, <1>6
<1> DEFINE t == [T \in UpTo(S, m) |-> Term(s, f, T)]
<1>8. \A T \in UpTo(S, m - 1) : T \in UpTo(S, m) /\ t[T] = s[T]
  <2>1. \A T \in UpTo(S, m - 1) : s[T] = Term(s, f, T)
    BY <1>7 DEF Layer
  <2>2. \A T \in UpTo(S, m - 1) : T \in UpTo(S, m)
    BY <1>2, <1>3 DEF UpTo
  <2> QED
    BY <2>1, <2>2
<1>9. \A T \in UpTo(S, m) : T # {} => Rest(T) \in UpTo(S, m - 1)
  BY <1>2, <1>3, <1>4 DEF UpTo
<1>10. \A T \in UpTo(S, m) : Term(s, f, T) = Term(t, f, T)
  <2> HIDE DEF t
  <2> QED
    BY <1>8, <1>9 DEF Term
<1>11. t = [T \in UpTo(S, m) |-> Term(t, f, T)]
  BY <1>10
<1> HIDE DEF t
<1> QED
  BY <1>2, <1>11 DEF Layer

\* s is the table of the sums over all the subsets of S.
Grid(s, f, S) == s = [T \in SUBSET S |-> Term(s, f, T)]

\* s holds the partial sums of f over the subsets of S, the whole sum at S.
PartialSums(s, f, S) ==
    /\ SumFunctionOnSet(f, S) = s[S]
    /\ \A T \in SUBSET S : s[T] = Term(s, f, T)

\* SumFunctionOnSet reads the last entry of a table of all its partial sums.
LEMMA SetSumIsGrid ==
    ASSUME NEW f, NEW S, IsFiniteSet(S)
    PROVE  \E s : PartialSums(s, f, S)
<1> DEFINE c == CHOOSE s : Grid(s, f, S)
<1>1. \E s : Grid(s, f, S)
  <2>1. Cardinality(S) \in Nat
    BY FS_CardinalityType
  <2>2. PICK s : Layer(s, f, S, Cardinality(S))
    BY <2>1, LayerExists
  <2>3. \A T \in SUBSET S : Cardinality(T) <= Cardinality(S)
    BY FS_Subset
  <2>4. UpTo(S, Cardinality(S)) = SUBSET S
    BY <2>3 DEF UpTo
  <2>5. Grid(s, f, S)
    BY <2>2, <2>4 DEF Grid, Layer
  <2> QED
    BY <2>5
<1>2. Grid(c, f, S)
  BY <1>1
<1>3. SumFunctionOnSet(f, S) = c[S]
  BY DEF SumFunctionOnSet, FoldFunctionOnSet, MapThenFoldSet, Grid, Term,
         First, Rest
<1> HIDE DEF c
<1>4. \A T \in SUBSET S : c[T] = Term(c, f, T)
  BY <1>2 DEF Grid
<1> QED
  BY <1>3, <1>4 DEF PartialSums

\* Sums of integers are integers, sums of naturals are naturals.
LEMMA SetSumType ==
    ASSUME NEW f, NEW S, IsFiniteSet(S), NEW N \in {Int, Nat},
           \A x \in S : f[x] \in N
    PROVE  SumFunctionOnSet(f, S) \in N
<1>1. PICK s : PartialSums(s, f, S)
  BY SetSumIsGrid
<1> DEFINE bad == {T \in SUBSET S : s[T] \notin N}
<1>2. SUFFICES ASSUME bad # {} PROVE FALSE
  BY <1>1 DEF PartialSums
<1>3. PICK T \in bad : T = {} \/ (T # {} /\ Rest(T) \notin bad)
  <2>1. bad \subseteq SUBSET S /\ bad # {}
    BY <1>2
  <2> HIDE DEF bad
  <2> QED
    BY <2>1, SmallestSubset
<1>4. T # {} /\ Rest(T) \in SUBSET S /\ First(T) \in S
  BY <1>1, <1>3 DEF PartialSums, Term, Rest, First
<1>5. s[Rest(T)] \in N /\ f[First(T)] \in N
  BY <1>3, <1>4
<1>6. s[T] = f[First(T)] + s[Rest(T)] /\ s[T] \notin N
  BY <1>1, <1>3, <1>4 DEF PartialSums, Term
<1> QED
  BY <1>5, <1>6

\* A sum of nothings is 0.
LEMMA SetSumZero ==
    ASSUME NEW f, NEW S, IsFiniteSet(S), \A x \in S : f[x] = 0
    PROVE  SumFunctionOnSet(f, S) = 0
<1>1. PICK s : PartialSums(s, f, S)
  BY SetSumIsGrid
<1> DEFINE bad == {T \in SUBSET S : s[T] # 0}
<1>2. SUFFICES ASSUME bad # {} PROVE FALSE
  BY <1>1 DEF PartialSums
<1>3. PICK T \in bad : T = {} \/ (T # {} /\ Rest(T) \notin bad)
  <2>1. bad \subseteq SUBSET S /\ bad # {}
    BY <1>2
  <2> HIDE DEF bad
  <2> QED
    BY <2>1, SmallestSubset
<1>4. T # {} /\ Rest(T) \in SUBSET S /\ First(T) \in S
  BY <1>1, <1>3 DEF PartialSums, Term, Rest, First
<1>5. s[T] = f[First(T)] + s[Rest(T)] /\ s[T] # 0
  BY <1>1, <1>3, <1>4 DEF PartialSums, Term
<1>6. s[Rest(T)] = 0 /\ f[First(T)] = 0
  BY <1>3, <1>4
<1> QED
  BY <1>5, <1>6

\* One changed term.
LEMMA SetSumUpdate ==
    ASSUME NEW S, IsFiniteSet(S), NEW f, NEW g, NEW k \in S,
           \A x \in S : f[x] \in Int /\ g[x] \in Int,
           \A x \in S : x # k => f[x] = g[x]
    PROVE  SumFunctionOnSet(g, S) = (SumFunctionOnSet(f, S) - f[k]) + g[k]
<1>1. PICK s : PartialSums(s, f, S)
  BY SetSumIsGrid
<1>2. PICK t : PartialSums(t, g, S)
  BY SetSumIsGrid
<1> DEFINE ok(T) == /\ s[T] \in Int /\ t[T] \in Int
                    /\ t[T] = IF k \in T THEN (s[T] - f[k]) + g[k] ELSE s[T]
           bad == {T \in SUBSET S : ~ok(T)}
<1>3. ASSUME bad # {} PROVE FALSE
  <2>1. PICK T \in bad : T = {} \/ (T # {} /\ Rest(T) \notin bad)
    <3>1. bad \subseteq SUBSET S /\ bad # {}
      BY <1>3
    <3> HIDE DEF bad
    <3> QED
      BY <3>1, SmallestSubset
  <2>2. T \in SUBSET S /\ ~ok(T)
    BY <2>1
  <2>3. T # {}
    BY <1>1, <1>2, <2>2 DEF PartialSums, Term
  <2> DEFINE x == First(T)
             R == Rest(T)
  <2>4. x \in T /\ x \in S /\ R \in SUBSET S /\ x \notin R /\ T = R \union {x}
    BY <2>2, <2>3 DEF First, Rest
  <2>5. s[T] = f[x] + s[R] /\ t[T] = g[x] + t[R]
    BY <1>1, <1>2, <2>2, <2>3 DEF PartialSums, Term
  <2> HIDE DEF x, R
  <2>6. ok(R)
    BY <2>1, <2>3, <2>4 DEF R
  <2>7. f[x] \in Int /\ g[x] \in Int /\ f[k] \in Int /\ g[k] \in Int
    BY <2>4
  <2>8. CASE x = k
    BY <2>2, <2>4, <2>5, <2>6, <2>7, <2>8
  <2>9. CASE x # k
    BY <2>2, <2>4, <2>5, <2>6, <2>7, <2>9
  <2> QED
    BY <2>8, <2>9
<1>4. ok(S)
  BY <1>3
<1> QED
  BY <1>1, <1>2, <1>4 DEF PartialSums

\* Sums of functions that agree are equal.
LEMMA SetSumSame ==
    ASSUME NEW f, NEW g, NEW S, IsFiniteSet(S), \A x \in S : f[x] = g[x]
    PROVE  SumFunctionOnSet(f, S) = SumFunctionOnSet(g, S)
<1>1. PICK s : PartialSums(s, f, S)
  BY SetSumIsGrid
<1>2. PICK t : PartialSums(t, g, S)
  BY SetSumIsGrid
<1> DEFINE bad == {T \in SUBSET S : s[T] # t[T]}
<1>3. SUFFICES ASSUME bad # {} PROVE FALSE
  BY <1>1, <1>2 DEF PartialSums
<1>4. PICK T \in bad : T = {} \/ (T # {} /\ Rest(T) \notin bad)
  <2>1. bad \subseteq SUBSET S /\ bad # {}
    BY <1>3
  <2> HIDE DEF bad
  <2> QED
    BY <2>1, SmallestSubset
<1>5. T # {} /\ Rest(T) \in SUBSET S /\ First(T) \in S
  BY <1>1, <1>2, <1>4 DEF PartialSums, Term, Rest, First
<1>6. s[T] = f[First(T)] + s[Rest(T)] /\ t[T] = g[First(T)] + t[Rest(T)]
  BY <1>1, <1>2, <1>4, <1>5 DEF PartialSums, Term
<1>7. s[Rest(T)] = t[Rest(T)] /\ f[First(T)] = g[First(T)]
  BY <1>4, <1>5
<1> QED
  BY <1>4, <1>6, <1>7

\* The sum moves by what one term moves by.
LEMMA SetSumBump ==
    ASSUME NEW S, IsFiniteSet(S), NEW f, NEW g, NEW k \in S, NEW d \in Int,
           \A x \in S : f[x] \in Int /\ g[x] \in Int,
           \A x \in S : x # k => f[x] = g[x],
           g[k] = f[k] + d
    PROVE  SumFunctionOnSet(g, S) = SumFunctionOnSet(f, S) + d
<1>1. SumFunctionOnSet(g, S) = (SumFunctionOnSet(f, S) - f[k]) + g[k]
  BY SetSumUpdate
<1>2. SumFunctionOnSet(f, S) \in Int /\ f[k] \in Int
  BY SetSumType
<1> QED
  BY <1>1, <1>2

\* A sum of natural numbers covers each of them.
LEMMA SetSumCovers ==
    ASSUME NEW S, IsFiniteSet(S), NEW f, \A x \in S : f[x] \in Nat, NEW k \in S
    PROVE  f[k] <= SumFunctionOnSet(f, S)
<1> DEFINE g == [x \in S |-> IF x = k THEN 0 ELSE f[x]]
<1>1. /\ \A x \in S : f[x] \in Int /\ g[x] \in Int /\ g[x] \in Nat
      /\ \A x \in S : x # k => f[x] = g[x]
      /\ g[k] = 0
  OBVIOUS
<1> HIDE DEF g
<1>2. SumFunctionOnSet(g, S) = (SumFunctionOnSet(f, S) - f[k]) + g[k]
  BY <1>1, SetSumUpdate
<1>3. SumFunctionOnSet(g, S) \in Nat /\ SumFunctionOnSet(f, S) \in Nat
  BY <1>1, SetSumType
<1> QED
  BY <1>1, <1>2, <1>3

\* The size of a set after one element has entered or left it, or neither.
LEMMA CountAfter ==
    ASSUME NEW S, NEW T, NEW x, IsFiniteSet(S),
           \A y : y # x => (y \in S <=> y \in T)
    PROVE  /\ IsFiniteSet(T)
           /\ Cardinality(S) \in Nat
           /\ (x \in S <=> x \in T) => Cardinality(T) = Cardinality(S)
           /\ x \in S /\ x \notin T =>
                 Cardinality(T) = Cardinality(S) - 1 /\ Cardinality(S) > 0
           /\ x \notin S /\ x \in T => Cardinality(T) = Cardinality(S) + 1
<1>0. Cardinality(S) \in Nat /\ (Cardinality(S) = 0 => S = {})
  BY FS_CardinalityType, FS_EmptySet
<1>1. CASE x \in S <=> x \in T
  <2>1. T = S
    BY <1>1
  <2> QED
    BY <1>0, <1>1, <2>1
<1>2. CASE x \in S /\ x \notin T
  <2>1. T = S \ {x}
    BY <1>2
  <2>2. Cardinality(S \ {x}) = Cardinality(S) - 1 /\ IsFiniteSet(S \ {x})
    BY <1>2, FS_RemoveElement
  <2> QED
    BY <1>0, <1>2, <2>1, <2>2
<1>3. CASE x \notin S /\ x \in T
  <2>1. T = S \union {x}
    BY <1>3
  <2>2. Cardinality(S \union {x}) = Cardinality(S) + 1 /\ IsFiniteSet(S \union {x})
    BY <1>3, FS_AddElement
  <2> QED
    BY <1>0, <1>3, <2>1, <2>2
<1> QED
  BY <1>1, <1>2, <1>3

-----------------------------------------------------------------------------
(* What is left of a sequence. *)

\* l is the table of what is left of the first n entries, for n in 0..Len(seq).
Sifted(l, seq, dropped, n) ==
    l = [i \in 0..n |-> IF i = 0 THEN << >>
                        ELSE IF seq[i] \in dropped THEN l[i - 1]
                        ELSE Append(l[i - 1], seq[i])]

LEMMA SiftedExtends ==
    ASSUME NEW seq, NEW dropped, NEW n \in Nat, NEW l, Sifted(l, seq, dropped, n)
    PROVE  \E m : Sifted(m, seq, dropped, n + 1)
<1> DEFINE e == IF seq[n + 1] \in dropped THEN l[n] ELSE Append(l[n], seq[n + 1])
           m == [i \in 0..(n + 1) |-> IF i = n + 1 THEN e ELSE l[i]]
           Entry(t, i) == IF i = 0 THEN << >>
                          ELSE IF seq[i] \in dropped THEN t[i - 1]
                          ELSE Append(t[i - 1], seq[i])
<1>1. \A i \in 0..n : l[i] = Entry(l, i)
  BY DEF Sifted
<1>2. \A i \in 0..(n + 1) : m[i] = Entry(m, i)
  <2> SUFFICES ASSUME NEW i \in 0..(n + 1) PROVE m[i] = Entry(m, i)
    OBVIOUS
  <2>1. CASE i = n + 1
    <3>1. i # 0 /\ i - 1 = n /\ n \in 0..(n + 1) /\ n # n + 1
      BY <2>1
    <3>2. m[i] = e /\ m[i - 1] = l[n]
      BY <2>1, <3>1
    <3> HIDE DEF m
    <3> QED
      BY <2>1, <3>1, <3>2
  <2>2. CASE i # n + 1 /\ i # 0
    <3>1. i \in 0..n /\ i - 1 \in 0..(n + 1) /\ i - 1 # n + 1
      BY <2>2
    <3>2. m[i] = l[i] /\ m[i - 1] = l[i - 1]
      BY <2>2, <3>1
    <3> HIDE DEF m, e
    <3> QED
      BY <1>1, <2>2, <3>1, <3>2
  <2>3. CASE i = 0
    <3>1. 0 \in 0..n /\ 0 # n + 1
      OBVIOUS
    <3>2. m[i] = l[i]
      BY <2>3, <3>1
    <3> HIDE DEF m, e
    <3> QED
      BY <1>1, <2>3, <3>1, <3>2
  <2> QED
    BY <2>1, <2>2, <2>3
<1>3. m = [i \in 0..(n + 1) |-> m[i]]
  OBVIOUS
<1> HIDE DEF m, e
<1>4. Sifted(m, seq, dropped, n + 1)
  BY <1>2, <1>3 DEF Sifted
<1> QED
  BY <1>4

LEMMA SiftedExists ==
    ASSUME NEW seq, NEW dropped, NEW n \in Nat
    PROVE  \E l : Sifted(l, seq, dropped, n)
<1> DEFINE bad == {m \in Nat : ~\E l : Sifted(l, seq, dropped, m)}
<1> SUFFICES ASSUME bad # {} PROVE FALSE
  OBVIOUS
<1>1. PICK m \in bad : \A y \in bad : ~(y < m)
  <2> bad \subseteq Nat
    OBVIOUS
  <2> HIDE DEF bad
  <2> QED
    BY LeastElement
<1>2. m \in Nat /\ ~\E l : Sifted(l, seq, dropped, m)
  BY <1>1
<1>3. m # 0
  <2> DEFINE z == [i \in 0..0 |-> << >>]
  <2>1. \A i \in 0..0 : i = 0
    OBVIOUS
  <2>2. z = [i \in 0..0 |-> IF i = 0 THEN << >>
                            ELSE IF seq[i] \in dropped THEN z[i - 1]
                            ELSE Append(z[i - 1], seq[i])]
    BY <2>1
  <2> HIDE DEF z
  <2>3. Sifted(z, seq, dropped, 0)
    BY <2>2 DEF Sifted
  <2> QED
    BY <1>2, <2>3
<1>4. m - 1 \in Nat /\ (m - 1) + 1 = m /\ m - 1 < m
  BY <1>2, <1>3
<1>5. \E l : Sifted(l, seq, dropped, m - 1)
  BY <1>1, <1>4
<1>6. \E t : Sifted(t, seq, dropped, (m - 1) + 1)
  BY <1>4, <1>5, SiftedExtends
<1> QED
  BY <1>2, <1>4, <1>6

\* Without reads the last entry of such a table.
LEMMA WithoutIsSifted ==
    ASSUME NEW seq, NEW dropped, Len(seq) \in Nat
    PROVE  \E l : Sifted(l, seq, dropped, Len(seq)) /\ Without(seq, dropped) = l[Len(seq)]
<1> DEFINE c == CHOOSE l : Sifted(l, seq, dropped, Len(seq))
<1>1. \E l : Sifted(l, seq, dropped, Len(seq))
  BY SiftedExists
<1>2. Sifted(c, seq, dropped, Len(seq))
  BY <1>1
<1>3. Without(seq, dropped) = c[Len(seq)]
  BY DEF Without, Sifted
<1> HIDE DEF c
<1> QED
  BY <1>2, <1>3

\* What is left of a sequence are entries of it, in number no more, and none
\* that is dropped.
LEMMA WithoutKeeps ==
    ASSUME NEW S, NEW seq \in Seq(S), NEW dropped
    PROVE  /\ Without(seq, dropped) \in Seq(S)
           /\ Len(Without(seq, dropped)) <= Len(seq)
           /\ \A k \in 1..Len(Without(seq, dropped)) :
                 /\ Without(seq, dropped)[k] \notin dropped
                 /\ \E i \in 1..Len(seq) : Without(seq, dropped)[k] = seq[i]
<1>1. Len(seq) \in Nat /\ \A i \in 1..Len(seq) : seq[i] \in S
  OBVIOUS
<1>2. PICK l : /\ Sifted(l, seq, dropped, Len(seq))
               /\ Without(seq, dropped) = l[Len(seq)]
  BY <1>1, WithoutIsSifted
<1> DEFINE n == Len(seq)
           Kept(w, j) == /\ w \in Seq(S) /\ Len(w) <= j
                         /\ \A k \in 1..Len(w) :
                               /\ w[k] \notin dropped
                               /\ \E i \in 1..j : w[k] = seq[i]
           bad == {j \in 0..n : ~Kept(l[j], j)}
<1>3. \A i \in 0..n : l[i] = IF i = 0 THEN << >>
                             ELSE IF seq[i] \in dropped THEN l[i - 1]
                             ELSE Append(l[i - 1], seq[i])
  BY <1>2 DEF Sifted
<1>4. ASSUME bad # {} PROVE FALSE
  <2>1. PICK j \in bad : \A y \in bad : ~(y < j)
    <3>1. bad \subseteq Nat
      BY <1>1
    <3> HIDE DEF bad
    <3> QED
      BY <1>4, <3>1, LeastElement
  <2>2. j \in 0..n /\ ~Kept(l[j], j)
    BY <2>1
  <2>3. ASSUME j = 0 PROVE FALSE
    <3>1. l[j] = << >>
      BY <1>1, <1>3, <2>2, <2>3
    <3>2. Kept(<< >>, j)
      BY <2>3
    <3> HIDE DEF Kept
    <3> QED
      BY <2>2, <3>1, <3>2
  <2>4. j \in 1..n /\ j - 1 \in 0..n /\ j - 1 < j
    BY <1>1, <2>2, <2>3
  <2>5. Kept(l[j - 1], j - 1)
    BY <2>1, <2>4
  <2>6. l[j] = IF seq[j] \in dropped THEN l[j - 1] ELSE Append(l[j - 1], seq[j])
    BY <1>3, <2>2, <2>3
  <2>7. CASE seq[j] \in dropped
    <3>1. l[j] = l[j - 1]
      BY <2>6, <2>7
    <3>2. \A w : Kept(w, j - 1) => Kept(w, j)
      BY <2>4
    <3> HIDE DEF Kept
    <3> QED
      BY <2>2, <2>5, <3>1, <3>2
  <2>8. CASE seq[j] \notin dropped
    <3> DEFINE w == l[j - 1]
               x == seq[j]
    <3>1. l[j] = Append(w, x)
      BY <2>6, <2>8
    <3>2. w \in Seq(S) /\ Len(w) \in Nat /\ Len(w) <= j - 1 /\ x \in S
      BY <1>1, <2>4, <2>5
    <3>3. \A k \in 1..Len(w) :
            /\ w[k] \notin dropped
            /\ \E i \in 1..(j - 1) : w[k] = seq[i]
      BY <2>5
    <3>4. x \notin dropped /\ x = seq[j] /\ j \in 1..j
      BY <2>4, <2>8
    <3> HIDE DEF w, x
    <3>5. /\ Append(w, x) \in Seq(S) /\ Len(Append(w, x)) = Len(w) + 1
          /\ \A k \in 1..Len(w) : Append(w, x)[k] = w[k]
          /\ Append(w, x)[Len(w) + 1] = x
      BY <3>2
    <3>6. \A k \in 1..Len(Append(w, x)) :
            /\ Append(w, x)[k] \notin dropped
            /\ \E i \in 1..j : Append(w, x)[k] = seq[i]
      <4> SUFFICES ASSUME NEW k \in 1..Len(Append(w, x))
                   PROVE  /\ Append(w, x)[k] \notin dropped
                          /\ \E i \in 1..j : Append(w, x)[k] = seq[i]
        OBVIOUS
      <4>1. CASE k = Len(w) + 1
        BY <3>4, <3>5, <4>1
      <4>2. CASE k \in 1..Len(w)
        <5>1. PICK i \in 1..(j - 1) : w[k] = seq[i]
          BY <3>3, <4>2
        <5>2. i \in 1..j
          BY <2>4
        <5> QED
          BY <3>3, <3>5, <4>2, <5>1, <5>2
      <4> QED
        BY <3>2, <3>5, <4>1, <4>2
    <3>7. Kept(Append(w, x), j)
      BY <2>4, <3>2, <3>5, <3>6
    <3> HIDE DEF Kept
    <3> QED
      BY <2>2, <3>1, <3>7
  <2> QED
    BY <2>7, <2>8
<1>5. Kept(l[n], n)
  <2>1. n \in 0..n
    BY <1>1
  <2> QED
    BY <1>4, <2>1
<1> QED
  BY <1>2, <1>5

\* Where everything that is dropped comes first, what is left is the rest.
LEMMA WithoutIsSuffix ==
    ASSUME NEW S, NEW seq \in Seq(S), NEW dropped,
           \A i, j \in 1..Len(seq) : i < j /\ seq[j] \in dropped => seq[i] \in dropped
    PROVE  \E m \in 0..Len(seq) :
              /\ Len(Without(seq, dropped)) = Len(seq) - m
              /\ \A i \in 1..m : seq[i] \in dropped
              /\ \A i \in (m + 1)..Len(seq) : seq[i] \notin dropped
              /\ \A i \in 1..(Len(seq) - m) : Without(seq, dropped)[i] = seq[i + m]
<1>1. Len(seq) \in Nat /\ \A i \in 1..Len(seq) : seq[i] \in S
  OBVIOUS
<1>2. PICK l : /\ Sifted(l, seq, dropped, Len(seq))
               /\ Without(seq, dropped) = l[Len(seq)]
  BY <1>1, WithoutIsSifted
<1> DEFINE n == Len(seq)
           LeftIs(w, j, m) == /\ m \in 0..j /\ w \in Seq(S)
                              /\ Len(w) = j - m
                              /\ \A i \in 1..m : seq[i] \in dropped
                              /\ \A i \in (m + 1)..j : seq[i] \notin dropped
                              /\ \A i \in 1..(j - m) : w[i] = seq[i + m]
           bad == {j \in 0..n : ~\E m : LeftIs(l[j], j, m)}
<1>3. \A i \in 0..n : l[i] = IF i = 0 THEN << >>
                             ELSE IF seq[i] \in dropped THEN l[i - 1]
                             ELSE Append(l[i - 1], seq[i])
  BY <1>2 DEF Sifted
<1>4. ASSUME bad # {} PROVE FALSE
  <2>1. PICK j \in bad : \A y \in bad : ~(y < j)
    <3>1. bad \subseteq Nat
      BY <1>1
    <3> HIDE DEF bad
    <3> QED
      BY <1>4, <3>1, LeastElement
  <2>2. j \in 0..n /\ ~\E m : LeftIs(l[j], j, m)
    BY <2>1
  <2>3. ASSUME j = 0 PROVE FALSE
    <3>1. l[j] = << >>
      BY <1>1, <1>3, <2>2, <2>3
    <3>2. LeftIs(<< >>, j, 0)
      BY <2>3
    <3> HIDE DEF LeftIs
    <3> QED
      BY <2>2, <3>1, <3>2
  <2>4. j \in 1..n /\ j - 1 \in 0..n /\ j - 1 < j
    BY <1>1, <2>2, <2>3
  <2>5. PICK m : LeftIs(l[j - 1], j - 1, m)
    BY <2>1, <2>4
  <2>6. l[j] = IF seq[j] \in dropped THEN l[j - 1] ELSE Append(l[j - 1], seq[j])
    BY <1>3, <2>2, <2>3
  <2> DEFINE w == l[j - 1]
             x == seq[j]
  <2>7. /\ m \in 0..(j - 1) /\ w \in Seq(S) /\ Len(w) = j - 1 - m /\ x \in S
        /\ \A i \in 1..m : seq[i] \in dropped
        /\ \A i \in (m + 1)..(j - 1) : seq[i] \notin dropped
        /\ \A i \in 1..(j - 1 - m) : w[i] = seq[i + m]
    BY <1>1, <2>4, <2>5
  <2>8. CASE x \in dropped
    <3>1. \A i \in 1..(j - 1) : seq[i] \in dropped
      BY <1>1, <2>4, <2>8
    <3>2. m = j - 1
      <4>1. ASSUME m # j - 1 PROVE FALSE
        <5>1. m + 1 \in (m + 1)..(j - 1) /\ m + 1 \in 1..(j - 1)
          BY <2>4, <2>7, <4>1
        <5> QED
          BY <2>7, <3>1, <5>1
      <4> QED
        BY <4>1
    <3>3. l[j] = w
      BY <2>6, <2>8
    <3>4. Len(w) = 0 /\ \A i \in 1..j : seq[i] \in dropped
      BY <2>4, <2>7, <2>8, <3>1, <3>2
    <3> HIDE DEF w, x
    <3>5. LeftIs(w, j, j)
      BY <2>4, <2>7, <3>4
    <3> HIDE DEF LeftIs
    <3> QED
      BY <2>2, <3>3, <3>5
  <2>9. CASE x \notin dropped
    <3>1. l[j] = Append(w, x)
      BY <2>6, <2>9
    <3>2. x = seq[j]
      OBVIOUS
    <3> HIDE DEF w, x
    <3>3. /\ Append(w, x) \in Seq(S) /\ Len(Append(w, x)) = Len(w) + 1
          /\ \A k \in 1..Len(w) : Append(w, x)[k] = w[k]
          /\ Append(w, x)[Len(w) + 1] = x
      BY <2>7
    <3>4. Len(Append(w, x)) = j - m
      BY <2>4, <2>7, <3>3
    <3>5. \A i \in (m + 1)..j : seq[i] \notin dropped
      BY <2>4, <2>7, <2>9, <3>2
    <3>6. \A i \in 1..(j - m) : Append(w, x)[i] = seq[i + m]
      <4> SUFFICES ASSUME NEW i \in 1..(j - m) PROVE Append(w, x)[i] = seq[i + m]
        OBVIOUS
      <4>1. CASE i = j - m
        <5>1. i = Len(w) + 1 /\ i + m = j
          BY <2>4, <2>7, <4>1
        <5> QED
          BY <3>2, <3>3, <5>1
      <4>2. CASE i # j - m
        <5>1. j \in Nat /\ m \in Nat /\ m <= j - 1 /\ Len(w) = j - 1 - m
          BY <1>1, <2>4, <2>7
        <5>2. i \in Nat /\ 1 <= i /\ i <= j - m /\ i # j - m
          BY <4>2, <5>1
        <5>3. i <= j - 1 - m
          BY <5>1, <5>2
        <5>4. i \in 1..(j - 1 - m) /\ i \in 1..Len(w)
          BY <5>1, <5>2, <5>3
        <5> QED
          BY <2>7, <3>3, <5>4
      <4> QED
        BY <4>1, <4>2
    <3>7. LeftIs(Append(w, x), j, m)
      BY <2>4, <2>7, <3>3, <3>4, <3>5, <3>6
    <3> HIDE DEF LeftIs
    <3> QED
      BY <2>2, <3>1, <3>7
  <2> QED
    BY <2>8, <2>9
<1>5. \E m : LeftIs(l[n], n, m)
  <2>1. n \in 0..n
    BY <1>1
  <2> QED
    BY <1>4, <2>1
<1> QED
  BY <1>2, <1>5

\* A sequence that holds nothing to be dropped is left as it is.
LEMMA WithoutNothing ==
    ASSUME NEW S, NEW seq \in Seq(S), NEW dropped,
           \A i \in 1..Len(seq) : seq[i] \notin dropped
    PROVE  Without(seq, dropped) = seq
<1>1. Len(seq) \in Nat
  OBVIOUS
<1>2. PICK m \in 0..Len(seq) :
          /\ Len(Without(seq, dropped)) = Len(seq) - m
          /\ \A i \in 1..m : seq[i] \in dropped
          /\ \A i \in 1..(Len(seq) - m) : Without(seq, dropped)[i] = seq[i + m]
  BY WithoutIsSuffix
<1>3. m = 0
  <2>1. m # 0 => 1 \in 1..m /\ 1 \in 1..Len(seq)
    BY <1>1
  <2> QED
    BY <1>2, <2>1
<1>4. /\ Len(Without(seq, dropped)) = Len(seq)
      /\ \A i \in 1..Len(seq) : Without(seq, dropped)[i] = seq[i]
  BY <1>1, <1>2, <1>3
<1>5. Without(seq, dropped) \in Seq(S)
  BY WithoutKeeps
<1> DEFINE w == Without(seq, dropped)
<1> HIDE DEF w
<1>6. w \in Seq(S) /\ Len(w) = Len(seq) /\ \A i \in 1..Len(seq) : w[i] = seq[i]
  BY <1>4, <1>5 DEF w
<1>7. w = seq
  BY <1>6
<1> QED
  BY <1>7 DEF w

\* Where c counts what is kept, each entry that is kept is found at its number.
LEMMA WithoutCounted ==
    ASSUME NEW S, NEW seq \in Seq(S), NEW dropped, NEW c \in [0..Len(seq) -> Nat], c[0] = 0,
           \A i \in 1..Len(seq) : c[i] = IF seq[i] \in dropped THEN c[i - 1] ELSE c[i - 1] + 1
    PROVE  /\ Len(Without(seq, dropped)) = c[Len(seq)]
           /\ \A k \in 1..c[Len(seq)] :
                 \E i \in 1..Len(seq) :
                     seq[i] \notin dropped /\ c[i] = k /\ Without(seq, dropped)[k] = seq[i]
           /\ \A i \in 1..Len(seq) : seq[i] \notin dropped => c[i] \in 1..c[Len(seq)]
<1> DEFINE n == Len(seq)
<1>1. n \in Nat /\ (\A i \in 1..n : seq[i] \in S) /\ \A i \in 0..n : c[i] \in Nat
  OBVIOUS
<1>2. PICK l : /\ Sifted(l, seq, dropped, n) /\ Without(seq, dropped) = l[n]
  BY <1>1, WithoutIsSifted
<1>3. \A i \in 0..n : l[i] = IF i = 0 THEN << >>
                             ELSE IF seq[i] \in dropped THEN l[i - 1]
                             ELSE Append(l[i - 1], seq[i])
  BY <1>2 DEF Sifted
<1> DEFINE Counts(w, j) == /\ w \in Seq(S) /\ Len(w) = c[j]
                           /\ \A k \in 1..c[j] :
                                 \E i \in 1..j : seq[i] \notin dropped /\ c[i] = k /\ w[k] = seq[i]
                           /\ \A i \in 1..j : seq[i] \notin dropped => c[i] \in 1..c[j]
           bad == {j \in 0..n : ~Counts(l[j], j)}
<1>4. ASSUME bad # {} PROVE FALSE
  <2>1. PICK j \in bad : \A y \in bad : ~(y < j)
    <3>1. bad \subseteq Nat
      BY <1>1
    <3> HIDE DEF bad
    <3> QED
      BY <1>4, <3>1, LeastElement
  <2>2. j \in 0..n /\ ~Counts(l[j], j)
    BY <2>1
  <2>3. ASSUME j = 0 PROVE FALSE
    <3>1. l[j] = << >>
      BY <1>1, <1>3, <2>2, <2>3
    <3>2. Counts(<< >>, j)
      BY <2>3
    <3> HIDE DEF Counts
    <3> QED
      BY <2>2, <3>1, <3>2
  <2>4. j \in 1..n /\ j - 1 \in 0..n /\ j - 1 < j /\ j \in Nat
    BY <1>1, <2>2, <2>3
  <2>5. Counts(l[j - 1], j - 1)
    BY <2>1, <2>4
  <2>6. l[j] = IF seq[j] \in dropped THEN l[j - 1] ELSE Append(l[j - 1], seq[j])
    BY <1>3, <2>2, <2>3
  <2> DEFINE w == l[j - 1]
             x == seq[j]
             p == c[j - 1]
  <2>7. /\ w \in Seq(S) /\ Len(w) = p /\ p \in Nat /\ x \in S
        /\ \A k \in 1..p :
              \E i \in 1..(j - 1) : seq[i] \notin dropped /\ c[i] = k /\ w[k] = seq[i]
        /\ \A i \in 1..(j - 1) : seq[i] \notin dropped => c[i] \in 1..p
    BY <1>1, <2>4, <2>5
  <2>8. c[j] = IF x \in dropped THEN p ELSE p + 1
    BY <2>4
  <2>9. \A i \in 1..j : i \in 1..(j - 1) \/ i = j
    BY <2>4
  <2>10. \A i \in 1..(j - 1) : i \in 1..j
    BY <2>4
  <2>11. x = seq[j]
    OBVIOUS
  <2>12. CASE x \in dropped
    <3>1. l[j] = w
      BY <2>6, <2>12
    <3> HIDE DEF w, x, p
    <3>2. \A k \in 1..c[j] :
             \E i \in 1..j : seq[i] \notin dropped /\ c[i] = k /\ w[k] = seq[i]
      <4> SUFFICES ASSUME NEW k \in 1..c[j]
                   PROVE  \E i \in 1..j : seq[i] \notin dropped /\ c[i] = k /\ w[k] = seq[i]
        OBVIOUS
      <4>1. PICK i \in 1..(j - 1) : seq[i] \notin dropped /\ c[i] = k /\ w[k] = seq[i]
        BY <2>7, <2>8, <2>12
      <4> QED
        BY <2>10, <4>1
    <3>3. \A i \in 1..j : seq[i] \notin dropped => c[i] \in 1..c[j]
      BY <2>7, <2>8, <2>9, <2>11, <2>12
    <3>4. Counts(w, j)
      BY <2>7, <2>8, <2>12, <3>2, <3>3
    <3> HIDE DEF Counts
    <3> QED
      BY <2>2, <3>1, <3>4
  <2>13. CASE x \notin dropped
    <3>1. l[j] = Append(w, x)
      BY <2>6, <2>13
    <3> HIDE DEF w, x, p
    <3> DEFINE v == Append(w, x)
    <3>2. /\ v \in Seq(S) /\ Len(v) = p + 1
          /\ \A k \in 1..p : v[k] = w[k]
          /\ v[p + 1] = x
      BY <2>7
    <3> HIDE DEF v
    <3>3. c[j] = p + 1 /\ \A k \in 1..c[j] : k \in 1..p \/ k = p + 1
      BY <2>7, <2>8, <2>13
    <3>4. \A k \in 1..c[j] :
             \E i \in 1..j : seq[i] \notin dropped /\ c[i] = k /\ v[k] = seq[i]
      <4> SUFFICES ASSUME NEW k \in 1..c[j]
                   PROVE  \E i \in 1..j : seq[i] \notin dropped /\ c[i] = k /\ v[k] = seq[i]
        OBVIOUS
      <4>1. CASE k \in 1..p
        <5>1. PICK i \in 1..(j - 1) : seq[i] \notin dropped /\ c[i] = k /\ w[k] = seq[i]
          BY <2>7, <4>1
        <5>2. v[k] = seq[i]
          BY <3>2, <4>1, <5>1
        <5> QED
          BY <2>10, <5>1, <5>2
      <4>2. CASE k = p + 1
        <5>1. j \in 1..j
          BY <2>4
        <5> QED
          BY <2>11, <2>13, <3>2, <3>3, <4>2, <5>1
      <4> QED
        BY <3>3, <4>1, <4>2
    <3>5. \A i \in 1..j : seq[i] \notin dropped => c[i] \in 1..c[j]
      <4>1. \A q \in 1..p : q \in 1..(p + 1)
        BY <2>7
      <4>2. p + 1 \in 1..(p + 1)
        BY <2>7
      <4> QED
        BY <2>7, <2>9, <3>3, <4>1, <4>2
    <3>6. Counts(v, j)
      BY <3>2, <3>3, <3>4, <3>5
    <3> HIDE DEF Counts
    <3> QED
      BY <2>2, <3>1, <3>6 DEF v
  <2> QED
    BY <2>12, <2>13
<1>5. Counts(l[n], n)
  <2>1. n \in 0..n
    BY <1>1
  <2> QED
    BY <1>4, <2>1
<1> QED
  BY <1>2, <1>5

\* A quotient and a remainder determine each other.
LEMMA QuotientIs ==
    ASSUME NEW d \in Nat, d > 0, NEW i \in Nat, NEW q \in Nat, NEW r \in Nat, r < d,
           i = d * q + r
    PROVE  i \div d = q /\ i % d = r
<1> DEFINE a == i \div d
           b == i % d
<1>1. a \in Int /\ b \in Nat /\ b < d /\ i = d * a + b
  OBVIOUS
<1> HIDE DEF a, b
<1>2. a - q \in Int /\ d * (a - q) = r - b
  BY <1>1
<1>3. a - q = 0
  <2>1. PICK m \in Int : m = a - q
    BY <1>2
  <2>2. d * m > 0 - d /\ d * m < d
    BY <1>1, <1>2, <2>1
  <2>3. CASE m >= 1
    <3>1. d * m = d * (m - 1) + d /\ m - 1 \in Nat
      BY <2>1, <2>3
    <3>2. d * (m - 1) >= 0
      BY <3>1
    <3> QED
      BY <2>1, <2>2, <3>1, <3>2
  <2>4. CASE m <= 0 - 1
    <3>1. d * m = 0 - (d * (0 - m - 1)) - d /\ 0 - m - 1 \in Nat
      BY <2>1, <2>4
    <3>2. d * (0 - m - 1) >= 0
      BY <3>1
    <3> QED
      BY <2>1, <2>2, <3>1, <3>2
  <2> QED
    BY <2>1, <2>3, <2>4
<1>4. a = q /\ b = r
  BY <1>1, <1>2, <1>3
<1> QED
  BY <1>4 DEF a, b
=============================================================================
