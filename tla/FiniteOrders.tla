---------------------------- MODULE FiniteOrders ----------------------------
(***************************************************************************)
(* The least and the greatest of a finite set, for any order: the nearest  *)
(* of some results, the most advanced of some copies.  And functions that  *)
(* are defined step by step, as loops are: that there is such a function,  *)
(* and that what every step keeps holds of all its values.                 *)
(***************************************************************************)
EXTENDS Integers, FiniteSets, FiniteSetTheorems, WellFoundedInduction, TLAPS

\* A finite set has a minimal element under a transitive, irreflexive relation:
\* the one with the fewest below it.
LEMMA Minimal ==
    ASSUME NEW T, IsFiniteSet(T), T # {},
           NEW Below, \A x \in T : <<x, x>> \notin Below,
           \A x, y, z \in T : <<x, y>> \in Below /\ <<y, z>> \in Below => <<x, z>> \in Below
    PROVE  \E x \in T : \A y \in T : <<y, x>> \notin Below
<1> DEFINE Under(x) == {y \in T : <<y, x>> \in Below}
           Unders   == {U \in SUBSET T : \E x \in T : U = Under(x)}
<1>1. IsWellFoundedOn(StrictSubsetOrdering(T), FiniteSubsetsOf(T))
  BY FS_StrictSubsetOrderingWellFounded
<1>2. Unders \subseteq FiniteSubsetsOf(T) /\ Unders # {}
  <2>1. FiniteSubsetsOf(T) = SUBSET T
    BY FS_FiniteSubsetsOfFinite
  <2>2. \A x \in T : Under(x) \in Unders
    OBVIOUS
  <2> QED BY <2>1, <2>2
<1>3. PICK U \in Unders : \A V \in Unders : <<V, U>> \notin StrictSubsetOrdering(T)
  <2> HIDE DEF Unders
  <2> QED BY <1>1, <1>2, WFMin
<1>4. PICK x \in T : U = Under(x)
  OBVIOUS
<1>5. ASSUME NEW y \in T, <<y, x>> \in Below PROVE FALSE
  <2>1. Under(y) \subseteq Under(x) /\ y \in Under(x) /\ y \notin Under(y)
    BY <1>5
  <2>2. Under(y) # Under(x)
    BY <2>1
  <2>3. <<Under(y), Under(x)>> \in StrictSubsetOrdering(T)
    BY <2>1, <2>2 DEF StrictSubsetOrdering
  <2> QED BY <1>3, <1>4, <2>3
<1> QED BY <1>5

\* A finite set has an element where a number is greatest.
LEMMA Greatest ==
    ASSUME NEW T, IsFiniteSet(T), T # {}, NEW Size, Size \in [T -> Nat]
    PROVE  \E x \in T : \A y \in T : Size[y] <= Size[x]
<1> DEFINE Below == {e \in T \X T : Size[e[2]] < Size[e[1]]}
<1>1. \A x, y \in T : <<x, y>> \in Below <=> Size[y] < Size[x]
  OBVIOUS
<1>2. \A x \in T : Size[x] \in Nat
  OBVIOUS
<1> HIDE DEF Below
<1>3. \E x \in T : \A y \in T : <<y, x>> \notin Below
  <2>1. \A x \in T : <<x, x>> \notin Below
    BY <1>1, <1>2
  <2>2. ASSUME NEW x \in T, NEW y \in T, NEW z \in T, <<x, y>> \in Below, <<y, z>> \in Below
        PROVE  <<x, z>> \in Below
    <3>1. Size[y] < Size[x] /\ Size[z] < Size[y] /\ Size[x] \in Nat /\ Size[y] \in Nat /\ Size[z] \in Nat
      BY <1>1, <1>2, <2>2
    <3>2. Size[z] < Size[x]
      BY <3>1
    <3> QED BY <1>1, <3>2
  <2> QED BY <2>1, <2>2, Minimal
<1>4. PICK x \in T : \A y \in T : <<y, x>> \notin Below
  BY <1>3
<1>5. ASSUME NEW y \in T PROVE Size[y] <= Size[x]
  <2>1. ~(Size[x] < Size[y]) /\ Size[x] \in Nat /\ Size[y] \in Nat
    BY <1>1, <1>2, <1>4
  <2> QED BY <2>1
<1> QED BY <1>5

\* And one where it is least.
LEMMA Least ==
    ASSUME NEW T, IsFiniteSet(T), T # {}, NEW Size, Size \in [T -> Nat]
    PROVE  \E x \in T : \A y \in T : Size[x] <= Size[y]
<1> DEFINE Below == {e \in T \X T : Size[e[1]] < Size[e[2]]}
<1>1. \A x, y \in T : <<x, y>> \in Below <=> Size[x] < Size[y]
  OBVIOUS
<1>2. \A x \in T : Size[x] \in Nat
  OBVIOUS
<1> HIDE DEF Below
<1>3. \E x \in T : \A y \in T : <<y, x>> \notin Below
  <2>1. \A x \in T : <<x, x>> \notin Below
    BY <1>1, <1>2
  <2>2. ASSUME NEW x \in T, NEW y \in T, NEW z \in T, <<x, y>> \in Below, <<y, z>> \in Below
        PROVE  <<x, z>> \in Below
    <3>1. Size[x] < Size[y] /\ Size[y] < Size[z] /\ Size[x] \in Nat /\ Size[y] \in Nat /\ Size[z] \in Nat
      BY <1>1, <1>2, <2>2
    <3>2. Size[x] < Size[z]
      BY <3>1
    <3> QED BY <1>1, <3>2
  <2> QED BY <2>1, <2>2, Minimal
<1>4. PICK x \in T : \A y \in T : <<y, x>> \notin Below
  BY <1>3
<1>5. ASSUME NEW y \in T PROVE Size[x] <= Size[y]
  <2>1. ~(Size[y] < Size[x]) /\ Size[x] \in Nat /\ Size[y] \in Nat
    BY <1>1, <1>2, <1>4
  <2> QED BY <2>1
<1> QED BY <1>5

\* The elements of a finite set in a total order have the ranks 0, 1, and so on:
\* how many are below them.  Under[x] is what is below x.
LEMMA Ranks ==
    ASSUME NEW T, IsFiniteSet(T), NEW Under \in [T -> SUBSET T],
           \A x \in T : x \notin Under[x],
           \A x, y, z \in T : x \in Under[y] /\ y \in Under[z] => x \in Under[z],
           \A x, y \in T : x = y \/ x \in Under[y] \/ y \in Under[x]
    PROVE  /\ Cardinality(T) \in Nat
           /\ \A x \in T : Cardinality(Under[x]) \in 0..Cardinality(T) - 1
           /\ \A x, y \in T : Cardinality(Under[x]) = Cardinality(Under[y]) => x = y
           /\ \A m \in 0..Cardinality(T) - 1 : \E x \in T : Cardinality(Under[x]) = m
<1> DEFINE n == Cardinality(T)
           rank == [x \in T |-> Cardinality(Under[x])]
<1>1. n \in Nat
  BY FS_CardinalityType
<1>2. ASSUME NEW x \in T
      PROVE  IsFiniteSet(Under[x]) /\ rank[x] = Cardinality(Under[x]) /\ rank[x] \in 0..n - 1
  <2>1. Under[x] \in SUBSET T /\ Under[x] # T
    OBVIOUS
  <2>2. /\ IsFiniteSet(Under[x]) /\ Cardinality(Under[x]) <= n
        /\ n = Cardinality(Under[x]) => T = Under[x]
    BY <2>1, FS_Subset
  <2>3. Cardinality(Under[x]) \in Nat
    BY <2>2, FS_CardinalityType
  <2> QED BY <1>1, <2>1, <2>2, <2>3
<1>3. ASSUME NEW x \in T, NEW y \in T, x \in Under[y]
      PROVE  rank[x] # rank[y]
  <2>1. Under[x] \in SUBSET Under[y] /\ x \notin Under[x]
    BY <1>3
  <2>2. Cardinality(Under[y]) = Cardinality(Under[x]) => Under[y] = Under[x]
    BY <1>2, <2>1, FS_Subset
  <2> QED BY <1>2, <1>3, <2>1, <2>2
<1>4. rank \in [T -> 0..n - 1]
  BY <1>2
<1>5. \A x, y \in T : rank[x] = rank[y] => x = y
  BY <1>3
<1>6. \A m \in 0..n - 1 : \E x \in T : rank[x] = m
  <2>1. rank \in Injection(T, 0..n - 1)
    BY <1>4, <1>5 DEF Injection, IsInjective
  <2>2. IsFiniteSet(0..n - 1) /\ Cardinality(0..n - 1) = n
    <3>1. 0 \in Int /\ n - 1 \in Int
      BY <1>1
    <3>2. IsFiniteSet(0..n - 1) /\ Cardinality(0..n - 1) = IF 0 > n - 1 THEN 0 ELSE n - 1 - 0 + 1
      BY <3>1, FS_Interval
    <3> QED BY <1>1, <3>2
  <2>3. rank \in Surjection(T, 0..n - 1)
    BY <2>1, <2>2, FS_Injection
  <2> QED BY <2>3 DEF Surjection
<1> QED BY <1>1, <1>2, <1>5, <1>6

\* Of the elements of a finite set in a total order, exactly k have fewer than k below
\* them, and all of them if there are no more than k: what the k nearest of a
\* set are.
LEMMA LowestOnes ==
    ASSUME NEW T, IsFiniteSet(T), NEW Under \in [T -> SUBSET T], NEW k \in Nat,
           \A x \in T : x \notin Under[x],
           \A x, y, z \in T : x \in Under[y] /\ y \in Under[z] => x \in Under[z],
           \A x, y \in T : x = y \/ x \in Under[y] \/ y \in Under[x],
           NEW lowest \in SUBSET T, \A x \in T : x \in lowest <=> Cardinality(Under[x]) < k
    PROVE  /\ Cardinality(T) <= k => lowest = T
           /\ k <= Cardinality(T) => Cardinality(lowest) = k
<1> DEFINE n == Cardinality(T)
           rank == [x \in T |-> Cardinality(Under[x])]
<1>1. n \in Nat /\ \A x \in T : rank[x] \in 0..n - 1
  BY Ranks
<1>2. \A x, y \in T : rank[x] = rank[y] => x = y
  BY Ranks
<1>3. \A m \in 0..n - 1 : \E x \in T : rank[x] = m
  BY Ranks
<1>4. lowest \in SUBSET T /\ \A x \in T : x \in lowest <=> rank[x] < k
  OBVIOUS
<1> HIDE DEF n, rank
<1>5. n <= k => lowest = T
  <2>1. ASSUME n <= k, NEW x \in T PROVE x \in lowest
    BY <1>1, <1>4, <2>1
  <2> QED BY <1>4, <2>1
<1>6. ASSUME k <= n PROVE Cardinality(lowest) = k
  <2> DEFINE place == [x \in lowest |-> rank[x]]
  <2>1. lowest \in SUBSET T
    BY <1>4
  <2>2. IsFiniteSet(lowest)
    BY <2>1, FS_Subset
  <2>3. place \in [lowest -> 0..k - 1]
    BY <1>1, <1>4, <2>1
  <2>4. \A x, y \in lowest : place[x] = place[y] => x = y
    BY <1>2, <2>1
  <2>5. ASSUME NEW m \in 0..k - 1 PROVE \E x \in lowest : place[x] = m
    <3>1. m \in 0..n - 1 /\ m < k
      BY <1>1, <1>6
    <3>2. PICK x \in T : rank[x] = m
      BY <1>3, <3>1
    <3> QED BY <1>4, <3>1, <3>2
  <2> HIDE DEF place
  <2>6. place \in Bijection(lowest, 0..k - 1)
    BY <2>3, <2>4, <2>5 DEF Bijection, Injection, Surjection, IsInjective
  <2>7. Cardinality(0..k - 1) = Cardinality(lowest)
    BY <2>2, <2>6, FS_Bijection DEF ExistsBijection
  <2>8. Cardinality(0..k - 1) = k
    <3>1. 0 \in Int /\ k - 1 \in Int
      OBVIOUS
    <3>2. Cardinality(0..k - 1) = IF 0 > k - 1 THEN 0 ELSE k - 1 - 0 + 1
      BY <3>1, FS_Interval
    <3> QED BY <3>2
  <2> QED BY <2>7, <2>8
<1> QED BY <1>5, <1>6 DEF n

-----------------------------------------------------------------------------
(***************************************************************************)
(* Functions whose value at i comes from the one at i - 1: the state of a  *)
(* loop after i rounds.  S[i] is a set that the state after i rounds is    *)
(* in, which is how a loop's invariant is said here.                       *)
(***************************************************************************)
\* A property of the rounds of a loop that holds at first and is kept by every round.
LEMMA Rounds ==
    ASSUME NEW N \in Nat, NEW Good \in SUBSET (0..N), 0 \in Good,
           \A i \in 1..N : i - 1 \in Good => i \in Good
    PROVE  Good = 0..N
<1> SUFFICES ASSUME (0..N) \ Good # {} PROVE FALSE
  OBVIOUS
<1> DEFINE Bad  == (0..N) \ Good
           Size == [i \in Bad |-> i]
<1>1. IsFiniteSet(Bad)
  <2>1. 0 \in Int /\ N \in Int
    OBVIOUS
  <2>2. IsFiniteSet(0..N)
    BY <2>1, FS_Interval
  <2> QED BY <2>2, FS_Subset
<1>2. Size \in [Bad -> Nat]
  OBVIOUS
<1>3. \E i \in Bad : \A j \in Bad : Size[i] <= Size[j]
  <2> HIDE DEF Bad, Size
  <2> QED BY <1>1, <1>2, Least DEF Bad
<1>4. PICK i \in Bad : \A j \in Bad : i <= j
  BY <1>3
<1>5. i \in 1..N
  OBVIOUS
<1>6. i - 1 \in Good
  BY <1>4, <1>5
<1> QED BY <1>5, <1>6

\* Such a function stays in the sets S[i] if every step does.
LEMMA StepsStay ==
    ASSUME NEW N \in Nat, NEW S, NEW h, h[0] \in S[0],
           \A i \in 1..N : h[i - 1] \in S[i - 1] => h[i] \in S[i]
    PROVE  \A i \in 0..N : h[i] \in S[i]
<1> DEFINE Good == {i \in 0..N : h[i] \in S[i]}
<1>1. Good \in SUBSET (0..N) /\ 0 \in Good
  OBVIOUS
<1>2. ASSUME NEW i \in 1..N, i - 1 \in Good PROVE i \in Good
  BY <1>2
<1>3. Good = 0..N
  <2> HIDE DEF Good
  <2> QED BY <1>1, <1>2, Rounds
<1> QED BY <1>3

\* f goes from init by the steps, in the sets S[i].
StepFunction(f, N, S, init, step) ==
    /\ f = [i \in 0..N |-> f[i]] /\ f[0] = init
    /\ \A i \in 1..N : f[i] = step[i][f[i - 1]]
    /\ \A i \in 0..N : f[i] \in S[i]

\* There is such a function: so the definition of a recursive one defines it.
LEMMA StepsExist ==
    ASSUME NEW N \in Nat, NEW S, NEW init \in S[0], NEW step,
           \A i \in 1..N : \A x \in S[i - 1] : step[i][x] \in S[i]
    PROVE  \E f : StepFunction(f, N, S, init, step)
<1> DEFINE Upto(n, f) == /\ f = [i \in 0..n |-> f[i]] /\ f[0] = init
                         /\ \A i \in 1..n : f[i] = step[i][f[i - 1]]
                         /\ \A i \in 0..n : f[i] \in S[i]
           Good == {n \in 0..N : \E f : Upto(n, f)}
<1>1. Good \in SUBSET (0..N)
  OBVIOUS
<1>2. 0 \in Good
  <2>1. Upto(0, [i \in 0..0 |-> init])
    OBVIOUS
  <2> HIDE DEF Upto
  <2> QED BY <2>1
<1>3. ASSUME NEW n \in 1..N, n - 1 \in Good PROVE n \in Good
  <2>1. PICK f : Upto(n - 1, f)
    BY <1>3
  <2> DEFINE g == [i \in 0..n |-> IF i = n THEN step[n][f[n - 1]] ELSE f[i]]
  <2>2. \A i \in 0..n - 1 : g[i] = f[i]
    OBVIOUS
  <2>3. g[n] = step[n][g[n - 1]] /\ g[n] \in S[n]
    BY <2>1
  <2>4. g = [i \in 0..n |-> g[i]]
    OBVIOUS
  <2>5. g[0] = init
    BY <2>1, <2>2
  <2> HIDE DEF g
  <2>6. \A i \in 1..n : g[i] = step[i][g[i - 1]]
    <3>1. \A i \in 1..n - 1 : g[i] = step[i][g[i - 1]]
      <4>1. \A i \in 1..n - 1 : i \in 0..n - 1 /\ i - 1 \in 0..n - 1
        OBVIOUS
      <4>2. \A i \in 1..n - 1 : f[i] = step[i][f[i - 1]]
        BY <2>1
      <4> QED BY <2>2, <4>1, <4>2
    <3>2. \A i \in 1..n : i = n \/ i \in 1..n - 1
      OBVIOUS
    <3> QED BY <2>3, <3>1, <3>2
  <2>7. \A i \in 0..n : g[i] \in S[i]
    <3>1. \A i \in 0..n - 1 : g[i] \in S[i]
      BY <2>1, <2>2
    <3>2. \A i \in 0..n : i = n \/ i \in 0..n - 1
      OBVIOUS
    <3> QED BY <2>3, <3>1, <3>2
  <2>8. Upto(n, g)
    BY <2>4, <2>5, <2>6, <2>7
  <2> HIDE DEF Upto
  <2>9. n \in 0..N
    OBVIOUS
  <2> QED BY <2>8, <2>9
<1>4. Good = 0..N
  <2> HIDE DEF Good
  <2> QED BY <1>1, <1>2, <1>3, Rounds
<1>5. N \in Good
  BY <1>4
<1>6. PICK f : Upto(N, f)
  BY <1>5
<1> QED BY <1>6 DEF StepFunction

\* The same for a loop that counts down from N.
DownFunction(f, N, S, init, step) ==
    /\ f = [i \in 0..N |-> f[i]] /\ f[N] = init
    /\ \A i \in 0..N - 1 : f[i] = step[i][f[i + 1]]
    /\ \A i \in 0..N : f[i] \in S[i]

LEMMA StepsDownStay ==
    ASSUME NEW N \in Nat, NEW S, NEW h, h[N] \in S[N],
           \A i \in 0..N - 1 : h[i + 1] \in S[i + 1] => h[i] \in S[i]
    PROVE  \A i \in 0..N : h[i] \in S[i]
<1> DEFINE Good == {i \in 0..N : h[N - i] \in S[N - i]}
<1>1. Good \in SUBSET (0..N) /\ 0 \in Good
  OBVIOUS
<1>2. ASSUME NEW i \in 1..N, i - 1 \in Good PROVE i \in Good
  <2>1. N - i \in 0..N - 1 /\ (N - i) + 1 = N - (i - 1)
    OBVIOUS
  <2> QED BY <1>2, <2>1
<1>3. Good = 0..N
  <2> HIDE DEF Good
  <2> QED BY <1>1, <1>2, Rounds
<1>4. ASSUME NEW i \in 0..N PROVE h[i] \in S[i]
  <2>1. N - i \in 0..N /\ N - (N - i) = i
    OBVIOUS
  <2>2. N - i \in Good
    BY <1>3, <2>1
  <2> QED BY <2>1, <2>2
<1> QED BY <1>4

LEMMA StepsDownExist ==
    ASSUME NEW N \in Nat, NEW S, NEW init \in S[N], NEW step,
           \A i \in 0..N - 1 : \A x \in S[i + 1] : step[i][x] \in S[i]
    PROVE  \E f : DownFunction(f, N, S, init, step)
<1> DEFINE T == [i \in 0..N |-> S[N - i]]
           up == [i \in 1..N |-> step[N - i]]
<1>1. init \in T[0]
  OBVIOUS
<1>2. ASSUME NEW i \in 1..N, NEW x \in T[i - 1] PROVE up[i][x] \in T[i]
  <2>1. N - i \in 0..N - 1 /\ (N - i) + 1 = N - (i - 1) /\ i - 1 \in 0..N /\ i \in 0..N
    OBVIOUS
  <2>2. x \in S[(N - i) + 1]
    BY <1>2, <2>1
  <2> QED BY <2>1, <2>2
<1>3. \E g : StepFunction(g, N, T, init, up)
  <2> HIDE DEF T, up
  <2> QED BY <1>1, <1>2, StepsExist
<1>4. PICK g : /\ g[0] = init
               /\ \A i \in 1..N : g[i] = up[i][g[i - 1]]
               /\ \A i \in 0..N : g[i] \in T[i]
  BY <1>3 DEF StepFunction
<1> DEFINE f == [i \in 0..N |-> g[N - i]]
<1>5. f = [i \in 0..N |-> f[i]] /\ f[N] = init
  BY <1>4
<1>6. ASSUME NEW i \in 0..N - 1 PROVE f[i] = step[i][f[i + 1]]
  <2>1. /\ N - i \in 1..N /\ N - (N - i) = i /\ (N - i) - 1 = N - (i + 1)
        /\ i \in 0..N /\ i + 1 \in 0..N
    OBVIOUS
  <2>2. g[N - i] = up[N - i][g[(N - i) - 1]]
    BY <1>4, <2>1
  <2>3. up[N - i] = step[i]
    BY <2>1
  <2> QED BY <2>1, <2>2, <2>3
<1>7. ASSUME NEW i \in 0..N PROVE f[i] \in S[i]
  <2>1. N - i \in 0..N /\ N - (N - i) = i
    OBVIOUS
  <2>2. g[N - i] \in T[N - i]
    BY <1>4, <2>1
  <2> QED BY <2>1, <2>2
<1> HIDE DEF f
<1> QED BY <1>5, <1>6, <1>7 DEF DownFunction

=============================================================================
