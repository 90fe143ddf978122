---------------------------- MODULE ProgramProofs ----------------------------
(***************************************************************************)
(* What a compiled program's tables contain, for every well-formed         *)
(* program, and what the reference definitions of Language find in an      *)
(* input: the facts the scanners' proofs rest on.  Before them, facts      *)
(* about data that all proofs share: sequences, and induction and          *)
(* recursion on natural numbers, stated with sets and functions in place   *)
(* of predicates, so that every prover can use them.                       *)
(***************************************************************************)
EXTENDS Language, SequencesExt, FiniteSetTheorems, WellFoundedInduction, TLAPS

------------------------------------------------------------------------------
\* What two sequences make when one follows the other.
LEMMA Concatenated ==
  ASSUME NEW T, NEW a \in Seq(T), NEW b \in Seq(T)
  PROVE  /\ a \o b \in Seq(T) /\ Len(a \o b) = Len(a) + Len(b)
         /\ Len(a) \in Nat /\ Len(b) \in Nat
         /\ \A i \in 1 .. Len(a) : (a \o b)[i] = a[i]
         /\ \A i \in 1 .. Len(b) : (a \o b)[Len(a) + i] = b[i]
OBVIOUS

\* Concatenation is associative.
LEMMA ConcatenatedTwice ==
  ASSUME NEW T, NEW a \in Seq(T), NEW b \in Seq(T), NEW c \in Seq(T)
  PROVE  (a \o b) \o c = a \o (b \o c)
OBVIOUS

\* A function on 1 .. n is a sequence.
LEMMA FunctionIsSeq ==
  ASSUME NEW T, NEW n \in Nat, NEW f \in [1 .. n -> T]
  PROVE  f \in Seq(T) /\ Len(f) = n
OBVIOUS

\* A sequence is the function of its elements.
LEMMA SeqIsFunction ==
  ASSUME NEW T, NEW a \in Seq(T)
  PROVE  a = [i \in 1 .. Len(a) |-> a[i]]
OBVIOUS

\* Sequences of the same elements are the same.
LEMMA SameSeq ==
  ASSUME NEW T, NEW a \in Seq(T), NEW b \in Seq(T), Len(a) = Len(b),
         \A i \in 1 .. Len(a) : a[i] = b[i]
  PROVE  a = b
OBVIOUS

\* A pair is a sequence.
LEMMA PairIsSeq ==
  ASSUME NEW T, NEW x \in T \X T
  PROVE  x \in Seq(T) /\ Len(x) = 2
<1>1. x = <<x[1], x[2]>> /\ x[1] \in T /\ x[2] \in T
  OBVIOUS
<1>2. \A a, b \in T : <<a, b>> \in Seq(T) /\ Len(<<a, b>>) = 2
  OBVIOUS
<1> QED BY <1>1, <1>2

------------------------------------------------------------------------------
\* A nonempty set of naturals has a least element.
LEMMA LeastElement ==
  ASSUME NEW T, T \subseteq Nat, T # {}
  PROVE  \E m \in T : \A n \in T : m <= n
<1> DEFINE R == OpToRel(<, Nat)
<1>1. IsWellFoundedOn(R, Nat)
  BY NatLessThanWellFounded
<1>2. \A x, y \in Nat : x < y => <<x, y>> \in R
  BY DEF OpToRel
<1> HIDE DEF R
<1>3. PICK m \in T : \A y \in T : ~ (<<y, m>> \in R)
  BY <1>1, WFMin
<1>4. \A n \in T : n \in Nat /\ m \in Nat /\ ~ (n < m)
  BY <1>2, <1>3
<1>5. \A n \in T : m <= n
  BY <1>4
<1> QED BY <1>3, <1>5

\* A set that has 0 and is closed under successors has all of 0 .. N.
LEMMA InductionUpTo ==
  ASSUME NEW N \in Nat, NEW S, 0 \in S, \A n \in 0 .. N - 1 : n \in S => n + 1 \in S
  PROVE  \A n \in 0 .. N : n \in S
<1> SUFFICES ASSUME NEW k \in 0 .. N, k \notin S PROVE FALSE
  OBVIOUS
<1> DEFINE T == {n \in 0 .. N : n \notin S}
<1>1. PICK m \in T : \A n \in T : m <= n
  <2>1. T \subseteq Nat /\ T # {}
    OBVIOUS
  <2> HIDE DEF T
  <2> QED BY <2>1, LeastElement
<1>2. m # 0 /\ m - 1 \in 0 .. N - 1
  OBVIOUS
<1>3. m - 1 \in S
  <2>1. m - 1 \notin T
    BY <1>1, <1>2
  <2> QED BY <1>2, <2>1
<1>4. (m - 1) + 1 = m
  OBVIOUS
<1> QED BY <1>2, <1>3, <1>4

\* Functions that start alike and go on alike are alike.
LEMMA SameRecursion ==
  ASSUME NEW N \in Nat, NEW f, NEW g, f[0] = g[0],
         \A n \in 0 .. N - 1 : f[n] = g[n] => f[n + 1] = g[n + 1]
  PROVE  \A n \in 0 .. N : f[n] = g[n]
<1> DEFINE S == {n \in 0 .. N : f[n] = g[n]}
<1>1. 0 \in S
  OBVIOUS
<1>2. \A n \in 0 .. N - 1 : n \in S => n + 1 \in S
  OBVIOUS
<1>3. \A n \in 0 .. N : n \in S
  <2> HIDE DEF S
  <2> QED BY <1>1, <1>2, InductionUpTo
<1> QED BY <1>3

\* f is the function on 0 .. N that a first value and a step function define.
Recursive(f, N, V, first, step) ==
  /\ f \in [0 .. N -> V]
  /\ f[0] = first
  /\ \A n \in 0 .. N - 1 : f[n + 1] = step[<<n, f[n]>>]

\* A first value and a step function define a function.
LEMMA RecursionExists ==
  ASSUME NEW N \in Nat, NEW V, NEW first \in V, NEW step \in [(0 .. N - 1) \X V -> V]
  PROVE  \E f : Recursive(f, N, V, first, step)
<1> USE DEF Recursive
<1> DEFINE Solves(f, m) == Recursive(f, m, V, first, step)
           S == {m \in 0 .. N : \E f \in [0 .. m -> V] : Solves(f, m)}
<1>1. 0 \in S
  <2> DEFINE f == [n \in 0 .. 0 |-> first]
  <2>1. Solves(f, 0)
    OBVIOUS
  <2>2. f \in [0 .. 0 -> V] /\ 0 \in 0 .. N
    OBVIOUS
  <2> HIDE DEF f, Solves
  <2> QED BY <2>1, <2>2
<1>2. ASSUME NEW m \in 0 .. N - 1, m \in S PROVE m + 1 \in S
  <2>1. PICK f : Solves(f, m)
    BY <1>2
  <2> DEFINE g == [n \in 0 .. m + 1 |-> IF n <= m THEN f[n] ELSE step[<<m, f[m]>>]]
  <2>2. step[<<m, f[m]>>] \in V
    BY <2>1
  <2>3. g \in [0 .. m + 1 -> V]
    BY <2>1, <2>2
  <2>4. \A n \in 0 .. m : g[n] = f[n]
    OBVIOUS
  <2>5. g[m + 1] = step[<<m, f[m]>>]
    OBVIOUS
  <2>6. ASSUME NEW n \in 0 .. (m + 1) - 1 PROVE g[n + 1] = step[<<n, g[n]>>]
    <3>1. CASE n = m
      BY <2>4, <2>5, <3>1
    <3>2. CASE n \in 0 .. m - 1
      <4>1. n + 1 \in 0 .. m /\ n \in 0 .. m
        BY <3>2
      <4>2. g[n + 1] = f[n + 1] /\ g[n] = f[n]
        BY <2>4, <4>1
      <4> QED BY <2>1, <3>2, <4>2
    <3> QED BY <3>1, <3>2
  <2>7. g[0] = first
    BY <2>1, <2>4
  <2>8. Solves(g, m + 1)
    <3> HIDE DEF g
    <3> QED BY <2>3, <2>6, <2>7
  <2>9. m + 1 \in 0 .. N
    OBVIOUS
  <2> HIDE DEF g, Solves
  <2> QED BY <2>3, <2>8, <2>9
<1>3. N \in S
  <2> HIDE DEF S
  <2> QED BY <1>1, <1>2, InductionUpTo
<1> QED BY <1>3

------------------------------------------------------------------------------
(***************************************************************************)
(* Induction and recursion along a rank.                                   *)
(***************************************************************************)

\* A set that has every element whose predecessors in rank it has is complete.
LEMMA RankInduction ==
  ASSUME NEW S, NEW d \in [S -> Nat], NEW X,
         \A f \in S : (\A g \in S : d[g] < d[f] => g \in X) => f \in X
  PROVE  \A f \in S : f \in X
<1> DEFINE T == {d[f] : f \in S \ X}
<1> SUFFICES ASSUME NEW f \in S, f \notin X PROVE FALSE
  OBVIOUS
<1>1. T \subseteq Nat /\ T # {}
  OBVIOUS
<1>2. PICK m \in T : \A n \in T : m <= n
  <2> HIDE DEF T
  <2> QED BY <1>1, LeastElement
<1>3. PICK g \in S \ X : d[g] = m
  OBVIOUS
<1>4. \A h \in S : d[h] < d[g] => h \in X
  <2> SUFFICES ASSUME NEW h \in S, d[h] < d[g], h \notin X PROVE FALSE
    OBVIOUS
  <2>1. d[h] \in T /\ d[h] \in Nat /\ d[g] \in Nat
    OBVIOUS
  <2> QED BY <1>2, <1>3, <2>1
<1> QED BY <1>3, <1>4

\* f[x] is val[x] where the recursion stops, and else what comb makes of the
\* value at the next place.
Descends(f, S, Stop, val, next, comb) ==
  f = [x \in S |-> IF x \in Stop THEN val[x] ELSE comb[<<x, f[next[x]]>>]]

\* A recursion that goes down in rank, from ranks up to N, defines a function.
LEMMA RankedRecursion ==
  ASSUME NEW S, NEW N \in Nat, NEW d \in [S -> 0 .. N], NEW next \in [S -> S], NEW Stop,
         NEW V, NEW val \in [S -> V], NEW comb \in [S \X V -> V],
         \A x \in S \ Stop : d[next[x]] < d[x]
  PROVE  \E f \in [S -> V] : Descends(f, S, Stop, val, next, comb)
<1> DEFINE F == [S -> V]
           Turn(g) == [x \in S |-> IF x \in Stop THEN val[x] ELSE comb[<<x, g[next[x]]>>]]
           M == N + 2
           step == [y \in (0 .. M - 1) \X F |-> Turn(y[2])]
<1>1. ASSUME NEW g \in F
             PROVE Turn(g) \in F /\ \A x \in S : Turn(g)[x] = IF x \in Stop THEN val[x] ELSE comb[<<x, g[next[x]]>>]
  <2>1. \A x \in S : (IF x \in Stop THEN val[x] ELSE comb[<<x, g[next[x]]>>]) \in V
    OBVIOUS
  <2> QED BY <2>1
<1>2. M \in Nat /\ N + 1 \in 0 .. M - 1 /\ val \in F /\ \A x \in S : d[x] \in Nat /\ d[x] < N + 1 /\ d[next[x]] \in Nat
  OBVIOUS
<1> HIDE DEF F, Turn, M
<1>3. /\ step \in [(0 .. M - 1) \X F -> F]
      /\ \A n \in 0 .. M - 1, g \in F : step[<<n, g>>] = Turn(g)
  BY <1>1
<1> HIDE DEF step
<1>4. PICK g : Recursive(g, M, F, val, step)
  BY <1>2, <1>3, RecursionExists
<1>5. \A n \in 0 .. M : g[n] \in F
  BY <1>4 DEF Recursive
<1>6. \A n \in 0 .. M - 1 : g[n + 1] = Turn(g[n]) /\ n \in 0 .. M /\ n + 1 \in 0 .. M
  <2> TAKE n \in 0 .. M - 1
  <2>1. n \in 0 .. M /\ n + 1 \in 0 .. M
    BY <1>2
  <2> QED BY <1>3, <1>4, <1>5, <2>1 DEF Recursive
<1> DEFINE Same == {n \in 0 .. N + 1 : \A x \in S : d[x] < n => g[n + 1][x] = g[n][x]}
<1>7. 0 \in Same
  BY <1>2
<1>8. ASSUME NEW n \in 0 .. (N + 1) - 1, n \in Same PROVE n + 1 \in Same
  <2>1. n \in 0 .. M - 1 /\ n + 1 \in 0 .. M - 1 /\ (n + 1) + 1 = n + 2 /\ n + 1 \in 0 .. N + 1
    BY DEF M
  <2>2. g[n] \in F /\ g[n + 1] \in F /\ g[n + 1] = Turn(g[n]) /\ g[n + 2] = Turn(g[n + 1])
    BY <1>5, <1>6, <2>1
  <2>3. ASSUME NEW x \in S, d[x] < n + 1 PROVE g[n + 2][x] = g[n + 1][x]
    <3>1. CASE x \in Stop
      BY <1>1, <2>2, <3>1
    <3>2. CASE x \notin Stop
      <4>1. d[next[x]] < n
        BY <1>2, <2>3, <3>2
      <4>2. g[n + 1][next[x]] = g[n][next[x]]
        BY <1>8, <4>1
      <4>3. Turn(g[n])[x] = comb[<<x, g[n][next[x]]>>]
        BY <1>1, <2>2, <3>2, Zenon
      <4>4. Turn(g[n + 1])[x] = comb[<<x, g[n + 1][next[x]]>>]
        BY <1>1, <2>2, <3>2, Zenon
      <4> QED BY <2>2, <4>2, <4>3, <4>4
    <3> QED BY <3>1, <3>2
  <2> QED BY <2>1, <2>3
<1>9. N + 1 \in Same
  <2> HIDE DEF Same
  <2>1. N + 1 \in Nat /\ N + 1 \in 0 .. N + 1
    OBVIOUS
  <2>2. \A n \in 0 .. N + 1 : n \in Same
    BY <1>7, <1>8, <2>1, InductionUpTo
  <2> QED BY <2>1, <2>2
<1> DEFINE f == g[N + 1]
<1>10. f \in F /\ g[N + 2] = f
  <2>1. g[N + 1] \in F /\ g[N + 2] \in F /\ (N + 1) + 1 = N + 2
    BY <1>1, <1>2, <1>5, <1>6
  <2>2. \A x \in S : g[N + 2][x] = g[N + 1][x]
    BY <1>2, <1>9, <2>1
  <2> QED BY <2>1, <2>2 DEF F
<1>11. f = Turn(f)
  <2>1. g[(N + 1) + 1] = Turn(g[N + 1])
    BY <1>2, <1>6
  <2>2. (N + 1) + 1 = N + 2
    OBVIOUS
  <2> QED BY <1>10, <2>1, <2>2
<1> HIDE DEF f
<1> QED BY <1>10, <1>11 DEF Descends, F, Turn

------------------------------------------------------------------------------
(***************************************************************************)
(* Finite sets of numbers.                                                 *)
(***************************************************************************)

\* A nonempty bounded set of naturals has a greatest element.
LEMMA BoundedGreatest ==
  ASSUME NEW T, NEW n \in Nat, T \subseteq 0 .. n, T # {}
  PROVE  \E t \in T : \A u \in T : u <= t
<1> DEFINE F == {k \in 0 .. n : \E t \in T : k = n - t}
<1>1. F \subseteq Nat /\ F # {}
  <2>1. PICK t : t \in T
    OBVIOUS
  <2>2. t \in 0 .. n /\ n - t \in 0 .. n
    BY <2>1
  <2>3. n - t \in F
    BY <2>1, <2>2
  <2> QED BY <2>3
<1>2. PICK m \in F : \A k \in F : m <= k
  <2> HIDE DEF F
  <2> QED BY <1>1, LeastElement
<1>3. PICK t \in T : m = n - t
  OBVIOUS
<1>4. \A u \in T : u <= t
  <2> SUFFICES ASSUME NEW u \in T PROVE u <= t
    OBVIOUS
  <2>1. u \in 0 .. n /\ t \in 0 .. n /\ n - u \in 0 .. n
    OBVIOUS
  <2>2. n - u \in F
    BY <2>1
  <2>3. m <= n - u
    BY <1>2, <2>2
  <2> QED BY <1>3, <2>1, <2>3
<1> QED BY <1>4

\* A finite set of numbers has a greatest element.
LEMMA MaxIn ==
  ASSUME NEW T, NEW n \in Nat, T \subseteq 0 .. n, T # {}
  PROVE  Max(T) \in T
<1>1. PICK t \in T : \A u \in T : u <= t
  BY BoundedGreatest
<1>2. \A u \in T : t >= u
  BY <1>1
<1> QED BY <1>2 DEF Max

\* The number of elements of K up to i.
Rank(K, i) == Cardinality({j \in K : j <= i})

\* Ranks number a finite set of naturals from 1, in order.
LEMMA RanksNumber ==
  ASSUME NEW K, K \subseteq Nat, IsFiniteSet(K)
  PROVE  /\ Cardinality(K) \in Nat
         /\ \A i \in K : Rank(K, i) \in 1 .. Cardinality(K)
         /\ \A i, j \in K : Rank(K, i) = Rank(K, j) => i = j
         /\ \A k \in 1 .. Cardinality(K) : \E i \in K : Rank(K, i) = k
<1> DEFINE N == Cardinality(K)
           Low(i) == {j \in K : j <= i}
           r == [i \in K |-> Rank(K, i)]
<1>1. N \in Nat
  BY FS_CardinalityType
<1>2. ASSUME NEW i \in K PROVE IsFiniteSet(Low(i)) /\ Rank(K, i) \in 1 .. N
  <2>1. Low(i) \in SUBSET K
    OBVIOUS
  <2>2. IsFiniteSet(Low(i)) /\ Cardinality(Low(i)) <= N
    BY <2>1, FS_Subset
  <2>3. Cardinality(Low(i)) \in Nat
    BY <2>2, FS_CardinalityType
  <2>4. Cardinality(Low(i)) # 0
    <3>1. i \in Low(i)
      OBVIOUS
    <3>2. Low(i) # {}
      BY <3>1
    <3> HIDE DEF Low
    <3> QED BY <2>2, <3>2, FS_EmptySet
  <2> QED BY <1>1, <2>2, <2>3, <2>4 DEF Rank
<1>3. ASSUME NEW i \in K, NEW j \in K, i < j PROVE Rank(K, i) # Rank(K, j)
  <2>1. Low(i) \in SUBSET Low(j)
    <3>1. \A k \in K : k \in Nat /\ (k <= i => k <= j)
      BY <1>3
    <3> QED BY <3>1
  <2>2. Low(i) # Low(j)
    <3>1. j \in Low(j) /\ j \notin Low(i)
      BY <1>3
    <3> HIDE DEF Low
    <3> QED BY <3>1
  <2> HIDE DEF Low
  <2>3. IsFiniteSet(Low(j))
    BY <1>2
  <2>4. Cardinality(Low(j)) # Cardinality(Low(i))
    BY <2>1, <2>2, <2>3, FS_Subset
  <2> QED BY <2>4 DEF Rank, Low
<1>4. \A i, j \in K : Rank(K, i) = Rank(K, j) => i = j
  BY <1>3
<1>5. r \in Injection(K, 1 .. N)
  <2>1. r \in [K -> 1 .. N]
    BY <1>2
  <2>2. \A i, j \in K : r[i] = r[j] => i = j
    BY <1>4
  <2> HIDE DEF r
  <2> QED BY <2>1, <2>2 DEF Injection, IsInjective
<1>6. IsFiniteSet(1 .. N) /\ Cardinality(1 .. N) = N
  BY <1>1, FS_Interval
<1>7. r \in Surjection(K, 1 .. N)
  <2> HIDE DEF r
  <2> QED BY <1>5, <1>6, FS_Injection
<1>8. \A k \in 1 .. N : \E i \in K : r[i] = k
  <2> HIDE DEF r
  <2> QED BY <1>7 DEF Surjection
<1> QED BY <1>1, <1>2, <1>4, <1>8

\* The values of a function on a finite set are finitely many.
LEMMA ImageFinite ==
  ASSUME NEW S, IsFiniteSet(S), NEW f
  PROVE  IsFiniteSet({f[s] : s \in S}) /\ Cardinality({f[s] : s \in S}) \in Nat
<1> DEFINE T == {f[s] : s \in S}
           g == [s \in S |-> f[s]]
<1>1. g \in [S -> T] /\ \A t \in T : \E s \in S : g[s] = t
  OBVIOUS
<1> HIDE DEF g, T
<1>2. g \in Surjection(S, T)
  BY <1>1 DEF Surjection
<1> QED BY <1>2, FS_Surjection, FS_CardinalityType DEF T

------------------------------------------------------------------------------
(***************************************************************************)
(* Strings.                                                                *)
(***************************************************************************)
Text == Seq(Byte)

\* Element by element, what IsSuffix says through reversed sequences.
LEMMA SuffixMeans ==
  ASSUME NEW u \in Text, NEW v \in Text
  PROVE  IsSuffix(u, v) <=>
           Len(u) <= Len(v) /\ \A i \in 1 .. Len(u) : u[i] = v[Len(v) - Len(u) + i]
<1> DEFINE m == Len(u)
           n == Len(v)
           ru == Reverse(u)
           rv == Reverse(v)
<1>1. m \in Nat /\ n \in Nat /\ u \in Seq(Byte) /\ v \in Seq(Byte)
  BY DEF Text
<1>2. ru \in Seq(Byte) /\ Len(ru) = m /\ \A i \in 1 .. m : ru[i] = u[m - i + 1]
  <2>1. ru = [i \in 1 .. m |-> u[(m - i) + 1]]
    BY DEF Reverse
  <2>2. \A i \in 1 .. m : (m - i) + 1 \in 1 .. m
    BY <1>1
  <2>3. ru \in [1 .. m -> Byte]
    BY <1>1, <2>1, <2>2
  <2> HIDE DEF ru, m
  <2> QED BY <1>1, <2>1, <2>3, FunctionIsSeq
<1>3. rv \in Seq(Byte) /\ Len(rv) = n /\ \A i \in 1 .. n : rv[i] = v[n - i + 1]
  <2>1. rv = [i \in 1 .. n |-> v[(n - i) + 1]]
    BY DEF Reverse
  <2>2. \A i \in 1 .. n : (n - i) + 1 \in 1 .. n
    BY <1>1
  <2>3. rv \in [1 .. n -> Byte]
    BY <1>1, <2>1, <2>2
  <2> HIDE DEF rv, n
  <2> QED BY <1>1, <2>1, <2>3, FunctionIsSeq
<1>4. IsSuffix(u, v) <=> m <= n /\ SubSeq(ru, 1, m) = SubSeq(rv, 1, m)
  BY <1>2, <1>3 DEF IsSuffix, IsPrefix
<1> HIDE DEF ru, rv, m, n
<1>5. ASSUME m <= n
      PROVE  SubSeq(ru, 1, m) = SubSeq(rv, 1, m) <=> \A i \in 1 .. m : ru[i] = rv[i]
  <2> DEFINE a == SubSeq(ru, 1, m)
             b == SubSeq(rv, 1, m)
  <2>1. a \in Seq(Byte) /\ Len(a) = m /\ \A i \in 1 .. m : a[i] = ru[i]
    BY <1>1, <1>2
  <2>2. b \in Seq(Byte) /\ Len(b) = m /\ \A i \in 1 .. m : b[i] = rv[i]
    BY <1>1, <1>3, <1>5
  <2> HIDE DEF a, b
  <2>3. (\A i \in 1 .. m : a[i] = b[i]) => a = b
    BY <2>1, <2>2, SameSeq
  <2> QED BY <2>1, <2>2, <2>3 DEF a, b
<1>6. ASSUME m <= n
      PROVE  (\A i \in 1 .. m : ru[i] = rv[i]) <=> \A i \in 1 .. m : u[i] = v[n - m + i]
  <2>1. ASSUME \A i \in 1 .. m : ru[i] = rv[i], NEW i \in 1 .. m PROVE u[i] = v[n - m + i]
    <3>1. m - i + 1 \in 1 .. m /\ m - i + 1 \in 1 .. n /\ m - (m - i + 1) + 1 = i
          /\ n - (m - i + 1) + 1 = n - m + i
      BY <1>1, <1>6
    <3> QED BY <1>2, <1>3, <2>1, <3>1
  <2>2. ASSUME \A i \in 1 .. m : u[i] = v[n - m + i], NEW i \in 1 .. m PROVE ru[i] = rv[i]
    <3>1. m - i + 1 \in 1 .. m /\ i \in 1 .. n /\ n - m + (m - i + 1) = n - i + 1
      BY <1>1, <1>6
    <3>2. u[m - i + 1] = v[n - m + (m - i + 1)]
      BY <2>2, <3>1
    <3>3. ru[i] = u[m - i + 1] /\ rv[i] = v[n - i + 1]
      BY <1>2, <1>3, <3>1
    <3> QED BY <3>1, <3>2, <3>3
  <2> QED BY <2>1, <2>2
<1> QED BY <1>4, <1>5, <1>6 DEF m, n

\* Suffixes are ordered, and those of one string by their lengths.
LEMMA SuffixOrder ==
  /\ \A v \in Text : IsSuffix(v, v) /\ IsSuffix(<<>>, v) /\ <<>> \in Text
  /\ \A u, v \in Text : IsSuffix(u, v) => Len(u) <= Len(v) /\ (Len(u) = Len(v) => u = v)
  /\ \A t, u, v \in Text : IsSuffix(t, u) /\ IsSuffix(u, v) => IsSuffix(t, v)
  /\ \A t, u, v \in Text : IsSuffix(t, v) /\ IsSuffix(u, v) /\ Len(t) <= Len(u) => IsSuffix(t, u)
<1>0. \A v \in Text : v \in Seq(Byte) /\ Len(v) \in Nat
  BY DEF Text
<1>1. ASSUME NEW v \in Text PROVE IsSuffix(v, v) /\ IsSuffix(<<>>, v) /\ <<>> \in Text
  <2>1. <<>> \in Text /\ Len(<<>>) = 0
    BY DEF Text
  <2>2. IsSuffix(<<>>, v)
    BY <1>0, <2>1, SuffixMeans
  <2>3. \A i \in 1 .. Len(v) : Len(v) - Len(v) + i = i
    BY <1>0
  <2> QED BY <1>0, <2>1, <2>2, <2>3, SuffixMeans
<1>2. ASSUME NEW u \in Text, NEW v \in Text, IsSuffix(u, v)
      PROVE  Len(u) <= Len(v) /\ (Len(u) = Len(v) => u = v)
  <2>1. Len(u) <= Len(v) /\ \A i \in 1 .. Len(u) : u[i] = v[Len(v) - Len(u) + i]
    BY <1>2, SuffixMeans
  <2>2. ASSUME Len(u) = Len(v) PROVE u = v
    <3>1. \A i \in 1 .. Len(u) : Len(v) - Len(u) + i = i
      BY <1>0, <2>2
    <3>2. \A i \in 1 .. Len(u) : u[i] = v[i]
      BY <2>1, <3>1
    <3> QED BY <1>0, <2>2, <3>2, SameSeq
  <2> QED BY <2>1, <2>2
<1>3. ASSUME NEW t \in Text, NEW u \in Text, NEW v \in Text, IsSuffix(t, u), IsSuffix(u, v)
      PROVE  IsSuffix(t, v)
  <2>1. /\ Len(t) <= Len(u) /\ \A i \in 1 .. Len(t) : t[i] = u[Len(u) - Len(t) + i]
        /\ Len(u) <= Len(v) /\ \A i \in 1 .. Len(u) : u[i] = v[Len(v) - Len(u) + i]
    BY <1>3, SuffixMeans
  <2>2. ASSUME NEW i \in 1 .. Len(t) PROVE t[i] = v[Len(v) - Len(t) + i]
    <3>1. Len(u) - Len(t) + i \in 1 .. Len(u)
          /\ Len(v) - Len(u) + (Len(u) - Len(t) + i) = Len(v) - Len(t) + i
      BY <1>0, <2>1
    <3> QED BY <2>1, <3>1
  <2>3. Len(t) <= Len(v)
    BY <1>0, <2>1
  <2> QED BY <2>2, <2>3, SuffixMeans
<1>4. ASSUME NEW t \in Text, NEW u \in Text, NEW v \in Text, IsSuffix(t, v), IsSuffix(u, v),
             Len(t) <= Len(u)
      PROVE  IsSuffix(t, u)
  <2>1. /\ Len(t) <= Len(v) /\ \A i \in 1 .. Len(t) : t[i] = v[Len(v) - Len(t) + i]
        /\ Len(u) <= Len(v) /\ \A i \in 1 .. Len(u) : u[i] = v[Len(v) - Len(u) + i]
    BY <1>4, SuffixMeans
  <2>2. ASSUME NEW i \in 1 .. Len(t) PROVE t[i] = u[Len(u) - Len(t) + i]
    <3>1. Len(u) - Len(t) + i \in 1 .. Len(u)
          /\ Len(v) - Len(u) + (Len(u) - Len(t) + i) = Len(v) - Len(t) + i
      BY <1>0, <1>4, <2>1
    <3> QED BY <2>1, <3>1
  <2> QED BY <1>4, <2>2, SuffixMeans
<1> QED BY <1>1, <1>2, <1>3, <1>4

\* One byte more.
LEMMA Appended ==
  ASSUME NEW v \in Text, NEW b \in Byte
  PROVE  /\ Append(v, b) \in Text /\ Len(Append(v, b)) = Len(v) + 1
         /\ \A i \in 1 .. Len(v) : Append(v, b)[i] = v[i]
         /\ Append(v, b)[Len(v) + 1] = b
         /\ Append(v, b) # <<>>
<1>1. v \in Seq(Byte)
  BY DEF Text
<1>2. /\ Append(v, b) \in Seq(Byte) /\ Len(Append(v, b)) = Len(v) + 1
      /\ \A i \in 1 .. Len(v) : Append(v, b)[i] = v[i]
      /\ Append(v, b)[Len(v) + 1] = b /\ Len(v) \in Nat
  BY <1>1
<1>3. Append(v, b) # <<>>
  <2>1. Len(<<>>) = 0
    OBVIOUS
  <2> QED BY <1>2, <2>1
<1> QED BY <1>2, <1>3 DEF Text

\* Strings that end alike were alike.
LEMMA AppendedAlike ==
  ASSUME NEW u \in Text, NEW v \in Text, NEW a \in Byte, NEW b \in Byte, Append(u, a) = Append(v,
         b)
  PROVE  u = v /\ a = b
<1>1. u \in Seq(Byte) /\ v \in Seq(Byte) /\ Len(u) \in Nat /\ Len(v) \in Nat
  BY DEF Text
<1>2. Len(u) = Len(v)
  BY <1>1, Appended
<1>3. a = b
  BY <1>2, Appended
<1>4. \A i \in 1 .. Len(u) : u[i] = v[i]
  BY <1>2, Appended
<1> QED BY <1>1, <1>2, <1>3, <1>4, SameSeq

\* A suffix grows with its string; and a suffix of one byte more has the byte.
LEMMA SuffixOfAppended ==
  ASSUME NEW v \in Text, NEW b \in Byte
  PROVE  /\ \A u \in Text : IsSuffix(u, v) => IsSuffix(Append(u, b), Append(v, b))
         /\ \A u \in Text, a \in Byte :
              IsSuffix(Append(u, a), Append(v, b)) => IsSuffix(u, v) /\ a = b
<1> DEFINE x == Append(v, b)
<1>1. x \in Text /\ Len(x) = Len(v) + 1 /\ \A i \in 1 .. Len(v) : x[i] = v[i]
  BY Appended
<1>2. x[Len(v) + 1] = b /\ Len(v) \in Nat
  BY Appended DEF Text
<1> HIDE DEF x
<1>3. ASSUME NEW u \in Text, NEW a \in Byte
      PROVE  /\ IsSuffix(u, v) /\ a = b => IsSuffix(Append(u, a), x)
             /\ IsSuffix(Append(u, a), x) => IsSuffix(u, v) /\ a = b
  <2> DEFINE y == Append(u, a)
  <2>1. y \in Text /\ Len(y) = Len(u) + 1 /\ (\A i \in 1 .. Len(u) : y[i] = u[i]) /\ y[Len(u) + 1] = a
    BY Appended
  <2>2. Len(u) \in Nat
    BY DEF Text
  <2> HIDE DEF y
  <2>3. ASSUME IsSuffix(u, v), a = b PROVE IsSuffix(y, x)
    <3>1. Len(u) <= Len(v) /\ \A i \in 1 .. Len(u) : u[i] = v[Len(v) - Len(u) + i]
      BY <2>3, SuffixMeans
    <3>2. ASSUME NEW i \in 1 .. Len(y) PROVE y[i] = x[Len(x) - Len(y) + i]
      <4>1. Len(x) - Len(y) + i = Len(v) - Len(u) + i
        BY <1>1, <1>2, <2>1, <2>2
      <4>2. CASE i = Len(u) + 1
        <5>1. Len(v) - Len(u) + i = Len(v) + 1
          BY <1>2, <2>2, <4>2
        <5> QED BY <1>2, <2>1, <2>3, <4>1, <4>2, <5>1
      <4>3. CASE i \in 1 .. Len(u)
        <5>1. Len(v) - Len(u) + i \in 1 .. Len(v)
          BY <1>2, <2>2, <3>1, <4>3
        <5> QED BY <1>1, <2>1, <3>1, <4>1, <4>3, <5>1
      <4> QED BY <2>1, <2>2, <4>2, <4>3
    <3>3. Len(y) <= Len(x)
      BY <1>1, <1>2, <2>1, <2>2, <3>1
    <3> QED BY <1>1, <2>1, <3>2, <3>3, SuffixMeans
  <2>4. ASSUME IsSuffix(y, x) PROVE IsSuffix(u, v) /\ a = b
    <3>1. Len(y) <= Len(x) /\ \A i \in 1 .. Len(y) : y[i] = x[Len(x) - Len(y) + i]
      BY <1>1, <2>1, <2>4, SuffixMeans
    <3>2. Len(u) <= Len(v)
      BY <1>1, <1>2, <2>1, <2>2, <3>1
    <3>3. a = b
      <4>1. Len(u) + 1 \in 1 .. Len(y) /\ Len(x) - Len(y) + (Len(u) + 1) = Len(v) + 1
        BY <1>1, <1>2, <2>1, <2>2
      <4> QED BY <1>2, <2>1, <3>1, <4>1
    <3>4. ASSUME NEW i \in 1 .. Len(u) PROVE u[i] = v[Len(v) - Len(u) + i]
      <4>1. i \in 1 .. Len(y) /\ Len(x) - Len(y) + i = Len(v) - Len(u) + i
            /\ Len(v) - Len(u) + i \in 1 .. Len(v)
        BY <1>1, <1>2, <2>1, <2>2, <3>2
      <4> QED BY <1>1, <2>1, <3>1, <4>1
    <3> QED BY <3>2, <3>3, <3>4, SuffixMeans
  <2> QED BY <2>3, <2>4 DEF y
<1> QED BY <1>3 DEF x

\* A string but for its first byte.
LEMMA TailMeans ==
  ASSUME NEW v \in Text, v # <<>>
  PROVE  /\ Tail(v) \in Text /\ Len(Tail(v)) = Len(v) - 1 /\ Len(v) \in Nat \ {0}
         /\ \A i \in 1 .. Len(v) - 1 : Tail(v)[i] = v[i + 1]
<1>1. v \in Seq(Byte)
  BY DEF Text
<1>2. Len(v) \in Nat \ {0}
  BY <1>1
<1> QED BY <1>1, <1>2 DEF Text

\* The proper suffixes of a string are the suffixes of its tail.
LEMMA ProperSuffix ==
  ASSUME NEW v \in Text, v # <<>>
  PROVE  \A u \in Text : IsSuffix(u, Tail(v)) <=> IsSuffix(u, v) /\ u # v
<1> DEFINE x == Tail(v)
<1>1. /\ x \in Text /\ Len(x) = Len(v) - 1 /\ Len(v) \in Nat \ {0}
      /\ \A i \in 1 .. Len(v) - 1 : x[i] = v[i + 1]
  BY TailMeans
<1> HIDE DEF x
<1>2. IsSuffix(x, v)
  <2>1. \A i \in 1 .. Len(x) : x[i] = v[Len(v) - Len(x) + i]
    BY <1>1
  <2> QED BY <1>1, <2>1, SuffixMeans
<1>3. ASSUME NEW u \in Text, IsSuffix(u, x) PROVE IsSuffix(u, v) /\ u # v
  <2>1. Len(u) <= Len(x) /\ IsSuffix(u, v)
    BY <1>1, <1>2, <1>3, SuffixOrder
  <2> QED BY <1>1, <2>1
<1>4. ASSUME NEW u \in Text, IsSuffix(u, v), u # v PROVE IsSuffix(u, x)
  <2>1. Len(u) <= Len(v) /\ Len(u) # Len(v) /\ Len(u) \in Nat
    BY <1>4, SuffixOrder DEF Text
  <2>2. Len(u) <= Len(x)
    BY <1>1, <2>1
  <2> QED BY <1>1, <1>2, <1>4, <2>2, SuffixOrder
<1> QED BY <1>3, <1>4 DEF x

\* Strings listed by falling length are numbered by how many are as long.
LEMMA ListedByLength ==
  ASSUME NEW E \in SUBSET Text, NEW n \in Nat, NEW q \in [1 .. n -> E],
         \A i, j \in 1 .. n : i < j => Len(q[j]) < Len(q[i]),
         \A e \in E : \E i \in 1 .. n : q[i] = e
  PROVE  [k \in 1 .. Cardinality(E) |->
            CHOOSE p \in E : Cardinality({e \in E : Len(e) >= Len(p)}) = k] = q
<1> DEFINE AsLong(p) == {e \in E : Len(e) >= Len(p)}
<1>1. \A e \in E : Len(e) \in Nat
  BY DEF Text
<1>2. \A i, j \in 1 .. n : Len(q[j]) >= Len(q[i]) <=> j <= i
  <2> SUFFICES ASSUME NEW i \in 1 .. n, NEW j \in 1 .. n PROVE Len(q[j]) >= Len(q[i]) <=> j <= i
    OBVIOUS
  <2>1. Len(q[i]) \in Nat /\ Len(q[j]) \in Nat /\ i \in Nat /\ j \in Nat
    BY <1>1
  <2>2. i < j => Len(q[j]) < Len(q[i])
    OBVIOUS
  <2>3. j < i => Len(q[i]) < Len(q[j])
    OBVIOUS
  <2> QED BY <2>1, <2>2, <2>3
<1>3. \A i, j \in 1 .. n : q[i] = q[j] => i = j
  BY <1>1, <1>2
<1>4. Cardinality(E) = n
  <2>1. q \in Bijection(1 .. n, E)
    BY <1>3 DEF Bijection, Injection, IsInjective, Surjection
  <2> QED BY <2>1, FS_CountingElements DEF ExistsBijection
<1>5. ASSUME NEW k \in 1 .. n PROVE Cardinality(AsLong(q[k])) = k
  <2> DEFINE S == AsLong(q[k])
             f == [i \in 1 .. k |-> q[i]]
  <2>1. \A i \in 1 .. k : i \in 1 .. n /\ q[i] \in S
    BY <1>2
  <2>2. \A e \in S : \E i \in 1 .. k : q[i] = e
    <3> SUFFICES ASSUME NEW e \in S PROVE \E i \in 1 .. k : q[i] = e
      OBVIOUS
    <3>1. PICK i \in 1 .. n : q[i] = e
      OBVIOUS
    <3>2. i <= k
      BY <1>2, <3>1
    <3> QED BY <3>1, <3>2
  <2> HIDE DEF S
  <2>3. f \in Bijection(1 .. k, S)
    <3>1. f \in [1 .. k -> S]
      BY <2>1
    <3>2. \A i, j \in 1 .. k : f[i] = f[j] => i = j
      BY <1>3, <2>1
    <3>3. \A e \in S : \E i \in 1 .. k : f[i] = e
      BY <2>2
    <3> HIDE DEF f
    <3> QED BY <3>1, <3>2, <3>3 DEF Bijection, Injection, IsInjective, Surjection
  <2>4. k \in Nat
    OBVIOUS
  <2> HIDE DEF f
  <2>5. Cardinality(S) = k
    BY <2>3, <2>4, FS_CountingElements DEF ExistsBijection
  <2> QED BY <2>5 DEF S
<1>6. ASSUME NEW k \in 1 .. n PROVE (CHOOSE p \in E : Cardinality(AsLong(p)) = k) = q[k]
  <2>1. q[k] \in E /\ Cardinality(AsLong(q[k])) = k
    BY <1>5
  <2>2. ASSUME NEW p \in E, Cardinality(AsLong(p)) = k PROVE p = q[k]
    <3>1. PICK j \in 1 .. n : q[j] = p
      OBVIOUS
    <3>2. j = k
      BY <1>5, <2>2, <3>1
    <3> QED BY <3>1, <3>2
  <2> HIDE DEF AsLong
  <2> QED BY <2>1, <2>2
<1>7. q = [k \in 1 .. n |-> q[k]]
  OBVIOUS
<1> QED BY <1>4, <1>6, <1>7

\* A segment of a string, and what one byte more does to it.
LEMMA SegmentGrows ==
  ASSUME NEW v \in Text, NEW m \in 0 .. Len(v), NEW n \in 0 .. Len(v) - 1, m <= n
  PROVE  /\ SubSeq(v, m + 1, n) \in Text /\ SubSeq(v, m + 1, n + 1) \in Text
         /\ Len(SubSeq(v, m + 1, n)) = n - m
         /\ v[n + 1] \in Byte
         /\ SubSeq(v, m + 1, n + 1) = Append(SubSeq(v, m + 1, n), v[n + 1])
<1> DEFINE x == SubSeq(v, m + 1, n)
           y == SubSeq(v, m + 1, n + 1)
           z == Append(x, v[n + 1])
<1>1. v \in Seq(Byte) /\ Len(v) \in Nat /\ v[n + 1] \in Byte
  BY DEF Text
<1>2. x \in Seq(Byte) /\ Len(x) = n - m /\ \A i \in 1 .. n - m : x[i] = v[m + i]
  BY <1>1
<1>3. y \in Seq(Byte) /\ Len(y) = n + 1 - m /\ \A i \in 1 .. n + 1 - m : y[i] = v[m + i]
  BY <1>1
<1> HIDE DEF x, y
<1>4. /\ z \in Seq(Byte) /\ Len(z) = n - m + 1 /\ \A i \in 1 .. n - m : z[i] = x[i]
      /\ z[n - m + 1] = v[n + 1]
  BY <1>1, <1>2
<1> HIDE DEF z
<1>5. \A i \in 1 .. n + 1 - m : y[i] = z[i]
  BY <1>1, <1>2, <1>3, <1>4
<1>6. y = z
  BY <1>3, <1>4, <1>5, SameSeq
<1> QED BY <1>1, <1>2, <1>3, <1>6 DEF x, y, z, Text

\* The segment before the first byte is empty.
LEMMA NoSegment ==
  ASSUME NEW v \in Text, NEW m \in 0 .. Len(v)
  PROVE  SubSeq(v, m + 1, m) = <<>>
BY DEF Text

\* A suffix of a segment is a segment that ends where it ends.
LEMMA SuffixIsSegment ==
  ASSUME NEW v \in Text, NEW m \in 0 .. Len(v), NEW n \in 0 .. Len(v), m <= n,
         NEW u \in Text, IsSuffix(u, SubSeq(v, m + 1, n))
  PROVE  Len(u) <= n - m /\ n - Len(u) \in 0 .. Len(v) /\ u = SubSeq(v, (n - Len(u)) + 1, n)
<1> DEFINE x == SubSeq(v, m + 1, n)
           y == SubSeq(v, (n - Len(u)) + 1, n)
<1>1. v \in Seq(Byte) /\ Len(v) \in Nat /\ u \in Seq(Byte) /\ Len(u) \in Nat
  BY DEF Text
<1>2. x \in Seq(Byte) /\ Len(x) = n - m /\ \A i \in 1 .. n - m : x[i] = v[m + i]
  BY <1>1
<1> HIDE DEF x
<1>3. Len(u) <= Len(x) /\ \A i \in 1 .. Len(u) : u[i] = x[Len(x) - Len(u) + i]
  BY <1>2, SuffixMeans DEF x, Text
<1>4. y \in Seq(Byte) /\ Len(y) = Len(u) /\ \A i \in 1 .. Len(u) : y[i] = v[n - Len(u) + i]
  BY <1>1, <1>2, <1>3
<1> HIDE DEF y
<1>5. \A i \in 1 .. Len(u) : u[i] = y[i]
  <2> SUFFICES ASSUME NEW i \in 1 .. Len(u) PROVE u[i] = y[i]
    OBVIOUS
  <2>1. Len(x) - Len(u) + i \in 1 .. n - m /\ m + (Len(x) - Len(u) + i) = n - Len(u) + i
    BY <1>1, <1>2, <1>3
  <2> QED BY <1>2, <1>3, <1>4, <2>1
<1>6. u = y
  BY <1>1, <1>4, <1>5, SameSeq
<1> QED BY <1>1, <1>2, <1>3, <1>6 DEF y

\* And a segment that ends there is a suffix of it, if it is no longer.
LEMMA SegmentIsSuffix ==
  ASSUME NEW v \in Text, NEW m \in 0 .. Len(v), NEW n \in 0 .. Len(v), NEW i \in m .. n
  PROVE  IsSuffix(SubSeq(v, i + 1, n), SubSeq(v, m + 1, n)) /\ SubSeq(v, i + 1, n) \in Text
<1> DEFINE x == SubSeq(v, m + 1, n)
           y == SubSeq(v, i + 1, n)
<1>1. v \in Seq(Byte) /\ Len(v) \in Nat
  BY DEF Text
<1>2. x \in Seq(Byte) /\ Len(x) = n - m /\ \A j \in 1 .. n - m : x[j] = v[m + j]
  BY <1>1
<1>3. y \in Seq(Byte) /\ Len(y) = n - i /\ \A j \in 1 .. n - i : y[j] = v[i + j]
  BY <1>1
<1> HIDE DEF x, y
<1>4. \A j \in 1 .. Len(y) : y[j] = x[Len(x) - Len(y) + j]
  <2> SUFFICES ASSUME NEW j \in 1 .. Len(y) PROVE y[j] = x[Len(x) - Len(y) + j]
    OBVIOUS
  <2>1. Len(x) - Len(y) + j \in 1 .. n - m /\ m + (Len(x) - Len(y) + j) = i + j
    BY <1>1, <1>2, <1>3
  <2> QED BY <1>2, <1>3, <2>1
<1>5. Len(y) <= Len(x)
  BY <1>1, <1>2, <1>3
<1>6. IsSuffix(y, x)
  BY <1>2, <1>3, <1>4, <1>5, SuffixMeans DEF Text
<1> QED BY <1>3, <1>6 DEF x, y, Text

------------------------------------------------------------------------------
(***************************************************************************)
(* Programs.                                                               *)
(***************************************************************************)

\* The arithmetic of u32 values, for any width.
LEMMA U32Facts ==
  /\ U32 \in Nat /\ U32 > 0 /\ NONE \in Word /\ Bit31 <= NONE
  /\ \A s \in 0 .. Bit31 - 1 : s \in Word /\ s # NONE
BY Bit31Assumption DEF U32, NONE, Word

\* Clearing bit 31 leaves a number below it.
LEMMA MaskType ==
  \A t \in Word : Mask(t) \in 0 .. Bit31 - 1
BY Bit31Assumption DEF Mask, Word, U32

\* Setting bit 31 and clearing it gives the number back.
LEMMA MaskFlagged ==
  \A s \in 0 .. Bit31 - 1 :
    /\ Mask(s) = s /\ s < Bit31
    /\ Mask(s + Bit31) = s /\ s + Bit31 >= Bit31 /\ s + Bit31 \in Word
BY Bit31Assumption DEF Mask, Word, U32

\* Reduction modulo 2^32 yields a u32 and leaves a u32 alone.
LEMMA Wrap ==
  /\ \A x \in Nat : x % U32 \in Word
  /\ \A x \in Word : x % U32 = x
<1>1. U32 \in Nat /\ U32 > 0
  BY U32Facts
<1>2. \A x \in Nat : x % U32 \in 0 .. U32 - 1
  BY <1>1
<1>3. \A x \in 0 .. U32 - 1 : x % U32 = x
  BY <1>1
<1> QED BY <1>2, <1>3 DEF Word

\* The entry of state s on byte b lies in row s of an n-row table.
LEMMA RowIndex ==
  ASSUME NEW n \in Nat, NEW c \in Nat, NEW s \in 0 .. n - 1, NEW b \in 0 .. c - 1
  PROVE  s * c + b \in 0 .. n * c - 1
<1> DEFINE k == n - (s + 1)
<1>1. k \in Nat /\ n = (s + 1) + k
  OBVIOUS
<1>2. s * c \in Nat /\ k * c \in Nat /\ n * c \in Nat
  BY <1>1
<1>3. n * c = s * c + c + k * c
  BY <1>1
<1> HIDE DEF k
<1> QED BY <1>2, <1>3

\* The cell of a state and a byte, and back.
LEMMA CellIndex ==
  ASSUME NEW n \in Nat, NEW c \in Nat \ {0}, NEW s \in 0 .. n - 1, NEW b \in 0 .. c - 1
  PROVE  /\ s * c + b + 1 \in 1 .. n * c
         /\ (s * c + b) \div c = s /\ (s * c + b) % c = b
<1>1. s * c + b \in 0 .. n * c - 1
  BY RowIndex
<1>2. (s * c + b) \div c = s /\ (s * c + b) % c = b
  OBVIOUS
<1>3. s * c \in Nat /\ n * c \in Nat
  OBVIOUS
<1> QED BY <1>1, <1>2, <1>3

\* The state and the byte of a cell.
LEMMA CellRow ==
  ASSUME NEW n \in Nat, NEW c \in Nat \ {0}, NEW i \in 1 .. n * c
  PROVE  (i - 1) \div c \in 0 .. n - 1 /\ (i - 1) % c \in 0 .. c - 1
<1>1. n * c \in Nat
  OBVIOUS
<1>2. PICK d \in Nat : d = i - 1
  BY <1>1
<1>3. PICK b : b = d % c
  OBVIOUS
<1>4. PICK s : s = d \div c
  OBVIOUS
<1>5. s \in Int /\ b \in 0 .. c - 1 /\ d = c * s + b
  BY <1>2, <1>3, <1>4
<1>6. d < n * c
  BY <1>1, <1>2
<1>7. s >= 0
  <2> SUFFICES ASSUME s < 0 PROVE FALSE
    BY <1>5
  <2>1. c * s <= 0 - c
    BY <1>5
  <2> QED BY <1>2, <1>5, <2>1
<1>8. s < n
  <2> SUFFICES ASSUME s >= n PROVE FALSE
    BY <1>5
  <2>1. c * s >= n * c
    BY <1>5
  <2> QED BY <1>1, <1>5, <1>6, <2>1
<1> QED BY <1>2, <1>3, <1>4, <1>5, <1>7, <1>8

------------------------------------------------------------------------------
\* accept_pattern holds u32 values, and every value but NONE has a length.
LEMMA AcceptPatternType ==
  ASSUME NEW p, WellFormed(p), NEW s \in State(p)
  PROVE  /\ AcceptPattern(p)[s] \in Word
         /\ AcceptPattern(p)[s] # NONE => AcceptPattern(p)[s] < Len(p.lens)
<1>1. CASE s \in AcceptStates(p)
  <2>1. PICK i \in DOMAIN p.accepts : p.accepts[i][1] = s
    BY <1>1 DEF AcceptStates
  <2> DEFINE j == CHOOSE j \in DOMAIN p.accepts : p.accepts[j][1] = s
  <2>2. j \in DOMAIN p.accepts
    BY <2>1
  <2>3. AcceptPattern(p)[s] = p.accepts[j][2]
    BY <1>1 DEF AcceptPattern
  <2>4. p.accepts[j] \in Word \X Word /\ p.accepts[j][2] < Len(p.lens)
    BY <2>2 DEF WellFormed, ProgramType, Compilable
  <2> QED BY <2>3, <2>4
<1>2. CASE s \notin AcceptStates(p)
  BY <1>2, U32Facts DEF AcceptPattern
<1> QED BY <1>1, <1>2

\* output_link holds u32 values, and every link leads to a state with a pattern.
LEMMA OutputLinkType ==
  ASSUME NEW p, WellFormed(p), NEW s \in State(p)
  PROVE  /\ OutputLink(p)[s] \in Word
         /\ OutputLink(p)[s] # NONE =>
              /\ OutputLink(p)[s] \in State(p)
              /\ AcceptPattern(p)[OutputLink(p)[s]] # NONE
<1>1. p.links \in Seq(Word)
  BY DEF WellFormed, ProgramType
<1>2. s < Len(p.links) => p.links[s + 1] \in Word
  BY <1>1 DEF State
<1>3. OutputLink(p)[s] = IF s < Len(p.links) THEN p.links[s + 1] ELSE NONE
  BY DEF OutputLink
<1>4. OutputLink(p)[s] \in Word
  BY <1>2, <1>3, U32Facts
<1> QED BY <1>4 DEF WellFormed, LinksAccept

\* The entry of state s on byte b is the caller's target, without its flag; the
\* compiled entry has bit 31 set exactly when that target has a pattern.
LEMMA FlaggedEntry ==
  ASSUME NEW p, WellFormed(p), p.states <= Bit31,
         NEW s \in State(p), NEW b \in Byte
  PROVE  LET i == s * p.classes + b
             target == Mask(p.trans[i + 1])
         IN  /\ i \in 0 .. Len(p.trans) - 1
             /\ target \in State(p)
             /\ Flagged(p)[i] \in Word
             /\ Mask(Flagged(p)[i]) = target
             /\ Flagged(p)[i] >= Bit31 <=> AcceptPattern(p)[target] # NONE
<1> DEFINE i == s * p.classes + b
           target == Mask(p.trans[i + 1])
<1>1. /\ p.states \in Nat /\ p.classes = ByteCount /\ ByteCount \in Nat
      /\ p.trans \in Seq(Word) /\ Len(p.trans) = p.states * p.classes
  BY ByteCountAssumption DEF WellFormed, ProgramType, Compilable
<1>2. i \in 0 .. Len(p.trans) - 1
  BY <1>1, RowIndex DEF State, Byte
<1>3. i + 1 \in DOMAIN p.trans /\ p.trans[i + 1] \in Word
  BY <1>1, <1>2
<1>4. target \in Nat /\ target < p.states
  BY <1>3, MaskType DEF WellFormed, Compilable
<1>5. target \in State(p) /\ target \in 0 .. Bit31 - 1
  BY <1>1, <1>4, Bit31Assumption DEF State
<1>6. Flagged(p)[i] = IF AcceptPattern(p)[target] # NONE
                      THEN target + Bit31 ELSE target
  BY <1>2 DEF Flagged
<1> HIDE DEF target
<1>7. target \in Word
  BY <1>5, U32Facts
<1>8. /\ Flagged(p)[i] \in Word
      /\ Mask(Flagged(p)[i]) = target
      /\ Flagged(p)[i] >= Bit31 <=> AcceptPattern(p)[target] # NONE
  BY <1>5, <1>6, <1>7, MaskFlagged, Bit31Assumption
<1> QED BY <1>2, <1>5, <1>8 DEF target

------------------------------------------------------------------------------
\* The sizes of the four tables.
LEMMA SectionSizes ==
  ASSUME NEW p, WellFormed(p)
  PROVE  /\ p.states \in Nat /\ Len(p.trans) \in Nat /\ Len(p.lens) \in Nat
         /\ TransOffset(p) = 0 /\ AcceptOffset(p) = Len(p.trans)
         /\ PatLenOffset(p) = Len(p.trans) + p.states
         /\ PatLenSize(p) \in Nat /\ PatLenSize(p) >= Len(p.lens)
         /\ OutputOffset(p) = Len(p.trans) + p.states + PatLenSize(p)
         /\ DataLength(p) = OutputOffset(p) + p.states
<1>1. /\ p.states \in Nat /\ Len(p.trans) \in Nat /\ Len(p.lens) \in Nat
  BY DEF WellFormed, ProgramType
<1>2. p.lens = <<>> => Len(p.lens) = 0
  OBVIOUS
<1>3. PatLenSize(p) \in Nat /\ PatLenSize(p) >= Len(p.lens)
  BY <1>1, <1>2 DEF PatLenSize
<1> QED
  BY <1>1, <1>3 DEF TransOffset, AcceptOffset, PatLenOffset, OutputOffset, DataLength

\* A load inside the transition table reads the transition table.
LEMMA TransEntry ==
  ASSUME NEW p, WellFormed(p), NEW i \in 0 .. Len(p.trans) - 1
  PROVE  /\ TransOffset(p) + i < DataLength(p)
         /\ DataSection(p)[TransOffset(p) + i] = Flagged(p)[i]
<1>1. TransOffset(p) + i \in 0 .. DataLength(p) - 1 /\ DataLength(p) \in Nat
  BY SectionSizes
<1>2. TransOffset(p) + i = i /\ i < AcceptOffset(p)
  BY SectionSizes
<1> QED BY <1>1, <1>2 DEF DataSection

\* A load of a state from the accept table reads accept_pattern.
LEMMA AcceptEntry ==
  ASSUME NEW p, WellFormed(p), NEW s \in State(p)
  PROVE  /\ AcceptOffset(p) + s < DataLength(p)
         /\ DataSection(p)[AcceptOffset(p) + s] = AcceptPattern(p)[s]
<1>1. AcceptOffset(p) + s \in 0 .. DataLength(p) - 1 /\ DataLength(p) \in Nat
  BY SectionSizes DEF State
<1>2. ~ (AcceptOffset(p) + s < AcceptOffset(p)) /\ AcceptOffset(p) + s < PatLenOffset(p)
  BY SectionSizes DEF State
<1>3. (AcceptOffset(p) + s) - AcceptOffset(p) = s
  BY SectionSizes DEF State
<1> QED BY <1>1, <1>2, <1>3 DEF DataSection

\* A load of a pattern id from the length table reads its length.
LEMMA PatLenEntry ==
  ASSUME NEW p, WellFormed(p), NEW pid \in 0 .. Len(p.lens) - 1
  PROVE  /\ PatLenOffset(p) + pid < DataLength(p)
         /\ DataSection(p)[PatLenOffset(p) + pid] = p.lens[pid + 1]
         /\ p.lens[pid + 1] \in Word
<1>0. pid \in Nat /\ pid < PatLenSize(p) /\ PatLenSize(p) \in Nat
  BY SectionSizes
<1>1. PatLenOffset(p) + pid \in 0 .. DataLength(p) - 1 /\ DataLength(p) \in Nat
  BY <1>0, SectionSizes
<1>2. /\ PatLenOffset(p) \in Nat /\ AcceptOffset(p) \in Nat
      /\ AcceptOffset(p) <= PatLenOffset(p) /\ pid \in Nat
      /\ PatLenOffset(p) + pid < OutputOffset(p)
  BY SectionSizes
<1>3. p.lens \in Seq(Word) /\ p.lens # <<>> /\ pid + 1 \in DOMAIN p.lens
  BY SectionSizes DEF WellFormed, ProgramType
<1>4. PatLen(p)[pid] = p.lens[pid + 1]
  BY <1>3, SectionSizes DEF PatLen
<1>5. DataSection(p)[PatLenOffset(p) + pid] = PatLen(p)[pid]
  BY <1>1, <1>2 DEF DataSection
<1> QED BY <1>1, <1>3, <1>4, <1>5

\* A load of a state from the link table reads output_link.
LEMMA OutputEntry ==
  ASSUME NEW p, WellFormed(p), NEW s \in State(p)
  PROVE  /\ OutputOffset(p) + s < DataLength(p)
         /\ DataSection(p)[OutputOffset(p) + s] = OutputLink(p)[s]
<1>1. OutputOffset(p) + s \in 0 .. DataLength(p) - 1 /\ DataLength(p) \in Nat
  BY SectionSizes DEF State
<1>2. /\ OutputOffset(p) \in Nat /\ PatLenOffset(p) \in Nat /\ AcceptOffset(p) \in Nat
      /\ AcceptOffset(p) <= OutputOffset(p) /\ PatLenOffset(p) <= OutputOffset(p)
      /\ s \in Nat
  BY SectionSizes DEF State
<1> QED BY <1>1, <1>2 DEF DataSection

------------------------------------------------------------------------------
\* A match of a u32 pattern id and length is a match record.
LEMMA MatchAtType ==
  ASSUME NEW pid \in Word, NEW len \in Word, NEW pos \in Nat
  PROVE  MatchAt(pid, len, pos) \in MatchType
<1>1. (pos + 1) % U32 \in Word
  BY Wrap
<1>2. \A e \in Word : SaturatingSub(e, len) \in Word
  BY U32Facts DEF SaturatingSub, Word
<1> QED BY <1>1, <1>2 DEF MatchAt, MatchType

------------------------------------------------------------------------------
(***************************************************************************)
(* The reference definitions of Language.                                  *)
(***************************************************************************)

\* No pattern has the id that accept_pattern keeps for "no pattern".
SentinelFree(p) == \A i \in DOMAIN p.accepts : p.accepts[i][2] # NONE

\* Then accept_pattern tells the accept states from the others.
LEMMA AcceptMeans ==
  ASSUME NEW p, WellFormed(p), SentinelFree(p), NEW s \in State(p)
  PROVE  s \in AcceptStates(p) <=> AcceptPattern(p)[s] # NONE
<1>1. CASE s \in AcceptStates(p)
  <2>1. PICK i \in DOMAIN p.accepts : p.accepts[i][1] = s
    BY <1>1 DEF AcceptStates
  <2> DEFINE j == CHOOSE j \in DOMAIN p.accepts : p.accepts[j][1] = s
  <2>2. j \in DOMAIN p.accepts
    BY <2>1
  <2>3. AcceptPattern(p)[s] = p.accepts[j][2]
    BY <1>1 DEF AcceptPattern
  <2> HIDE DEF j
  <2> QED BY <1>1, <2>2, <2>3 DEF SentinelFree
<1>2. CASE s \notin AcceptStates(p)
  BY <1>2 DEF AcceptPattern
<1> QED BY <1>1, <1>2

\* The scan goes from a state to a state, and never to the sentinel.
LEMMA TargetType ==
  ASSUME NEW p, WellFormed(p), NEW w \in Seq(Byte), NEW i \in 0 .. Len(w) - 1, NEW s \in State(p)
  PROVE  Target(p, w, s, i) \in State(p) /\ Target(p, w, s, i) # NONE
<1> DEFINE b == w[i + 1]
           k == s * p.classes + b
<1>1. /\ p.states \in Nat /\ p.classes = ByteCount /\ ByteCount \in Nat
      /\ p.trans \in Seq(Word) /\ Len(p.trans) = p.states * p.classes
  BY ByteCountAssumption DEF WellFormed, ProgramType, Compilable
<1>2. b \in Byte
  OBVIOUS
<1>3. k \in 0 .. Len(p.trans) - 1
  BY <1>1, <1>2, RowIndex DEF State, Byte
<1>4. k + 1 \in DOMAIN p.trans /\ p.trans[k + 1] \in Word
  BY <1>1, <1>3
<1>5. Mask(p.trans[k + 1]) \in 0 .. Bit31 - 1 /\ Mask(p.trans[k + 1]) < p.states
  BY <1>4, MaskType DEF WellFormed, Compilable
<1>6. Target(p, w, s, i) = Mask(p.trans[k + 1])
  BY DEF Target
<1> HIDE DEF k
<1> QED BY <1>1, <1>5, <1>6, U32Facts, Bit31Assumption DEF State

\* The states of the scan, one byte after the other.
LEMMA WalkOf ==
  ASSUME NEW p, NEW w, Len(w) \in Nat, 0 \in State(p),
         \A n \in 0 .. Len(w) - 1, s \in State(p) : Target(p, w, s, n) \in State(p)
  PROVE  /\ Walk(p, w) \in [0 .. Len(w) -> State(p)]
         /\ Walk(p, w)[0] = 0
         /\ \A n \in 0 .. Len(w) - 1 :
              LET t == Target(p, w, Walk(p, w)[n], n)
              IN  Walk(p, w)[n + 1] = IF t \in AcceptStates(p) THEN 0 ELSE t
<1> DEFINE N == Len(w)
           After(n, s) == LET t == Target(p, w, s, n) IN IF t \in AcceptStates(p) THEN 0 ELSE t
           Def(at) == [n \in 0 .. N |-> IF n = 0 THEN 0 ELSE After(n - 1, at[n - 1])]
           step == [x \in (0 .. N - 1) \X State(p) |-> After(x[1], x[2])]
<1>1. Walk(p, w) = CHOOSE at : at = Def(at)
  BY DEF Walk
<1>2. N \in Nat /\ 0 \in State(p)
  OBVIOUS
<1>3. \A n \in 0 .. N - 1, s \in State(p) : After(n, s) \in State(p)
  BY <1>2
<1> HIDE DEF After, N
<1>4. step \in [(0 .. N - 1) \X State(p) -> State(p)]
  BY <1>3
<1>5. \A n \in 0 .. N - 1, s \in State(p) : step[<<n, s>>] = After(n, s)
  OBVIOUS
<1> HIDE DEF step
<1>6. PICK f : Recursive(f, N, State(p), 0, step)
  BY <1>2, <1>4, RecursionExists
<1>7. f = Def(f)
  <2>1. ASSUME NEW n \in 0 .. N, n # 0 PROVE f[n] = After(n - 1, f[n - 1])
    <3>1. n - 1 \in 0 .. N - 1 /\ (n - 1) + 1 = n /\ n - 1 \in 0 .. N
      BY <1>2, <2>1
    <3>2. f[n - 1] \in State(p)
      BY <1>6, <3>1 DEF Recursive
    <3> QED BY <1>5, <1>6, <3>1, <3>2 DEF Recursive
  <2> QED BY <1>6, <2>1 DEF Recursive
<1>8. Walk(p, w) = Def(Walk(p, w))
  <2> HIDE DEF Def
  <2> QED BY <1>1, <1>7
<1> DEFINE walk == Walk(p, w)
<1>9. walk[0] = 0 /\ \A n \in 0 .. N - 1 : walk[n + 1] = After(n, walk[n])
  <2> HIDE DEF walk
  <2>1. walk = Def(walk)
    BY <1>8 DEF walk
  <2>2. ASSUME NEW n \in 0 .. N - 1 PROVE n + 1 \in 0 .. N /\ n + 1 # 0 /\ (n + 1) - 1 = n
    BY <1>2
  <2>3. 0 \in 0 .. N
    BY <1>2
  <2> QED BY <2>1, <2>2, <2>3
<1>10. walk \in [0 .. N -> State(p)]
  <2>1. walk = [n \in 0 .. N |-> walk[n]]
    BY <1>8
  <2> DEFINE S == {n \in 0 .. N : walk[n] \in State(p)}
  <2> HIDE DEF walk
  <2>2. 0 \in S /\ \A n \in 0 .. N - 1 : n \in S => n + 1 \in S
    BY <1>2, <1>3, <1>9
  <2>3. \A n \in 0 .. N : n \in S
    <3> HIDE DEF S
    <3> QED BY <1>2, <2>2, InductionUpTo
  <2> QED BY <2>1, <2>3
<1> QED BY <1>9, <1>10 DEF N, After

\* A well-formed program's walk goes from state to state.
LEMMA WalkIs ==
  ASSUME NEW p, WellFormed(p), NEW w \in Seq(Byte)
  PROVE  /\ Walk(p, w) \in [0 .. Len(w) -> State(p)]
         /\ Walk(p, w)[0] = 0
         /\ \A n \in 0 .. Len(w) - 1 :
              LET t == Target(p, w, Walk(p, w)[n], n)
              IN  Walk(p, w)[n + 1] = IF t \in AcceptStates(p) THEN 0 ELSE t
<1>1. Len(w) \in Nat /\ 0 \in State(p)
  BY DEF WellFormed, Compilable, ProgramType, State
<1>2. \A n \in 0 .. Len(w) - 1, s \in State(p) : Target(p, w, s, n) \in State(p)
  BY TargetType
<1> QED BY <1>1, <1>2, WalkOf

------------------------------------------------------------------------------
\* Induction along the links: what holds of the states without a link, and of a
\* state when it holds of the state its link leads to, holds of every state.
LEMMA LinkInduction ==
  ASSUME NEW p, WellFormed(p), NEW S,
         \A s \in State(p) : OutputLink(p)[s] = NONE \/ OutputLink(p)[s] \in S => s \in S
  PROVE  \A s \in State(p) : s \in S
<1> DEFINE T == {s \in State(p) : s \notin S}
<1> SUFFICES ASSUME T # {} PROVE FALSE
  OBVIOUS
<1>1. PICK s \in T : OutputLink(p)[s] \notin T
  BY DEF WellFormed, LinksDescend
<1>2. OutputLink(p)[s] # NONE => OutputLink(p)[s] \in State(p)
  BY DEF WellFormed, LinksAccept
<1> QED BY <1>1, <1>2

\* The output states of a state are itself and those of its link.
LEMMA OutputsIs ==
  ASSUME NEW p, WellFormed(p)
  PROVE  OutputsOf(p) = [s \in State(p) |->
           IF OutputLink(p)[s] = NONE THEN <<s>> ELSE <<s>> \o OutputsOf(p)[OutputLink(p)[s]]]
<1> DEFINE From(s, o) == IF OutputLink(p)[s] = NONE THEN <<s>> ELSE <<s>> \o o[OutputLink(p)[s]]
           Def(o) == [s \in State(p) |-> From(s, o)]
           Closed(C) == /\ C \subseteq State(p)
                        /\ \A s \in C : OutputLink(p)[s] # NONE => OutputLink(p)[s] \in C
           Solves(o, C) == Closed(C) /\ \A s \in C : o[s] = From(s, o)
<1>1. OutputsOf(p) = CHOOSE o : o = Def(o)
  BY DEF OutputsOf
\* Two solutions agree where both are defined.
<1>2. ASSUME NEW o1, NEW C1, Solves(o1, C1), NEW o2, NEW C2, Solves(o2, C2)
      PROVE  \A s \in C1 \cap C2 : o1[s] = o2[s]
  <2> DEFINE S == {s \in State(p) : s \in C1 \cap C2 => o1[s] = o2[s]}
  <2>1. ASSUME NEW s \in State(p), OutputLink(p)[s] = NONE \/ OutputLink(p)[s] \in S PROVE s \in S
    BY <1>2, <2>1
  <2>2. \A s \in State(p) : s \in S
    <3> HIDE DEF S
    <3> QED BY <2>1, LinkInduction
  <2> QED BY <1>2, <2>2
\* Every state is in the domain of one.
<1>3. \A s \in State(p) : \E o, C : Solves(o, C) /\ s \in C
  <2> DEFINE S == {s \in State(p) : \E o, C : Solves(o, C) /\ s \in C}
  <2>1. ASSUME NEW s \in State(p), OutputLink(p)[s] = NONE \/ OutputLink(p)[s] \in S PROVE s \in S
    <3>1. PICK o, C : Solves(o, C) /\ (OutputLink(p)[s] # NONE => OutputLink(p)[s] \in C)
      <4>1. CASE OutputLink(p)[s] = NONE
        <5>1. Solves(<<>>, {})
          OBVIOUS
        <5> HIDE DEF Solves
        <5> QED BY <4>1, <5>1
      <4>2. CASE OutputLink(p)[s] \in S
        <5> HIDE DEF Solves
        <5> QED BY <4>2
      <4> QED BY <2>1, <4>1, <4>2
    <3>2. CASE s \in C
      <4> HIDE DEF Solves
      <4> QED BY <3>1, <3>2
    <3>3. CASE s \notin C
      <4> DEFINE D == C \cup {s}
                 g == [x \in D |-> IF x = s THEN From(s, o) ELSE o[x]]
      <4>1. Closed(D)
        BY <3>1
      <4>2. \A x \in C : g[x] = o[x]
        BY <3>3
      <4>3. ASSUME NEW x \in D PROVE g[x] = From(x, g)
        <5>1. CASE x = s
          <6>1. g[s] = From(s, o)
            OBVIOUS
          <6>2. From(s, g) = From(s, o)
            BY <3>1, <4>2
          <6> QED BY <5>1, <6>1, <6>2
        <5>2. CASE x \in C
          <6>1. From(x, g) = From(x, o)
            BY <3>1, <4>2, <5>2
          <6> QED BY <3>1, <4>2, <5>2, <6>1
        <5> QED BY <5>1, <5>2
      <4>4. Solves(g, D)
        BY <4>1, <4>3
      <4> HIDE DEF Solves, g
      <4> QED BY <4>4
    <3> QED BY <3>2, <3>3
  <2>2. \A s \in State(p) : s \in S
    <3> HIDE DEF S
    <3> QED BY <2>1, LinkInduction
  <2> HIDE DEF Solves
  <2> QED BY <2>2
\* Together they are one on all the states.
<1> DEFINE Sol(s) == CHOOSE o : \E C : Solves(o, C) /\ s \in C
           all == [s \in State(p) |-> Sol(s)[s]]
<1>4. \A s \in State(p) : \E C : Solves(Sol(s), C) /\ s \in C
  <2> HIDE DEF Solves
  <2> QED BY <1>3
<1> HIDE DEF Sol
<1>5. ASSUME NEW s \in State(p) PROVE all[s] = From(s, all)
  <2>1. PICK C : Solves(Sol(s), C) /\ s \in C
    BY <1>4
  <2>2. all[s] = From(s, Sol(s))
    BY <2>1
  <2>3. CASE OutputLink(p)[s] = NONE
    BY <2>2, <2>3
  <2>4. CASE OutputLink(p)[s] # NONE
    <3> DEFINE l == OutputLink(p)[s]
    <3>1. l \in C /\ l \in State(p)
      BY <2>1, <2>4
    <3>2. PICK E : Solves(Sol(l), E) /\ l \in E
      BY <1>4, <3>1
    <3>3. Sol(s)[l] = Sol(l)[l]
      <4> HIDE DEF Solves, l
      <4> QED BY <1>2, <2>1, <3>1, <3>2
    <3>4. all[l] = Sol(s)[l]
      BY <3>1, <3>3
    <3> QED BY <2>2, <2>4, <3>4
  <2> QED BY <2>3, <2>4
<1>6. all = Def(all)
  <2> HIDE DEF From
  <2>1. all = [s \in State(p) |-> all[s]]
    OBVIOUS
  <2> HIDE DEF all
  <2> QED BY <1>5, <2>1
<1>7. OutputsOf(p) = Def(OutputsOf(p))
  <2> HIDE DEF Def, all
  <2> QED BY <1>1, <1>6
<1> QED BY <1>7

\* The chain of s: it starts with s, each state is linked to the next, the last
\* has no link; the states after the first are states with a pattern.
IsChain(p, s, chain) ==
  /\ chain \in Seq(State(p)) /\ Len(chain) >= 1 /\ chain[1] = s
  /\ \A k \in 1 .. Len(chain) :
       OutputLink(p)[chain[k]] = IF k = Len(chain) THEN NONE ELSE chain[k + 1]
  /\ \A k \in 2 .. Len(chain) : chain[k] # NONE /\ AcceptPattern(p)[chain[k]] # NONE

\* Without output links a state's only output state is itself.
LEMMA OwnOutput ==
  ASSUME NEW p \in ProgramType, p.links = <<>>
  PROVE  \A s \in State(p) : OutputsOf(p)[s] = <<s>>
<1> DEFINE Def(o) == [s \in State(p) |->
                        IF OutputLink(p)[s] = NONE THEN <<s>> ELSE <<s>> \o o[OutputLink(p)[s]]]
           own == [s \in State(p) |-> <<s>>]
           outputs == OutputsOf(p)
<1>1. \A s \in State(p) : OutputLink(p)[s] = NONE
  <2>1. \A s \in State(p) : ~ s < Len(p.links)
    BY DEF State, ProgramType
  <2> QED BY <2>1 DEF OutputLink
<1>2. outputs = CHOOSE o : o = Def(o)
  BY DEF OutputsOf
<1>3. own = Def(own)
  BY <1>1
<1> HIDE DEF own, outputs
<1>4. outputs = Def(outputs)
  <2> HIDE DEF Def
  <2> QED BY <1>2, <1>3
<1> QED BY <1>1, <1>4 DEF outputs

\* What OutputsOf holds for a state is its chain of output links: it exists, since
\* links lead to smaller ranks (LinkInduction), and ends at a state without link.
LEMMA OutputsAreChains ==
  ASSUME NEW p, WellFormed(p)
  PROVE  \A s \in State(p) : IsChain(p, s, OutputsOf(p)[s])
<1> DEFINE o == OutputsOf(p)
           S == {s \in State(p) : IsChain(p, s, o[s])}
<1>0. \A s \in State(p) :
        o[s] = IF OutputLink(p)[s] = NONE THEN <<s>> ELSE <<s>> \o o[OutputLink(p)[s]]
  BY OutputsIs
<1> HIDE DEF o
<1>1. ASSUME NEW s \in State(p), OutputLink(p)[s] = NONE \/ OutputLink(p)[s] \in S PROVE s \in S
  <2>1. CASE OutputLink(p)[s] = NONE
    <3>1. o[s] = <<s>>
      BY <1>0, <2>1
    <3>2. IsChain(p, s, <<s>>)
      BY <2>1 DEF IsChain
    <3> QED BY <3>1, <3>2
  <2>2. CASE OutputLink(p)[s] # NONE
    <3> DEFINE l == OutputLink(p)[s]
               q == o[l]
               c == <<s>> \o q
    <3>1. IsChain(p, l, q) /\ l \in State(p) /\ AcceptPattern(p)[l] # NONE
      BY <1>1, <2>2, OutputLinkType
    <3>2. o[s] = c
      BY <1>0, <2>2
    <3> HIDE DEF q, l
    <3>3. q \in Seq(State(p)) /\ Len(q) \in Nat /\ Len(q) >= 1
      BY <3>1 DEF IsChain
    <3>4. c \in Seq(State(p)) /\ Len(c) = Len(q) + 1
      BY <3>3
    <3>5. c[1] = s /\ \A k \in 1 .. Len(q) : c[k + 1] = q[k]
      BY <3>3
    <3> HIDE DEF c
    <3>6. ASSUME NEW k \in 1 .. Len(c)
                 PROVE OutputLink(p)[c[k]] = IF k = Len(c) THEN NONE ELSE c[k + 1]
      <4>1. CASE k = 1
        BY <3>1, <3>3, <3>4, <3>5, <4>1 DEF IsChain, l
      <4>2. CASE k # 1
        <5>1. k - 1 \in 1 .. Len(q) /\ (k - 1) + 1 = k
          BY <3>3, <3>4, <4>2
        <5>2. c[k] = q[k - 1]
          BY <3>5, <5>1
        <5>3. k # Len(c) => k \in 1 .. Len(q)
          BY <3>3, <3>4, <5>1
        <5> QED BY <3>1, <3>3, <3>4, <3>5, <5>1, <5>2, <5>3 DEF IsChain
      <4> QED BY <4>1, <4>2
    <3>7. ASSUME NEW k \in 2 .. Len(c) PROVE c[k] # NONE /\ AcceptPattern(p)[c[k]] # NONE
      <4>1. k - 1 \in 1 .. Len(q) /\ (k - 1) + 1 = k /\ c[k] = q[k - 1]
        BY <3>3, <3>4, <3>5
      <4>2. CASE k - 1 = 1
        BY <2>2, <3>1, <4>1, <4>2 DEF IsChain, l
      <4>3. CASE k - 1 # 1
        BY <3>1, <4>1, <4>3 DEF IsChain
      <4> QED BY <4>2, <4>3
    <3>8. IsChain(p, s, c)
      BY <3>3, <3>4, <3>5, <3>6, <3>7 DEF IsChain
    <3> QED BY <3>2, <3>8
  <2> QED BY <2>1, <2>2
<1>2. \A s \in State(p) : s \in S
  <2> HIDE DEF S
  <2> QED BY <1>1, LinkInduction
<1> QED BY <1>2 DEF o

------------------------------------------------------------------------------
\* The matches that end with the byte at index i, in order.
MatchesAt(p, w, i) ==
  LET t == Target(p, w, Walk(p, w)[i], i)
  IN  IF t \in AcceptStates(p)
      THEN [k \in DOMAIN OutputsOf(p)[t] |-> PatternMatch(p, OutputsOf(p)[t][k], i)]
      ELSE <<>>

\* A state with a pattern has a match to report.
LEMMA PatternMatchType ==
  ASSUME NEW p, WellFormed(p), NEW s \in State(p), NEW i \in Nat,
         s \in AcceptStates(p) \/ AcceptPattern(p)[s] # NONE
  PROVE  /\ PatternMatch(p, s, i) \in MatchType
         /\ AcceptPattern(p)[s] < Len(p.lens)
         /\ p.lens[AcceptPattern(p)[s] + 1] \in Word
<1> DEFINE pid == AcceptPattern(p)[s]
<1>1. pid \in Word /\ pid < Len(p.lens)
  <2>1. CASE pid # NONE
    BY <2>1, AcceptPatternType
  <2>2. CASE s \in AcceptStates(p)
    <3>1. PICK j \in DOMAIN p.accepts : p.accepts[j][1] = s
      BY <2>2 DEF AcceptStates
    <3> DEFINE k == CHOOSE k \in DOMAIN p.accepts : p.accepts[k][1] = s
    <3>2. k \in DOMAIN p.accepts
      BY <3>1
    <3>3. pid = p.accepts[k][2]
      BY <2>2 DEF AcceptPattern
    <3>4. p.accepts[k] \in Word \X Word /\ p.accepts[k][2] < Len(p.lens)
      BY <3>2 DEF WellFormed, ProgramType, Compilable
    <3> QED BY <3>3, <3>4
  <2> QED BY <2>1, <2>2
<1>2. pid \in 0 .. Len(p.lens) - 1
  BY <1>1, U32Facts, SectionSizes DEF Word
<1>3. p.lens[pid + 1] \in Word
  BY <1>2 DEF WellFormed, ProgramType
<1> HIDE DEF pid
<1>4. MatchAt(pid, p.lens[pid + 1], i) \in MatchType
  BY <1>1, <1>3, MatchAtType
<1> QED BY <1>1, <1>3, <1>4 DEF PatternMatch, pid

\* The matches of one position are a sequence of matches.
LEMMA MatchesAtType ==
  ASSUME NEW p, WellFormed(p), NEW w \in Seq(Byte), NEW i \in 0 .. Len(w) - 1
  PROVE  MatchesAt(p, w, i) \in Seq(MatchType)
<1> DEFINE t == Target(p, w, Walk(p, w)[i], i)
           c == OutputsOf(p)[t]
<1>1. t \in State(p)
  <2>1. Walk(p, w)[i] \in State(p)
    BY WalkIs
  <2> QED BY <2>1, TargetType
<1> HIDE DEF t
<1>2. CASE t \in AcceptStates(p)
  <2>1. IsChain(p, t, c)
    BY <1>1, OutputsAreChains
  <2> HIDE DEF c
  <2>2. Len(c) \in Nat /\ DOMAIN c = 1 .. Len(c) /\ \A k \in 1 .. Len(c) : c[k] \in State(p)
    BY <2>1 DEF IsChain
  <2>3. \A k \in 1 .. Len(c) : PatternMatch(p, c[k], i) \in MatchType
    <3>1. ASSUME NEW k \in 1 .. Len(c)
                 PROVE c[k] \in AcceptStates(p) \/ AcceptPattern(p)[c[k]] # NONE
      <4>1. CASE k = 1
        BY <1>2, <2>1, <4>1 DEF IsChain
      <4>2. CASE k # 1
        <5>1. k \in 2 .. Len(c)
          BY <2>2, <4>2
        <5> QED BY <2>1, <5>1 DEF IsChain
      <4> QED BY <4>1, <4>2
    <3> QED BY <2>2, <3>1, PatternMatchType
  <2>4. [k \in 1 .. Len(c) |-> PatternMatch(p, c[k], i)] \in Seq(MatchType)
    BY <2>2, <2>3
  <2> QED BY <1>2, <2>2, <2>4 DEF MatchesAt, t, c
<1>3. CASE t \notin AcceptStates(p)
  BY <1>3 DEF MatchesAt, t
<1> QED BY <1>2, <1>3

\* What is found in one byte more is what was found before and what ends there.
LEMMA FoundIs ==
  ASSUME NEW p, WellFormed(p), NEW w \in Seq(Byte)
  PROVE  /\ Found(p, w, 0) = <<>>
         /\ \A n \in 0 .. Len(w) : Found(p, w, n) \in Seq(MatchType)
         /\ \A n \in 0 .. Len(w) - 1 : Found(p, w, n + 1) = Found(p, w, n) \o MatchesAt(p, w, n)
<1> DEFINE N == Len(w)
           M == Seq(MatchType)
           Def(n, u) == [m \in 0 .. n |-> IF m = 0 THEN <<>> ELSE u[m - 1] \o MatchesAt(p, w, m - 1)]
           up(n) == CHOOSE u : u = Def(n, u)
           step == [x \in (0 .. N - 1) \X M |-> x[2] \o MatchesAt(p, w, x[1])]
<1>1. \A n : Found(p, w, n) = up(n)[n]
  BY DEF Found, MatchesAt
<1>2. N \in Nat /\ <<>> \in M
  OBVIOUS
<1>3. \A i \in 0 .. N - 1, s \in M : s \o MatchesAt(p, w, i) \in M
  BY MatchesAtType
<1> HIDE DEF N, M
<1>4. /\ step \in [(0 .. N - 1) \X M -> M]
      /\ \A i \in 0 .. N - 1, s \in M : step[<<i, s>>] = s \o MatchesAt(p, w, i)
  BY <1>3
<1> HIDE DEF step
<1>5. PICK f : Recursive(f, N, M, <<>>, step)
  BY <1>2, <1>4, RecursionExists
<1>6. \A n \in 0 .. N : f[n] \in M
  BY <1>5 DEF Recursive
<1>7. f[0] = <<>> /\ \A n \in 0 .. N - 1 : f[n + 1] = f[n] \o MatchesAt(p, w, n)
  <2>1. ASSUME NEW n \in 0 .. N - 1 PROVE f[n] \in M /\ f[n + 1] = step[<<n, f[n]>>]
    <3>1. n \in 0 .. N
      BY <1>2
    <3> QED BY <1>5, <1>6, <3>1 DEF Recursive
  <2>2. f[0] = <<>>
    BY <1>5 DEF Recursive
  <2> QED BY <1>4, <2>1, <2>2
<1>8. ASSUME NEW n \in 0 .. N PROVE Found(p, w, n) = f[n]
  <2> DEFINE g == [m \in 0 .. n |-> f[m]]
  <2>1. g = Def(n, g)
    <3>1. ASSUME NEW m \in 0 .. n, m # 0 PROVE g[m] = g[m - 1] \o MatchesAt(p, w, m - 1)
      <4>1. m - 1 \in 0 .. N - 1 /\ m - 1 \in 0 .. n /\ (m - 1) + 1 = m
        BY <1>2, <3>1
      <4> QED BY <1>7, <4>1
    <3>2. g[0] = <<>>
      BY <1>2, <1>7
    <3> HIDE DEF g
    <3>3. g = [m \in 0 .. n |-> g[m]]
      BY DEF g
    <3> QED BY <3>1, <3>2, <3>3
  <2> DEFINE u == up(n)
  <2>2. u = Def(n, u)
    <3> HIDE DEF Def, g
    <3> QED BY <2>1
  <2> HIDE DEF u
  <2>3. u[0] = f[0]
    BY <1>2, <1>7, <2>2
  <2>4. ASSUME NEW m \in 0 .. n - 1, u[m] = f[m] PROVE u[m + 1] = f[m + 1]
    <3>1. m + 1 \in 0 .. n /\ m + 1 # 0 /\ (m + 1) - 1 = m /\ m \in 0 .. N - 1
      BY <1>2
    <3>2. u[m + 1] = u[m] \o MatchesAt(p, w, m)
      BY <2>2, <3>1
    <3> QED BY <1>7, <2>4, <3>1, <3>2
  <2>5. n \in Nat /\ n \in 0 .. n
    BY <1>2
  <2>6. \A m \in 0 .. n : u[m] = f[m]
    BY <2>3, <2>4, <2>5, SameRecursion
  <2> QED BY <1>1, <2>5, <2>6 DEF u
<1>9. ASSUME NEW n \in 0 .. N - 1 PROVE n \in 0 .. N /\ n + 1 \in 0 .. N
  BY <1>2
<1>10. Found(p, w, 0) = <<>>
  BY <1>2, <1>7, <1>8
<1>11. \A n \in 0 .. N : Found(p, w, n) \in M
  BY <1>6, <1>8
<1>12. \A n \in 0 .. N - 1 : Found(p, w, n + 1) = Found(p, w, n) \o MatchesAt(p, w, n)
  BY <1>7, <1>8, <1>9
<1> QED BY <1>10, <1>11, <1>12 DEF N, M
==============================================================================
