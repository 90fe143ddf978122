--------------------------- MODULE RegexBuildProofs ---------------------------
(***************************************************************************)
(* For every list of patterns: the builder copies the reachable states of  *)
(* the regex DFA, what it builds finds what the patterns describe, and it  *)
(* is known which lists of patterns compile.                               *)
(***************************************************************************)
EXTENDS RegexBuild, ProgramProofs

------------------------------------------------------------------------------
(***************************************************************************)
(* States of the regex DFA.                                                *)
(***************************************************************************)

\* A finite, nonempty set of numbers has a greatest element.
LEMMA GreatestElement ==
  ASSUME NEW K, K \subseteq Nat, IsFiniteSet(K), K # {}
  PROVE  Max(K) \in K /\ \A k \in K : k <= Max(K)
<1> DEFINE N == Cardinality(K)
           Low(i) == {j \in K : j <= i}
<1>1. N \in Nat /\ N # 0
  BY FS_CardinalityType, FS_EmptySet
<1>2. PICK i \in K : Rank(K, i) = N
  <2>1. N \in 1 .. N
    BY <1>1
  <2> QED BY <2>1, RanksNumber
<1>3. Low(i) = K
  <2>1. Low(i) \in SUBSET K /\ Cardinality(Low(i)) = Cardinality(K)
    BY <1>2 DEF Rank
  <2> HIDE DEF Low
  <2> QED BY <2>1, FS_Subset
<1>4. \A k \in K : k <= i
  BY <1>3
<1>5. \E x \in K : \A y \in K : x >= y
  BY <1>4
<1> QED BY <1>5 DEF Max

\* What a list of patterns is, and that none of its words is longer than Longest.
LEMMA PatternFacts ==
  ASSUME NEW pats \in PatternLists
  PROVE  /\ Len(pats) \in Nat /\ Len(pats) <= Bit31 /\ DOMAIN pats = 1 .. Len(pats)
         /\ Longest(pats) \in Nat
         /\ \A i \in 1 .. Len(pats) :
              /\ pats[i].first \in BOOLEAN
              /\ \A w \in pats[i].words : w \in Text /\ Len(w) <= Longest(pats)
<1> DEFINE Lengths(i) == {Len(w) : w \in pats[i].words}
           All == {Lengths(i) : i \in DOMAIN pats}
           K == {0} \cup UNION All
<1>1. /\ Len(pats) \in Nat /\ Len(pats) <= Bit31 /\ DOMAIN pats = 1 .. Len(pats)
      /\ \A i \in 1 .. Len(pats) :
           /\ pats[i].first \in BOOLEAN /\ pats[i].words \in SUBSET Seq(Byte)
           /\ IsFiniteSet(pats[i].words)
  <2> DEFINE R == [words : SUBSET Seq(Byte), first : BOOLEAN, last : BOOLEAN]
  <2>1. /\ pats \in Seq(R) /\ Len(pats) <= Bit31
        /\ \A i \in DOMAIN pats : IsFiniteSet(pats[i].words)
    BY PatternListsAssumption
  <2>2. \A p \in R : p.first \in BOOLEAN /\ p.words \in SUBSET Seq(Byte)
    OBVIOUS
  <2> HIDE DEF R
  <2>3. Len(pats) \in Nat /\ DOMAIN pats = 1 .. Len(pats) /\ \A i \in 1 .. Len(pats) : pats[i] \in R
    BY <2>1
  <2> QED BY <2>1, <2>2, <2>3
<1>2. \A i \in 1 .. Len(pats) : Lengths(i) \subseteq Nat /\ IsFiniteSet(Lengths(i))
  <2> SUFFICES ASSUME NEW i \in 1 .. Len(pats) PROVE Lengths(i) \subseteq Nat /\ IsFiniteSet(Lengths(i))
    OBVIOUS
  <2>1. \A w \in pats[i].words : w \in Seq(Byte) /\ Len(w) \in Nat
    BY <1>1
  <2> DEFINE f == [w \in pats[i].words |-> Len(w)]
  <2>2. IsFiniteSet({f[w] : w \in DOMAIN f})
    <3>1. IsFiniteSet(DOMAIN f)
      BY <1>1
    <3> HIDE DEF f
    <3> QED BY <3>1, ImageFinite
  <2>3. {f[w] : w \in DOMAIN f} = Lengths(i)
    OBVIOUS
  <2> QED BY <2>1, <2>2, <2>3
<1>3. K \subseteq Nat /\ K # {}
  BY <1>1, <1>2
<1>4. IsFiniteSet(K)
  <2>1. IsFiniteSet(All)
    <3> DEFINE f == [i \in 1 .. Len(pats) |-> Lengths(i)]
    <3>1. IsFiniteSet(1 .. Len(pats))
      BY <1>1, FS_Interval
    <3>2. IsFiniteSet({f[i] : i \in DOMAIN f})
      <4>1. IsFiniteSet(DOMAIN f)
        BY <3>1
      <4> HIDE DEF f
      <4> QED BY <4>1, ImageFinite
    <3>3. {f[i] : i \in DOMAIN f} = All
      BY <1>1
    <3> QED BY <3>2, <3>3
  <2>2. \A S \in All : IsFiniteSet(S)
    BY <1>1, <1>2
  <2>3. IsFiniteSet(UNION All)
    <3> HIDE DEF All
    <3> QED BY <2>1, <2>2, FS_UNION
  <2>4. IsFiniteSet({0})
    BY FS_Singleton
  <2> HIDE DEF All
  <2> QED BY <2>3, <2>4, FS_Union
<1>5. Longest(pats) = Max(K)
  BY DEF Longest
<1>6. Max(K) \in K /\ \A k \in K : k <= Max(K)
  <2> HIDE DEF K
  <2> QED BY <1>3, <1>4, GreatestElement
<1>7. Longest(pats) \in Nat /\ \A k \in K : k <= Longest(pats)
  <2> HIDE DEF K
  <2> QED BY <1>3, <1>5, <1>6
<1>8. ASSUME NEW i \in 1 .. Len(pats), NEW w \in pats[i].words
      PROVE  w \in Text /\ Len(w) <= Longest(pats)
  <2>1. w \in Text
    BY <1>1 DEF Text
  <2>2. Len(w) \in K
    BY <1>1
  <2> HIDE DEF K
  <2> QED BY <1>7, <2>1, <2>2
<1> QED BY <1>1, <1>7, <1>8

\* A state of the regex DFA shows the end of the text it was reached with, as much
\* of it as the longest word, and whether that is the whole.
Shows(pats, s, u) ==
  /\ IsSuffix(s.seen, u)
  /\ Len(s.seen) = IF Len(u) <= Longest(pats) THEN Len(u) ELSE Longest(pats)
  /\ s.whole <=> Len(u) <= Longest(pats)

\* The states of the regex DFA.
RegexStates(pats) ==
  {s \in [seen : Text, whole : BOOLEAN, late : SUBSET Nat] : \E u \in Text : Shows(pats, s, u)}

\* The start state shows the empty text.
LEMMA StartShows ==
  ASSUME NEW pats \in PatternLists
  PROVE  RegexStart \in RegexStates(pats) /\ Shows(pats, RegexStart, <<>>)
<1>1. <<>> \in Text /\ Len(<<>>) = 0 /\ IsSuffix(<<>>, <<>>)
  <2>1. <<>> \in Text /\ Len(<<>>) = 0
    BY DEF Text
  <2> QED BY <2>1, SuffixOrder
<1>2. Longest(pats) \in Nat
  BY PatternFacts
<1>3. Shows(pats, RegexStart, <<>>)
  <2>1. RegexStart.seen = <<>> /\ RegexStart.whole = TRUE
    BY DEF RegexStart
  <2>2. Len(<<>>) <= Longest(pats)
    BY <1>1, <1>2
  <2> QED BY <1>1, <2>1, <2>2 DEF Shows
<1> QED BY <1>1, <1>3 DEF RegexStates, RegexStart

\* The patterns that match at a state are those that match at the end of the text.
LEMMA MatchingShown ==
  ASSUME NEW pats \in PatternLists, NEW s \in RegexStates(pats), NEW u \in Text, Shows(pats, s, u)
  PROVE  Matching(pats, s.seen, s.whole) = Matching(pats, u, TRUE)
<1> DEFINE L == Longest(pats)
           v == s.seen
<1>1. v \in Text /\ u \in Text /\ Len(v) \in Nat /\ Len(u) \in Nat /\ L \in Nat /\ s.whole \in BOOLEAN
  BY PatternFacts DEF RegexStates, Text
<1>2. IsSuffix(v, u) /\ Len(v) = (IF Len(u) <= L THEN Len(u) ELSE L) /\ (s.whole <=> Len(u) <= L)
  BY DEF Shows
<1>3. Len(u) <= L => v = u
  BY <1>1, <1>2, SuffixOrder
<1> HIDE DEF L, v
<1>4. ASSUME NEW w \in Text, Len(w) <= L
      PROVE  /\ IsSuffix(w, v) <=> IsSuffix(w, u)
             /\ IsSuffix(w, u) => ((s.whole /\ w = v) <=> w = u)
  <2>1. Len(w) \in Nat
    BY DEF Text
  <2>2. IsSuffix(w, v) => IsSuffix(w, u)
    BY <1>1, <1>2, SuffixOrder
  <2>3. ASSUME IsSuffix(w, u) PROVE IsSuffix(w, v)
    <3>1. Len(w) <= Len(u)
      BY <1>1, <2>3, SuffixOrder
    <3>2. Len(w) <= Len(v)
      BY <1>1, <1>2, <1>4, <2>1, <3>1
    <3> QED BY <1>1, <1>2, <2>3, <3>2, SuffixOrder
  <2>4. (s.whole /\ w = v) <=> w = u
    BY <1>1, <1>2, <1>3, <1>4
  <2> QED BY <2>2, <2>3, <2>4
<1>5. ASSUME NEW i \in 1 .. Len(pats)
      PROVE  Matches(pats[i], s.seen, s.whole) <=> Matches(pats[i], u, TRUE)
  <2>1. \A w \in pats[i].words : w \in Text /\ Len(w) <= L
    BY PatternFacts DEF L
  <2> QED BY <1>4, <2>1 DEF Matches, v
<1>6. \A pid \in 0 .. Len(pats) - 1 : pid + 1 \in 1 .. Len(pats)
  BY PatternFacts
<1> QED BY <1>5, <1>6 DEF Matching

\* The patterns that match, and where anchored, are numbers of patterns.
LEMMA MatchingType ==
  ASSUME NEW pats \in PatternLists, NEW seen, NEW whole
  PROVE  /\ Matching(pats, seen, whole) \subseteq 0 .. Len(pats) - 1
         /\ Matching(pats, seen, whole) \subseteq Nat
         /\ IsFiniteSet(Matching(pats, seen, whole))
<1>1. Matching(pats, seen, whole) \in SUBSET (0 .. Len(pats) - 1) /\ Len(pats) \in Nat
  BY PatternFacts DEF Matching
<1>2. IsFiniteSet(0 .. Len(pats) - 1)
  BY <1>1, FS_Interval
<1> QED BY <1>1, <1>2, FS_Subset

\* A step of the regex DFA shows one byte more.
LEMMA RegexStep ==
  ASSUME NEW pats \in PatternLists, NEW s \in RegexStates(pats), NEW b \in Byte
  PROVE  /\ NextState(pats, s, b) \in RegexStates(pats)
         /\ \A u \in Text : Shows(pats, s, u) => Shows(pats, NextState(pats, s, b), Append(u, b))
<1> DEFINE L == Longest(pats)
           v == s.seen
           n == NextState(pats, s, b)
           x == Append(v, b)
           late == {pid \in Matching(pats, v, s.whole) : ~pats[pid + 1].last}
<1>1. /\ v \in Text /\ Len(v) \in Nat /\ L \in Nat /\ s.whole \in BOOLEAN
      /\ x \in Text /\ Len(x) = Len(v) + 1 /\ x # <<>>
  BY PatternFacts, Appended DEF RegexStates, Text
<1>2. Tail(x) \in Text /\ Len(Tail(x)) = Len(v) /\ IsSuffix(Tail(x), x) /\ IsSuffix(x, x)
  <2>1. Tail(x) \in Text /\ Len(Tail(x)) = Len(x) - 1
    BY <1>1, TailMeans
  <2>2. IsSuffix(Tail(x), Tail(x)) /\ IsSuffix(x, x)
    BY <1>1, <2>1, SuffixOrder
  <2> HIDE DEF x
  <2>3. \A y \in Text : IsSuffix(y, Tail(x)) => IsSuffix(y, x)
    BY <1>1, ProperSuffix
  <2> QED BY <1>1, <2>1, <2>2, <2>3
<1>3. late \in SUBSET Nat
  BY MatchingType
<1> HIDE DEF late
<1>4. n = [seen |-> IF Len(x) <= L THEN x ELSE Tail(x), whole |-> s.whole /\ Len(x) <= L, late |-> late]
  BY DEF NextState, late
<1>5. ASSUME NEW u \in Text, Shows(pats, s, u)
      PROVE  Shows(pats, n, Append(u, b)) /\ Append(u, b) \in Text
  <2>1. /\ Append(u, b) \in Text /\ Len(Append(u, b)) = Len(u) + 1 /\ Len(u) \in Nat
        /\ IsSuffix(x, Append(u, b))
    BY <1>1, <1>5, Appended, SuffixOfAppended DEF Shows, Text
  <2>2. Len(v) = (IF Len(u) <= L THEN Len(u) ELSE L) /\ (s.whole <=> Len(u) <= L)
    BY <1>5 DEF Shows
  <2> DEFINE y == Append(u, b)
  <2> HIDE DEF x, v, L, y
  <2>3. Len(x) <= L <=> Len(y) <= L
    BY <1>1, <2>1, <2>2 DEF y
  <2>4. n.whole <=> Len(y) <= L
    <3>1. n.whole <=> s.whole /\ Len(x) <= L
      <4>1. n.whole = (s.whole /\ Len(x) <= L)
        BY <1>4
      <4> HIDE DEF n
      <4> QED BY <4>1, Zenon
    <3>2. Len(y) <= L => Len(u) <= L
      BY <1>1, <2>1 DEF y
    <3> QED BY <2>2, <2>3, <3>1, <3>2
  <2>5. CASE Len(x) <= L
    <3>1. n.seen = x /\ Len(x) = Len(y)
      BY <1>1, <1>4, <2>1, <2>2, <2>5 DEF y
    <3> QED BY <2>1, <2>3, <2>4, <2>5, <3>1 DEF Shows, y, L
  <2>6. CASE ~ (Len(x) <= L)
    <3>1. n.seen = Tail(x) /\ Len(Tail(x)) = L
      BY <1>1, <1>2, <1>4, <2>2, <2>1, <2>6
    <3>2. IsSuffix(Tail(x), y)
      BY <1>1, <1>2, <2>1, SuffixOrder DEF y
    <3> QED BY <2>1, <2>3, <2>4, <2>6, <3>1, <3>2 DEF Shows, y, L
  <2> QED BY <2>1, <2>5, <2>6 DEF y
<1>6. n \in [seen : Text, whole : BOOLEAN, late : SUBSET Nat]
  BY <1>1, <1>2, <1>3, <1>4
<1>7. PICK u \in Text : Shows(pats, s, u)
  BY DEF RegexStates
<1> HIDE DEF n
<1>8. n \in RegexStates(pats)
  BY <1>5, <1>6, <1>7 DEF RegexStates
<1> QED BY <1>5, <1>8 DEF n

\* Ascending lists the elements of a set, each once.
LEMMA AscendingIs ==
  ASSUME NEW S, S \subseteq Nat, IsFiniteSet(S)
  PROVE  /\ Ascending(S) \in Seq(S) /\ Len(Ascending(S)) = Cardinality(S)
         /\ \A i, j \in 1 .. Cardinality(S) : Ascending(S)[i] = Ascending(S)[j] => i = j
         /\ \A n \in S : \E k \in 1 .. Cardinality(S) : Ascending(S)[k] = n
<1> DEFINE N == Cardinality(S)
           q == Ascending(S)
<1>1. N \in Nat
  BY RanksNumber
<1>2. q = [k \in 1 .. N |-> CHOOSE n \in S : Rank(S, n) = k]
  BY DEF Ascending, Rank
<1> HIDE DEF q
<1>3. ASSUME NEW k \in 1 .. N PROVE q[k] \in S /\ Rank(S, q[k]) = k
  <2>1. \E n \in S : Rank(S, n) = k
    BY RanksNumber
  <2> QED BY <1>2, <2>1
<1>4. q \in [1 .. N -> S]
  BY <1>2, <1>3
<1>5. q \in Seq(S) /\ Len(q) = N
  <2> HIDE DEF N
  <2> QED BY <1>1, <1>4, FunctionIsSeq
<1>6. \A n \in S : \E k \in 1 .. N : q[k] = n
  <2> SUFFICES ASSUME NEW n \in S PROVE \E k \in 1 .. N : q[k] = n
    OBVIOUS
  <2>1. Rank(S, n) \in 1 .. N
    BY RanksNumber
  <2>2. q[Rank(S, n)] \in S /\ Rank(S, q[Rank(S, n)]) = Rank(S, n)
    BY <1>3, <2>1
  <2>3. q[Rank(S, n)] = n
    BY <2>2, RanksNumber
  <2> QED BY <2>1, <2>3
<1>7. \A i, j \in 1 .. N : q[i] = q[j] => i = j
  BY <1>3
<1> QED BY <1>5, <1>6, <1>7 DEF q

\* The patterns a state accepts are those that match there, each once.
LEMMA AcceptedIs ==
  ASSUME patterns \in PatternLists, NEW s
  PROVE  LET q == Accepted(s)
             M == Matching(patterns, s.seen, s.whole)
         IN  /\ q \in Seq(M) /\ Len(q) \in Nat
             /\ \A i, j \in 1 .. Len(q) : q[i] = q[j] => i = j
             /\ \A n \in M : \E k \in 1 .. Len(q) : q[k] = n
<1> DEFINE M == Matching(patterns, s.seen, s.whole)
<1>1. M \subseteq Nat /\ IsFiniteSet(M)
  BY MatchingType
<1>2. Accepted(s) = Ascending(M)
  BY DEF Accepted, EoiPatterns
<1> HIDE DEF M
<1>3. /\ Ascending(M) \in Seq(M) /\ Len(Ascending(M)) = Cardinality(M) /\ Cardinality(M) \in Nat
      /\ \A i, j \in 1 .. Cardinality(M) : Ascending(M)[i] = Ascending(M)[j] => i = j
      /\ \A n \in M : \E k \in 1 .. Cardinality(M) : Ascending(M)[k] = n
  BY <1>1, AscendingIs, FS_CardinalityType
<1> QED BY <1>2, <1>3 DEF M

------------------------------------------------------------------------------
(***************************************************************************)
(* The states that are discovered.                                         *)
(***************************************************************************)

\* One turn of the loop over the bytes.
WithSuccessor(seen, id, b) ==
  IF NextState(patterns, id, b) \in ToSet(seen) THEN seen ELSE Append(seen, NextState(patterns, id, b))

\* q is known with the successors of id on the first n bytes.
Extends(q, known, id, n) ==
  /\ q \in Seq(RegexStates(patterns)) /\ IsInjective(q)
  /\ Len(known) <= Len(q) /\ \A i \in 1 .. Len(known) : q[i] = known[i]
  /\ \A i \in Len(known) + 1 .. Len(q) : \E b \in Byte : q[i] = NextState(patterns, id, b)
  /\ \A b \in 0 .. n - 1 : NextState(patterns, id, b) \in ToSet(q)

\* A turn of the loop extends what the turns before it made.
LEMMA TurnExtends ==
  ASSUME patterns \in PatternLists, NEW known \in Seq(RegexStates(patterns)),
         NEW id \in RegexStates(patterns), NEW n \in Byte, NEW q, Extends(q, known, id, n)
  PROVE  Extends(WithSuccessor(q, id, n), known, id, n + 1)
<1> DEFINE T == RegexStates(patterns)
           new == NextState(patterns, id, n)
           r == WithSuccessor(q, id, n)
<1>1. new \in T
  BY RegexStep
<1>2. /\ q \in Seq(T) /\ Len(q) \in Nat /\ DOMAIN q = 1 .. Len(q) /\ Len(known) \in Nat
      /\ \A i, j \in 1 .. Len(q) : q[i] = q[j] => i = j
      /\ Len(known) <= Len(q) /\ \A i \in 1 .. Len(known) : q[i] = known[i]
      /\ \A i \in Len(known) + 1 .. Len(q) : \E b \in Byte : q[i] = NextState(patterns, id, b)
      /\ \A b \in 0 .. n - 1 : NextState(patterns, id, b) \in ToSet(q)
  BY DEF Extends, IsInjective
<1>3. n \in Nat /\ \A b \in 0 .. (n + 1) - 1 : b = n \/ b \in 0 .. n - 1
  BY DEF Byte
<1>4. CASE new \in ToSet(q)
  <2>1. r = q
    BY <1>4 DEF WithSuccessor
  <2>2. \A b \in 0 .. (n + 1) - 1 : NextState(patterns, id, b) \in ToSet(q)
    BY <1>2, <1>3, <1>4
  <2> QED BY <2>1, <2>2 DEF Extends
<1>5. CASE new \notin ToSet(q)
  <2>1. r = Append(q, new)
    BY <1>5 DEF WithSuccessor
  <2>2. \A i \in 1 .. Len(q) : q[i] # new
    BY <1>2, <1>5 DEF ToSet
  <2> HIDE DEF new, r, T
  <2>3. /\ r \in Seq(T) /\ Len(r) = Len(q) + 1 /\ DOMAIN r = 1 .. Len(q) + 1
        /\ r[Len(q) + 1] = new /\ \A i \in 1 .. Len(q) : r[i] = q[i]
    BY <1>1, <1>2, <2>1
  <2>4. \A i \in 1 .. Len(q) + 1 : i = Len(q) + 1 \/ i \in 1 .. Len(q)
    BY <1>2
  <2>5. IsInjective(r)
    BY <1>2, <2>2, <2>3, <2>4 DEF IsInjective
  <2>6. \A i \in Len(known) + 1 .. Len(r) : \E b \in Byte : r[i] = NextState(patterns, id, b)
    <3> SUFFICES ASSUME NEW i \in Len(known) + 1 .. Len(r)
                 PROVE  \E b \in Byte : r[i] = NextState(patterns, id, b)
      OBVIOUS
    <3>1. CASE i = Len(q) + 1
      BY <2>3, <3>1 DEF new
    <3>2. CASE i # Len(q) + 1
      <4>1. i \in Len(known) + 1 .. Len(q) /\ i \in 1 .. Len(q)
        BY <1>2, <2>3, <3>2
      <4> QED BY <1>2, <2>3, <4>1
    <3> QED BY <3>1, <3>2
  <2>7. ToSet(q) \subseteq ToSet(r) /\ new \in ToSet(r)
    <3>1. Len(q) + 1 \in DOMAIN r /\ \A i \in DOMAIN q : i \in DOMAIN r /\ r[i] = q[i]
      BY <1>2, <2>3
    <3> QED BY <2>3, <3>1 DEF ToSet
  <2>8. \A b \in 0 .. (n + 1) - 1 : NextState(patterns, id, b) \in ToSet(r)
    BY <1>2, <1>3, <2>7 DEF new
  <2>9. Len(known) <= Len(r) /\ \A i \in 1 .. Len(known) : r[i] = known[i]
    <3>1. \A i \in 1 .. Len(known) : i \in 1 .. Len(q)
      BY <1>2
    <3> QED BY <1>2, <2>3, <3>1
  <2> QED BY <2>3, <2>5, <2>6, <2>8, <2>9 DEF Extends, r, T
<1> QED BY <1>4, <1>5


\* The loop over the bytes adds exactly the successors that are not known.
LEMMA SuccessorsAdded ==
  ASSUME patterns \in PatternLists, NEW known \in Seq(RegexStates(patterns)), IsInjective(known),
         NEW id \in RegexStates(patterns)
  PROVE  Extends(WithSuccessors(known, id, Bytes), known, id, ByteCount)
<1> DEFINE T == RegexStates(patterns)
           N == ByteCount
           U == SUBSET (1 .. N)
           Def(f) == [s \in U |-> IF s = {} THEN known
                                  ELSE WithSuccessor(f[s \ {Max(s)}], id, Bytes[Max(s)])]
           iter == CHOOSE f : f = Def(f)
<1>1. N \in Nat /\ DOMAIN Bytes = 1 .. N /\ \A i \in 1 .. N : Bytes[i] = i - 1 /\ i - 1 \in Byte
  BY ByteCountAssumption DEF Bytes, Byte
<1>2. WithSuccessors(known, id, Bytes) = iter[1 .. N]
  <2> DEFINE Raw(f) == [s \in SUBSET DOMAIN Bytes |->
                IF s = {} THEN known
                ELSE IF NextState(patterns, id, Bytes[Max(s)]) \in ToSet(f[s \ {Max(s)}])
                     THEN f[s \ {Max(s)}]
                     ELSE Append(f[s \ {Max(s)}], NextState(patterns, id, Bytes[Max(s)]))]
  <2>1. WithSuccessors(known, id, Bytes) = (CHOOSE f : f = Raw(f))[DOMAIN Bytes]
    BY DEF WithSuccessors, FoldLeft, MapThenFoldSet
  <2>2. ASSUME NEW f PROVE Raw(f) = Def(f)
    BY <1>1 DEF WithSuccessor
  <2> HIDE DEF Raw, Def
  <2>3. (CHOOSE f : f = Raw(f)) = (CHOOSE f : f = Def(f))
    BY <2>2
  <2> QED BY <1>1, <2>1, <2>3
<1>3. ASSUME NEW s \in U, s # {}
      PROVE  /\ Max(s) \in s /\ Max(s) \in 1 .. N /\ s \ {Max(s)} \in U
             /\ Bytes[Max(s)] \in Byte /\ Cardinality(s \ {Max(s)}) < Cardinality(s)
  <2>1. s \subseteq 0 .. N
    BY <1>1
  <2>2. Max(s) \in s
    BY <1>1, <1>3, <2>1, MaxIn
  <2>3. IsFiniteSet(s) /\ Cardinality(s) \in Nat
    <3>1. IsFiniteSet(1 .. N) /\ s \in SUBSET (1 .. N)
      BY <1>1, FS_Interval
    <3> QED BY <3>1, FS_Subset, FS_CardinalityType
  <2>4. Cardinality(s \ {Max(s)}) = Cardinality(s) - 1
    BY <2>2, <2>3, FS_RemoveElement
  <2>5. Cardinality(s \ {Max(s)}) < Cardinality(s)
    BY <2>3, <2>4
  <2>6. Max(s) \in 1 .. N /\ s \ {Max(s)} \in U
    BY <1>3, <2>2
  <2>7. Bytes[Max(s)] \in Byte
    BY <1>1, <2>6
  <2> QED BY <2>2, <2>5, <2>6, <2>7
<1>4. ASSUME NEW v \in Seq(T), NEW b \in Byte PROVE WithSuccessor(v, id, b) \in Seq(T)
  <2>1. NextState(patterns, id, b) \in T
    BY RegexStep
  <2> HIDE DEF T
  <2> QED BY <2>1 DEF WithSuccessor
<1> DEFINE V == Seq(T)
           d == [s \in U |-> Cardinality(s)]
           next == [s \in U |-> IF s = {} THEN {} ELSE s \ {Max(s)}]
           val == [s \in U |-> known]
           comb == [y \in U \X V |-> IF y[1] = {} THEN known ELSE WithSuccessor(y[2], id, Bytes[Max(y[1])])]
<1>5. \E f \in [U -> V] : Descends(f, U, {{}}, val, next, comb)
  <2>1. d \in [U -> 0 .. N]
    <3> SUFFICES ASSUME NEW s \in U PROVE Cardinality(s) \in 0 .. N
      OBVIOUS
    <3>1. IsFiniteSet(1 .. N) /\ Cardinality(1 .. N) = N
      <4>1. 1 \in Int /\ N \in Int /\ (IF 1 > N THEN 0 ELSE N - 1 + 1) = N
        BY <1>1
      <4> QED BY <4>1, FS_Interval
    <3>2. Cardinality(s) \in Nat /\ Cardinality(s) <= N
      BY <3>1, FS_Subset, FS_CardinalityType
    <3> QED BY <1>1, <3>2
  <2>2. next \in [U -> U]
    BY <1>3
  <2>3. val \in [U -> V]
    OBVIOUS
  <2>4. comb \in [U \X V -> V]
    <3> SUFFICES ASSUME NEW y \in U \X V
                 PROVE  (IF y[1] = {} THEN known ELSE WithSuccessor(y[2], id, Bytes[Max(y[1])])) \in V
      OBVIOUS
    <3>1. y[1] \in U /\ y[2] \in V
      OBVIOUS
    <3> QED BY <1>3, <1>4, <3>1
  <2>5. \A s \in U \ {{}} : d[next[s]] < d[s]
    <3> SUFFICES ASSUME NEW s \in U, s # {} PROVE d[next[s]] < d[s]
      OBVIOUS
    <3>1. next[s] = s \ {Max(s)} /\ s \ {Max(s)} \in U
      BY <1>3
    <3> QED BY <1>3, <3>1
  <2> HIDE DEF d, next, val, comb, U, V, N
  <2> QED BY <1>1, <2>1, <2>2, <2>3, <2>4, <2>5, RankedRecursion
<1>6. iter = Def(iter)
  <2>1. PICK f \in [U -> V] : Descends(f, U, {{}}, val, next, comb)
    BY <1>5
  <2>2. ASSUME NEW s \in U
        PROVE  f[s] = IF s = {} THEN known ELSE WithSuccessor(f[s \ {Max(s)}], id, Bytes[Max(s)])
    <3>1. f[s] = IF s \in {{}} THEN val[s] ELSE comb[<<s, f[next[s]]>>]
      BY <2>1 DEF Descends
    <3>2. CASE s = {}
      BY <3>1, <3>2
    <3>3. CASE s # {}
      <4>1. next[s] = s \ {Max(s)} /\ next[s] \in U
        BY <1>3, <3>3
      <4>2. f[next[s]] \in V /\ <<s, f[next[s]]>> \in U \X V
        BY <4>1
      <4>3. comb[<<s, f[next[s]]>>] = WithSuccessor(f[next[s]], id, Bytes[Max(s)])
        <5> HIDE DEF next
        <5> QED BY <3>3, <4>2
      <4> QED BY <3>1, <3>3, <4>1, <4>3
    <3> QED BY <3>2, <3>3
  <2>3. f = Def(f)
    <3>1. f = [s \in U |-> f[s]]
      OBVIOUS
    <3> QED BY <2>2, <3>1
  <2> HIDE DEF Def
  <2> QED BY <2>3
<1> HIDE DEF iter
<1> DEFINE S == {n \in 0 .. N : Extends(iter[1 .. n], known, id, n)}
<1>7. 0 \in S
  <2>1. 1 .. 0 = {} /\ {} \in U /\ \A b \in 0 .. 0 - 1 : FALSE
    OBVIOUS
  <2>2. iter[1 .. 0] = known
    BY <1>6, <2>1
  <2>3. Len(known) \in Nat /\ \A i \in Len(known) + 1 .. Len(known) : FALSE
    OBVIOUS
  <2> QED BY <1>1, <2>1, <2>2, <2>3 DEF Extends
<1>8. ASSUME NEW n \in 0 .. N - 1, n \in S PROVE n + 1 \in S
  <2> DEFINE s == 1 .. n + 1
  <2>1. s \in U /\ s # {} /\ n \in Byte /\ n + 1 \in s /\ n + 1 \in 1 .. N
    <3>1. n \in Nat /\ n + 1 <= N /\ n \in Byte
      BY <1>1 DEF Byte
    <3>2. n + 1 \in s /\ n + 1 \in 1 .. N
      BY <3>1
    <3>3. s \subseteq 1 .. N
      BY <1>1, <3>1
    <3> QED BY <3>1, <3>2, <3>3
  <2>2. Max(s) = n + 1
    <3>1. \A x \in s : (\A y \in s : x >= y) => x = n + 1
      OBVIOUS
    <3>2. \A y \in s : n + 1 >= y
      OBVIOUS
    <3> HIDE DEF s
    <3> QED BY <2>1, <3>1, <3>2 DEF Max
  <2>3. s \ {Max(s)} = 1 .. n /\ Bytes[Max(s)] = n
    BY <1>1, <2>1, <2>2
  <2>4. iter[s] = WithSuccessor(iter[s \ {Max(s)}], id, Bytes[Max(s)])
    BY <1>6, <2>1
  <2>5. Extends(iter[s], known, id, n + 1)
    BY <1>8, <2>1, <2>3, <2>4, TurnExtends
  <2> QED BY <1>1, <1>8, <2>5
<1>9. N \in S
  <2> HIDE DEF S
  <2>1. \A n \in 0 .. N : n \in S
    BY <1>1, <1>7, <1>8, InductionUpTo
  <2> QED BY <1>1, <2>1
<1> QED BY <1>2, <1>9

------------------------------------------------------------------------------
(***************************************************************************)
(* The invariant.                                                          *)
(***************************************************************************)

\* The number of states that have left the queue.
Expanded == Len(ids) - Len(queue)

\* ids holds different states that can be reached, the start state first; the last
\* of them are in the queue, and the successors of all others are known.
Discovered ==
  /\ ids \in Seq(RegexStates(patterns)) /\ ids[1] = RegexStart /\ IsInjective(ids)
  /\ queue \in Seq(RegexStates(patterns)) /\ Len(queue) <= Len(ids)
  /\ queue = SubSeq(ids, Expanded + 1, Len(ids))
  /\ \A i \in 1 .. Expanded, b \in Byte : NextState(patterns, ids[i], b) \in ToSet(ids)
  /\ \A i \in 2 .. Len(ids) : \E j \in 1 .. i - 1, b \in Byte : ids[i] = NextState(patterns, ids[j], b)

\* The patterns that match in a state of the regex DFA.
MatchingIn(pats, s) == Matching(pats, s.seen, s.whole)

\* The first n rows of the table t are copies of those of the regex DFA with the
\* states q, and its accept entries are the matches in these states, each once.
CopyOf(t, pats, q, n) ==
  /\ t \in ProgramType /\ t.states = Len(q) /\ t.classes = ByteCount
  /\ t.lens = <<>> /\ t.links = <<>> /\ Len(t.trans) = n * ByteCount
  /\ \A s \in 0 .. n - 1, b \in Byte :
       /\ t.trans[s * ByteCount + b + 1] \in 0 .. Len(q) - 1
       /\ q[t.trans[s * ByteCount + b + 1] + 1] = NextState(pats, q[s + 1], b)
  /\ \A i \in DOMAIN t.accepts :
       /\ t.accepts[i][1] \in 0 .. n - 1
       /\ t.accepts[i][2] \in MatchingIn(pats, q[t.accepts[i][1] + 1])
  /\ \A s \in 0 .. n - 1 : \A pid \in MatchingIn(pats, q[s + 1]) :
       \E i \in DOMAIN t.accepts : t.accepts[i] = <<s, pid>>
  /\ \A i, j \in DOMAIN t.accepts : t.accepts[i] = t.accepts[j] => i = j

Filled(n) == CopyOf(table, patterns, ids, n)

\* The table with its lengths, and what becomes of it.
Complete == [table EXCEPT !.lens = [i \in DOMAIN patterns |-> 0]]
Outcome  == IF Compilable(Complete) THEN Complete ELSE Error("InvalidTable")

\* Every state that was discovered is in the table or will be.
Closed == ids # <<>> /\ queue = <<>> /\ Len(ids) <= MaxStates

IInv ==
  /\ patterns \in PatternLists
  /\ phase \in {"start", "discover", "fill", "done"}
  /\ phase = "start" => ids = <<>>
  /\ phase = "discover" => ids # <<>>
  /\ ids # <<>> => Discovered
  /\ phase = "fill" => Closed /\ \E n \in 0 .. Len(ids) : Filled(n)
  /\ phase # "done" => result = Nothing
  /\ phase = "done" =>
       \/ /\ ids = <<>> \/ Len(ids) > MaxStates
          /\ result \in {Error("EmptyDfa"), Error("InvalidTable"), Error("TooManyStates")}
       \/ Closed /\ Filled(Len(ids)) /\ result = Outcome

\* The invariant holds before the build starts.
LEMMA InitIInv == Init => IInv
BY DEF Init, IInv


\* What is left of a when one element leaves its end from e + 1 on, followed by
\* what q adds to a, is the end of q.
LEMMA EndsJoin ==
  ASSUME NEW T, NEW a \in Seq(T), NEW q \in Seq(T), Len(a) <= Len(q),
         \A i \in 1 .. Len(a) : q[i] = a[i], NEW e \in 0 .. Len(a) - 1
  PROVE  LET end == SubSeq(a, e + 1, Len(a))
             join == Tail(end) \o SubSeq(q, Len(a) + 1, Len(q))
         IN  /\ Head(end) = a[e + 1] /\ end # <<>> /\ Len(join) = Len(q) - (e + 1)
             /\ join = SubSeq(q, e + 2, Len(q))
<1> DEFINE end == SubSeq(a, e + 1, Len(a))
           new == SubSeq(q, Len(a) + 1, Len(q))
           join == Tail(end) \o new
           r == SubSeq(q, e + 2, Len(q))
<1>1. Len(a) \in Nat /\ Len(q) \in Nat /\ e \in Nat /\ e + 1 <= Len(a)
  OBVIOUS
<1>2. /\ end \in Seq(T) /\ Len(end) = Len(a) - e
      /\ \A i \in 1 .. Len(a) - e : end[i] = a[e + i]
  BY <1>1
<1>3. /\ new \in Seq(T) /\ Len(new) = Len(q) - Len(a)
      /\ \A i \in 1 .. Len(q) - Len(a) : new[i] = q[Len(a) + i]
  BY <1>1
<1>4. r \in Seq(T) /\ Len(r) = Len(q) - (e + 1) /\ \A i \in 1 .. Len(q) - (e + 1) : r[i] = q[(e + 1) + i]
  BY <1>1
<1> HIDE DEF end, new, r
<1>5. Head(end) = a[e + 1] /\ end # <<>>
  <2>1. 1 \in 1 .. Len(a) - e
    BY <1>1
  <2>2. end # <<>> /\ Head(end) = end[1]
    BY <1>1, <1>2, <2>1
  <2> QED BY <1>2, <2>1, <2>2
<1>6. /\ Tail(end) \in Seq(T) /\ Len(Tail(end)) = Len(a) - (e + 1)
      /\ \A i \in 1 .. Len(a) - (e + 1) : Tail(end)[i] = end[i + 1]
  BY <1>1, <1>2, <1>5
<1> DEFINE t == Tail(end)
<1>7. /\ join \in Seq(T) /\ Len(join) = Len(q) - (e + 1)
      /\ \A i \in 1 .. Len(t) : join[i] = t[i]
      /\ \A i \in 1 .. Len(new) : join[Len(t) + i] = new[i]
  <2>1. t \in Seq(T) /\ Len(t) = Len(a) - (e + 1)
    BY <1>6
  <2>2. join = t \o new
    OBVIOUS
  <2> HIDE DEF t, join
  <2>3. /\ join \in Seq(T) /\ Len(join) = Len(t) + Len(new)
        /\ \A i \in 1 .. Len(t) : join[i] = t[i]
        /\ \A i \in 1 .. Len(new) : join[Len(t) + i] = new[i]
    <3>1. new \in Seq(T) /\ t \in Seq(T)
      BY <1>3, <2>1
    <3>2. /\ t \o new \in Seq(T) /\ Len(t \o new) = Len(t) + Len(new)
          /\ \A i \in 1 .. Len(t) : (t \o new)[i] = t[i]
          /\ \A i \in 1 .. Len(new) : (t \o new)[Len(t) + i] = new[i]
      BY <3>1, Concatenated
    <3> QED BY <2>2, <3>2, Zenon
  <2>4. Len(join) = Len(q) - (e + 1)
    BY <1>1, <1>3, <2>1, <2>3
  <2> QED BY <2>3, <2>4
<1> HIDE DEF t
<1>8. ASSUME NEW i \in 1 .. Len(q) - (e + 1) PROVE join[i] = r[i]
  <2>1. CASE i <= Len(a) - (e + 1)
    <3>1. i \in 1 .. Len(t) /\ i \in 1 .. Len(a) - (e + 1) /\ i + 1 \in 1 .. Len(a) - e
          /\ (e + 1) + i \in 1 .. Len(a) /\ e + (i + 1) = (e + 1) + i
      BY <1>1, <1>6, <2>1 DEF t
    <3>2. join[i] = end[i + 1] /\ end[i + 1] = a[e + (i + 1)]
      BY <1>2, <1>6, <1>7, <3>1 DEF t
    <3> QED BY <1>4, <3>1, <3>2
  <2>2. CASE ~ (i <= Len(a) - (e + 1))
    <3> DEFINE k == i - (Len(a) - (e + 1))
    <3>1. k \in 1 .. Len(q) - Len(a) /\ Len(t) + k = i /\ Len(a) + k = (e + 1) + i
      BY <1>1, <1>6, <2>2 DEF t
    <3> HIDE DEF k
    <3>2. join[i] = new[k] /\ new[k] = q[Len(a) + k]
      BY <1>3, <1>7, <3>1
    <3> QED BY <1>4, <3>1, <3>2
  <2> QED BY <2>1, <2>2
<1>9. join = r
  <2> HIDE DEF join
  <2> QED BY <1>4, <1>7, <1>8, SameSeq
<1> QED BY <1>5, <1>7, <1>9 DEF end, new, r, join


------------------------------------------------------------------------------
(***************************************************************************)
(* The invariant is kept.                                                  *)
(***************************************************************************)

\* What is discovered when there is no state yet: the start state.
LEMMA StartDiscoveryKeeps ==
  ASSUME IInv, StartDiscovery
  PROVE  IInv'
<1>1. /\ patterns \in PatternLists /\ patterns' = patterns /\ phase = "start" /\ phase' = "discover"
      /\ ids' = <<RegexStart>> /\ queue' = <<RegexStart>> /\ result = Nothing /\ result' = result
  BY DEF IInv, StartDiscovery
<1>2. RegexStart \in RegexStates(patterns)
  BY <1>1, StartShows
<1>3. /\ ids' \in Seq(RegexStates(patterns')) /\ Len(ids') = 1 /\ Len(queue') = 1
      /\ ids'[1] = RegexStart /\ DOMAIN ids' = 1 .. 1 /\ ids' # <<>>
  BY <1>1, <1>2
<1>4. IsInjective(ids')
  BY <1>3 DEF IsInjective
<1>5. Expanded' = 0
  BY <1>3 DEF Expanded
<1>6. queue' = SubSeq(ids', 0 + 1, 1) /\ queue' \in Seq(RegexStates(patterns'))
  BY <1>1, <1>3
<1>7. \A i \in 1 .. 0 : FALSE /\ \A j \in 2 .. 1 : FALSE
  OBVIOUS
<1>8. Discovered'
  BY <1>1, <1>3, <1>4, <1>5, <1>6, <1>7 DEF Discovered
<1> QED BY <1>1, <1>3, <1>8 DEF IInv

\* A state leaves the queue when its successors are known.
LEMMA DiscoverKeeps ==
  ASSUME IInv, Discover
  PROVE  IInv'
<1> DEFINE T == RegexStates(patterns)
           e == Expanded
           id == Head(queue)
           q == ids'
<1>1. /\ patterns \in PatternLists /\ patterns' = patterns /\ phase = "discover" /\ phase' = "discover"
      /\ result = Nothing /\ result' = result /\ ids # <<>> /\ Discovered /\ queue # <<>>
      /\ q = WithSuccessors(ids, id, Bytes)
      /\ queue' = Tail(queue) \o SubSeq(q, Len(ids) + 1, Len(q))
  BY DEF IInv, Discover, Expand
<1>2. /\ ids \in Seq(T) /\ ids[1] = RegexStart /\ IsInjective(ids) /\ Len(ids) \in Nat
      /\ queue \in Seq(T) /\ Len(queue) <= Len(ids) /\ queue = SubSeq(ids, e + 1, Len(ids))
      /\ \A i \in 1 .. e, b \in Byte : NextState(patterns, ids[i], b) \in ToSet(ids)
      /\ \A i \in 2 .. Len(ids) : \E j \in 1 .. i - 1, b \in Byte : ids[i] = NextState(patterns, ids[j], b)
  <2>1. ids \in Seq(T) /\ queue \in Seq(T) /\ IsInjective(ids) /\ ids[1] = RegexStart
    BY <1>1 DEF Discovered
  <2>2. /\ Len(queue) <= Len(ids) /\ queue = SubSeq(ids, e + 1, Len(ids))
        /\ \A i \in 1 .. e, b \in Byte : NextState(patterns, ids[i], b) \in ToSet(ids)
        /\ \A i \in 2 .. Len(ids) :
             \E j \in 1 .. i - 1, b \in Byte : ids[i] = NextState(patterns, ids[j], b)
    BY <1>1, Zenon DEF Discovered
  <2>3. Len(ids) \in Nat
    BY <2>1
  <2> QED BY <2>1, <2>2, <2>3, Zenon
<1>3. e \in 0 .. Len(ids) - 1
  <2>1. Len(queue) \in Nat \ {0}
    <3>1. queue \in Seq(T) /\ queue # <<>>
      BY <1>1, <1>2
    <3> HIDE DEF T
    <3> QED BY <3>1
  <2> QED BY <1>2, <2>1 DEF Expanded
<1> HIDE DEF e
<1>4. id = ids[e + 1] /\ id \in T
  <2>1. e + 1 \in 1 .. Len(ids) /\ 1 \in 1 .. Len(ids) - e
    BY <1>2, <1>3
  <2>2. id = ids[e + 1]
    BY <1>1, <1>2, <1>3, <2>1
  <2> QED BY <1>2, <2>1, <2>2
<1> HIDE DEF T, id
<1>5. Extends(q, ids, id, ByteCount)
  BY <1>1, <1>2, <1>4, SuccessorsAdded DEF T
<1>6. /\ q \in Seq(T) /\ IsInjective(q) /\ Len(q) \in Nat
      /\ Len(ids) <= Len(q) /\ \A i \in 1 .. Len(ids) : q[i] = ids[i]
      /\ \A i \in Len(ids) + 1 .. Len(q) : \E b \in Byte : q[i] = NextState(patterns, id, b)
      /\ \A b \in Byte : NextState(patterns, id, b) \in ToSet(q)
  BY <1>5 DEF Extends, T, Byte
<1>7. /\ queue' = SubSeq(q, e + 2, Len(q)) /\ Len(queue') = Len(q) - (e + 1)
  BY <1>1, <1>2, <1>3, <1>6, EndsJoin
<1>8. Expanded' = e + 1 /\ Len(queue') <= Len(q) /\ queue' \in Seq(T)
  <2>1. Expanded' = Len(q) - Len(queue')
    BY DEF Expanded
  <2>2. e + 1 <= Len(ids) /\ e \in Nat
    BY <1>2, <1>3
  <2>3. queue' \in Seq(T)
    BY <1>6, <1>7, <2>2
  <2> HIDE DEF q
  <2> QED BY <1>2, <1>6, <1>7, <2>1, <2>2, <2>3
<1>9. ToSet(ids) \subseteq ToSet(q)
  <2>1. \A i \in DOMAIN ids : i \in DOMAIN q /\ q[i] = ids[i]
    BY <1>2, <1>6
  <2> QED BY <2>1 DEF ToSet
<1>10. ASSUME NEW i \in 1 .. e + 1, NEW b \in Byte PROVE NextState(patterns, q[i], b) \in ToSet(q)
  <2>1. i \in 1 .. Len(ids) /\ q[i] = ids[i] /\ (i = e + 1 \/ i \in 1 .. e)
    BY <1>2, <1>3, <1>6
  <2> QED BY <1>2, <1>4, <1>6, <1>9, <2>1
<1>11. ASSUME NEW i \in 2 .. Len(q)
       PROVE  \E j \in 1 .. i - 1, b \in Byte : q[i] = NextState(patterns, q[j], b)
  <2>1. CASE i <= Len(ids)
    <3>1. i \in 2 .. Len(ids) /\ i \in 1 .. Len(ids)
      BY <1>2, <2>1
    <3>2. PICK j \in 1 .. i - 1, b \in Byte : ids[i] = NextState(patterns, ids[j], b)
      BY <1>2, <3>1
    <3>3. j \in 1 .. Len(ids)
      BY <1>2, <2>1
    <3> QED BY <1>6, <3>1, <3>2, <3>3
  <2>2. CASE ~ (i <= Len(ids))
    <3>1. i \in Len(ids) + 1 .. Len(q) /\ e + 1 \in 1 .. i - 1 /\ e + 1 \in 1 .. Len(ids)
      BY <1>2, <1>3, <1>6, <2>2
    <3>2. q[e + 1] = id
      BY <1>4, <1>6, <3>1
    <3> QED BY <1>6, <3>1, <3>2
  <2> QED BY <2>1, <2>2
<1>12. q # <<>> /\ q[1] = RegexStart
  <2>1. 1 \in 1 .. Len(ids) /\ Len(q) # 0
    BY <1>2, <1>3, <1>6
  <2> QED BY <1>2, <1>6, <2>1
<1>13. Discovered'
  <2>1. (e + 1) + 1 = e + 2
    BY <1>3
  <2> QED BY <1>1, <1>6, <1>7, <1>8, <1>10, <1>11, <1>12, <2>1 DEF Discovered, T
<1> QED BY <1>1, <1>12, <1>13 DEF IInv


\* When the queue is empty, every successor of a state has an index.
LEMMA ClosedFacts ==
  ASSUME Discovered, Closed
  PROVE  /\ ids \in Seq(RegexStates(patterns)) /\ Len(ids) \in Nat \ {0} /\ Len(ids) <= Bit31
         /\ DOMAIN ids = 1 .. Len(ids)
         /\ \A i, j \in 1 .. Len(ids) : ids[i] = ids[j] => i = j
         /\ \A i \in 1 .. Len(ids), b \in Byte :
              LET t == NextState(patterns, ids[i], b)
              IN  /\ t \in ToSet(ids)
                  /\ IndexOf(t) \in 0 .. Len(ids) - 1 /\ ids[IndexOf(t) + 1] = t
<1> DEFINE T == RegexStates(patterns)
<1>1. ids \in Seq(T) /\ ids # <<>> /\ queue = <<>> /\ IsInjective(ids) /\ Len(ids) <= MaxStates
  BY DEF Discovered, Closed
<1>2. \A i \in 1 .. Expanded, b \in Byte : NextState(patterns, ids[i], b) \in ToSet(ids)
  BY Zenon DEF Discovered
<1> HIDE DEF T
<1>3. Len(ids) \in Nat \ {0} /\ DOMAIN ids = 1 .. Len(ids) /\ Len(queue) = 0 /\ Len(ids) <= Bit31
  BY <1>1, LimitsAssumption, Bit31Assumption
<1>4. Expanded = Len(ids)
  BY <1>3 DEF Expanded
<1>5. \A i, j \in 1 .. Len(ids) : ids[i] = ids[j] => i = j
  BY <1>1, <1>3 DEF IsInjective
<1>6. ASSUME NEW t \in ToSet(ids)
      PROVE  IndexOf(t) \in 0 .. Len(ids) - 1 /\ ids[IndexOf(t) + 1] = t
  <2> DEFINE k == CHOOSE i \in DOMAIN ids : ids[i] = t
  <2>1. \E i \in DOMAIN ids : ids[i] = t
    BY DEF ToSet
  <2>2. k \in DOMAIN ids /\ ids[k] = t /\ IndexOf(t) = k - 1
    BY <2>1 DEF IndexOf
  <2> HIDE DEF k
  <2>3. k \in 1 .. Len(ids) /\ (k - 1) + 1 = k
    BY <1>3, <2>2
  <2> QED BY <1>3, <2>2, <2>3
<1> QED BY <1>1, <1>2, <1>3, <1>4, <1>5, <1>6 DEF T

\* What ends the build before there is a table keeps the invariant.
LEMMA StopKeeps ==
  ASSUME IInv, RejectEmpty \/ RegexFails \/ TooManyStates
  PROVE  IInv'
<1>1. /\ patterns \in PatternLists /\ UNCHANGED <<patterns, ids, queue, table>> /\ phase' = "done"
      /\ result' \in {Error("EmptyDfa"), Error("InvalidTable"), Error("TooManyStates")}
      /\ ids = <<>> \/ Len(ids) > MaxStates
      /\ ids # <<>> => Discovered
  BY DEF IInv, RejectEmpty, RegexFails, TooManyStates, Stop
<1>2. ids' # <<>> => Discovered'
  BY <1>1 DEF Discovered, Expanded
<1> QED BY <1>1, <1>2 DEF IInv

\* The new table has no rows.
LEMMA NewTableKeeps ==
  ASSUME IInv, NewTable
  PROVE  IInv'
<1>1. /\ patterns \in PatternLists /\ UNCHANGED <<patterns, ids, queue, result>>
      /\ phase = "discover" /\ phase' = "fill" /\ result = Nothing
      /\ ids # <<>> /\ Discovered /\ Closed
      /\ table' = [states |-> Len(ids), classes |-> ByteCount, trans |-> <<>>,
                   accepts |-> <<>>, lens |-> <<>>, links |-> <<>>]
  BY DEF IInv, NewTable, Closed
<1>2. Discovered' /\ Closed'
  BY <1>1 DEF Discovered, Expanded, Closed
<1>3. Len(ids) \in Nat \ {0} /\ ByteCount \in Nat \ {0}
  BY <1>1, ClosedFacts, ByteCountAssumption
<1>4. /\ table'.states = Len(ids) /\ table'.classes = ByteCount /\ table'.trans = <<>>
      /\ table'.accepts = <<>> /\ table'.lens = <<>> /\ table'.links = <<>>
      /\ table' \in ProgramType
  <2>1. <<>> \in Seq(Word) /\ <<>> \in Seq(Word \X Word)
    OBVIOUS
  <2> QED BY <1>1, <1>3, <2>1 DEF ProgramType
<1>5. Filled(0)'
  <2>1. Len(<<>>) = 0 * ByteCount /\ DOMAIN <<>> = {} /\ \A s \in 0 .. 0 - 1 : FALSE
    BY <1>3
  <2> QED BY <1>1, <1>4, <2>1 DEF Filled, CopyOf
<1>6. 0 \in 0 .. Len(ids')
  BY <1>1, <1>3
<1> QED BY <1>1, <1>2, <1>5, <1>6 DEF IInv

\* A row is added with the accept entries of its state.
LEMMA FillRowKeeps ==
  ASSUME IInv, FillRow
  PROVE  IInv'
<1>1. /\ patterns \in PatternLists /\ UNCHANGED <<patterns, ids, queue, phase, result>>
      /\ phase = "fill" /\ result = Nothing /\ ids # <<>> /\ Discovered /\ Closed
      /\ \E n \in 0 .. Len(ids) : Filled(n)
      /\ Len(table.trans) < table.states * ByteCount
  BY DEF IInv, FillRow, Closed
<1>2. Discovered' /\ Closed'
  BY <1>1 DEF Discovered, Expanded, Closed
<1>3. PICK n \in 0 .. Len(ids) : Filled(n)
  BY <1>1
<1> DEFINE N == Len(ids)
           C == ByteCount
           id == ids[n + 1]
           row == [i \in 1 .. C |-> IndexOf(NextState(patterns, id, i - 1))]
           acc == Accepted(id)
           new == [k \in DOMAIN acc |-> <<n, acc[k]>>]
           M == MatchingIn(patterns, id)
<1>4. /\ N \in Nat \ {0} /\ C \in Nat \ {0} /\ N <= Bit31 /\ Bit31 \in Nat \ {0}
      /\ n \in Nat /\ n <= N
  BY <1>1, ClosedFacts, ByteCountAssumption, Bit31Assumption
<1>5. /\ table \in ProgramType /\ table.states = N /\ table.classes = C
      /\ table.lens = <<>> /\ table.links = <<>> /\ Len(table.trans) = n * C
      /\ table.trans \in Seq(Word) /\ table.accepts \in Seq(Word \X Word)
  BY <1>3 DEF Filled, CopyOf, ProgramType
<1>6. n \in 0 .. N - 1 /\ n + 1 \in 1 .. N /\ (n * C) \div C = n
  <2>1. n # N
    BY <1>1, <1>4, <1>5
  <2>2. n \in 0 .. N - 1 /\ 0 \in 0 .. C - 1
    BY <1>4, <2>1
  <2>3. (n * C + 0) \div C = n
    BY <1>4, <2>2, CellIndex
  <2>4. n * C + 0 = n * C
    BY <1>4
  <2> QED BY <1>4, <2>2, <2>3, <2>4
<1>7. table' = [table EXCEPT !.trans = table.trans \o row, !.accepts = table.accepts \o new]
  BY <1>5, <1>6 DEF FillRow
<1>8. /\ row \in [1 .. C -> 0 .. N - 1]
      /\ \A b \in Byte : ids[row[b + 1] + 1] = NextState(patterns, id, b)
  <2>1. ASSUME NEW b \in Byte
        PROVE  /\ IndexOf(NextState(patterns, id, b)) \in 0 .. N - 1
               /\ ids[IndexOf(NextState(patterns, id, b)) + 1] = NextState(patterns, id, b)
    BY <1>1, <1>6, ClosedFacts
  <2>2. /\ \A i \in 1 .. C : i - 1 \in Byte
        /\ \A b \in Byte : b + 1 \in 1 .. C /\ (b + 1) - 1 = b
    BY <1>4 DEF Byte
  <2>3. \A b \in Byte : row[b + 1] = IndexOf(NextState(patterns, id, b))
    BY <2>2
  <2> QED BY <2>1, <2>2, <2>3
<1>9. /\ acc \in Seq(M) /\ Len(acc) \in Nat /\ M \subseteq 0 .. Len(patterns) - 1 /\ M \subseteq Word
      /\ \A i, j \in 1 .. Len(acc) : acc[i] = acc[j] => i = j
      /\ \A pid \in M : \E k \in 1 .. Len(acc) : acc[k] = pid
  <2>1. M = Matching(patterns, id.seen, id.whole)
    BY DEF MatchingIn
  <2>2. M \subseteq 0 .. Len(patterns) - 1
    BY <1>1, <2>1, MatchingType
  <2>3. 0 .. Len(patterns) - 1 \subseteq Word
    <3>1. Len(patterns) \in Nat /\ Len(patterns) <= Bit31
      BY <1>1, PatternFacts
    <3> QED BY <1>4, <3>1 DEF Word, U32
  <2>4. /\ acc \in Seq(M) /\ Len(acc) \in Nat
        /\ \A i, j \in 1 .. Len(acc) : acc[i] = acc[j] => i = j
        /\ \A pid \in M : \E k \in 1 .. Len(acc) : acc[k] = pid
    <3> HIDE DEF acc, id, M
    <3> QED BY <1>1, <2>1, AcceptedIs DEF acc
  <2> QED BY <2>2, <2>3, <2>4
<1> HIDE DEF row, acc, id
<1>10. n \in Word /\ 0 .. N - 1 \subseteq Word
  BY <1>4, <1>6 DEF Word, U32
<1>11. row \in Seq(Word) /\ Len(row) = C /\ row \in Seq(0 .. N - 1)
  <2>1. row \in [1 .. C -> Word]
    BY <1>8, <1>10
  <2> QED BY <1>4, <1>8, <2>1, FunctionIsSeq
<1>12. /\ new \in Seq(Word \X Word) /\ Len(new) = Len(acc)
       /\ \A k \in 1 .. Len(acc) : new[k] = <<n, acc[k]>>
  <2>1. DOMAIN acc = 1 .. Len(acc) /\ \A k \in 1 .. Len(acc) : acc[k] \in Word
    <3>1. acc \in Seq(M) /\ M \subseteq Word
      BY <1>9
    <3> HIDE DEF M
    <3>2. DOMAIN acc = 1 .. Len(acc) /\ \A k \in 1 .. Len(acc) : acc[k] \in M
      BY <3>1
    <3> QED BY <3>1, <3>2
  <2>2. new \in [1 .. Len(acc) -> Word \X Word]
    BY <1>10, <2>1
  <2>3. \A k \in 1 .. Len(acc) : new[k] = <<n, acc[k]>>
    BY <2>1
  <2> HIDE DEF new, M
  <2> QED BY <1>9, <2>2, <2>3, FunctionIsSeq
<1> HIDE DEF new, M
<1> DEFINE tr == table'.trans
           ac == table'.accepts
<1>13. /\ tr = table.trans \o row /\ ac = table.accepts \o new
       /\ table'.states = N /\ table'.classes = C /\ table'.lens = <<>> /\ table'.links = <<>>
       /\ table' = [states |-> N, classes |-> C, trans |-> tr, accepts |-> ac, lens |-> <<>>, links |-> <<>>]
  BY <1>5, <1>7 DEF ProgramType
<1>14. /\ tr \in Seq(Word) /\ Len(tr) = n * C + C
       /\ \A i \in 1 .. n * C : tr[i] = table.trans[i]
       /\ \A i \in 1 .. C : tr[n * C + i] = row[i]
  <2>1. /\ table.trans \o row \in Seq(Word) /\ Len(table.trans \o row) = Len(table.trans) + Len(row)
        /\ \A i \in 1 .. Len(table.trans) : (table.trans \o row)[i] = table.trans[i]
        /\ \A i \in 1 .. Len(row) : (table.trans \o row)[Len(table.trans) + i] = row[i]
    <3>1. table.trans \in Seq(Word) /\ row \in Seq(Word)
      BY <1>5, <1>11
    <3> QED BY <3>1, Concatenated
  <2> QED BY <1>5, <1>11, <1>13, <2>1
<1> DEFINE L == Len(table.accepts)
<1>15. /\ ac \in Seq(Word \X Word) /\ L \in Nat /\ Len(ac) = L + Len(acc)
       /\ DOMAIN ac = 1 .. L + Len(acc) /\ DOMAIN table.accepts = 1 .. L
       /\ \A i \in 1 .. L : ac[i] = table.accepts[i]
       /\ \A k \in 1 .. Len(acc) : ac[L + k] = <<n, acc[k]>>
  <2>1. /\ table.accepts \o new \in Seq(Word \X Word)
        /\ Len(table.accepts \o new) = L + Len(new) /\ L \in Nat
        /\ \A i \in 1 .. L : (table.accepts \o new)[i] = table.accepts[i]
        /\ \A i \in 1 .. Len(new) : (table.accepts \o new)[L + i] = new[i]
    <3>1. table.accepts \in Seq(Word \X Word) /\ new \in Seq(Word \X Word)
      BY <1>5, <1>12
    <3> QED BY <3>1, Concatenated
  <2>2. DOMAIN table.accepts = 1 .. L
    BY <1>5
  <2>3. ac \in Seq(Word \X Word) /\ Len(ac) = L + Len(acc)
    BY <1>12, <1>13, <2>1
  <2>4. DOMAIN ac = 1 .. L + Len(acc)
    <3> HIDE DEF ac
    <3> QED BY <2>3
  <2> QED BY <1>12, <1>13, <2>1, <2>2, <2>3, <2>4
<1> HIDE DEF tr, ac, L
<1>16. table' \in ProgramType /\ Len(tr) = (n + 1) * C
  <2>1. (n + 1) * C = n * C + C
    BY <1>4
  <2>2. <<>> \in Seq(Word)
    OBVIOUS
  <2> QED BY <1>4, <1>13, <1>14, <1>15, <2>1, <2>2 DEF ProgramType
<1>17. ASSUME NEW s \in 0 .. (n + 1) - 1, NEW b \in Byte
       PROVE  /\ tr[s * C + b + 1] \in 0 .. N - 1
              /\ ids[tr[s * C + b + 1] + 1] = NextState(patterns, ids[s + 1], b)
  <2>1. b \in 0 .. C - 1 /\ b + 1 \in 1 .. C
    BY <1>4 DEF Byte
  <2>2. CASE s = n
    <3>1. s * C + b + 1 = n * C + (b + 1)
      BY <1>4, <2>1, <2>2
    <3>2. tr[s * C + b + 1] = row[b + 1]
      BY <1>14, <2>1, <3>1
    <3>3. ids[s + 1] = id
      BY <2>2 DEF id
    <3> QED BY <1>8, <2>1, <3>2, <3>3
  <2>3. CASE s # n
    <3>1. s \in 0 .. n - 1
      BY <1>4, <2>3
    <3>2. s * C + b + 1 \in 1 .. n * C
      BY <1>4, <2>1, <3>1, CellIndex
    <3>3. /\ table.trans[s * C + b + 1] \in 0 .. N - 1
          /\ ids[table.trans[s * C + b + 1] + 1] = NextState(patterns, ids[s + 1], b)
      BY <1>3, <3>1 DEF Filled, CopyOf
    <3> QED BY <1>14, <3>2, <3>3
  <2> QED BY <2>2, <2>3
<1>18. /\ \A i \in 1 .. L : table.accepts[i][1] \in 0 .. n - 1 /\ table.accepts[i][2] \in MatchingIn(patterns, ids[table.accepts[i][1] + 1])
       /\ \A s \in 0 .. n - 1 : \A pid \in MatchingIn(patterns, ids[s + 1]) :
            \E i \in 1 .. L : table.accepts[i] = <<s, pid>>
       /\ \A i, j \in 1 .. L : table.accepts[i] = table.accepts[j] => i = j
  <2>1. DOMAIN table.accepts = 1 .. L
    BY <1>15
  <2> QED BY <1>3, <2>1, Zenon DEF Filled, CopyOf
<1>19. ASSUME NEW i \in 1 .. L + Len(acc)
       PROVE  \/ i \in 1 .. L /\ ac[i] = table.accepts[i]
              \/ i - L \in 1 .. Len(acc) /\ ac[i] = <<n, acc[i - L]>> /\ i = L + (i - L)
  <2>1. L \in Nat /\ Len(acc) \in Nat
    BY <1>9, <1>15
  <2>2. i \in 1 .. L \/ (i - L \in 1 .. Len(acc) /\ i = L + (i - L))
    BY <2>1
  <2> QED BY <1>15, <2>2
<1>20. ASSUME NEW i \in 1 .. L + Len(acc)
       PROVE  ac[i][1] \in 0 .. (n + 1) - 1 /\ ac[i][2] \in MatchingIn(patterns, ids[ac[i][1] + 1])
  <2>1. CASE i \in 1 .. L /\ ac[i] = table.accepts[i]
    BY <1>4, <1>18, <2>1
  <2>2. CASE i - L \in 1 .. Len(acc) /\ ac[i] = <<n, acc[i - L]>>
    <3>1. acc[i - L] \in M
      BY <1>9, <2>2
    <3>2. ac[i][1] = n /\ ac[i][2] = acc[i - L] /\ n \in 0 .. (n + 1) - 1
      BY <1>4, <2>2
    <3> QED BY <3>1, <3>2 DEF M, id
  <2> QED BY <1>19, <2>1, <2>2
<1>21. ASSUME NEW s \in 0 .. (n + 1) - 1, NEW pid \in MatchingIn(patterns, ids[s + 1])
       PROVE  \E i \in 1 .. L + Len(acc) : ac[i] = <<s, pid>>
  <2>1. CASE s = n
    <3>1. PICK k \in 1 .. Len(acc) : acc[k] = pid
      BY <1>9, <1>21, <2>1 DEF M, id
    <3>2. ac[L + k] = <<s, pid>> /\ L + k \in 1 .. L + Len(acc)
      BY <1>9, <1>15, <2>1, <3>1
    <3> QED BY <3>2
  <2>2. CASE s # n
    <3>1. s \in 0 .. n - 1
      BY <1>4, <2>2
    <3>2. PICK i \in 1 .. L : table.accepts[i] = <<s, pid>>
      BY <1>18, <1>21, <3>1
    <3>3. i \in 1 .. L + Len(acc) /\ ac[i] = <<s, pid>>
      BY <1>9, <1>15, <3>2
    <3> QED BY <3>3
  <2> QED BY <2>1, <2>2
<1>22. ASSUME NEW i \in 1 .. L + Len(acc), NEW j \in 1 .. L + Len(acc), ac[i] = ac[j]
       PROVE  i = j
  <2>1. \A k \in 1 .. L : table.accepts[k][1] # n
    BY <1>4, <1>18
  <2>2. CASE i \in 1 .. L /\ j \in 1 .. L
    BY <1>15, <1>18, <1>22, <2>2
  <2>3. ASSUME NEW x \in 1 .. L, NEW k \in 1 .. Len(acc) PROVE ac[x] # ac[L + k]
    <3>1. ac[x] = table.accepts[x] /\ ac[L + k] = <<n, acc[k]>>
      BY <1>15
    <3>2. ac[L + k][1] = n
      BY <3>1
    <3> QED BY <2>1, <3>1, <3>2
  <2>4. CASE i - L \in 1 .. Len(acc) /\ j - L \in 1 .. Len(acc)
    <3>1. ac[i] = <<n, acc[i - L]>> /\ ac[j] = <<n, acc[j - L]>>
      <4>1. i = L + (i - L) /\ j = L + (j - L)
        BY <1>15, <2>4
      <4> QED BY <1>15, <2>4, <4>1
    <3>2. acc[i - L] = acc[j - L]
      <4>1. ac[i][2] = acc[i - L] /\ ac[j][2] = acc[j - L]
        BY <3>1
      <4> QED BY <1>22, <4>1
    <3>3. i - L = j - L
      BY <1>9, <2>4, <3>2
    <3> QED BY <1>15, <2>4, <3>3
  <2> QED BY <1>19, <1>22, <2>2, <2>3, <2>4
<1>23. Filled(n + 1)'
  <2>1. ids' = ids /\ patterns' = patterns /\ DOMAIN ac = 1 .. L + Len(acc)
    BY <1>1, <1>15
  <2>2. /\ \A i \in DOMAIN ac :
             ac[i][1] \in 0 .. (n + 1) - 1 /\ ac[i][2] \in MatchingIn(patterns, ids[ac[i][1] + 1])
        /\ \A s \in 0 .. (n + 1) - 1 : \A pid \in MatchingIn(patterns, ids[s + 1]) :
             \E i \in DOMAIN ac : ac[i] = <<s, pid>>
        /\ \A i, j \in DOMAIN ac : ac[i] = ac[j] => i = j
    BY <1>20, <1>21, <1>22, <2>1
  <2>3. /\ table' \in ProgramType /\ table'.states = N /\ table'.classes = C
        /\ table'.lens = <<>> /\ table'.links = <<>> /\ Len(table'.trans) = (n + 1) * C
    BY <1>13, <1>16 DEF tr
  <2>4. \A s \in 0 .. (n + 1) - 1, b \in Byte :
          /\ table'.trans[s * C + b + 1] \in 0 .. N - 1
          /\ ids[table'.trans[s * C + b + 1] + 1] = NextState(patterns, ids[s + 1], b)
    BY <1>17 DEF tr
  <2>5. CopyOf(table', patterns, ids, n + 1)
    BY <2>2, <2>3, <2>4 DEF CopyOf, ac
  <2> QED BY <2>1, <2>5 DEF Filled
<1>24. n + 1 \in 0 .. Len(ids')
  BY <1>1, <1>4, <1>6
<1> QED BY <1>1, <1>2, <1>23, <1>24 DEF IInv


\* The full table is compiled.
LEMMA FinishKeeps ==
  ASSUME IInv, Finish
  PROVE  IInv'
<1>1. /\ patterns \in PatternLists /\ UNCHANGED <<patterns, ids, queue, table>>
      /\ phase' = "done" /\ ids # <<>> /\ Discovered /\ Closed
      /\ \E n \in 0 .. Len(ids) : Filled(n)
      /\ Len(table.trans) = table.states * ByteCount
      /\ result' = Outcome
  BY DEF IInv, Finish, Stop, Closed, Outcome, Complete
<1>2. PICK n \in 0 .. Len(ids) : Filled(n)
  BY <1>1
<1>3. Len(ids) \in Nat /\ ByteCount \in Nat \ {0} /\ n \in Nat
  BY <1>1, ClosedFacts, ByteCountAssumption
<1>4. n * ByteCount = Len(ids) * ByteCount
  BY <1>1, <1>2 DEF Filled, CopyOf
<1>5. n = Len(ids)
  BY <1>3, <1>4
<1>6. Filled(Len(ids))
  BY <1>2, <1>5
<1>7. Discovered' /\ Closed'
  BY <1>1 DEF Discovered, Expanded, Closed
<1>8. Filled(Len(ids))'
  BY <1>1, <1>6 DEF Filled
<1>9. result' = Outcome'
  BY <1>1 DEF Outcome, Complete
<1> QED BY <1>1, <1>7, <1>8, <1>9 DEF IInv

\* The inductive invariant of the builder.
THEOREM Invariant == Spec => []IInv
<1>1. IInv /\ UNCHANGED vars => IInv'
  <2> SUFFICES ASSUME IInv, UNCHANGED vars PROVE IInv'
    OBVIOUS
  <2>1. UNCHANGED <<patterns, ids, queue, table, phase, result>>
    BY DEF vars
  <2>2. (Discovered => Discovered') /\ (Closed => Closed') /\ Outcome' = Outcome
    BY <2>1 DEF Discovered, Expanded, Closed, Outcome, Complete
  <2>3. (\E n \in 0 .. Len(ids) : Filled(n)) => (\E n \in 0 .. Len(ids) : Filled(n))'
    BY <2>1 DEF Filled
  <2>4. Filled(Len(ids)) => Filled(Len(ids))'
    BY <2>1 DEF Filled
  <2> QED BY <2>1, <2>2, <2>3, <2>4 DEF IInv
<1>2. IInv /\ Next => IInv'
  BY StopKeeps, StartDiscoveryKeeps, DiscoverKeeps, NewTableKeeps, FillRowKeeps, FinishKeeps
     DEF Next
<1> QED BY InitIInv, <1>1, <1>2, PTL DEF Spec

\* The rows are filled when the states are exactly the reachable ones, each once:
\* the start state first, each after one it is a successor of, and no successor
\* missing, so that state_map is never asked for a state it does not hold.
THEOREM StatesAreTheReachableOnes == Spec => []DiscoversReachable
<1>1. IInv => DiscoversReachable
  <2> SUFFICES ASSUME IInv, phase = "fill" PROVE DiscoversReachable
    BY DEF DiscoversReachable
  <2>1. Discovered /\ Closed
    BY DEF IInv, Closed
  <2>2. ids[1] = RegexStart /\ IsInjective(ids)
    BY <2>1 DEF Discovered
  <2>3. \A i \in DOMAIN ids, b \in Byte : NextState(patterns, ids[i], b) \in ToSet(ids)
    BY <2>1, ClosedFacts
  <2>4. ASSUME NEW i \in DOMAIN ids \ {1}
        PROVE  \E j \in 1 .. i - 1, b \in Byte : ids[i] = NextState(patterns, ids[j], b)
    <3>1. i \in 2 .. Len(ids)
      <4>1. DOMAIN ids = 1 .. Len(ids) /\ Len(ids) \in Nat
        BY <2>1, ClosedFacts
      <4> QED BY <4>1
    <3> QED BY <2>1, <3>1, Zenon DEF Discovered
  <2> QED BY <2>2, <2>3, <2>4 DEF DiscoversReachable
<1> QED BY <1>1, Invariant, PTL


------------------------------------------------------------------------------
(***************************************************************************)
(* What the table does, and when it compiles.                              *)
(***************************************************************************)

\* The full table.
Built == patterns \in PatternLists /\ Discovered /\ Closed /\ Filled(Len(ids))

\* What a finished build leaves.
LEMMA BuiltAtTheEnd ==
  ASSUME IInv
  PROVE  /\ phase = "done" /\ ids # <<>> /\ Len(ids) <= MaxStates => Built /\ result = Outcome
         /\ IsProgram => Built /\ result = Complete /\ Compilable(Complete)
<1>1. phase = "done" /\ ids # <<>> /\ Len(ids) <= MaxStates => Built /\ result = Outcome
  <2> SUFFICES ASSUME phase = "done", ids # <<>>, Len(ids) <= MaxStates
               PROVE  Built /\ result = Outcome
    OBVIOUS
  <2>1. patterns \in PatternLists /\ Discovered
    BY DEF IInv
  <2>2. Len(ids) \in Nat /\ MaxStates \in Nat
    <3>1. ids \in Seq(RegexStates(patterns))
      BY <2>1 DEF Discovered
    <3> QED BY <3>1, LimitsAssumption
  <2>3. ~ (ids = <<>> \/ Len(ids) > MaxStates)
    BY <2>2
  <2> QED BY <2>1, <2>3 DEF IInv, Built
<1>2. ASSUME NEW r, r \in {Error("EmptyDfa"), Error("InvalidTable"), Error("TooManyStates"),
             Nothing}
      PROVE  "states" \notin DOMAIN r
  BY <1>2 DEF Error, Nothing
<1>3. ASSUME IsProgram PROVE Built /\ result = Complete /\ Compilable(Complete)
  <2>1. result \notin {Error("EmptyDfa"), Error("InvalidTable"), Error("TooManyStates"), Nothing}
    BY <1>2, <1>3 DEF IsProgram
  <2>2. phase = "done" /\ Closed /\ Filled(Len(ids)) /\ result = Outcome /\ patterns \in PatternLists
    BY <2>1 DEF IInv
  <2>3. Discovered
    BY <2>2 DEF IInv, Closed
  <2> QED BY <2>1, <2>2, <2>3 DEF Outcome, Built
<1> QED BY <1>1, <1>3

\* The full table with its lengths, part by part.
LEMMA CompleteIs ==
  ASSUME Built
  PROVE  /\ Complete \in ProgramType /\ Complete.states = Len(ids) /\ Complete.classes = ByteCount
         /\ Complete.trans = table.trans /\ Complete.accepts = table.accepts /\ Complete.links = <<>>
         /\ Len(Complete.lens) = Len(patterns)
         /\ \A i \in 1 .. Len(patterns) : Complete.lens[i] = 0
         /\ "states" \in DOMAIN Complete
<1> DEFINE lens == [i \in DOMAIN patterns |-> 0]
<1>1. /\ table \in ProgramType /\ table.states = Len(ids) /\ table.classes = ByteCount
      /\ table.links = <<>>
  BY DEF Built, Filled, CopyOf
<1>2. lens \in Seq(Word) /\ Len(lens) = Len(patterns) /\ \A i \in 1 .. Len(patterns) : lens[i] = 0
  <2>1. Len(patterns) \in Nat /\ DOMAIN patterns = 1 .. Len(patterns)
    BY PatternFacts DEF Built
  <2>2. 0 \in Word
    BY Bit31Assumption DEF Word, U32
  <2>3. lens \in [1 .. Len(patterns) -> Word] /\ \A i \in 1 .. Len(patterns) : lens[i] = 0
    BY <2>1, <2>2
  <2> HIDE DEF lens
  <2> QED BY <2>1, <2>3, FunctionIsSeq
<1>3. Complete = [table EXCEPT !.lens = lens]
  BY DEF Complete
<1> HIDE DEF lens
<1> QED BY <1>1, <1>2, <1>3 DEF ProgramType

\* The entries of the full table.
LEMMA TableEntries ==
  ASSUME Built
  PROVE  /\ Len(ids) \in Nat \ {0} /\ Len(ids) <= Bit31 /\ ids \in Seq(RegexStates(patterns))
         /\ Len(table.trans) = Len(ids) * ByteCount
         /\ \A i \in DOMAIN table.trans : table.trans[i] \in 0 .. Len(ids) - 1
         /\ \A s \in 0 .. Len(ids) - 1, b \in Byte :
              ids[table.trans[s * ByteCount + b + 1] + 1] = NextState(patterns, ids[s + 1], b)
         /\ \A i \in DOMAIN table.accepts :
              /\ table.accepts[i] \in Word \X Word
              /\ table.accepts[i][1] \in 0 .. Len(ids) - 1
              /\ table.accepts[i][2] \in MatchingIn(patterns, ids[table.accepts[i][1] + 1])
         /\ \A s \in 0 .. Len(ids) - 1 : \A pid \in MatchingIn(patterns, ids[s + 1]) :
              \E i \in DOMAIN table.accepts : table.accepts[i] = <<s, pid>>
         /\ \A i, j \in DOMAIN table.accepts : table.accepts[i] = table.accepts[j] => i = j
<1> DEFINE N == Len(ids)
<1>1. N \in Nat \ {0} /\ N <= Bit31 /\ ids \in Seq(RegexStates(patterns)) /\ ByteCount \in Nat \ {0}
  BY ClosedFacts, ByteCountAssumption DEF Built
<1>2. /\ table.trans \in Seq(Word) /\ table.accepts \in Seq(Word \X Word)
      /\ Len(table.trans) = N * ByteCount
      /\ \A s \in 0 .. N - 1, b \in Byte :
           /\ table.trans[s * ByteCount + b + 1] \in 0 .. N - 1
           /\ ids[table.trans[s * ByteCount + b + 1] + 1] = NextState(patterns, ids[s + 1], b)
  BY DEF Built, Filled, CopyOf, ProgramType
<1>3. /\ \A i \in DOMAIN table.accepts :
           /\ table.accepts[i][1] \in 0 .. N - 1
           /\ table.accepts[i][2] \in MatchingIn(patterns, ids[table.accepts[i][1] + 1])
      /\ \A s \in 0 .. N - 1 : \A pid \in MatchingIn(patterns, ids[s + 1]) :
           \E i \in DOMAIN table.accepts : table.accepts[i] = <<s, pid>>
      /\ \A i, j \in DOMAIN table.accepts : table.accepts[i] = table.accepts[j] => i = j
  BY Zenon DEF Built, Filled, CopyOf
<1>4. ASSUME NEW i \in DOMAIN table.trans PROVE table.trans[i] \in 0 .. N - 1
  <2>1. i \in 1 .. N * ByteCount
    BY <1>2
  <2> DEFINE s == (i - 1) \div ByteCount
             b == (i - 1) % ByteCount
  <2>2. s \in 0 .. N - 1 /\ b \in 0 .. ByteCount - 1
    BY <1>1, <2>1, CellRow
  <2>3. s * ByteCount + b + 1 = i
    BY <1>1, <2>1
  <2> HIDE DEF s, b
  <2> QED BY <1>2, <2>2, <2>3 DEF Byte
<1>5. \A i \in DOMAIN table.accepts : table.accepts[i] \in Word \X Word
  BY <1>2
<1> QED BY <1>1, <1>2, <1>3, <1>4, <1>5

\* The table compiles exactly if no state has two matches.
LEMMA CompilableIs ==
  ASSUME Built
  PROVE  Compilable(Complete) <=>
           \A s \in 0 .. Len(ids) - 1 : \A x, y \in MatchingIn(patterns, ids[s + 1]) : x = y
<1> DEFINE N == Len(ids)
           p == Complete
           Unique == \A s \in 0 .. N - 1 : \A x, y \in MatchingIn(patterns, ids[s + 1]) : x = y
           OnePerState == \A i, j \in DOMAIN table.accepts : table.accepts[i][1] = table.accepts[j][1] => i = j
<1>1. /\ p.states = N /\ p.classes = ByteCount /\ p.trans = table.trans /\ p.accepts = table.accepts
      /\ p.links = <<>> /\ Len(p.lens) = Len(patterns)
  BY CompleteIs
<1>2. /\ N \in Nat \ {0} /\ N <= Bit31 /\ Bit31 \in Nat \ {0} /\ Len(table.trans) = N * ByteCount
      /\ \A i \in DOMAIN table.trans : table.trans[i] \in 0 .. N - 1
  BY TableEntries, Bit31Assumption
<1>3. \A i \in DOMAIN table.trans : Mask(table.trans[i]) < N /\ ~ (table.trans[i] >= Bit31)
  BY <1>2 DEF Mask
<1>4. \A i \in DOMAIN table.accepts : table.accepts[i][1] < N /\ table.accepts[i][2] < Len(patterns)
  <2> SUFFICES ASSUME NEW i \in DOMAIN table.accepts
               PROVE  table.accepts[i][1] < N /\ table.accepts[i][2] < Len(patterns)
    OBVIOUS
  <2>1. table.accepts[i][1] \in 0 .. N - 1
    BY TableEntries
  <2>2. table.accepts[i][2] \in MatchingIn(patterns, ids[table.accepts[i][1] + 1])
    BY TableEntries
  <2>3. table.accepts[i][2] \in 0 .. Len(patterns) - 1 /\ Len(patterns) \in Nat
    BY <2>2, MatchingType, PatternFacts DEF MatchingIn, Built
  <2> QED BY <1>2, <2>1, <2>3
<1>5. Compilable(p) <=> OnePerState
  <2> HIDE DEF p
  <2>1. OnePerState => Compilable(p)
    BY <1>1, <1>2, <1>3, <1>4 DEF Compilable
  <2>2. Compilable(p) => OnePerState
    BY <1>1 DEF Compilable
  <2> QED BY <2>1, <2>2
<1>6. ASSUME OnePerState, NEW s \in 0 .. N - 1, NEW x \in MatchingIn(patterns, ids[s + 1]),
             NEW y \in MatchingIn(patterns, ids[s + 1])
      PROVE  x = y
  <2>1. PICK i \in DOMAIN table.accepts : table.accepts[i] = <<s, x>>
    BY TableEntries
  <2>2. PICK j \in DOMAIN table.accepts : table.accepts[j] = <<s, y>>
    BY TableEntries
  <2>3. table.accepts[i][1] = s /\ table.accepts[j][1] = s /\ table.accepts[i][2] = x /\ table.accepts[j][2] = y
    BY <2>1, <2>2
  <2> QED BY <1>6, <2>3
<1>7. ASSUME Unique, NEW i \in DOMAIN table.accepts, NEW j \in DOMAIN table.accepts,
             table.accepts[i][1] = table.accepts[j][1]
      PROVE  i = j
  <2>1. /\ table.accepts[i] \in Word \X Word /\ table.accepts[j] \in Word \X Word
        /\ table.accepts[i][1] \in 0 .. N - 1
    BY TableEntries
  <2>2. /\ table.accepts[i][2] \in MatchingIn(patterns, ids[table.accepts[i][1] + 1])
        /\ table.accepts[j][2] \in MatchingIn(patterns, ids[table.accepts[i][1] + 1])
    BY <1>7, TableEntries
  <2>3. table.accepts[i][2] = table.accepts[j][2]
    BY <1>7, <2>1, <2>2
  <2>4. table.accepts[i] = table.accepts[j]
    BY <1>7, <2>1, <2>3
  <2> QED BY <2>4, TableEntries
<1> HIDE DEF p
<1>8. OnePerState <=> Unique
  BY <1>6, <1>7, Zenon
<1> QED BY <1>5, <1>8 DEF p


\* The part of a text between two positions.
Part(w, from, n) == SubSeq(w, from + 1, n)

\* A part that is empty, one byte longer, or the whole text.
LEMMA PartFacts ==
  ASSUME NEW w \in Text, NEW from \in 0 .. Len(w), NEW n \in from .. Len(w)
  PROVE  /\ Len(w) \in Nat /\ Part(w, from, n) \in Text /\ Len(Part(w, from, n)) = n - from
         /\ n = from => Part(w, from, n) = <<>>
         /\ n < Len(w) =>
              /\ w[n + 1] \in Byte
              /\ Part(w, from, n + 1) = Append(Part(w, from, n), w[n + 1])
         /\ Part(w, 0, Len(w)) = w
<1> DEFINE a(m) == Part(w, from, m)
<1>1. w \in Seq(Byte) /\ Len(w) \in Nat /\ from \in Nat /\ n \in Nat
  BY DEF Text
<1>2. ASSUME NEW m \in from .. Len(w)
      PROVE  /\ a(m) \in Seq(Byte) /\ Len(a(m)) = m - from
             /\ \A i \in 1 .. m - from : a(m)[i] = w[from + i]
  BY <1>1 DEF Part
<1>3. a(n) \in Text /\ Len(a(n)) = n - from
  BY <1>2 DEF Text
<1>4. n = from => a(n) = <<>>
  BY <1>1 DEF Part
<1>5. ASSUME n < Len(w) PROVE w[n + 1] \in Byte /\ a(n + 1) = Append(a(n), w[n + 1])
  <2>1. n + 1 \in from .. Len(w) /\ w[n + 1] \in Byte
    BY <1>1, <1>5
  <2> DEFINE q == a(n + 1)
             r == Append(a(n), w[n + 1])
  <2>2. q \in Seq(Byte) /\ Len(q) = (n + 1) - from /\ \A i \in 1 .. (n + 1) - from : q[i] = w[from + i]
    BY <1>2, <2>1
  <2>3. /\ r \in Seq(Byte) /\ Len(r) = (n - from) + 1 /\ r[(n - from) + 1] = w[n + 1]
        /\ \A i \in 1 .. n - from : r[i] = a(n)[i]
    BY <1>3, <2>1, Appended DEF Text
  <2>4. \A i \in 1 .. n - from : a(n)[i] = w[from + i]
    BY <1>2
  <2> HIDE DEF a, q, r
  <2>5. ASSUME NEW i \in 1 .. (n + 1) - from PROVE q[i] = r[i]
    <3>1. CASE i = (n - from) + 1
      <4>1. from + i = n + 1
        BY <1>1, <3>1
      <4> QED BY <2>2, <2>3, <3>1, <4>1
    <3>2. CASE i # (n - from) + 1
      <4>1. i \in 1 .. n - from
        BY <1>1, <3>2
      <4> QED BY <2>2, <2>3, <2>4, <4>1
    <3> QED BY <3>1, <3>2
  <2>6. Len(q) = Len(r)
    BY <1>1, <2>2, <2>3
  <2>7. q = r
    BY <2>2, <2>3, <2>5, <2>6, SameSeq
  <2> QED BY <2>1, <2>7 DEF q, r
<1>6. Part(w, 0, Len(w)) = w
  <2> DEFINE q == Part(w, 0, Len(w))
  <2>1. q \in Seq(Byte) /\ Len(q) = Len(w) /\ \A i \in 1 .. Len(w) : q[i] = w[i]
    BY <1>1 DEF Part
  <2> HIDE DEF q
  <2>2. q = w
    BY <1>1, <2>1, SameSeq
  <2> QED BY <2>2 DEF q
<1> QED BY <1>1, <1>3, <1>4, <1>5, <1>6

\* The states in the table show every text.
LEMMA EveryTextShown ==
  ASSUME patterns \in PatternLists, Discovered, Closed, NEW w \in Text
  PROVE  \E s \in 0 .. Len(ids) - 1 : Shows(patterns, ids[s + 1], w)
<1> DEFINE N == Len(ids)
           pre(n) == Part(w, 0, n)
           S == {n \in 0 .. Len(w) : \E s \in 0 .. N - 1 : Shows(patterns, ids[s + 1], pre(n))}
<1>1. N \in Nat \ {0} /\ ids \in Seq(RegexStates(patterns)) /\ Len(w) \in Nat /\ ids[1] = RegexStart
  BY ClosedFacts DEF Text, Discovered
<1>2. 0 \in S
  <2>1. 0 \in 0 .. Len(w) /\ 0 \in 0 .. N - 1 /\ 0 + 1 = 1
    BY <1>1
  <2>2. pre(0) = <<>>
    BY <2>1, PartFacts
  <2>3. Shows(patterns, ids[0 + 1], pre(0))
    BY <1>1, <2>1, <2>2, StartShows
  <2> QED BY <2>1, <2>3
<1>3. ASSUME NEW n \in 0 .. Len(w) - 1, n \in S PROVE n + 1 \in S
  <2>1. PICK s \in 0 .. N - 1 : Shows(patterns, ids[s + 1], pre(n))
    BY <1>3
  <2>2. /\ 0 \in 0 .. Len(w) /\ n \in 0 .. Len(w) /\ n < Len(w) /\ n + 1 \in 0 .. Len(w)
        /\ s + 1 \in 1 .. N
    BY <1>1
  <2>3. w[n + 1] \in Byte /\ pre(n + 1) = Append(pre(n), w[n + 1]) /\ pre(n) \in Text
    BY <2>2, PartFacts
  <2>4. ids[s + 1] \in RegexStates(patterns)
    BY <1>1, <2>2
  <2> DEFINE t == NextState(patterns, ids[s + 1], w[n + 1])
  <2>5. Shows(patterns, t, pre(n + 1))
    <3> HIDE DEF pre
    <3> QED BY <2>1, <2>3, <2>4, RegexStep
  <2>6. IndexOf(t) \in 0 .. N - 1 /\ ids[IndexOf(t) + 1] = t
    BY <2>2, <2>3, ClosedFacts
  <2> HIDE DEF pre, t
  <2> QED BY <2>2, <2>5, <2>6
<1>4. Len(w) \in S
  <2> HIDE DEF S
  <2>1. \A n \in 0 .. Len(w) : n \in S
    BY <1>1, <1>2, <1>3, InductionUpTo
  <2> QED BY <1>1, <2>1
<1>5. pre(Len(w)) = w
  <2>1. 0 \in 0 .. Len(w) /\ Len(w) \in 0 .. Len(w)
    BY <1>1
  <2> QED BY <2>1, PartFacts
<1> QED BY <1>4, <1>5

\* No state has two matches exactly if no text has.
LEMMA AmbiguousShown ==
  ASSUME patterns \in PatternLists, Discovered, Closed
  PROVE  /\ \A w \in Text : \A x, y \in Matching(patterns, w, TRUE) :
              \E s \in 0 .. Len(ids) - 1 :
                x \in MatchingIn(patterns, ids[s + 1]) /\ y \in MatchingIn(patterns, ids[s + 1])
         /\ \A s \in 0 .. Len(ids) - 1 :
              /\ ids[s + 1].seen \in Text /\ Len(ids[s + 1].seen) <= Longest(patterns)
              /\ MatchingIn(patterns, ids[s + 1]) \subseteq Matching(patterns, ids[s + 1].seen, TRUE)
<1>1. Len(ids) \in Nat /\ ids \in Seq(RegexStates(patterns))
  BY ClosedFacts
<1>2. \A s \in 0 .. Len(ids) - 1 : ids[s + 1] \in RegexStates(patterns)
  BY <1>1
<1>3. ASSUME NEW w \in Text, NEW x \in Matching(patterns, w, TRUE),
             NEW y \in Matching(patterns, w, TRUE)
      PROVE  \E s \in 0 .. Len(ids) - 1 :
               x \in MatchingIn(patterns, ids[s + 1]) /\ y \in MatchingIn(patterns, ids[s + 1])
  <2>1. PICK s \in 0 .. Len(ids) - 1 : Shows(patterns, ids[s + 1], w)
    BY EveryTextShown
  <2>2. MatchingIn(patterns, ids[s + 1]) = Matching(patterns, w, TRUE)
    BY <1>2, <2>1, MatchingShown DEF MatchingIn
  <2> QED BY <1>3, <2>2
<1>4. ASSUME NEW s \in 0 .. Len(ids) - 1
      PROVE  /\ ids[s + 1].seen \in Text /\ Len(ids[s + 1].seen) <= Longest(patterns)
             /\ MatchingIn(patterns, ids[s + 1]) \subseteq Matching(patterns, ids[s + 1].seen, TRUE)
  <2> DEFINE r == ids[s + 1]
  <2>1. r \in RegexStates(patterns)
    BY <1>2
  <2> HIDE DEF r
  <2>2. PICK u \in Text : Shows(patterns, r, u)
    BY <2>1 DEF RegexStates
  <2>3. r.seen \in Text
    BY <2>1 DEF RegexStates
  <2>4. Len(r.seen) <= Longest(patterns)
    <3>1. Len(u) \in Nat /\ Longest(patterns) \in Nat
      BY PatternFacts DEF Text
    <3> QED BY <2>2, <3>1 DEF Shows
  <2>5. MatchingIn(patterns, r) \subseteq Matching(patterns, r.seen, TRUE)
    BY DEF MatchingIn, Matching, Matches
  <2> QED BY <2>3, <2>4, <2>5 DEF r
<1> QED BY <1>3, <1>4


\* A finite set has at most one element exactly if its elements are equal.
LEMMA AtMostOne ==
  ASSUME NEW S, IsFiniteSet(S)
  PROVE  Cardinality(S) <= 1 <=> \A x, y \in S : x = y
<1>1. ASSUME NEW x \in S, NEW y \in S, x # y PROVE ~ (Cardinality(S) <= 1)
  <2>1. IsFiniteSet({x}) /\ Cardinality({x}) = 1
    BY FS_Singleton
  <2>2. Cardinality({x} \cup {y}) = 2
    <3>1. y \notin {x}
      BY <1>1
    <3> QED BY <2>1, <3>1, FS_AddElement
  <2>3. {x} \cup {y} \in SUBSET S
    OBVIOUS
  <2>4. Cardinality({x} \cup {y}) <= Cardinality(S) /\ Cardinality(S) \in Nat
    BY <2>3, FS_Subset, FS_CardinalityType
  <2> QED BY <2>2, <2>4
<1>2. ASSUME \A x, y \in S : x = y PROVE Cardinality(S) <= 1
  <2>1. CASE S = {}
    BY <2>1, FS_EmptySet
  <2>2. CASE S # {}
    <3>1. PICK x \in S : TRUE
      BY <2>2
    <3>2. S = {x}
      BY <1>2
    <3> QED BY <3>2, FS_Singleton
  <2> QED BY <2>1, <2>2
<1> QED BY <1>1, <1>2

\* A finished build has a program exactly if no text of W is ambiguous, for any set
\* W of texts with all those that are no longer than the longest word.
LEMMA CompiledIff ==
  ASSUME IInv, phase = "done", ids # <<>>, Len(ids) <= MaxStates, NEW W \in SUBSET Text,
         \A w \in Text : Len(w) <= Longest(patterns) => w \in W
  PROVE  IsProgram <=> \A w \in W : Cardinality(Matching(patterns, w, TRUE)) <= 1
<1> DEFINE Clear(w) == \A x, y \in Matching(patterns, w, TRUE) : x = y
<1>1. Built /\ result = Outcome /\ patterns \in PatternLists /\ Discovered /\ Closed
  BY BuiltAtTheEnd DEF Built
<1>2. \A w : Clear(w) <=> Cardinality(Matching(patterns, w, TRUE)) <= 1
  BY <1>1, MatchingType, AtMostOne
<1>3. IsProgram <=> Compilable(Complete)
  <2>1. "states" \in DOMAIN Complete
    BY <1>1, CompleteIs
  <2>2. "states" \notin DOMAIN Error("InvalidTable")
    BY DEF Error
  <2> QED BY <1>1, <2>1, <2>2 DEF IsProgram, Outcome
<1>4. Compilable(Complete) <=>
        \A s \in 0 .. Len(ids) - 1 : \A x, y \in MatchingIn(patterns, ids[s + 1]) : x = y
  BY <1>1, CompilableIs
<1>5. ASSUME NEW w \in W, ~ Clear(w) PROVE ~ Compilable(Complete)
  <2>1. PICK x \in Matching(patterns, w, TRUE), y \in Matching(patterns, w, TRUE) : x # y
    BY <1>5
  <2>2. \E s \in 0 .. Len(ids) - 1 :
          x \in MatchingIn(patterns, ids[s + 1]) /\ y \in MatchingIn(patterns, ids[s + 1])
    BY <1>1, AmbiguousShown
  <2> QED BY <1>4, <2>1, <2>2
<1>6. ASSUME ~ Compilable(Complete) PROVE \E w \in W : ~ Clear(w)
  <2>1. PICK s \in 0 .. Len(ids) - 1 : ~ \A x, y \in MatchingIn(patterns, ids[s + 1]) : x = y
    BY <1>4, <1>6
  <2>2. /\ ids[s + 1].seen \in Text /\ Len(ids[s + 1].seen) <= Longest(patterns)
        /\ MatchingIn(patterns, ids[s + 1]) \subseteq Matching(patterns, ids[s + 1].seen, TRUE)
    BY <1>1, AmbiguousShown
  <2> QED BY <2>1, <2>2
<1> HIDE DEF Clear
<1> QED BY <1>2, <1>3, <1>5, <1>6

\* Compiling succeeds exactly if no text whatever is ambiguous, for every list of
\* patterns whose states are not too many.
THEOREM CompilesIffNoTextIsAmbiguous ==
  Spec => []((phase = "done" /\ ids # <<>> /\ Len(ids) <= MaxStates) =>
               (IsProgram <=> \A w \in Text : Cardinality(Matching(patterns, w, TRUE)) <= 1))
<1>1. IInv => ((phase = "done" /\ ids # <<>> /\ Len(ids) <= MaxStates) =>
                (IsProgram <=> \A w \in Text : Cardinality(Matching(patterns, w, TRUE)) <= 1))
  BY CompiledIff
<1> QED BY <1>1, Invariant, PTL

\* It is enough to look at texts as long as the longest word, which is what the
\* runs do: their MaxText is no smaller.
THEOREM CompilesIffNoShortTextIsAmbiguous ==
  ASSUME \A pats \in PatternLists : Longest(pats) <= MaxText
  PROVE  Spec => []CompilesIffUnambiguous
<1>1. IInv => CompilesIffUnambiguous
  <2> SUFFICES ASSUME IInv, phase = "done", ids # <<>>, Len(ids) <= MaxStates
               PROVE  IsProgram <=> \A w \in Texts : Cardinality(Matching(patterns, w, TRUE)) <= 1
    BY DEF CompilesIffUnambiguous
  <2>1. Texts \in SUBSET Text
    <3> SUFFICES ASSUME NEW n \in 0 .. MaxText, NEW w \in [1 .. n -> Byte] PROVE w \in Text
      BY DEF Texts
    <3>1. n \in Nat
      BY LimitsAssumption
    <3> QED BY <3>1, FunctionIsSeq DEF Text
  <2>2. ASSUME NEW w \in Text, Len(w) <= Longest(patterns) PROVE w \in Texts
    <3>1. Len(w) \in Nat /\ w \in [1 .. Len(w) -> Byte]
      BY DEF Text
    <3>2. Longest(patterns) \in Nat /\ Longest(patterns) <= MaxText /\ MaxText \in Nat
      BY PatternFacts, LimitsAssumption DEF IInv
    <3>3. Len(w) \in 0 .. MaxText
      BY <2>2, <3>1, <3>2
    <3> QED BY <3>1, <3>3 DEF Texts
  <2> QED BY <2>1, <2>2, CompiledIff
<1> QED BY <1>1, Invariant, PTL


------------------------------------------------------------------------------
(***************************************************************************)
(* What the program finds.                                                 *)
(***************************************************************************)

\* A program that compiles is one whose scans are understood.
LEMMA CompleteWellFormed ==
  ASSUME Built, Compilable(Complete)
  PROVE  /\ WellFormed(Complete) /\ State(Complete) = 0 .. Len(ids) - 1 /\ 0 \in State(Complete)
         /\ Complete.states <= Bit31
         /\ \A s \in State(Complete) : OutputsOf(Complete)[s] = <<s>>
<1> DEFINE p == Complete
<1>1. /\ p \in ProgramType /\ p.states = Len(ids) /\ p.links = <<>>
  BY CompleteIs
<1>2. Len(ids) \in Nat \ {0} /\ Len(ids) <= Bit31 /\ Bit31 \in Nat \ {0}
  BY TableEntries, Bit31Assumption
<1> HIDE DEF p
<1>3. State(p) = 0 .. Len(ids) - 1 /\ 0 \in State(p)
  BY <1>1, <1>2 DEF State
<1>4. \A s \in State(p) : OutputLink(p)[s] = NONE
  <2>1. \A s \in State(p) : ~ (s < Len(p.links))
    BY <1>1, <1>2, <1>3
  <2> QED BY <2>1 DEF OutputLink
<1>5. LinksAccept(p)
  BY <1>4 DEF LinksAccept
<1>6. LinksDescend(p)
  <2> SUFFICES ASSUME NEW S \in SUBSET State(p), S # {} PROVE \E s \in S : OutputLink(p)[s] \notin S
    BY DEF LinksDescend
  <2>1. PICK s \in S : TRUE
    OBVIOUS
  <2>2. NONE \notin State(p)
    BY <1>2, <1>3 DEF NONE, U32
  <2> QED BY <1>4, <2>1, <2>2
<1>7. \A s \in State(p) : OutputsOf(p)[s] = <<s>>
  BY <1>1, OwnOutput
<1>8. Compilable(p)
  BY DEF p
<1> QED BY <1>1, <1>2, <1>3, <1>5, <1>6, <1>7, <1>8 DEF WellFormed, p

\* The only match in a state, and the state a byte leads to.
LEMMA CompleteStep ==
  ASSUME Built, Compilable(Complete), NEW w \in Text, NEW i \in 0 .. Len(w) - 1,
         NEW s \in State(Complete)
  PROVE  LET t == Target(Complete, w, s, i)
             M == MatchingIn(patterns, ids[t + 1])
         IN  /\ t \in State(Complete) /\ ids[t + 1] = NextState(patterns, ids[s + 1], w[i + 1])
             /\ t \in AcceptStates(Complete) <=> M # {}
             /\ t \in AcceptStates(Complete) =>
                  PatternMatch(Complete, t, i) = MatchAt(CHOOSE pid \in M : TRUE, 0, i)
<1> DEFINE p == Complete
           t == Target(p, w, s, i)
           M == MatchingIn(patterns, ids[t + 1])
           j == s * ByteCount + w[i + 1] + 1
<1>1. /\ p.classes = ByteCount /\ p.trans = table.trans /\ p.accepts = table.accepts
      /\ Len(p.lens) = Len(patterns) /\ \A k \in 1 .. Len(patterns) : p.lens[k] = 0
      /\ State(p) = 0 .. Len(ids) - 1 /\ s \in 0 .. Len(ids) - 1
  BY CompleteIs, CompleteWellFormed
<1>2. /\ Len(ids) \in Nat \ {0} /\ Len(ids) <= Bit31 /\ ByteCount \in Nat \ {0}
      /\ table.trans \in Seq(Word) /\ Len(table.trans) = Len(ids) * ByteCount
  <2>1. table.trans \in Seq(Word)
    BY DEF Built, Filled, CopyOf, ProgramType
  <2> QED BY <2>1, TableEntries, ByteCountAssumption
<1>3. w[i + 1] \in Byte
  BY DEF Text
<1> HIDE DEF p
<1>4. j \in DOMAIN table.trans
  <2>1. s \in 0 .. Len(ids) - 1 /\ w[i + 1] \in 0 .. ByteCount - 1
    BY <1>1, <1>3 DEF Byte
  <2>2. j \in 1 .. Len(ids) * ByteCount
    BY <1>2, <2>1, CellIndex
  <2>3. DOMAIN table.trans = 1 .. Len(ids) * ByteCount
    BY <1>2
  <2> QED BY <2>2, <2>3
<1>5. table.trans[j] \in 0 .. Len(ids) - 1 /\ ids[table.trans[j] + 1] = NextState(patterns, ids[s + 1], w[i + 1])
  <2>1. s \in 0 .. Len(ids) - 1
    BY <1>1
  <2>2. table.trans[j] \in 0 .. Len(ids) - 1
    <3> HIDE DEF j
    <3> QED BY <1>4, TableEntries
  <2>3. ids[table.trans[j] + 1] = NextState(patterns, ids[s + 1], w[i + 1])
    BY <1>3, <2>1, TableEntries, Zenon
  <2> QED BY <2>2, <2>3, Zenon
<1>6. t = table.trans[j]
  <2>1. t = Mask(table.trans[j])
    BY <1>1 DEF Target
  <2>2. table.trans[j] \in 0 .. Len(ids) - 1
    BY <1>5, Zenon
  <2> HIDE DEF t, j
  <2>3. ~ (table.trans[j] >= Bit31)
    BY <1>2, <2>2, Bit31Assumption
  <2> QED BY <2>1, <2>3 DEF Mask
<1> HIDE DEF t, j
<1>7. t \in State(p) /\ ids[t + 1] = NextState(patterns, ids[s + 1], w[i + 1])
  BY <1>1, <1>5, <1>6
<1> HIDE DEF M
<1>8. t \in AcceptStates(p) <=> M # {}
  <2>1. ASSUME M # {} PROVE t \in AcceptStates(p)
    <3>1. PICK pid \in M : TRUE
      BY <2>1
    <3>2. PICK k \in DOMAIN table.accepts : table.accepts[k] = <<t, pid>>
      BY <1>1, <1>7, TableEntries DEF M
    <3>3. table.accepts[k][1] = t
      BY <3>2
    <3> QED BY <1>1, <3>3 DEF AcceptStates
  <2>2. ASSUME t \in AcceptStates(p) PROVE M # {}
    <3>1. PICK k \in DOMAIN table.accepts : table.accepts[k][1] = t
      BY <1>1, <2>2 DEF AcceptStates
    <3>2. table.accepts[k][2] \in M
      BY <3>1, TableEntries DEF M
    <3> QED BY <3>2
  <2> QED BY <2>1, <2>2
<1>9. ASSUME t \in AcceptStates(p) PROVE PatternMatch(p, t, i) = MatchAt(CHOOSE pid \in M : TRUE,
             0, i)
  <2> DEFINE k == CHOOSE k \in DOMAIN table.accepts : table.accepts[k][1] = t
             pid == AcceptPattern(p)[t]
  <2>1. pid = table.accepts[k][2]
    BY <1>1, <1>7, <1>9 DEF AcceptPattern
  <2>2. \E x \in DOMAIN table.accepts : table.accepts[x][1] = t
    BY <1>1, <1>9 DEF AcceptStates
  <2>3. k \in DOMAIN table.accepts /\ table.accepts[k][1] = t
    BY <2>2
  <2> HIDE DEF k, pid
  <2>4. pid \in M
    BY <2>1, <2>3, TableEntries DEF M
  <2>5. \A x, y \in M : x = y
    BY <1>1, <1>7, CompilableIs DEF M
  <2>6. pid = CHOOSE x \in M : TRUE
    BY <2>4, <2>5
  <2>7. pid \in 0 .. Len(patterns) - 1 /\ Len(patterns) \in Nat
    BY <2>4, MatchingType, PatternFacts DEF M, MatchingIn, Built
  <2>8. p.lens[pid + 1] = 0
    BY <1>1, <2>7
  <2> QED BY <2>6, <2>8 DEF PatternMatch, pid
<1> QED BY <1>7, <1>8, <1>9 DEF M, t, p

\* The ends of the matches in the text after a position.
EndsIn(w, from) == {n \in from + 1 .. Len(w) : Matching(patterns, Part(w, from, n), TRUE) # {}}

\* The match that is reported for the first of them.
FirstMatch(w, from) ==
  LET n == Min(EndsIn(w, from))
  IN  MatchAt(CHOOSE pid \in Matching(patterns, Part(w, from, n), TRUE) : TRUE, 0, n - 1)

\* The first end is one, and there is none before it.
LEMMA FirstEnd ==
  ASSUME NEW w \in Text, NEW from \in 0 .. Len(w), EndsIn(w, from) # {}
  PROVE  LET e == Min(EndsIn(w, from))
         IN  /\ e \in from + 1 .. Len(w) /\ e \in EndsIn(w, from)
             /\ \A n \in from + 1 .. e - 1 : n \notin EndsIn(w, from)
<1> DEFINE E == EndsIn(w, from)
<1>1. Len(w) \in Nat /\ E \subseteq from + 1 .. Len(w)
  <2>1. Len(w) \in Nat
    BY DEF Text
  <2> QED BY <2>1, Zenon DEF EndsIn
<1>2. E \subseteq Nat /\ E # {}
  BY <1>1
<1> HIDE DEF E
<1>3. \E x \in E : \A y \in E : x <= y
  BY <1>2, LeastElement
<1>4. Min(E) \in E /\ \A y \in E : Min(E) <= y
  BY <1>3 DEF Min
<1>5. \A n \in from + 1 .. Min(E) - 1 : n \notin E
  <2> SUFFICES ASSUME NEW n \in from + 1 .. Min(E) - 1, n \in E PROVE FALSE
    OBVIOUS
  <2>1. Min(E) \in from + 1 .. Len(w) /\ Min(E) <= n
    BY <1>1, <1>4
  <2>2. Min(E) \in Int /\ from \in Int
    BY <2>1
  <2>3. n \in Int /\ n <= Min(E) - 1
    BY <2>2
  <2> QED BY <2>1, <2>2, <2>3
<1> QED BY <1>1, <1>4, <1>5 DEF E

\* The matches of a text are defined from its end.
LEMMA RegexMatchesIs ==
  ASSUME patterns \in PatternLists, NEW w \in Text
  PROVE  \E f \in [0 .. Len(w) -> Seq(MatchType)] :
           /\ RegexMatches(w) = f[0]
           /\ \A from \in 0 .. Len(w) :
                f[from] = IF EndsIn(w, from) = {} THEN <<>>
                          ELSE <<FirstMatch(w, from)>> \o f[Min(EndsIn(w, from))]
<1> DEFINE N == Len(w)
           S == 0 .. N
           V == Seq(MatchType)
           Finals == {from \in S : EndsIn(w, from) = {}}
           Def(f) == [from \in S |-> IF EndsIn(w, from) = {} THEN <<>>
                                     ELSE <<FirstMatch(w, from)>> \o f[Min(EndsIn(w, from))]]
           d == [from \in S |-> N - from]
           next == [from \in S |-> IF EndsIn(w, from) = {} THEN from ELSE Min(EndsIn(w, from))]
           val == [from \in S |-> <<>>]
           comb == [y \in S \X V |-> IF EndsIn(w, y[1]) = {} THEN <<>> ELSE <<FirstMatch(w, y[1])>> \o y[2]]
<1>1. N \in Nat
  BY DEF Text
<1>2. ASSUME NEW from \in S, EndsIn(w, from) # {}
      PROVE  Min(EndsIn(w, from)) \in S /\ Min(EndsIn(w, from)) > from /\ FirstMatch(w, from) \in MatchType
  <2> DEFINE e == Min(EndsIn(w, from))
             K == Matching(patterns, Part(w, from, e), TRUE)
  <2>1. e \in from + 1 .. N /\ e \in EndsIn(w, from)
    BY <1>2, FirstEnd
  <2>2. (CHOOSE pid \in K : TRUE) \in K
    BY <2>1 DEF EndsIn
  <2>3. K \subseteq 0 .. Len(patterns) - 1 /\ Len(patterns) \in Nat /\ Len(patterns) <= Bit31
    BY MatchingType, PatternFacts
  <2>4. FirstMatch(w, from) = MatchAt(CHOOSE pid \in K : TRUE, 0, e - 1)
    BY DEF FirstMatch
  <2> DEFINE x == CHOOSE pid \in K : TRUE
  <2> HIDE DEF e, K, x
  <2>5. e - 1 \in Nat /\ e \in S /\ e > from
    BY <1>1, <2>1
  <2>6. x \in Word /\ 0 \in Word
    <3>1. x \in K
      BY <2>2 DEF x
    <3>2. x \in Nat /\ x < Bit31
      BY <2>3, <3>1, Bit31Assumption
    <3> QED BY <3>2, Bit31Assumption DEF Word, U32
  <2> QED BY <2>4, <2>5, <2>6, MatchAtType DEF x, e
<1>3. \E f \in [S -> V] : Descends(f, S, Finals, val, next, comb)
  <2>1. d \in [S -> 0 .. N]
    BY <1>1
  <2>2. next \in [S -> S]
    BY <1>2
  <2>3. val \in [S -> V]
    OBVIOUS
  <2>4. comb \in [S \X V -> V]
    <3> SUFFICES ASSUME NEW y \in S \X V
                 PROVE  (IF EndsIn(w, y[1]) = {} THEN <<>> ELSE <<FirstMatch(w, y[1])>> \o y[2]) \in V
      OBVIOUS
    <3>1. y[1] \in S /\ y[2] \in V
      OBVIOUS
    <3>2. CASE EndsIn(w, y[1]) = {}
      BY <3>2
    <3>3. CASE EndsIn(w, y[1]) # {}
      <4>1. <<FirstMatch(w, y[1])>> \in V
        BY <1>2, <3>1, <3>3
      <4> DEFINE a == <<FirstMatch(w, y[1])>>
      <4> HIDE DEF a
      <4>2. a \o y[2] \in V
        BY <3>1, <4>1, Concatenated DEF a
      <4> QED BY <3>3, <4>2 DEF a
    <3> QED BY <3>2, <3>3
  <2>5. \A x \in S \ Finals : d[next[x]] < d[x]
    <3> SUFFICES ASSUME NEW x \in S, EndsIn(w, x) # {} PROVE d[next[x]] < d[x]
      OBVIOUS
    <3>1. next[x] = Min(EndsIn(w, x)) /\ next[x] \in S /\ next[x] > x
      BY <1>2
    <3> HIDE DEF next
    <3> QED BY <1>1, <3>1
  <2> HIDE DEF d, next, val, comb, S, V, N, Finals
  <2> QED BY <1>1, <2>1, <2>2, <2>3, <2>4, <2>5, RankedRecursion
<1>4. PICK f \in [S -> V] : Descends(f, S, Finals, val, next, comb)
  BY <1>3
<1>5. f = Def(f)
  <2>1. ASSUME NEW from \in S
        PROVE  f[from] = IF EndsIn(w, from) = {} THEN <<>>
                         ELSE <<FirstMatch(w, from)>> \o f[Min(EndsIn(w, from))]
    <3>1. f[from] = IF from \in Finals THEN val[from] ELSE comb[<<from, f[next[from]]>>]
      BY <1>4 DEF Descends
    <3>2. CASE EndsIn(w, from) = {}
      BY <3>1, <3>2
    <3>3. CASE EndsIn(w, from) # {}
      <4>1. next[from] = Min(EndsIn(w, from)) /\ next[from] \in S
        BY <1>2, <3>3
      <4>2. f[next[from]] \in V /\ <<from, f[next[from]]>> \in S \X V
        BY <4>1
      <4>3. comb[<<from, f[next[from]]>>] = <<FirstMatch(w, from)>> \o f[next[from]]
        <5> HIDE DEF next
        <5> QED BY <3>3, <4>2
      <4> QED BY <3>1, <3>3, <4>1, <4>3
    <3> QED BY <3>2, <3>3
  <2>2. f = [from \in S |-> f[from]]
    OBVIOUS
  <2> QED BY <2>1, <2>2
<1> DEFINE g == CHOOSE h : h = Def(h)
<1>6. RegexMatches(w) = g[0]
  BY DEF RegexMatches, EndsIn, FirstMatch, Part
<1>7. g = Def(g)
  <2> HIDE DEF Def
  <2> QED BY <1>5
<1> HIDE DEF g
<1>8. \A from \in S : g[from] = IF EndsIn(w, from) = {} THEN <<>>
                                ELSE <<FirstMatch(w, from)>> \o g[Min(EndsIn(w, from))]
  BY <1>7
<1>9. g \in [S -> V]
  <2> DEFINE X == {from \in S : g[from] \in V}
  <2>1. ASSUME NEW from \in S, \A e \in S : d[e] < d[from] => e \in X PROVE from \in X
    <3>1. CASE EndsIn(w, from) = {}
      <4>1. g[from] = <<>>
        <5> HIDE DEF S
        <5> QED BY <1>8, <3>1
      <4>2. <<>> \in V
        OBVIOUS
      <4> QED BY <4>1, <4>2
    <3>2. CASE EndsIn(w, from) # {}
      <4> DEFINE e == Min(EndsIn(w, from))
      <4>1. e \in S /\ e > from /\ FirstMatch(w, from) \in MatchType
        BY <1>2, <3>2
      <4>2. e \in X
        <5> HIDE DEF e
        <5> QED BY <1>1, <2>1, <4>1
      <4>3. g[from] = <<FirstMatch(w, from)>> \o g[e]
        BY <1>8, <3>2
      <4> DEFINE a == <<FirstMatch(w, from)>>
      <4>4. a \in V /\ g[e] \in V
        BY <4>1, <4>2
      <4> HIDE DEF a, e
      <4>5. a \o g[e] \in V
        BY <4>4, Concatenated
      <4> QED BY <4>3, <4>5 DEF a
    <3> QED BY <3>1, <3>2
  <2>2. d \in [S -> Nat]
    BY <1>1
  <2>3. \A from \in S : from \in X
    <3> HIDE DEF X, d, S
    <3> QED BY <2>1, <2>2, RankInduction
  <2>4. g = [from \in S |-> g[from]]
    BY <1>7
  <2> QED BY <2>3, <2>4
<1> QED BY <1>6, <1>8, <1>9


\* The scan was in the start state at from and has met no end of a match until j.
Scanned(w, from, j) ==
  /\ Shows(patterns, ids[Walk(Complete, w)[j] + 1], Part(w, from, j))
  /\ Found(Complete, w, j) = Found(Complete, w, from)

\* The next byte ends no match, and the scan goes on, or it ends one, which is
\* reported, and the scan starts again.
LEMMA ScanStep ==
  ASSUME Built, Compilable(Complete), NEW w \in Text, NEW from \in 0 .. Len(w),
         NEW j \in from .. Len(w) - 1, Scanned(w, from, j)
  PROVE  LET M == Matching(patterns, Part(w, from, j + 1), TRUE)
         IN  /\ M = {} => Scanned(w, from, j + 1)
             /\ M # {} =>
                  /\ Walk(Complete, w)[j + 1] = 0
                  /\ Found(Complete, w, j + 1) =
                       Found(Complete, w, from) \o <<MatchAt(CHOOSE pid \in M : TRUE, 0, j)>>
<1> DEFINE p == Complete
           M == Matching(patterns, Part(w, from, j + 1), TRUE)
           s == Walk(p, w)[j]
           t == Target(p, w, s, j)
           r == ids[t + 1]
<1>1. /\ Len(w) \in Nat /\ w \in Seq(Byte) /\ j \in 0 .. Len(w) - 1 /\ j \in from .. Len(w)
      /\ j < Len(w) /\ j + 1 \in 0 .. Len(w) /\ j + 1 \in from .. Len(w) /\ j \in 0 .. Len(w)
  BY DEF Text
<1>2. WellFormed(p) /\ State(p) = 0 .. Len(ids) - 1 /\ \A x \in State(p) : OutputsOf(p)[x] = <<x>>
  BY CompleteWellFormed
<1>3. /\ s \in State(p)
      /\ Walk(p, w)[j + 1] = IF t \in AcceptStates(p) THEN 0 ELSE t
  <2> HIDE DEF p
  <2> QED BY <1>1, <1>2, WalkIs
<1>4. /\ t \in State(p) /\ r = NextState(patterns, ids[s + 1], w[j + 1])
      /\ t \in AcceptStates(p) <=> MatchingIn(patterns, r) # {}
      /\ t \in AcceptStates(p) =>
           PatternMatch(p, t, j) = MatchAt(CHOOSE pid \in MatchingIn(patterns, r) : TRUE, 0, j)
  BY <1>1, <1>3, CompleteStep
<1>5. /\ w[j + 1] \in Byte /\ Part(w, from, j + 1) = Append(Part(w, from, j), w[j + 1])
      /\ Part(w, from, j) \in Text /\ Part(w, from, j + 1) \in Text
  BY <1>1, PartFacts
<1>6. patterns \in PatternLists /\ ids[s + 1] \in RegexStates(patterns)
  <2>1. ids \in Seq(RegexStates(patterns)) /\ Len(ids) \in Nat
    BY TableEntries
  <2>2. s \in 0 .. Len(ids) - 1
    BY <1>2, <1>3, Zenon
  <2> HIDE DEF s
  <2> QED BY <2>1, <2>2 DEF Built
<1>7. r \in RegexStates(patterns) /\ Shows(patterns, r, Part(w, from, j + 1))
  <2>1. Shows(patterns, ids[s + 1], Part(w, from, j))
    BY DEF Scanned
  <2> HIDE DEF r, s
  <2> QED BY <1>4, <1>5, <1>6, <2>1, RegexStep
<1>8. MatchingIn(patterns, r) = M
  <2> HIDE DEF r
  <2> QED BY <1>5, <1>6, <1>7, MatchingShown DEF MatchingIn
<1>9. Found(p, w, j + 1) = Found(p, w, from) \o MatchesAt(p, w, j)
  <2>1. Found(p, w, j + 1) = Found(p, w, j) \o MatchesAt(p, w, j)
    <3> HIDE DEF p
    <3> QED BY <1>1, <1>2, FoundIs
  <2> QED BY <2>1 DEF Scanned
<1>10. MatchesAt(p, w, j) = IF t \in AcceptStates(p) THEN <<PatternMatch(p, t, j)>> ELSE <<>>
  <2>1. MatchesAt(p, w, j) = IF t \in AcceptStates(p)
                             THEN [k \in DOMAIN OutputsOf(p)[t] |-> PatternMatch(p, OutputsOf(p)[t][k], j)]
                             ELSE <<>>
    BY DEF MatchesAt
  <2>2. OutputsOf(p)[t] = <<t>>
    BY <1>2, <1>4
  <2> HIDE DEF t, p
  <2>3. [k \in DOMAIN <<t>> |-> PatternMatch(p, <<t>>[k], j)] = <<PatternMatch(p, t, j)>>
    <3>1. DOMAIN <<t>> = {1} /\ <<t>>[1] = t
      OBVIOUS
    <3>2. [k \in {1} |-> PatternMatch(p, t, j)] = <<PatternMatch(p, t, j)>>
      OBVIOUS
    <3> QED BY <3>1, <3>2
  <2> QED BY <2>1, <2>2, <2>3
<1>11. CASE M = {}
  <2>1. t \notin AcceptStates(p)
    BY <1>4, <1>8, <1>11
  <2>2. Walk(p, w)[j + 1] = t /\ MatchesAt(p, w, j) = <<>>
    BY <1>3, <1>10, <2>1
  <2>3. Found(p, w, from) \in Seq(MatchType)
    <3> HIDE DEF p
    <3> QED BY <1>1, <1>2, FoundIs
  <2>4. Found(p, w, j + 1) = Found(p, w, from)
    <3> DEFINE q == Found(p, w, from)
    <3>1. Found(p, w, j + 1) = q \o <<>>
      BY <1>9, <2>2
    <3>2. q \in Seq(MatchType)
      BY <2>3
    <3> HIDE DEF q
    <3>3. q \o <<>> = q
      BY <3>2
    <3> QED BY <3>1, <3>3 DEF q
  <2>5. Scanned(w, from, j + 1)
    <3>1. Shows(patterns, ids[Walk(p, w)[j + 1] + 1], Part(w, from, j + 1))
      BY <1>7, <2>2
    <3> QED BY <2>4, <3>1 DEF Scanned
  <2> QED BY <1>11, <2>5
<1>12. CASE M # {}
  <2>1. t \in AcceptStates(p)
    BY <1>4, <1>8, <1>12
  <2>2. MatchesAt(p, w, j) = <<MatchAt(CHOOSE pid \in M : TRUE, 0, j)>>
    <3>1. PatternMatch(p, t, j) = MatchAt(CHOOSE pid \in M : TRUE, 0, j)
      <4> HIDE DEF t, p, M, r
      <4> QED BY <1>4, <1>8, <2>1
    <3> QED BY <1>10, <2>1, <3>1
  <2> QED BY <1>3, <1>9, <1>12, <2>1, <2>2
<1> QED BY <1>11, <1>12

\* As long as no match ends, the scan shows the text after from.
LEMMA ScanOn ==
  ASSUME Built, Compilable(Complete), NEW w \in Text, NEW from \in 0 .. Len(w),
         Walk(Complete, w)[from] = 0, NEW j \in from .. Len(w),
         \A n \in from + 1 .. j : n \notin EndsIn(w, from)
  PROVE  Scanned(w, from, j)
<1> DEFINE S == {k \in 0 .. j - from : Scanned(w, from, from + k)}
<1>1. /\ Len(w) \in Nat /\ from \in Nat /\ j \in Nat /\ j - from \in Nat /\ from \in from .. Len(w)
      /\ from + 0 = from /\ from + (j - from) = j
  BY DEF Text
<1>2. 0 \in S
  <2>1. Part(w, from, from) = <<>>
    BY <1>1, PartFacts
  <2>2. patterns \in PatternLists /\ ids[0 + 1] = RegexStart
    BY DEF Built, Discovered
  <2>3. Scanned(w, from, from)
    BY <2>1, <2>2, StartShows DEF Scanned
  <2> QED BY <1>1, <2>3
<1>3. ASSUME NEW k \in 0 .. (j - from) - 1, k \in S PROVE k + 1 \in S
  <2>1. /\ from + k \in from .. Len(w) - 1 /\ (from + k) + 1 = from + (k + 1)
        /\ k + 1 \in 0 .. j - from /\ from + (k + 1) \in from + 1 .. j /\ from + (k + 1) \in from + 1 .. Len(w)
    BY <1>1
  <2>2. Scanned(w, from, from + k)
    BY <1>3
  <2> DEFINE M == Matching(patterns, Part(w, from, (from + k) + 1), TRUE)
  <2>3. M = {}
    BY <2>1 DEF EndsIn
  <2>4. M = {} => Scanned(w, from, (from + k) + 1)
    BY <2>1, <2>2, ScanStep
  <2> QED BY <2>1, <2>3, <2>4
<1>4. j - from \in S
  <2> HIDE DEF S
  <2>1. \A k \in 0 .. j - from : k \in S
    BY <1>1, <1>2, <1>3, InductionUpTo
  <2> QED BY <1>1, <2>1
<1> QED BY <1>1, <1>4

\* What the program finds in a text are the matches of the patterns.
LEMMA FindsRegexMatches ==
  ASSUME Built, Compilable(Complete), NEW w \in Text
  PROVE  Found(Complete, w, Len(w)) = RegexMatches(w)
<1> DEFINE p == Complete
           N == Len(w)
           V == Seq(MatchType)
           d == [from \in 0 .. N |-> N - from]
<1>1. patterns \in PatternLists /\ N \in Nat /\ w \in Seq(Byte) /\ WellFormed(p)
  BY CompleteWellFormed DEF Text, Built
<1>2. PICK f \in [0 .. N -> V] :
        /\ RegexMatches(w) = f[0]
        /\ \A from \in 0 .. N :
             f[from] = IF EndsIn(w, from) = {} THEN <<>>
                       ELSE <<FirstMatch(w, from)>> \o f[Min(EndsIn(w, from))]
  BY <1>1, RegexMatchesIs
<1>3. /\ Found(p, w, 0) = <<>> /\ Walk(p, w)[0] = 0
      /\ \A n \in 0 .. N : Found(p, w, n) \in V
  <2> HIDE DEF p
  <2> QED BY <1>1, FoundIs, WalkIs
<1> DEFINE X == {from \in 0 .. N : Walk(p, w)[from] = 0 => Found(p, w, N) = Found(p, w, from) \o f[from]}
<1>4. ASSUME NEW from \in 0 .. N, \A e \in 0 .. N : d[e] < d[from] => e \in X PROVE from \in X
  <2> SUFFICES ASSUME Walk(p, w)[from] = 0 PROVE Found(p, w, N) = Found(p, w, from) \o f[from]
    OBVIOUS
  <2> DEFINE q == Found(p, w, from)
  <2>1. q \in V
    BY <1>3
  <2>2. CASE EndsIn(w, from) = {}
    <3>1. N \in from .. N /\ \A n \in from + 1 .. N : n \notin EndsIn(w, from)
      BY <1>1, <2>2
    <3>2. Found(p, w, N) = q
      BY <3>1, ScanOn DEF Scanned
    <3>3. f[from] = <<>>
      BY <1>2, <2>2
    <3>4. q \o <<>> = q
      <4> HIDE DEF q
      <4> QED BY <2>1
    <3> QED BY <3>2, <3>3, <3>4
  <2>3. CASE EndsIn(w, from) # {}
    <3> DEFINE e == Min(EndsIn(w, from))
               M == Matching(patterns, Part(w, from, e), TRUE)
               m == FirstMatch(w, from)
    <3>1. e \in from + 1 .. N /\ e \in EndsIn(w, from) /\ \A n \in from + 1 .. e - 1 : n \notin EndsIn(w, from)
      BY <2>3, FirstEnd
    <3>2. M # {} /\ m = MatchAt(CHOOSE pid \in M : TRUE, 0, e - 1)
      BY <3>1 DEF EndsIn, FirstMatch
    <3>3. f[from] = <<m>> \o f[e]
      BY <1>2, <2>3
    <3> HIDE DEF e
    <3>4. e - 1 \in from .. N /\ e - 1 \in from .. N - 1 /\ (e - 1) + 1 = e /\ e \in 0 .. N /\ N - e < N - from
      BY <1>1, <3>1
    <3>5. Scanned(w, from, e - 1)
      BY <3>1, <3>4, ScanOn
    <3>6. Walk(p, w)[e] = 0 /\ Found(p, w, e) = q \o <<m>>
      <4>1. LET K == Matching(patterns, Part(w, from, (e - 1) + 1), TRUE)
            IN  K # {} =>
                  /\ Walk(p, w)[(e - 1) + 1] = 0
                  /\ Found(p, w, (e - 1) + 1) =
                       q \o <<MatchAt(CHOOSE pid \in K : TRUE, 0, e - 1)>>
        BY <3>4, <3>5, ScanStep
      <4> QED BY <3>2, <3>4, <4>1
    <3>7. e \in X
      BY <1>4, <3>4
    <3>8. Found(p, w, N) = (q \o <<m>>) \o f[e]
      BY <3>6, <3>7
    <3>9. m \in MatchType
      <4>1. Found(p, w, e) \in V /\ Found(p, w, e) = q \o <<m>>
        BY <1>3, <3>4, <3>6
      <4> DEFINE g == Found(p, w, e)
      <4> HIDE DEF g, q, m
      <4>2. (q \o <<m>>)[Len(q) + 1] = m /\ Len(q) + 1 \in 1 .. Len(q \o <<m>>)
        BY <2>1
      <4> QED BY <4>1, <4>2
    <3>10. f[e] \in V
      BY <3>4
    <3> HIDE DEF q, m, V
    <3>11. (q \o <<m>>) \o f[e] = q \o (<<m>> \o f[e])
      <4>1. q \in Seq(MatchType) /\ <<m>> \in Seq(MatchType) /\ f[e] \in Seq(MatchType)
        BY <2>1, <3>9, <3>10 DEF V
      <4> DEFINE a == <<m>>
                 c == f[e]
      <4>2. a \in Seq(MatchType) /\ c \in Seq(MatchType)
        BY <4>1
      <4> HIDE DEF a, c
      <4>3. (q \o a) \o c = q \o (a \o c)
        BY <4>1, <4>2, ConcatenatedTwice
      <4> QED BY <4>3 DEF a, c
    <3> QED BY <3>3, <3>8, <3>11 DEF q
  <2> QED BY <2>2, <2>3
<1>5. d \in [0 .. N -> Nat]
  BY <1>1
<1>6. \A from \in 0 .. N : from \in X
  <2> DEFINE S == 0 .. N
  <2>1. \A from \in S : (\A e \in S : d[e] < d[from] => e \in X) => from \in X
    BY <1>4
  <2>2. d \in [S -> Nat]
    BY <1>5
  <2>3. \A from \in S : from \in X
    <3> HIDE DEF X, d, S
    <3> QED BY <2>1, <2>2, RankInduction
  <2> QED BY <2>3
<1>7. Found(p, w, N) = <<>> \o f[0]
  <2>1. 0 \in X
    BY <1>1, <1>6
  <2> QED BY <1>3, <2>1
<1>8. f[0] \in Seq(MatchType)
  BY <1>1
<1> DEFINE u == f[0]
<1>9. <<>> \o u = u
  <2>1. u \in Seq(MatchType)
    BY <1>8
  <2> HIDE DEF u
  <2> QED BY <2>1
<1> QED BY <1>2, <1>7, <1>9

\* A program that compiles reports in every text what the patterns say.
THEOREM FindsPatternsAnywhere ==
  Spec => [](IsProgram => \A w \in Text : Found(result, w, Len(w)) = RegexMatches(w))
<1>1. IInv => (IsProgram => \A w \in Text : Found(result, w, Len(w)) = RegexMatches(w))
  BY BuiltAtTheEnd, FindsRegexMatches
<1> QED BY <1>1, Invariant, PTL

\* In particular in the texts the runs try it on.
THEOREM ProgramFindsPatterns == Spec => []FindsPatterns
<1>1. IInv => FindsPatterns
  <2> SUFFICES ASSUME IInv, IsProgram, NEW w \in Texts
               PROVE  Found(result, w, Len(w)) = RegexMatches(w)
    BY DEF FindsPatterns
  <2>1. w \in Text
    <3>1. PICK n \in 0 .. MaxText : w \in [1 .. n -> Byte]
      BY DEF Texts
    <3>2. n \in Nat
      BY LimitsAssumption
    <3> QED BY <3>1, <3>2, FunctionIsSeq DEF Text
  <2> QED BY <2>1, BuiltAtTheEnd, FindsRegexMatches
<1> QED BY <1>1, Invariant, PTL
===============================================================================
