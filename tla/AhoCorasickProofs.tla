--------------------------- MODULE AhoCorasickProofs --------------------------
(***************************************************************************)
(* For all lists of patterns: the trie has one state per prefix, failure   *)
(* links, output links and inherited patterns are the longest suffixes     *)
(* they should be, the program that is built is well formed, and a scan of *)
(* it reports the occurrences of the patterns in the input.                *)
(***************************************************************************)
EXTENDS LiteralMatch, ProgramProofs

------------------------------------------------------------------------------
(***************************************************************************)
(* Strings.                                                                *)
(***************************************************************************)

\* The tail grows with its string.
LEMMA TailOfAppended ==
  ASSUME NEW v \in Text, NEW b \in Byte
  PROVE  Tail(Append(v, b)) = IF v = <<>> THEN <<>> ELSE Append(Tail(v), b)
<1> DEFINE x == Append(v, b)
           y == Tail(x)
<1>1. x \in Text /\ Len(x) = Len(v) + 1 /\ (\A i \in 1 .. Len(v) : x[i] = v[i]) /\ x[Len(v) + 1] = b
      /\ x # <<>> /\ Len(v) \in Nat
  BY Appended DEF Text
<1> HIDE DEF x
<1>2. /\ y \in Text /\ Len(y) = Len(v) /\ \A i \in 1 .. Len(v) : y[i] = x[i + 1]
  <2>1. Len(x) - 1 = Len(v)
    BY <1>1
  <2> QED BY <1>1, <2>1, TailMeans
<1> HIDE DEF y
<1>3. CASE v = <<>>
  <2>1. Len(y) = 0 /\ y \in Seq(Byte)
    BY <1>2, <1>3 DEF Text
  <2> QED BY <1>3, <2>1 DEF x, y
<1>4. CASE v # <<>>
  <2> DEFINE t == Tail(v)
             z == Append(t, b)
  <2>1. t \in Text /\ Len(t) = Len(v) - 1 /\ Len(v) \in Nat \ {0} /\ \A i \in 1 .. Len(v) - 1 : t[i] = v[i + 1]
    BY <1>4, TailMeans
  <2> HIDE DEF t
  <2>2. z \in Text /\ Len(z) = Len(t) + 1 /\ (\A i \in 1 .. Len(t) : z[i] = t[i]) /\ z[Len(t) + 1] = b
    BY <2>1, Appended
  <2> HIDE DEF z
  <2>3. ASSUME NEW i \in 1 .. Len(v) PROVE y[i] = z[i]
    <3>1. CASE i = Len(v)
      <4>1. i = Len(t) + 1 /\ i + 1 = Len(v) + 1
        BY <2>1, <3>1
      <4> QED BY <1>1, <1>2, <2>2, <4>1
    <3>2. CASE i # Len(v)
      <4>1. i \in 1 .. Len(t) /\ i \in 1 .. Len(v) - 1 /\ i + 1 \in 1 .. Len(v)
        BY <2>1, <3>2
      <4> QED BY <1>1, <1>2, <2>1, <2>2, <4>1
    <3> QED BY <3>1, <3>2
  <2>4. y = z
    <3>1. y \in Seq(Byte) /\ z \in Seq(Byte) /\ Len(y) = Len(z)
      BY <1>2, <2>1, <2>2 DEF Text
    <3>2. \A i \in 1 .. Len(y) : y[i] = z[i]
      BY <1>2, <2>3
    <3> QED BY <3>1, <3>2, SameSeq
  <2> QED BY <1>4, <2>4 DEF y, x, z, t
<1> QED BY <1>3, <1>4

\* A prefix, as the suffix above.
LEMMA PrefixMeans ==
  ASSUME NEW u \in Text, NEW v \in Text
  PROVE  IsStrictPrefix(u, v) <=> Len(u) < Len(v) /\ u = SubSeq(v, 1, Len(u))
<1>1. u \in Seq(Byte) /\ v \in Seq(Byte) /\ Len(u) \in Nat /\ Len(v) \in Nat
  BY DEF Text
<1>2. SubSeq(u, 1, Len(u)) = u
  <2> DEFINE x == SubSeq(u, 1, Len(u))
  <2>1. x \in Seq(Byte) /\ Len(x) = Len(u) /\ \A i \in 1 .. Len(u) : x[i] = u[i]
    BY <1>1
  <2> HIDE DEF x
  <2>2. x = u
    BY <1>1, <2>1, SameSeq
  <2> QED BY <2>2 DEF x
<1>3. ASSUME Len(u) = Len(v), u = SubSeq(v, 1, Len(u)) PROVE u = v
  <2>1. \A i \in 1 .. Len(v) : SubSeq(v, 1, Len(v))[i] = v[i]
    BY <1>1
  <2>2. \A i \in 1 .. Len(u) : u[i] = v[i]
    BY <1>3, <2>1
  <2> QED BY <1>1, <1>3, <2>2, SameSeq
<1> QED BY <1>1, <1>2, <1>3 DEF IsStrictPrefix, IsPrefix

\* A prefix of a prefix, and one byte more of a prefix.
LEMMA PrefixLonger ==
  ASSUME NEW v \in Text, NEW n \in 0 .. Len(v) - 1
  PROVE  /\ SubSeq(v, 1, n) \in Text /\ Len(SubSeq(v, 1, n)) = n
         /\ v[n + 1] \in Byte
         /\ SubSeq(v, 1, n + 1) = Append(SubSeq(v, 1, n), v[n + 1])
<1> DEFINE x == SubSeq(v, 1, n)
           y == SubSeq(v, 1, n + 1)
           z == Append(x, v[n + 1])
<1>1. v \in Seq(Byte) /\ Len(v) \in Nat /\ n \in Nat /\ n + 1 <= Len(v)
  BY DEF Text
<1>2. v[n + 1] \in Byte
  BY <1>1
<1>3. x \in Text /\ Len(x) = n /\ \A i \in 1 .. n : x[i] = v[i]
  BY <1>1 DEF Text
<1>4. y \in Text /\ Len(y) = n + 1 /\ \A i \in 1 .. n + 1 : y[i] = v[i]
  BY <1>1 DEF Text
<1> HIDE DEF x, y
<1>5. z \in Text /\ Len(z) = n + 1 /\ (\A i \in 1 .. n : z[i] = x[i]) /\ z[n + 1] = v[n + 1]
  BY <1>2, <1>3, Appended
<1> HIDE DEF z
<1>6. y = z
  <2>1. ASSUME NEW i \in 1 .. n + 1 PROVE y[i] = z[i]
    <3>1. CASE i = n + 1
      BY <1>4, <1>5, <3>1
    <3>2. CASE i \in 1 .. n
      BY <1>3, <1>4, <1>5, <3>2
    <3> QED BY <1>1, <3>1, <3>2
  <2> QED BY <1>4, <1>5, <2>1, SameSeq DEF Text
<1> QED BY <1>2, <1>3, <1>6 DEF x, y, z

\* A string that is not empty is another and one byte more.
LEMMA LastByte ==
  ASSUME NEW v \in Text, v # <<>>
  PROVE  \E u \in Text, b \in Byte : v = Append(u, b) /\ Len(v) = Len(u) + 1
<1> DEFINE n == Len(v) - 1
<1>1. v \in Seq(Byte) /\ Len(v) \in Nat \ {0} /\ n \in 0 .. Len(v) - 1 /\ n + 1 = Len(v)
  BY TailMeans DEF Text
<1> HIDE DEF n
<1>2. SubSeq(v, 1, n) \in Text /\ Len(SubSeq(v, 1, n)) = n /\ v[n + 1] \in Byte
      /\ SubSeq(v, 1, n + 1) = Append(SubSeq(v, 1, n), v[n + 1])
  BY <1>1, PrefixLonger
<1>3. SubSeq(v, 1, n + 1) = v
  <2>1. \A i \in 1 .. Len(v) : SubSeq(v, 1, Len(v))[i] = v[i]
    BY <1>1
  <2>2. SubSeq(v, 1, Len(v)) \in Seq(Byte) /\ Len(SubSeq(v, 1, Len(v))) = Len(v)
    BY <1>1
  <2> QED BY <1>1, <2>1, <2>2, SameSeq
<1> QED BY <1>1, <1>2, <1>3

------------------------------------------------------------------------------
(***************************************************************************)
(* Kept.                                                                   *)
(***************************************************************************)

\* q has, in order, those of the first n elements of seq that are in S; at[j] is
\* where the j-th of them is.
Picks(seq, n, S, q, at) ==
  /\ at \in [1 .. Len(q) -> 1 .. n]
  /\ \A j \in 1 .. Len(q) : q[j] = seq[at[j]] /\ seq[at[j]] \in S
  /\ \A i, j \in 1 .. Len(q) : i < j => at[i] < at[j]
  /\ \A i \in 1 .. n : seq[i] \in S => \E j \in 1 .. Len(q) : at[j] = i

\* One element more.
LEMMA PicksOneMore ==
  ASSUME NEW T, NEW seq \in Seq(T), NEW S, NEW n \in 0 .. Len(seq) - 1, NEW q \in Seq(T),
         NEW at, Picks(seq, n, S, q, at)
  PROVE  LET r == IF seq[n + 1] \in S THEN Append(q, seq[n + 1]) ELSE q
         IN  r \in Seq(T) /\ \E new : Picks(seq, n + 1, S, r, new)
<1>1. /\ n \in Nat /\ Len(q) \in Nat /\ seq[n + 1] \in T
      /\ at \in [1 .. Len(q) -> 1 .. n]
      /\ \A j \in 1 .. Len(q) : q[j] = seq[at[j]] /\ seq[at[j]] \in S
      /\ \A i, j \in 1 .. Len(q) : i < j => at[i] < at[j]
      /\ \A i \in 1 .. n : seq[i] \in S => \E j \in 1 .. Len(q) : at[j] = i
  BY DEF Picks
<1>2. CASE seq[n + 1] \notin S
  <2>1. at \in [1 .. Len(q) -> 1 .. n + 1]
    BY <1>1
  <2>2. \A i \in 1 .. n + 1 : seq[i] \in S => i \in 1 .. n
    BY <1>1, <1>2
  <2>3. Picks(seq, n + 1, S, q, at)
    BY <1>1, <2>1, <2>2 DEF Picks
  <2> QED BY <1>2, <2>3
<1>3. CASE seq[n + 1] \in S
  <2> DEFINE r == Append(q, seq[n + 1])
             m == Len(q) + 1
             new == [j \in 1 .. m |-> IF j = m THEN n + 1 ELSE at[j]]
  <2>1. r \in Seq(T) /\ Len(r) = m /\ r[m] = seq[n + 1] /\ \A j \in 1 .. Len(q) : r[j] = q[j]
    BY <1>1
  <2>2. \A j \in 1 .. m : j = m \/ j \in 1 .. Len(q)
    BY <1>1
  <2>3. m \in 1 .. m /\ \A j \in 1 .. Len(q) : j \in 1 .. m /\ j # m /\ at[j] \in 1 .. n /\ at[j] \in 1 .. n + 1
    BY <1>1
  <2>4. /\ new \in [1 .. m -> 1 .. n + 1] /\ new[m] = n + 1
        /\ \A j \in 1 .. Len(q) : new[j] = at[j]
    BY <1>1, <2>2, <2>3
  <2> HIDE DEF r, m, new
  <2>5. \A j \in 1 .. m : r[j] = seq[new[j]] /\ seq[new[j]] \in S
    BY <1>1, <1>3, <2>1, <2>2, <2>4
  <2>6. ASSUME NEW i \in 1 .. m, NEW j \in 1 .. m, i < j PROVE new[i] < new[j]
    <3>1. i \in 1 .. Len(q)
      BY <1>1, <2>6 DEF m
    <3>2. CASE j = m
      BY <1>1, <2>3, <2>4, <3>1, <3>2
    <3>3. CASE j \in 1 .. Len(q)
      BY <1>1, <2>4, <2>6, <3>1, <3>3
    <3> QED BY <2>2, <3>2, <3>3
  <2>7. ASSUME NEW i \in 1 .. n + 1, seq[i] \in S PROVE \E j \in 1 .. m : new[j] = i
    <3>1. CASE i = n + 1
      BY <2>3, <2>4, <3>1
    <3>2. CASE i \in 1 .. n
      <4>1. PICK j \in 1 .. Len(q) : at[j] = i
        BY <1>1, <2>7, <3>2
      <4> QED BY <2>3, <2>4, <4>1
    <3> QED BY <1>1, <3>1, <3>2
  <2>8. Picks(seq, n + 1, S, r, new)
    BY <2>1, <2>4, <2>5, <2>6, <2>7 DEF Picks
  <2> QED BY <1>3, <2>1, <2>8 DEF r
<1> QED BY <1>2, <1>3

\* Kept picks the elements in S.
LEMMA KeptMeans ==
  ASSUME NEW T, NEW seq \in Seq(T), NEW S
  PROVE  Kept(seq, S) \in Seq(T) /\ \E at : Picks(seq, Len(seq), S, Kept(seq, S), at)
<1> DEFINE N == Len(seq)
           Q == Seq(T)
           Def(k) == [n \in 0 .. N |->
                        IF n = 0 THEN <<>>
                        ELSE IF seq[n] \in S THEN Append(k[n - 1], seq[n]) ELSE k[n - 1]]
           step == [y \in (0 .. N - 1) \X Q |->
                      IF seq[y[1] + 1] \in S THEN Append(y[2], seq[y[1] + 1]) ELSE y[2]]
<1>1. Kept(seq, S) = (CHOOSE k : k = Def(k))[N]
  BY DEF Kept
<1>2. N \in Nat /\ <<>> \in Q
  OBVIOUS
<1>3. /\ step \in [(0 .. N - 1) \X Q -> Q]
      /\ \A n \in 0 .. N - 1, q \in Q :
           step[<<n, q>>] = IF seq[n + 1] \in S THEN Append(q, seq[n + 1]) ELSE q
  <2>1. ASSUME NEW n \in 0 .. N - 1, NEW q \in Q
        PROVE  (IF seq[n + 1] \in S THEN Append(q, seq[n + 1]) ELSE q) \in Q
    <3>1. seq[n + 1] \in T
      OBVIOUS
    <3> QED BY <3>1
  <2> HIDE DEF Q, N
  <2> QED BY <2>1
<1> HIDE DEF step, N
<1>4. PICK g : Recursive(g, N, Q, <<>>, step)
  <2> HIDE DEF Q
  <2> QED BY <1>2, <1>3, RecursionExists
<1>5. /\ g[0] = <<>> /\ \A n \in 0 .. N : g[n] \in Q
      /\ \A n \in 0 .. N - 1 :
           g[n + 1] = IF seq[n + 1] \in S THEN Append(g[n], seq[n + 1]) ELSE g[n]
  <2>1. \A n \in 0 .. N - 1 : n \in 0 .. N
    BY <1>2
  <2>2. g[0] = <<>> /\ (\A n \in 0 .. N : g[n] \in Q) /\ \A n \in 0 .. N - 1 : g[n + 1] = step[<<n, g[n]>>]
    BY <1>4 DEF Recursive
  <2> HIDE DEF Q
  <2> QED BY <1>3, <2>1, <2>2
<1> DEFINE h == [n \in 0 .. N |-> g[n]]
           k == CHOOSE k : k = Def(k)
<1>6. k = Def(k)
  <2>1. h = Def(h)
    <3>1. ASSUME NEW n \in 0 .. N, n # 0
          PROVE  h[n] = IF seq[n] \in S THEN Append(h[n - 1], seq[n]) ELSE h[n - 1]
      <4>1. n - 1 \in 0 .. N - 1 /\ n - 1 \in 0 .. N /\ (n - 1) + 1 = n
        BY <1>2, <3>1
      <4> QED BY <1>5, <4>1
    <3>2. h[0] = <<>>
      BY <1>2, <1>5
    <3>3. h = [n \in 0 .. N |-> h[n]]
      OBVIOUS
    <3> HIDE DEF h
    <3> QED BY <3>1, <3>2, <3>3
  <2> HIDE DEF Def, h
  <2> QED BY <2>1
<1> HIDE DEF k
<1> DEFINE X == {n \in 0 .. N : k[n] \in Q /\ \E at : Picks(seq, n, S, k[n], at)}
<1>7. 0 \in X
  <2>1. k[0] = <<>> /\ 0 \in 0 .. N
    BY <1>2, <1>6
  <2>2. Len(<<>>) = 0 /\ ~ (\E i : i \in 1 .. 0) /\ <<>> \in [1 .. 0 -> 1 .. 0]
    OBVIOUS
  <2>3. Picks(seq, 0, S, <<>>, <<>>)
    BY <2>2 DEF Picks
  <2> QED BY <1>2, <2>1, <2>3
<1>8. ASSUME NEW n \in 0 .. N - 1, n \in X PROVE n + 1 \in X
  <2>1. n + 1 \in 0 .. N /\ n + 1 # 0 /\ (n + 1) - 1 = n
    BY <1>2
  <2>2. k[n + 1] = IF seq[n + 1] \in S THEN Append(k[n], seq[n + 1]) ELSE k[n]
    BY <1>6, <2>1
  <2>3. PICK at : Picks(seq, n, S, k[n], at)
    BY <1>8
  <2>4. k[n + 1] \in Seq(T) /\ \E new : Picks(seq, n + 1, S, k[n + 1], new)
    BY <1>8, <2>2, <2>3, PicksOneMore DEF N
  <2> QED BY <2>1, <2>4
<1>9. N \in X
  <2> HIDE DEF X
  <2>1. \A n \in 0 .. N : n \in X
    BY <1>2, <1>7, <1>8, InductionUpTo
  <2> QED BY <1>2, <2>1
<1> QED BY <1>1, <1>9 DEF k, N

\* The first of the elements kept is the first that is in S; none is kept if
\* none is in S.
LEMMA KeptHead ==
  ASSUME NEW T, NEW seq \in Seq(T), NEW S
  PROVE  IF Kept(seq, S) = <<>> THEN \A i \in 1 .. Len(seq) : seq[i] \notin S
         ELSE \E i \in 1 .. Len(seq) : /\ Head(Kept(seq, S)) = seq[i] /\ seq[i] \in S
                                       /\ \A j \in 1 .. Len(seq) : seq[j] \in S => i <= j
<1> DEFINE q == Kept(seq, S)
<1>1. q \in Seq(T)
  BY KeptMeans
<1>2. PICK at : Picks(seq, Len(seq), S, q, at)
  BY KeptMeans
<1> HIDE DEF q
<1>3. CASE q = <<>>
  <2>1. Len(q) = 0
    BY <1>3
  <2> QED BY <1>2, <1>3, <2>1 DEF Picks, q
<1>4. CASE q # <<>>
  <2>1. 1 \in 1 .. Len(q) /\ Head(q) = q[1] /\ Len(q) \in Nat
    BY <1>1, <1>4
  <2>2. /\ at[1] \in 1 .. Len(seq) /\ q[1] = seq[at[1]] /\ seq[at[1]] \in S
    BY <1>2, <2>1 DEF Picks
  <2>3. ASSUME NEW j \in 1 .. Len(seq), seq[j] \in S PROVE at[1] <= j
    <3>1. PICK l \in 1 .. Len(q) : at[l] = j
      BY <1>2, <2>3 DEF Picks
    <3>2. CASE l = 1
      BY <2>2, <3>1, <3>2
    <3>3. CASE l # 1
      <4>1. 1 < l
        BY <3>3
      <4>2. at[1] < at[l]
        BY <1>2, <2>1, <4>1 DEF Picks
      <4> QED BY <2>2, <3>1, <4>2
    <3> QED BY <3>2, <3>3
  <2> QED BY <1>4, <2>1, <2>2, <2>3 DEF q
<1> QED BY <1>3, <1>4

------------------------------------------------------------------------------
(***************************************************************************)
(* The invariant.                                                          *)
(***************************************************************************)

\* w gives each state the string that leads to it: one state per string, made
\* after the state it hangs on.
Trie(w) ==
  /\ w \in [States -> Seq(Byte)] /\ w[0] = <<>>
  /\ \A s \in States, b \in Byte : trans[s][b] # 0 => w[trans[s][b]] = Append(w[s], b)
  /\ \A t \in States \ {0} : \E s \in 0 .. t - 1, b \in Byte : trans[s][b] = t
  /\ \A s, t \in States : w[s] = w[t] => s = t
  /\ \A s \in States : Len(w[s]) <= s

\* Every state is on the way to a pattern.
Begun(w) ==
  \A s \in States \ {0} :
    \E i \in DOMAIN patterns : \E n \in 1 .. Len(patterns[i]) : w[s] = SubSeq(patterns[i], 1, n)

\* accepts has the patterns inserted so far, in order, and their lengths are known.
Named(w) ==
  /\ accepts \in Seq(States \X (0 .. pid - 1))
  /\ \A i \in DOMAIN accepts :
       w[accepts[i][1]] = patterns[accepts[i][2] + 1] /\ patterns[accepts[i][2] + 1] # <<>>
  /\ \A i, j \in DOMAIN accepts : i < j => accepts[i][2] < accepts[j][2]
  /\ \A q \in 0 .. pid - 1 : patterns[q + 1] # <<>> => \E i \in DOMAIN accepts : accepts[i][2] = q
  /\ lengths = [i \in DOMAIN patterns |-> IF i <= pid THEN Len(patterns[i]) ELSE 0]

\* The cursor of the insertion.
Cursor(w) ==
  IF pid < Len(patterns)
  THEN offset <= Len(Pattern) /\ w[current] = SubSeq(Pattern, 1, offset)
  ELSE offset = 0 /\ current = 0

\* r is the state of Q with the longest string that ends v.
IsLongest(w, Q, v, r) ==
  /\ r \in Q /\ IsSuffix(w[r], v)
  /\ \A t \in Q : IsSuffix(w[t], v) => Len(w[t]) <= Len(w[r])

\* The failure link of s is right.
FailOf(w, s) == IsLongest(w, States, Tail(w[s]), fail[s])

\* Failure links lead towards the root.
Shrinking(w) ==
  fail[0] = 0 /\ \A s \in States \ {0} : Len(w[fail[s]]) < Len(w[s])

\* The queue is a breadth-first one, and the links of all states that are not
\* below it are right.
Breadth(w) ==
  /\ \A i \in DOMAIN queue : queue[i] # 0
  /\ \A i, j \in DOMAIN queue : i < j => /\ Len(w[queue[i]]) <= Len(w[queue[j]])
                                         /\ Len(w[queue[j]]) <= Len(w[queue[i]]) + 1
  /\ \A s \in States \ {0} :
       (\A i \in DOMAIN queue : ~ IsStrictPrefix(w[queue[i]], w[s])) => FailOf(w, s)

\* The root and the states of the patterns.
PatternStates == {0} \cup {s \in States : OwnPatterns(s) # <<>>}

\* The output link of s is right.
OutputOf(w, s) ==
  \E r \in States :
    /\ IsLongest(w, PatternStates, w[fail[s]], r)
    /\ outputLink[s] = IF OwnPatterns(s) # <<>> /\ r # 0 THEN r ELSE NONE

\* The pattern of s is right.
AcceptOf(w, s) ==
  IF OwnPatterns(s) # <<>> THEN accState[s] = OwnPatterns(s)
  ELSE \E r \in States :
         /\ IsLongest(w, PatternStates, w[s], r)
         /\ accState[s] = IF r = 0 THEN <<>> ELSE <<Head(OwnPatterns(r))>>

\* The state reached from s on b is right.
DenseOf(w, s, b) ==
  IsLongest(w, States, Append(w[s], b), result.trans[s * ByteCount + b + 1])

Linking    == phase \in {"bfs", "link", "propagate", "table"}
HasProgram == result \notin {Pending, EmptyDfa, InvalidTable, TooMany}

Control ==
  /\ phase # "insert" => pid = Len(patterns)
  /\ Linking => patterns # <<>>
  /\ phase # "done" => result = Pending

IInv(w) ==
  /\ TypeOK /\ Control
  /\ Trie(w) /\ Begun(w) /\ Named(w)
  /\ phase = "insert" => Cursor(w)
  /\ Linking => Shrinking(w)
  /\ phase = "bfs" => Breadth(w)
  /\ phase \in {"bfs", "link"} => accState = [s \in States |-> OwnPatterns(s)]
  /\ phase = "bfs" => outputLink = [s \in States |-> NONE]
  /\ phase \in {"link", "propagate", "table"} => \A s \in States \ {0} : FailOf(w, s)
  /\ phase = "link" => \A s \in States : IF s < state THEN OutputOf(w, s) ELSE outputLink[s] = NONE
  /\ phase \in {"propagate", "table"} => \A s \in States : OutputOf(w, s)
  /\ phase = "propagate" =>
       \A s \in States : IF s < state THEN AcceptOf(w, s) ELSE accState[s] = OwnPatterns(s)
  /\ phase = "table" => \A s \in States : AcceptOf(w, s)
  /\ HasProgram => \A s \in States, b \in Byte : DenseOf(w, s, b)

------------------------------------------------------------------------------
(***************************************************************************)
(* What the invariant says of the trie.                                    *)
(***************************************************************************)

\* The types the trie has from the start.
LEMMA TrieTypes ==
  ASSUME TypeOK
  PROVE  /\ stateCount \in Nat \ {0} /\ 0 \in States /\ States = 0 .. stateCount - 1
         /\ \A s \in States, b \in Byte : trans[s][b] \in States
         /\ trans \in [States -> [Byte -> States]]
BY DEF TypeOK, States

\* A state is the child of another on a byte exactly when its string is that of
\* the other and the byte.
LEMMA ChildIs ==
  ASSUME TypeOK, NEW w, Trie(w)
  PROVE  /\ \A s \in States : w[s] \in Text
         /\ \A s \in States : w[s] = <<>> <=> s = 0
         /\ \A t \in States \ {0} :
              \E s \in States, b \in Byte : s < t /\ trans[s][b] = t /\ w[t] = Append(w[s], b)
         /\ \A s, t \in States, b \in Byte :
              w[t] = Append(w[s], b) <=> t # 0 /\ trans[s][b] = t
<1>1. \A s \in States : w[s] \in Text
  BY DEF Trie, Text
<1>2. ASSUME NEW t \in States \ {0}
      PROVE  \E s \in States, b \in Byte : s < t /\ trans[s][b] = t /\ w[t] = Append(w[s], b)
  <2>1. PICK s \in 0 .. t - 1, b \in Byte : trans[s][b] = t
    BY DEF Trie
  <2>2. s \in States /\ s < t
    BY TrieTypes
  <2>3. w[t] = Append(w[s], b)
    BY <2>1, <2>2 DEF Trie
  <2> QED BY <2>1, <2>2, <2>3
<1>3. \A s \in States : w[s] = <<>> <=> s = 0
  <2>1. w[0] = <<>>
    BY DEF Trie
  <2>2. ASSUME NEW t \in States \ {0} PROVE w[t] # <<>>
    <3>1. PICK s \in States, b \in Byte : w[t] = Append(w[s], b)
      BY <1>2
    <3> QED BY <1>1, <3>1, Appended
  <2> QED BY <2>1, <2>2
<1>4. ASSUME NEW s \in States, NEW t \in States, NEW b \in Byte, w[t] = Append(w[s], b)
      PROVE  t # 0 /\ trans[s][b] = t
  <2>1. w[t] # <<>>
    BY <1>1, <1>4, Appended
  <2>2. t # 0
    BY <1>3, <2>1
  <2>3. PICK u \in States, c \in Byte : trans[u][c] = t /\ w[t] = Append(w[u], c)
    BY <1>2, <2>2
  <2>4. w[u] = w[s] /\ c = b
    <3>1. Append(w[u], c) = Append(w[s], b) /\ w[u] \in Text /\ w[s] \in Text
      BY <1>1, <1>4, <2>3
    <3> QED BY <3>1, AppendedAlike
  <2> QED BY <2>2, <2>3, <2>4 DEF Trie
<1>5. ASSUME NEW s \in States, NEW t \in States, NEW b \in Byte, t # 0, trans[s][b] = t
      PROVE  w[t] = Append(w[s], b)
  BY <1>5 DEF Trie
<1> QED BY <1>1, <1>2, <1>3, <1>4, <1>5

\* Paths finds the strings.
LEMMA PathsAre ==
  ASSUME TypeOK, NEW w, Trie(w)
  PROVE  Paths = w
<1> DEFINE Edge(s) == CHOOSE e \in (0 .. s - 1) \X Byte : trans[e[1]][e[2]] = s
           Def(p) == [s \in States |-> IF s = 0 THEN <<>> ELSE Append(p[Edge(s)[1]], Edge(s)[2])]
           path == CHOOSE p : p = Def(p)
<1>1. Paths = path
  BY DEF Paths
<1>2. ASSUME NEW s \in States \ {0}
      PROVE  /\ Edge(s)[1] \in States /\ Edge(s)[1] < s /\ Edge(s)[2] \in Byte
             /\ w[s] = Append(w[Edge(s)[1]], Edge(s)[2])
  <2> DEFINE e == Edge(s)
  <2>1. PICK p \in 0 .. s - 1, b \in Byte : trans[p][b] = s
    BY DEF Trie
  <2>2. <<p, b>> \in (0 .. s - 1) \X Byte /\ trans[<<p, b>>[1]][<<p, b>>[2]] = s
    BY <2>1
  <2>3. e \in (0 .. s - 1) \X Byte /\ trans[e[1]][e[2]] = s
    BY <2>2
  <2> HIDE DEF e
  <2>4. e[1] \in States /\ e[1] < s /\ e[2] \in Byte
    <3>1. e[1] \in 0 .. s - 1 /\ e[2] \in Byte
      BY <2>3
    <3>2. stateCount \in Nat /\ s \in 0 .. stateCount - 1 /\ States = 0 .. stateCount - 1
      BY TrieTypes
    <3> QED BY <3>1, <3>2
  <2>5. w[s] = Append(w[e[1]], e[2])
    BY <2>3, <2>4 DEF Trie
  <2> QED BY <2>4, <2>5 DEF e
<1> HIDE DEF Edge
<1>3. w = Def(w)
  <2>1. w = [s \in States |-> w[s]] /\ w[0] = <<>>
    BY DEF Trie
  <2>2. \A s \in States : w[s] = IF s = 0 THEN <<>> ELSE Append(w[Edge(s)[1]], Edge(s)[2])
    BY <1>2, <2>1
  <2> QED BY <2>1, <2>2
<1>4. path = Def(path)
  <2> HIDE DEF Def
  <2> QED BY <1>3
<1> HIDE DEF path
<1> DEFINE X == {s \in States : path[s] = w[s]}
           d == [s \in States |-> s]
<1>5. d \in [States -> Nat]
  BY TrieTypes
<1>6. ASSUME NEW s \in States, \A t \in States : d[t] < d[s] => t \in X PROVE s \in X
  <2>1. CASE s = 0
    BY <1>4, <2>1 DEF Trie
  <2>2. CASE s # 0
    <3>1. Edge(s)[1] \in X
      BY <1>2, <1>6, <2>2
    <3> QED BY <1>2, <1>4, <2>2, <3>1
  <2> QED BY <2>1, <2>2
<1>7. \A s \in States : s \in X
  <2> HIDE DEF X, d
  <2> QED BY <1>5, <1>6, RankInduction
<1>8. w = [s \in States |-> w[s]]
  BY DEF Trie
<1>9. path = [s \in States |-> path[s]]
  BY <1>4
<1> QED BY <1>1, <1>7, <1>8, <1>9

\* The strings of the trie are closed under prefixes.
LEMMA PrefixClosed ==
  ASSUME TypeOK, NEW w, Trie(w)
  PROVE  \A s \in States : \A n \in 0 .. Len(w[s]) : \E t \in States : w[t] = SubSeq(w[s], 1, n)
<1> DEFINE Good(s) == \A n \in 0 .. Len(w[s]) : \E t \in States : w[t] = SubSeq(w[s], 1, n)
           X == {s \in States : Good(s)}
           d == [s \in States |-> s]
<1>1. d \in [States -> Nat]
  BY TrieTypes
<1>2. ASSUME NEW s \in States, \A t \in States : d[t] < d[s] => t \in X PROVE s \in X
  <2>1. w[s] \in Seq(Byte) /\ Len(w[s]) \in Nat
    BY ChildIs DEF Text
  <2>2. SubSeq(w[s], 1, Len(w[s])) = w[s]
    <3> DEFINE v == w[s]
               x == SubSeq(v, 1, Len(v))
    <3>1. x \in Seq(Byte) /\ Len(x) = Len(v) /\ \A i \in 1 .. Len(v) : x[i] = v[i]
      BY <2>1
    <3> HIDE DEF x, v
    <3>2. x = v
      BY <2>1, <3>1, SameSeq DEF v
    <3> QED BY <3>2 DEF x, v
  <2>3. CASE s = 0
    <3>1. w[s] = <<>> /\ Len(<<>>) = 0
      BY <2>3, ChildIs
    <3>2. \A n \in 0 .. Len(w[s]) : n = Len(w[s])
      BY <3>1
    <3> QED BY <2>2, <3>2
  <2>4. CASE s # 0
    <3>1. PICK p \in States, b \in Byte : p < s /\ w[s] = Append(w[p], b)
      BY <2>4, ChildIs
    <3>2. Good(p)
      BY <1>2, <3>1
    <3>3. w[p] \in Seq(Byte) /\ Len(w[p]) \in Nat
      BY ChildIs DEF Text
    <3>4. Len(w[s]) = Len(w[p]) + 1 /\ \A i \in 1 .. Len(w[p]) : w[s][i] = w[p][i]
      BY <3>1, Appended, ChildIs
    <3>5. ASSUME NEW n \in 0 .. Len(w[p]) PROVE SubSeq(w[s], 1, n) = SubSeq(w[p], 1, n)
      <4> DEFINE u == w[s]
                 v == w[p]
                 x == SubSeq(u, 1, n)
                 y == SubSeq(v, 1, n)
      <4>1. x \in Seq(Byte) /\ Len(x) = n /\ \A i \in 1 .. n : x[i] = u[i]
        BY <2>1, <3>3, <3>4
      <4>2. y \in Seq(Byte) /\ Len(y) = n /\ \A i \in 1 .. n : y[i] = v[i]
        BY <3>3
      <4>3. \A i \in 1 .. n : u[i] = v[i]
        BY <3>3, <3>4
      <4> HIDE DEF u, v, x, y
      <4>4. \A i \in 1 .. n : x[i] = y[i]
        BY <4>1, <4>2, <4>3
      <4>5. x = y
        BY <4>1, <4>2, <4>4, SameSeq
      <4> QED BY <4>5 DEF x, y, u, v
    <3>6. ASSUME NEW n \in 0 .. Len(w[s]) PROVE \E t \in States : w[t] = SubSeq(w[s], 1, n)
      <4>1. CASE n = Len(w[s])
        BY <2>2, <4>1
      <4>2. CASE n # Len(w[s])
        <5>1. n \in 0 .. Len(w[p])
          BY <3>3, <3>4, <4>2
        <5> QED BY <3>2, <3>5, <5>1
      <4> QED BY <4>1, <4>2
    <3> QED BY <3>6
  <2> QED BY <2>3, <2>4
<1>3. \A s \in States : s \in X
  <2> HIDE DEF X, d
  <2> QED BY <1>1, <1>2, RankInduction
<1> QED BY <1>3

------------------------------------------------------------------------------
(***************************************************************************)
(* Walks along failure links.                                              *)
(***************************************************************************)

\* Longest suffixes are shared: what ends a state's string and is not the whole
\* of it ends the string its failure link leads to.
LEMMA FailKeepsSuffixes ==
  ASSUME TypeOK, NEW w, Trie(w), NEW s \in States \ {0}, FailOf(w, s)
  PROVE  /\ fail[s] \in States /\ IsSuffix(w[fail[s]], w[s])
         /\ \A t \in States \ {s} : IsSuffix(w[t], w[s]) => IsSuffix(w[t], w[fail[s]])
<1> DEFINE v == w[s]
           f == fail[s]
<1>1. /\ \A t \in States : w[t] \in Text
      /\ v \in Text /\ v # <<>>
  BY ChildIs
<1>2. /\ f \in States /\ IsSuffix(w[f], Tail(v))
      /\ \A t \in States : IsSuffix(w[t], Tail(v)) => Len(w[t]) <= Len(w[f])
  BY DEF FailOf, IsLongest
<1>3. \A u \in Text : IsSuffix(u, Tail(v)) <=> IsSuffix(u, v) /\ u # v
  BY <1>1, ProperSuffix
<1>4. IsSuffix(w[f], v)
  BY <1>1, <1>2, <1>3
<1>5. ASSUME NEW t \in States \ {s}, IsSuffix(w[t], v) PROVE IsSuffix(w[t], w[f])
  <2>1. w[t] # v
    BY <1>5 DEF Trie
  <2>2. Len(w[t]) <= Len(w[f])
    BY <1>1, <1>2, <1>3, <1>5, <2>1
  <2>3. w[t] \in Text /\ w[f] \in Text /\ v \in Text /\ IsSuffix(w[t], v) /\ IsSuffix(w[f], v)
        /\ Len(w[t]) <= Len(w[f])
    BY <1>1, <1>2, <1>4, <1>5, <2>2
  <2> QED BY <2>3, SuffixOrder
<1> QED BY <1>2, <1>4, <1>5

\* T follows failure links to the first state of Q and takes val there.
Follows(T, Q, val) == \A f \in States : T[f] = IF f \in Q THEN val[f] ELSE T[fail[f]]

\* It does so at the longest suffix in Q, where the links are right.
LEMMA WalkFinds ==
  ASSUME TypeOK, Linking, NEW w, Trie(w), Shrinking(w), NEW Q, Q \subseteq States, 0 \in Q,
         NEW k \in Nat, \A s \in States \ {0} : Len(w[s]) <= k => FailOf(w, s),
         NEW T, NEW val, Follows(T, Q, val)
  PROVE  \A f \in States : Len(w[f]) <= k => \E r \in Q : IsLongest(w, Q, w[f], r) /\ T[f] = val[r]
<1> DEFINE Good(f) == Len(w[f]) <= k => \E r \in Q : IsLongest(w, Q, w[f], r) /\ T[f] = val[r]
           X == {f \in States : Good(f)}
           d == [f \in States |-> Len(w[f])]
<1>0. \A s \in States : w[s] \in Text /\ Len(w[s]) \in Nat
  BY ChildIs DEF Text
<1>1. d \in [States -> Nat]
  BY <1>0
<1>2. ASSUME NEW f \in States, \A g \in States : d[g] < d[f] => g \in X PROVE f \in X
  <2> SUFFICES ASSUME Len(w[f]) <= k PROVE \E r \in Q : IsLongest(w, Q, w[f], r) /\ T[f] = val[r]
    OBVIOUS
  <2>1. CASE f \in Q
    <3>1. T[f] = val[f]
      BY <2>1 DEF Follows
    <3>2. IsLongest(w, Q, w[f], f)
      <4>1. IsSuffix(w[f], w[f])
        BY <1>0, SuffixOrder
      <4>2. \A t \in Q : IsSuffix(w[t], w[f]) => Len(w[t]) <= Len(w[f])
        BY <1>0, SuffixOrder
      <4> QED BY <2>1, <4>1, <4>2 DEF IsLongest
    <3> QED BY <2>1, <3>1, <3>2
  <2>2. CASE f \notin Q
    <3> DEFINE g == fail[f]
    <3>1. f # 0 /\ T[f] = T[g]
      BY <2>2 DEF Follows
    <3>2. FailOf(w, f)
      BY <3>1
    <3>3. /\ g \in States /\ IsSuffix(w[g], w[f])
          /\ \A t \in States \ {f} : IsSuffix(w[t], w[f]) => IsSuffix(w[t], w[g])
      BY <3>1, <3>2, FailKeepsSuffixes
    <3>4. Len(w[g]) < Len(w[f])
      BY <3>1 DEF Shrinking
    <3> HIDE DEF g
    <3>5. g \in X /\ Len(w[g]) <= k
      BY <1>0, <1>2, <3>3, <3>4
    <3>6. PICK r \in Q : IsLongest(w, Q, w[g], r) /\ T[g] = val[r]
      BY <3>5
    <3>7. IsLongest(w, Q, w[f], r)
      <4>1. r \in Q /\ IsSuffix(w[r], w[g]) /\ \A t \in Q : IsSuffix(w[t], w[g]) => Len(w[t]) <= Len(w[r])
        BY <3>6 DEF IsLongest
      <4>2. IsSuffix(w[r], w[f])
        <5>1. w[r] \in Text /\ w[g] \in Text /\ w[f] \in Text
          BY <1>0, <3>3, <4>1
        <5> QED BY <3>3, <4>1, <5>1, SuffixOrder
      <4>3. ASSUME NEW t \in Q, IsSuffix(w[t], w[f]) PROVE Len(w[t]) <= Len(w[r])
        <5>1. t \in States \ {f}
          BY <2>2
        <5> QED BY <3>3, <4>1, <4>3, <5>1
      <4> QED BY <4>1, <4>2, <4>3 DEF IsLongest
    <3> QED BY <3>1, <3>6, <3>7
  <2> QED BY <2>1, <2>2
<1>3. \A f \in States : f \in X
  <2> HIDE DEF X, d
  <2> QED BY <1>1, <1>2, RankInduction
<1> QED BY <1>3

\* Such a walk ends, since failure links lead towards the root.
LEMMA WalkEnds ==
  ASSUME TypeOK, Linking, NEW w, Trie(w), Shrinking(w), NEW Q, 0 \in Q, NEW V, NEW val \in [States -> V]
  PROVE  \E T \in [States -> V] : Follows(T, Q, val)
<1> DEFINE d == [f \in States |-> Len(w[f])]
           comb == [y \in States \X V |-> y[2]]
<1>1. stateCount \in Nat /\ fail \in [States -> States] /\ States = 0 .. stateCount - 1
  BY TrieTypes DEF TypeOK, Linking
<1>2. \A f \in States : Len(w[f]) \in 0 .. stateCount
  <2>1. \A f \in States : Len(w[f]) \in Nat /\ Len(w[f]) <= f
    BY ChildIs DEF Text, Trie
  <2> QED BY <1>1, <2>1
<1>3. d \in [States -> 0 .. stateCount]
  BY <1>2
<1>4. \A f \in States \ Q : d[fail[f]] < d[f]
  BY <1>1 DEF Shrinking
<1>5. comb \in [States \X V -> V] /\ \A f \in States, v \in V : comb[<<f, v>>] = v
  OBVIOUS
<1> HIDE DEF d, comb
<1>6. PICK T \in [States -> V] : Descends(T, States, Q, val, fail, comb)
  BY <1>1, <1>3, <1>4, <1>5, RankedRecursion
<1>7. T = [f \in States |-> IF f \in Q THEN val[f] ELSE comb[<<f, T[fail[f]]>>]]
  BY <1>6 DEF Descends
<1>8. \A f \in States : comb[<<f, T[fail[f]]>>] = T[fail[f]]
  BY <1>1, <1>5
<1>9. T = [f \in States |-> IF f \in Q THEN val[f] ELSE T[fail[f]]]
  BY <1>7, <1>8
<1> QED BY <1>9 DEF Follows

\* A state with a child on b, or the root.
Branch(b) == {f \in States : f = 0 \/ trans[f][b] # 0}

\* The longest suffix of v that has a child on b gives the longest suffix of v b.
LEMMA LongestExtends ==
  ASSUME TypeOK, NEW w, Trie(w), NEW v \in Text, NEW b \in Byte, NEW r, IsLongest(w, Branch(b), v, r)
  PROVE  trans[r][b] \in States /\ IsLongest(w, States, Append(v, b), trans[r][b])
<1> DEFINE g == trans[r][b]
           x == Append(v, b)
<1>1. /\ r \in States /\ g \in States /\ (r = 0 \/ g # 0) /\ IsSuffix(w[r], v)
      /\ \A t \in Branch(b) : IsSuffix(w[t], v) => Len(w[t]) <= Len(w[r])
  BY TrieTypes DEF IsLongest, Branch
<1>2. \A t \in States : w[t] \in Text /\ Len(w[t]) \in Nat
  BY ChildIs DEF Text
<1>3. x \in Text
  BY Appended
<1>4. \A t \in States : w[t] = <<>> <=> t = 0
  BY ChildIs
<1>5. ASSUME NEW t \in States \ {0}, IsSuffix(w[t], x)
      PROVE  \E u \in Branch(b) : /\ trans[u][b] = t /\ w[t] = Append(w[u], b)
                                  /\ IsSuffix(w[u], v)
  <2>1. PICK u \in States, a \in Byte : trans[u][a] = t /\ w[t] = Append(w[u], a)
    BY ChildIs
  <2>2. IsSuffix(Append(w[u], a), Append(v, b)) /\ w[u] \in Text
    BY <1>2, <1>5, <2>1
  <2>3. IsSuffix(w[u], v) /\ a = b
    BY <2>2, SuffixOfAppended
  <2> QED BY <2>1, <2>3 DEF Branch
<1>6. IsSuffix(w[g], x)
  <2>1. CASE g = 0
    <3>1. w[g] = <<>> /\ x \in Text
      BY <1>1, <1>3, <1>4, <2>1
    <3> QED BY <3>1, SuffixOrder
  <2>2. CASE g # 0
    <3>1. w[g] = Append(w[r], b)
      BY <1>1, <2>2, ChildIs
    <3>2. IsSuffix(Append(w[r], b), Append(v, b))
      BY <1>1, <1>2, SuffixOfAppended
    <3> QED BY <3>1, <3>2
  <2> QED BY <2>1, <2>2
<1>7. ASSUME NEW t \in States, IsSuffix(w[t], x) PROVE Len(w[t]) <= Len(w[g])
  <2>1. CASE t = 0
    BY <1>1, <1>2, <1>4, <2>1
  <2>2. CASE t # 0
    <3>1. PICK u \in Branch(b) : trans[u][b] = t /\ w[t] = Append(w[u], b) /\ IsSuffix(w[u], v)
      BY <1>5, <1>7, <2>2
    <3>2. u \in States /\ Len(w[u]) <= Len(w[r]) /\ Len(w[t]) = Len(w[u]) + 1
      BY <1>1, <1>2, <3>1, Appended DEF Branch
    <3>3. CASE g # 0
      <4>1. w[g] = Append(w[r], b)
        BY <1>1, <3>3, ChildIs
      <4>2. Len(w[g]) = Len(w[r]) + 1
        BY <1>1, <1>2, <4>1, Appended
      <4> QED BY <1>1, <1>2, <3>2, <4>2
    <3>4. CASE g = 0
      <4>1. r = 0 /\ Len(w[r]) = 0
        BY <1>1, <1>4, <3>4
      <4>2. Len(w[u]) = 0
        BY <1>2, <3>2, <4>1
      <4>3. u = 0
        BY <1>2, <1>4, <3>2, <4>2 DEF Text
      <4> QED BY <2>2, <3>1, <3>4, <4>1, <4>3
    <3> QED BY <3>3, <3>4
  <2> QED BY <2>1, <2>2
<1> QED BY <1>1, <1>6, <1>7 DEF IsLongest

\* The failure link the breadth-first walk gives a child of s.
LEMMA FailTargetFinds ==
  ASSUME TypeOK, Linking, NEW w, Trie(w), Shrinking(w), NEW s \in States \ {0},
         \A t \in States \ {0} : Len(w[t]) <= Len(w[s]) => FailOf(w, t), NEW b \in Byte
  PROVE  FailTarget(s, b) \in States /\ IsLongest(w, States, Append(Tail(w[s]), b), FailTarget(s, b))
<1> DEFINE val == [f \in States |-> trans[f][b]]
           Def(T) == [f \in States |->
                        IF f # 0 /\ trans[f][b] = 0 THEN T[fail[f]] ELSE trans[f][b]]
           target == CHOOSE T : T = Def(T)
           v == w[s]
           k == Len(v)
<1>1. /\ \A t \in States : w[t] \in Text /\ Len(w[t]) \in Nat
      /\ v \in Text /\ k \in Nat /\ v # <<>>
  BY ChildIs DEF Text
<1>2. /\ 0 \in States /\ val \in [States -> States] /\ fail \in [States -> States]
      /\ 0 \in Branch(b) /\ Branch(b) \subseteq States
  BY TrieTypes DEF TypeOK, Linking, Branch
<1>3. \A T : [f \in States |-> IF f \in Branch(b) THEN val[f] ELSE T[fail[f]]] = Def(T)
  BY DEF Branch
<1>4. \E T : T = Def(T)
  <2>1. PICK T \in [States -> States] : Follows(T, Branch(b), val)
    <3>1. 0 \in Branch(b) /\ val \in [States -> States]
      BY <1>2
    <3> HIDE DEF val
    <3> QED BY <3>1, WalkEnds
  <2>2. T = [f \in States |-> IF f \in Branch(b) THEN val[f] ELSE T[fail[f]]]
    <3> HIDE DEF val
    <3> QED BY <2>1 DEF Follows
  <2>3. T = Def(T)
    <3> HIDE DEF val, Def
    <3> QED BY <1>3, <2>2
  <2> QED BY <2>3
<1>5. target = Def(target)
  <2> HIDE DEF Def
  <2> QED BY <1>4
<1>6. Follows(target, Branch(b), val)
  <2> HIDE DEF target
  <2> QED BY <1>5 DEF Follows, Branch
<1>7. FailTarget(s, b) = target[fail[s]]
  BY DEF FailTarget
<1> HIDE DEF target, val, v, k, Def
<1>8. \A f \in States : Len(w[f]) <= k =>
        \E r \in Branch(b) : IsLongest(w, Branch(b), w[f], r) /\ target[f] = val[r]
  <2>1. \A t \in States \ {0} : Len(w[t]) <= k => FailOf(w, t)
    BY DEF k, v
  <2> QED BY <1>1, <1>2, <1>6, <2>1, WalkFinds
<1>9. FailOf(w, s)
  BY <1>1 DEF k, v
<1>10. /\ fail[s] \in States /\ IsSuffix(w[fail[s]], v) /\ IsSuffix(w[fail[s]], Tail(v))
       /\ \A t \in States \ {s} : IsSuffix(w[t], v) => IsSuffix(w[t], w[fail[s]])
  BY <1>9, FailKeepsSuffixes DEF FailOf, IsLongest, v
<1>11. Len(w[fail[s]]) <= k
  BY <1>1, <1>10 DEF Shrinking, v, k
<1>12. PICK r \in Branch(b) : IsLongest(w, Branch(b), w[fail[s]], r) /\ target[fail[s]] = val[r]
  BY <1>8, <1>10, <1>11
<1>13. Tail(v) \in Text /\ \A u \in Text : IsSuffix(u, Tail(v)) <=> IsSuffix(u, v) /\ u # v
  BY <1>1, ProperSuffix, TailMeans
<1>14. IsLongest(w, Branch(b), Tail(v), r)
  <2>1. IsSuffix(w[r], w[fail[s]]) /\ \A t \in Branch(b) : IsSuffix(w[t], w[fail[s]]) => Len(w[t]) <= Len(w[r])
    BY <1>12 DEF IsLongest
  <2>2. IsSuffix(w[r], Tail(v))
    <3>1. /\ w[r] \in Text /\ w[fail[s]] \in Text /\ Tail(v) \in Text
          /\ IsSuffix(w[r], w[fail[s]]) /\ IsSuffix(w[fail[s]], Tail(v))
      BY <1>1, <1>2, <1>10, <1>12, <1>13, <2>1
    <3> QED BY <3>1, SuffixOrder
  <2>3. ASSUME NEW t \in Branch(b), IsSuffix(w[t], Tail(v)) PROVE Len(w[t]) <= Len(w[r])
    <3>1. t \in States \ {s} /\ IsSuffix(w[t], v)
      BY <1>1, <1>2, <1>13, <2>3 DEF v
    <3> QED BY <1>10, <2>1, <2>3, <3>1
  <2> QED BY <1>12, <2>2, <2>3 DEF IsLongest
<1>15. trans[r][b] \in States /\ IsLongest(w, States, Append(Tail(v), b), trans[r][b])
  BY <1>13, <1>14, LongestExtends
<1>16. FailTarget(s, b) = trans[r][b]
  BY <1>2, <1>7, <1>12 DEF val
<1> QED BY <1>15, <1>16 DEF v

\* The state the dense table moves to from s on b.
LEMMA DenseTargetFinds ==
  ASSUME TypeOK, Linking, NEW w, Trie(w), Shrinking(w), \A t \in States \ {0} : FailOf(w, t),
         NEW s \in States, NEW b \in Byte
  PROVE  DenseTarget(s, b) \in States /\ IsLongest(w, States, Append(w[s], b), DenseTarget(s, b))
<1> DEFINE val == [f \in States |-> trans[f][b]]
           Def(T) == [f \in States |->
                        IF trans[f][b] # 0 \/ f = 0 THEN trans[f][b] ELSE T[fail[f]]]
           target == CHOOSE T : T = Def(T)
           v == w[s]
           k == Len(v)
<1>1. /\ \A t \in States : w[t] \in Text /\ Len(w[t]) \in Nat
      /\ v \in Text /\ k \in Nat
  BY ChildIs DEF Text
<1>2. /\ 0 \in States /\ val \in [States -> States] /\ fail \in [States -> States]
      /\ 0 \in Branch(b) /\ Branch(b) \subseteq States
  BY TrieTypes DEF TypeOK, Linking, Branch
<1>3. \A T : [f \in States |-> IF f \in Branch(b) THEN val[f] ELSE T[fail[f]]] = Def(T)
  BY DEF Branch
<1>4. \E T : T = Def(T)
  <2>1. PICK T \in [States -> States] : Follows(T, Branch(b), val)
    <3>1. 0 \in Branch(b) /\ val \in [States -> States]
      BY <1>2
    <3> HIDE DEF val
    <3> QED BY <3>1, WalkEnds
  <2>2. T = [f \in States |-> IF f \in Branch(b) THEN val[f] ELSE T[fail[f]]]
    <3> HIDE DEF val
    <3> QED BY <2>1 DEF Follows
  <2>3. T = Def(T)
    <3> HIDE DEF val, Def
    <3> QED BY <1>3, <2>2
  <2> QED BY <2>3
<1>5. target = Def(target)
  <2> HIDE DEF Def
  <2> QED BY <1>4
<1>6. Follows(target, Branch(b), val)
  <2> HIDE DEF target
  <2> QED BY <1>5 DEF Follows, Branch
<1>7. DenseTarget(s, b) = target[s]
  BY DEF DenseTarget
<1> HIDE DEF target, val, v, k, Def
<1>8. \A f \in States : Len(w[f]) <= k =>
        \E r \in Branch(b) : IsLongest(w, Branch(b), w[f], r) /\ target[f] = val[r]
  BY <1>1, <1>2, <1>6, WalkFinds
<1>9. PICK r \in Branch(b) : IsLongest(w, Branch(b), v, r) /\ target[s] = val[r]
  BY <1>1, <1>8 DEF v, k
<1>10. trans[r][b] \in States /\ IsLongest(w, States, Append(v, b), trans[r][b])
  BY <1>1, <1>9, LongestExtends
<1>11. DenseTarget(s, b) = trans[r][b]
  BY <1>2, <1>7, <1>9 DEF val
<1> QED BY <1>10, <1>11 DEF v

\* The root and the states that have a pattern by now.
Holding == {f \in States : f = 0 \/ accState[f] # <<>>}

\* The state the link and propagate passes find for s.
LEMMA NearestFinds ==
  ASSUME TypeOK, Linking, NEW w, Trie(w), Shrinking(w), \A t \in States \ {0} : FailOf(w, t),
         NEW s \in States
  PROVE  NearestPattern(s) \in Holding /\ IsLongest(w, Holding, w[fail[s]], NearestPattern(s))
<1> DEFINE val == [f \in States |-> f]
           Def(T) == [f \in States |-> IF f = 0 \/ accState[f] # <<>> THEN f ELSE T[fail[f]]]
           nearest == CHOOSE T : T = Def(T)
           f0 == fail[s]
           k == Len(w[f0])
<1>1. \A t \in States : w[t] \in Text /\ Len(w[t]) \in Nat
  BY ChildIs DEF Text
<1>2. /\ 0 \in States /\ val \in [States -> States] /\ fail \in [States -> States]
      /\ 0 \in Holding /\ Holding \subseteq States
  BY TrieTypes DEF TypeOK, Linking, Holding
<1>3. \A T : [f \in States |-> IF f \in Holding THEN val[f] ELSE T[fail[f]]] = Def(T)
  BY DEF Holding
<1>4. \E T : T = Def(T)
  <2>1. PICK T \in [States -> States] : Follows(T, Holding, val)
    <3>1. 0 \in Holding /\ val \in [States -> States]
      BY <1>2
    <3> HIDE DEF val
    <3> QED BY <3>1, WalkEnds
  <2>2. T = [f \in States |-> IF f \in Holding THEN val[f] ELSE T[fail[f]]]
    <3> HIDE DEF val
    <3> QED BY <2>1 DEF Follows
  <2>3. T = Def(T)
    <3> HIDE DEF val, Def
    <3> QED BY <1>3, <2>2
  <2> QED BY <2>3
<1>5. nearest = Def(nearest)
  <2> HIDE DEF Def
  <2> QED BY <1>4
<1>6. Follows(nearest, Holding, val)
  <2> HIDE DEF nearest
  <2> QED BY <1>5 DEF Follows, Holding
<1>7. NearestPattern(s) = nearest[f0]
  BY DEF NearestPattern
<1>8. f0 \in States /\ k \in Nat
  BY <1>1, <1>2
<1> HIDE DEF nearest, val, f0, k, Def
<1>9. \A f \in States : Len(w[f]) <= k =>
        \E r \in Holding : IsLongest(w, Holding, w[f], r) /\ nearest[f] = val[r]
  BY <1>2, <1>6, <1>8, WalkFinds
<1>10. Len(w[f0]) <= k
  BY <1>8 DEF k
<1>11. PICK r \in Holding : IsLongest(w, Holding, w[f0], r) /\ nearest[f0] = val[r]
  BY <1>8, <1>9, <1>10
<1>12. NearestPattern(s) = r
  BY <1>2, <1>7, <1>11 DEF val
<1> QED BY <1>11, <1>12 DEF f0

------------------------------------------------------------------------------
(***************************************************************************)
(* The patterns of a state.                                                *)
(***************************************************************************)

\* A state has patterns of its own when accepts lists it; the first one comes
\* first there.
LEMMA OwnPatternsAre ==
  ASSUME TypeOK, NEW w, Named(w), NEW s \in States
  PROVE  /\ OwnPatterns(s) \in Seq(0 .. pid - 1)
         /\ OwnPatterns(s) # <<>> <=> \E i \in DOMAIN accepts : accepts[i][1] = s
         /\ OwnPatterns(s) # <<>> =>
              \E i \in DOMAIN accepts :
                /\ accepts[i][1] = s /\ Head(OwnPatterns(s)) = accepts[i][2]
                /\ \A j \in DOMAIN accepts : accepts[j][1] = s => i <= j
<1> DEFINE P == States \X (0 .. pid - 1)
           pairs == Kept(accepts, {s} \X Nat)
           own == OwnPatterns(s)
<1>1. accepts \in Seq(P) /\ pid \in Nat
  BY DEF Named, TypeOK
<1>2. /\ pairs \in Seq(P)
      /\ IF pairs = <<>> THEN \A i \in 1 .. Len(accepts) : accepts[i] \notin {s} \X Nat
         ELSE \E i \in 1 .. Len(accepts) :
                /\ Head(pairs) = accepts[i] /\ accepts[i] \in {s} \X Nat
                /\ \A j \in 1 .. Len(accepts) : accepts[j] \in {s} \X Nat => i <= j
  <2> HIDE DEF P
  <2> QED BY <1>1, KeptMeans, KeptHead
<1>3. own = [i \in DOMAIN pairs |-> pairs[i][2]]
  BY DEF OwnPatterns
<1> HIDE DEF pairs, own
<1>4. DOMAIN accepts = 1 .. Len(accepts) /\ \A i \in DOMAIN accepts : accepts[i] \in P
  BY <1>1
<1>5. \A i \in DOMAIN accepts : accepts[i] \in {s} \X Nat <=> accepts[i][1] = s
  BY <1>1, <1>4
<1>6. own \in Seq(0 .. pid - 1) /\ Len(own) = Len(pairs) /\ \A i \in 1 .. Len(pairs) : own[i] = pairs[i][2]
  <2>1. DOMAIN pairs = 1 .. Len(pairs) /\ Len(pairs) \in Nat /\ \A i \in 1 .. Len(pairs) : pairs[i] \in P
    BY <1>2
  <2>2. own \in [1 .. Len(pairs) -> 0 .. pid - 1]
    BY <1>3, <2>1
  <2>3. own \in Seq(0 .. pid - 1) /\ Len(own) = Len(pairs)
    BY <2>1, <2>2, FunctionIsSeq
  <2> QED BY <1>3, <2>1, <2>3
<1>7. own = <<>> <=> pairs = <<>>
  BY <1>2, <1>6
<1>8. CASE own = <<>>
  BY <1>2, <1>4, <1>5, <1>6, <1>7, <1>8 DEF own
<1>9. CASE own # <<>>
  <2>1. PICK i \in DOMAIN accepts :
          /\ Head(pairs) = accepts[i] /\ accepts[i][1] = s
          /\ \A j \in DOMAIN accepts : accepts[j][1] = s => i <= j
    BY <1>2, <1>4, <1>5, <1>7, <1>9
  <2>2. Head(own) = Head(pairs)[2]
    BY <1>2, <1>6, <1>9
  <2>3. Head(own) = accepts[i][2]
    BY <2>1, <2>2
  <2> QED BY <1>6, <1>9, <2>1, <2>3 DEF own
<1> QED BY <1>8, <1>9

\* Once all patterns are in, the states with patterns of their own are those of
\* the non-empty patterns, and each has the index of the first one first.
LEMMA PatternStatesAre ==
  ASSUME TypeOK, NEW w, Trie(w), Named(w), pid = Len(patterns)
  PROVE  /\ \A s \in States : OwnPatterns(s) # <<>> <=> w[s] \in NonEmpty
         /\ \A p \in NonEmpty : \E s \in States : w[s] = p
         /\ OwnPatterns(0) = <<>>
         /\ \A s \in States : OwnPatterns(s) # <<>> =>
              /\ Head(OwnPatterns(s)) + 1 \in DOMAIN patterns
              /\ patterns[Head(OwnPatterns(s)) + 1] = w[s]
              /\ \A j \in DOMAIN patterns : patterns[j] = w[s] => Head(OwnPatterns(s)) + 1 <= j
<1>1. /\ DOMAIN patterns = 1 .. Len(patterns) /\ Len(patterns) \in Nat /\ pid = Len(patterns)
      /\ \A i \in DOMAIN patterns : patterns[i] \in Text
  BY PatternListsAssumption DEF TypeOK, Text
<1>2. /\ accepts \in Seq(States \X (0 .. pid - 1)) /\ DOMAIN accepts = 1 .. Len(accepts) /\ Len(accepts) \in Nat
      /\ \A i \in DOMAIN accepts : /\ accepts[i][1] \in States /\ accepts[i][2] \in 0 .. pid - 1
                                   /\ w[accepts[i][1]] = patterns[accepts[i][2] + 1]
                                   /\ patterns[accepts[i][2] + 1] # <<>>
      /\ \A i, j \in DOMAIN accepts : i < j => accepts[i][2] < accepts[j][2]
      /\ \A q \in 0 .. pid - 1 : patterns[q + 1] # <<>> => \E i \in DOMAIN accepts : accepts[i][2] = q
  BY DEF Named
<1>3. \A p : p \in NonEmpty <=> p # <<>> /\ \E j \in DOMAIN patterns : patterns[j] = p
  BY DEF NonEmpty, ToSet
<1>4. \A j \in DOMAIN patterns : patterns[j] # <<>> =>
        \E i \in DOMAIN accepts : accepts[i][2] = j - 1 /\ w[accepts[i][1]] = patterns[j]
  <2> SUFFICES ASSUME NEW j \in DOMAIN patterns, patterns[j] # <<>>
               PROVE  \E i \in DOMAIN accepts : accepts[i][2] = j - 1 /\ w[accepts[i][1]] = patterns[j]
    OBVIOUS
  <2>1. j - 1 \in 0 .. pid - 1 /\ (j - 1) + 1 = j
    BY <1>1
  <2>2. PICK i \in DOMAIN accepts : accepts[i][2] = j - 1
    BY <1>2, <2>1
  <2>3. w[accepts[i][1]] = patterns[accepts[i][2] + 1]
    BY <1>2
  <2> QED BY <2>1, <2>2, <2>3
<1>5. \A s \in States : (\E i \in DOMAIN accepts : accepts[i][1] = s) => w[s] \in NonEmpty
  <2> SUFFICES ASSUME NEW i \in DOMAIN accepts PROVE w[accepts[i][1]] \in NonEmpty
    OBVIOUS
  <2>1. accepts[i][2] + 1 \in DOMAIN patterns
    BY <1>1, <1>2
  <2> QED BY <1>2, <1>3, <2>1
<1>6. \A s \in States : w[s] \in NonEmpty => \E i \in DOMAIN accepts : accepts[i][1] = s
  <2> SUFFICES ASSUME NEW s \in States, w[s] \in NonEmpty PROVE \E i \in DOMAIN accepts : accepts[i][1] = s
    OBVIOUS
  <2>1. PICK j \in DOMAIN patterns : patterns[j] = w[s] /\ patterns[j] # <<>>
    BY <1>3
  <2>2. PICK i \in DOMAIN accepts : w[accepts[i][1]] = w[s]
    BY <1>4, <2>1
  <2> QED BY <1>2, <2>2 DEF Trie
<1>7. \A s \in States : OwnPatterns(s) # <<>> <=> w[s] \in NonEmpty
  BY <1>5, <1>6, OwnPatternsAre
<1>8. \A p \in NonEmpty : \E s \in States : w[s] = p
  BY <1>2, <1>3, <1>4
<1>9. OwnPatterns(0) = <<>>
  BY <1>3, <1>7, TrieTypes DEF Trie
<1>10. ASSUME NEW s \in States, OwnPatterns(s) # <<>>
       PROVE  /\ Head(OwnPatterns(s)) + 1 \in DOMAIN patterns
              /\ patterns[Head(OwnPatterns(s)) + 1] = w[s]
              /\ \A j \in DOMAIN patterns : patterns[j] = w[s] => Head(OwnPatterns(s)) + 1 <= j
  <2>1. PICK i \in DOMAIN accepts :
          /\ accepts[i][1] = s /\ Head(OwnPatterns(s)) = accepts[i][2]
          /\ \A j \in DOMAIN accepts : accepts[j][1] = s => i <= j
    BY <1>10, OwnPatternsAre
  <2> DEFINE h == Head(OwnPatterns(s))
  <2>2. h = accepts[i][2] /\ h \in 0 .. pid - 1 /\ w[s] = patterns[h + 1] /\ w[s] # <<>>
    BY <1>2, <2>1
  <2> HIDE DEF h
  <2>3. ASSUME NEW j \in DOMAIN patterns, patterns[j] = w[s] PROVE h + 1 <= j
    <3>1. PICK l \in DOMAIN accepts : accepts[l][2] = j - 1 /\ w[accepts[l][1]] = w[s]
      BY <1>4, <2>2, <2>3
    <3>2. accepts[l][1] = s
      BY <1>2, <3>1 DEF Trie
    <3>3. i <= l
      BY <2>1, <3>2
    <3>4. accepts[i][2] <= accepts[l][2]
      <4>1. i \in Nat /\ l \in Nat /\ accepts[i][2] \in Nat /\ accepts[l][2] \in Nat
        BY <1>1, <1>2
      <4>2. i = l \/ i < l
        BY <3>3, <4>1
      <4>3. i < l => accepts[i][2] < accepts[l][2]
        BY <1>2
      <4> QED BY <4>1, <4>2, <4>3
    <3> QED BY <1>1, <1>2, <2>2, <3>1, <3>4
  <2>4. h + 1 \in DOMAIN patterns
    BY <1>1, <2>2
  <2> QED BY <2>2, <2>3, <2>4 DEF h
<1> QED BY <1>7, <1>8, <1>9, <1>10

\* The head of a sequence is one of its elements.
LEMMA HeadIn ==
  ASSUME NEW T, NEW q \in Seq(T), q # <<>>
  PROVE  Head(q) \in T
OBVIOUS

\* What LongestSuffixIn chooses.
LEMMA LongestIs ==
  ASSUME NEW S, S \subseteq Text, NEW x \in Text, NEW v \in S \cup {<<>>}, IsSuffix(v, x),
         \A u \in S : IsSuffix(u, x) => Len(u) <= Len(v)
  PROVE  LongestSuffixIn(S, x) = v
<1> DEFINE suffixes == {u \in S : IsSuffix(u, x)} \cup {<<>>}
           Longest(y) == y \in suffixes /\ \A u \in suffixes : Len(u) <= Len(y)
<1>1. \A u \in suffixes : u \in Text /\ IsSuffix(u, x)
  BY SuffixOrder
<1>2. v \in suffixes
  OBVIOUS
<1>3. \A u \in suffixes : Len(u) \in Nat
  BY <1>1 DEF Text
<1>4. Longest(v)
  <2>1. Len(<<>>) = 0
    OBVIOUS
  <2> QED BY <1>2, <1>3, <2>1
<1>5. \A y : Longest(y) => y = v
  <2> SUFFICES ASSUME NEW y, Longest(y) PROVE y = v
    OBVIOUS
  <2>1. Len(y) = Len(v)
    BY <1>2, <1>3, <1>4
  <2>2. y \in Text /\ v \in Text /\ x \in Text /\ IsSuffix(y, x) /\ IsSuffix(v, x)
    BY <1>1, <1>2
  <2>3. IsSuffix(y, v)
    <3>1. Len(y) <= Len(v)
      BY <1>2, <1>3, <2>1
    <3> QED BY <2>2, <3>1, SuffixOrder
  <2> QED BY <2>1, <2>2, <2>3, SuffixOrder
<1>6. LongestSuffixIn(S, x) = CHOOSE y \in suffixes : \A u \in suffixes : Len(u) <= Len(y)
  BY DEF LongestSuffixIn
<1>7. Longest(LongestSuffixIn(S, x))
  <2> HIDE DEF suffixes
  <2> QED BY <1>4, <1>6
<1> QED BY <1>5, <1>7

------------------------------------------------------------------------------
(***************************************************************************)
(* The steps that only build the links.                                    *)
(***************************************************************************)

\* What does not change while the trie does not.
LEMMA TrieStays ==
  ASSUME NEW w, UNCHANGED <<patterns, trieVars>>
  PROVE  /\ States' = States /\ stateCount' = stateCount /\ trans' = trans
         /\ Trie(w) => Trie(w)'
         /\ Begun(w) => Begun(w)'
         /\ Named(w) => Named(w)'
         /\ \A s : OwnPatterns(s)' = OwnPatterns(s)
         /\ PatternStates' = PatternStates
<1>1. /\ patterns' = patterns /\ pid' = pid /\ stateCount' = stateCount /\ trans' = trans
      /\ accepts' = accepts /\ lengths' = lengths
  BY DEF trieVars
<1>2. States' = States
  BY <1>1 DEF States
<1>3. \A s : OwnPatterns(s)' = OwnPatterns(s)
  BY <1>1 DEF OwnPatterns
<1>4. PatternStates' = PatternStates
  BY <1>2, <1>3 DEF PatternStates
<1>5. Trie(w) => Trie(w)'
  BY <1>1, <1>2 DEF Trie
<1>6. Begun(w) => Begun(w)'
  BY <1>1, <1>2 DEF Begun
<1>7. Named(w) => Named(w)'
  BY <1>1, <1>2 DEF Named
<1> QED BY <1>1, <1>2, <1>3, <1>4, <1>5, <1>6, <1>7

\* What is right of a state stays right while what it is about does not change.
LEMMA RightStays ==
  ASSUME NEW w, UNCHANGED <<patterns, trieVars>>
  PROVE  /\ \A s \in States : FailOf(w, s) /\ fail'[s] = fail[s] => FailOf(w, s)'
         /\ \A s \in States : OutputOf(w, s) /\ fail'[s] = fail[s] /\ outputLink'[s] = outputLink[s]
                                => OutputOf(w, s)'
         /\ \A s \in States : AcceptOf(w, s) /\ accState'[s] = accState[s] => AcceptOf(w, s)'
<1>1. States' = States /\ PatternStates' = PatternStates /\ \A s : OwnPatterns(s)' = OwnPatterns(s)
  BY TrieStays
<1>2. ASSUME NEW s \in States, FailOf(w, s), fail'[s] = fail[s] PROVE FailOf(w, s)'
  BY <1>1, <1>2 DEF FailOf, IsLongest
<1>3. ASSUME NEW s \in States, OutputOf(w, s), fail'[s] = fail[s], outputLink'[s] = outputLink[s]
      PROVE  OutputOf(w, s)'
  BY <1>1, <1>3 DEF OutputOf, IsLongest
<1>4. ASSUME NEW s \in States, AcceptOf(w, s), accState'[s] = accState[s] PROVE AcceptOf(w, s)'
  BY <1>1, <1>4 DEF AcceptOf, IsLongest
<1> QED BY <1>2, <1>3, <1>4

\* The types of a step that leaves the trie.
LEMMA TypesStay ==
  ASSUME TypeOK, UNCHANGED <<patterns, trieVars>>,
         phase' \in {"bfs", "link", "propagate", "table", "done"},
         Linking' => /\ fail' \in [States -> States]
                     /\ accState' \in [States -> Seq(0 .. Len(patterns) - 1)]
                     /\ outputLink' \in [States -> States \cup {NONE}],
         queue' \in Seq(States), state' \in 0 .. stateCount
  PROVE  TypeOK'
<1>1. States' = States
  BY DEF trieVars, States
<1>2. /\ patterns' = patterns /\ pid' = pid /\ offset' = offset /\ current' = current
      /\ stateCount' = stateCount /\ trans' = trans /\ accepts' = accepts /\ lengths' = lengths
  BY DEF trieVars
<1> QED BY <1>1, <1>2 DEF TypeOK, Linking

\* The walk's types, while it goes on.
LEMMA LinkTypes ==
  ASSUME TypeOK, Linking
  PROVE  /\ fail \in [States -> States]
         /\ accState \in [States -> Seq(0 .. Len(patterns) - 1)]
         /\ outputLink \in [States -> States \cup {NONE}]
         /\ queue \in Seq(States) /\ state \in 0 .. stateCount
BY DEF TypeOK, Linking

\* No pattern: the build ends with the empty automaton and the trie of the root.
LEMMA RejectEmptyStep ==
  ASSUME NEW w, IInv(w), RejectEmpty
  PROVE  IInv(w)'
<1>1. UNCHANGED <<patterns, trieVars>> /\ UNCHANGED linkVars /\ phase = "insert" /\ phase' = "done" /\ result' = EmptyDfa
      /\ pid = Len(patterns)
  BY DEF RejectEmpty, IInv, TypeOK
<1>2. TypeOK /\ Trie(w) /\ Begun(w) /\ Named(w)
  BY DEF IInv
<1>3. ~ Linking' /\ ~ HasProgram'
  BY <1>1 DEF Linking, HasProgram, EmptyDfa
<1>4. TypeOK'
  BY <1>1, <1>2, <1>3, TypesStay DEF linkVars, TypeOK
<1>5. Trie(w)' /\ Begun(w)' /\ Named(w)'
  BY <1>1, <1>2, TrieStays
<1>6. Control'
  BY <1>1, <1>3 DEF Control, trieVars
<1> QED BY <1>1, <1>3, <1>4, <1>5, <1>6 DEF IInv

\* The breadth-first walk ends with every failure link right.
LEMMA EndBfsStep ==
  ASSUME NEW w, IInv(w), EndBfs
  PROVE  IInv(w)'
<1>1. /\ UNCHANGED <<patterns, trieVars>> /\ phase = "bfs" /\ phase' = "link" /\ queue = <<>> /\ state' = 0
      /\ fail' = fail /\ accState' = accState /\ outputLink' = outputLink /\ queue' = queue
      /\ result' = result
  BY DEF EndBfs
<1>2. /\ TypeOK /\ Trie(w) /\ Begun(w) /\ Named(w) /\ Shrinking(w) /\ Breadth(w) /\ Control /\ Linking
      /\ accState = [s \in States |-> OwnPatterns(s)] /\ outputLink = [s \in States |-> NONE]
  BY <1>1 DEF IInv, Linking
<1>3. Linking' /\ ~ HasProgram'
  BY <1>1, <1>2 DEF Linking, HasProgram, Control
<1>4. TypeOK'
  <2>1. 0 \in 0 .. stateCount
    BY <1>2, TrieTypes
  <2> QED BY <1>1, <1>2, <2>1, TypesStay, LinkTypes
<1>5. /\ Trie(w)' /\ Begun(w)' /\ Named(w)' /\ States' = States
      /\ \A s : OwnPatterns(s)' = OwnPatterns(s)
  BY <1>1, <1>2, TrieStays
<1>6. Control'
  BY <1>1, <1>2 DEF Control, trieVars, Linking
<1>7. Shrinking(w)'
  BY <1>1, <1>2, <1>5 DEF Shrinking
<1>8. \A s \in States \ {0} : FailOf(w, s)
  BY <1>1, <1>2 DEF Breadth
<1>9. \A s \in States' \ {0} : FailOf(w, s)'
  BY <1>1, <1>5, <1>8, RightStays
<1>10. accState' = [s \in States' |-> OwnPatterns(s)']
  BY <1>1, <1>2, <1>5
<1>11. \A s \in States' : ~ s < state' /\ outputLink'[s] = NONE
  BY <1>1, <1>2, <1>5, TrieTypes
<1> QED BY <1>1, <1>3, <1>4, <1>5, <1>6, <1>7, <1>9, <1>10, <1>11 DEF IInv

\* The cell of the dense table that belongs to a state and a byte.
LEMMA CellOf ==
  ASSUME TypeOK, NEW s \in States, NEW b \in Byte
  PROVE  \E i \in 1 .. stateCount * ByteCount :
           i = s * ByteCount + b + 1 /\ (i - 1) \div ByteCount = s /\ (i - 1) % ByteCount = b
<1>1. /\ ByteCount \in Nat \ {0} /\ stateCount \in Nat \ {0}
      /\ s \in Nat /\ s <= stateCount - 1 /\ b \in Nat /\ b < ByteCount
  BY TrieTypes, ByteCountAssumption DEF Byte
<1>2. PICK q \in Nat : q = s * ByteCount
  BY <1>1
<1>3. s * ByteCount + ByteCount <= stateCount * ByteCount
  <2>1. (s + 1) * ByteCount <= stateCount * ByteCount
    BY <1>1
  <2>2. (s + 1) * ByteCount = s * ByteCount + ByteCount
    BY <1>1
  <2> QED BY <2>1, <2>2
<1>4. stateCount * ByteCount \in Nat
  BY <1>1
<1>5. (s * ByteCount + b) \div ByteCount = s /\ (s * ByteCount + b) % ByteCount = b
  BY <1>1
<1>6. PICK i : i = s * ByteCount + b + 1
  OBVIOUS
<1>7. i \in 1 .. stateCount * ByteCount /\ i - 1 = s * ByteCount + b
  BY <1>1, <1>2, <1>3, <1>4, <1>6
<1> QED BY <1>5, <1>6, <1>7

\* The link pass gives each state the output link it should have.
LEMMA LinkStateStep ==
  ASSUME NEW w, IInv(w), LinkState
  PROVE  IInv(w)'
<1> DEFINE r == NearestPattern(state)
<1>1. /\ UNCHANGED <<patterns, trieVars>> /\ phase = "link" /\ phase' = "link"
      /\ state < stateCount /\ state' = state + 1
      /\ outputLink' = IF accState[state] # <<>> /\ r # 0
                       THEN [outputLink EXCEPT ![state] = r] ELSE outputLink
      /\ fail' = fail /\ accState' = accState /\ queue' = queue /\ result' = result
  BY DEF LinkState, LinkTo
<1>2. /\ TypeOK /\ Trie(w) /\ Begun(w) /\ Named(w) /\ Shrinking(w) /\ Control /\ Linking
      /\ accState = [s \in States |-> OwnPatterns(s)]
      /\ \A s \in States \ {0} : FailOf(w, s)
      /\ \A s \in States : IF s < state THEN OutputOf(w, s) ELSE outputLink[s] = NONE
  BY <1>1 DEF IInv, Linking
<1>3. /\ fail \in [States -> States] /\ accState \in [States -> Seq(0 .. Len(patterns) - 1)]
      /\ outputLink \in [States -> States \cup {NONE}] /\ queue \in Seq(States)
      /\ stateCount \in Nat \ {0} /\ state \in 0 .. stateCount /\ States = 0 .. stateCount - 1
  BY <1>2, LinkTypes, TrieTypes
<1>4. state \in States
  BY <1>1, <1>3
<1>5. Holding = PatternStates /\ PatternStates \subseteq States
  <2>1. 0 \in States /\ \A s \in States : accState[s] = OwnPatterns(s)
    BY <1>2, <1>3
  <2> QED BY <2>1 DEF Holding, PatternStates
<1>6. r \in PatternStates /\ IsLongest(w, PatternStates, w[fail[state]], r)
  BY <1>2, <1>4, <1>5, NearestFinds
<1> HIDE DEF r
<1>6a. PICK target \in PatternStates : target = r
  BY <1>6
<1>7. Linking' /\ ~ HasProgram'
  BY <1>1, <1>2 DEF Linking, HasProgram, Control
<1>8. TypeOK'
  <2>1. state' \in 0 .. stateCount
    BY <1>1, <1>3
  <2>2. outputLink' \in [States -> States \cup {NONE}]
    BY <1>1, <1>3, <1>5, <1>6
  <2> QED BY <1>1, <1>2, <1>3, <2>1, <2>2, TypesStay
<1>9. /\ Trie(w)' /\ Begun(w)' /\ Named(w)' /\ States' = States
      /\ PatternStates' = PatternStates
      /\ \A s : OwnPatterns(s)' = OwnPatterns(s)
  BY <1>1, <1>2, TrieStays
<1>10. Control'
  BY <1>1, <1>2 DEF Control, trieVars, Linking
<1>11. Shrinking(w)'
  BY <1>1, <1>2, <1>9 DEF Shrinking
<1>12. \A s \in States' \ {0} : FailOf(w, s)'
  BY <1>1, <1>2, <1>9, RightStays
<1>13. accState' = [s \in States' |-> OwnPatterns(s)']
  BY <1>1, <1>2, <1>9
<1>14. \A s \in States \ {state} : outputLink'[s] = outputLink[s]
  BY <1>1, <1>3
<1>15. outputLink'[state] = IF OwnPatterns(state) # <<>> /\ r # 0 THEN r ELSE NONE
  BY <1>1, <1>2, <1>3, <1>4
<1>16. ASSUME NEW s \in States PROVE IF s < state' THEN OutputOf(w, s)' ELSE outputLink'[s] = NONE
  <2>1. CASE s = state
    <3>1. OutputOf(w, s)'
      <4>1. IsLongest(w, PatternStates, w[fail'[s]], target)
        BY <1>1, <1>6, <1>6a, <2>1
      <4>2. IsLongest(w, PatternStates', w[fail'[s]], target)
        BY <1>9, <4>1
      <4>3. outputLink'[s] = IF OwnPatterns(s)' # <<>> /\ target # 0 THEN target ELSE NONE
        BY <1>9, <1>15, <1>6a, <2>1
      <4>4. target \in States'
        BY <1>5, <1>9
      <4> QED BY <4>2, <4>3, <4>4 DEF OutputOf, IsLongest
    <3>2. s < state'
      BY <1>1, <1>3, <2>1
    <3> QED BY <2>1, <3>1, <3>2
  <2>2. CASE s # state
    <3>1. s < state' <=> s < state
      BY <1>1, <1>3, <2>2
    <3>2. outputLink'[s] = outputLink[s] /\ fail'[s] = fail[s]
      BY <1>1, <1>14, <2>2
    <3>3. OutputOf(w, s) => OutputOf(w, s)'
      BY <1>1, <3>2, RightStays
    <3> QED BY <1>2, <3>1, <3>2, <3>3
  <2> QED BY <2>1, <2>2
<1> QED BY <1>1, <1>7, <1>8, <1>9, <1>10, <1>11, <1>12, <1>13, <1>16 DEF IInv

\* The queue is exhausted: every link has been computed, the accept lists are next.
LEMMA EndLinkStep ==
  ASSUME NEW w, IInv(w), EndLink
  PROVE  IInv(w)'
<1>1. /\ UNCHANGED <<patterns, trieVars>> /\ phase = "link" /\ phase' = "propagate"
      /\ state = stateCount /\ state' = 0
      /\ outputLink' = outputLink
      /\ fail' = fail /\ accState' = accState /\ queue' = queue /\ result' = result
  BY DEF EndLink
<1>2. /\ TypeOK /\ Trie(w) /\ Begun(w) /\ Named(w) /\ Shrinking(w) /\ Control /\ Linking
      /\ accState = [s \in States |-> OwnPatterns(s)]
      /\ \A s \in States \ {0} : FailOf(w, s)
      /\ \A s \in States : IF s < state THEN OutputOf(w, s) ELSE outputLink[s] = NONE
  BY <1>1 DEF IInv, Linking
<1>3. stateCount \in Nat \ {0} /\ States = 0 .. stateCount - 1
  BY <1>2, TrieTypes
<1>4. Linking' /\ ~ HasProgram'
  BY <1>1, <1>2 DEF Linking, HasProgram, Control
<1>5. TypeOK'
  <2>1. state' \in 0 .. stateCount
    BY <1>1, <1>3
  <2> QED BY <1>1, <1>2, <2>1, LinkTypes, TypesStay
<1>6. /\ Trie(w)' /\ Begun(w)' /\ Named(w)' /\ States' = States
      /\ \A s : OwnPatterns(s)' = OwnPatterns(s)
  BY <1>1, <1>2, TrieStays
<1>7. Control'
  BY <1>1, <1>2 DEF Control, trieVars, Linking
<1>8. Shrinking(w)'
  BY <1>1, <1>2, <1>6 DEF Shrinking
<1>9. \A s \in States' \ {0} : FailOf(w, s)'
  BY <1>1, <1>2, <1>6, RightStays
<1>10. \A s \in States : s < state /\ ~ s < state'
  BY <1>1, <1>3
<1>11. \A s \in States' : OutputOf(w, s)'
  BY <1>1, <1>2, <1>6, <1>10, RightStays
<1>12. \A s \in States' : ~ s < state' /\ accState'[s] = OwnPatterns(s)'
  BY <1>1, <1>2, <1>6, <1>10
<1> QED BY <1>1, <1>4, <1>5, <1>6, <1>7, <1>8, <1>9, <1>11, <1>12 DEF IInv

\* The last accept list is in place: the rows of the table are next.
LEMMA EndPropagateStep ==
  ASSUME NEW w, IInv(w), EndPropagate
  PROVE  IInv(w)'
<1>1. /\ UNCHANGED <<patterns, trieVars>> /\ phase = "propagate" /\ phase' = "table"
      /\ state = stateCount /\ state' = state
      /\ outputLink' = outputLink
      /\ fail' = fail /\ accState' = accState /\ queue' = queue /\ result' = result
  BY DEF EndPropagate, linkVars
<1>2. /\ TypeOK /\ Trie(w) /\ Begun(w) /\ Named(w) /\ Shrinking(w) /\ Control /\ Linking
      /\ \A s \in States \ {0} : FailOf(w, s)
      /\ \A s \in States : OutputOf(w, s)
      /\ \A s \in States : IF s < state THEN AcceptOf(w, s) ELSE accState[s] = OwnPatterns(s)
  BY <1>1 DEF IInv, Linking
<1>3. stateCount \in Nat \ {0} /\ States = 0 .. stateCount - 1
  BY <1>2, TrieTypes
<1>4. Linking' /\ ~ HasProgram'
  BY <1>1, <1>2 DEF Linking, HasProgram, Control
<1>5. TypeOK'
  <2>1. state' \in 0 .. stateCount
    BY <1>1, <1>3
  <2> QED BY <1>1, <1>2, <2>1, LinkTypes, TypesStay
<1>6. Trie(w)' /\ Begun(w)' /\ Named(w)' /\ States' = States
  BY <1>1, <1>2, TrieStays
<1>7. Control'
  BY <1>1, <1>2 DEF Control, trieVars, Linking
<1>8. Shrinking(w)'
  BY <1>1, <1>2, <1>6 DEF Shrinking
<1>9. \A s \in States' \ {0} : FailOf(w, s)'
  BY <1>1, <1>2, <1>6, RightStays
<1>10. \A s \in States : s < state
  BY <1>1, <1>3
<1>11. \A s \in States' : OutputOf(w, s)'
  BY <1>1, <1>2, <1>6, RightStays
<1>12. \A s \in States' : AcceptOf(w, s)'
  BY <1>1, <1>2, <1>6, <1>10, RightStays
<1> QED BY <1>1, <1>4, <1>5, <1>6, <1>7, <1>8, <1>9, <1>11, <1>12 DEF IInv

\* The program leads to the longest suffixes; nothing is built afterwards.
LEMMA BuildTableStep ==
  ASSUME NEW w, IInv(w), BuildTable
  PROVE  IInv(w)'
<1>1. /\ UNCHANGED <<patterns, trieVars>> /\ UNCHANGED linkVars /\ phase = "table" /\ phase' = "done"
      /\ result' = IF stateCount > MaxStates THEN TooMany
                   ELSE IF Compilable(BuiltProgram) THEN BuiltProgram ELSE InvalidTable
  BY DEF BuildTable
<1>2. /\ TypeOK /\ Trie(w) /\ Begun(w) /\ Named(w) /\ Shrinking(w) /\ Control /\ Linking
      /\ \A s \in States \ {0} : FailOf(w, s)
  BY <1>1 DEF IInv, Linking
<1>3. stateCount \in Nat \ {0} /\ States = 0 .. stateCount - 1 /\ ByteCount \in Nat \ {0}
  BY <1>2, TrieTypes, ByteCountAssumption
<1>4. ~ Linking'
  BY <1>1 DEF Linking
<1>5. TypeOK'
  BY <1>1, <1>2, <1>4, LinkTypes, TypesStay DEF linkVars
<1>6. Trie(w)' /\ Begun(w)' /\ Named(w)' /\ States' = States
  BY <1>1, <1>2, TrieStays
<1>7. Control'
  BY <1>1, <1>2, <1>4 DEF Control, trieVars
<1>8. ASSUME HasProgram', NEW s \in States, NEW b \in Byte PROVE DenseOf(w, s, b)'
  <2>1. result' = BuiltProgram
    BY <1>1, <1>8 DEF HasProgram
  <2>2. PICK i \in 1 .. stateCount * ByteCount :
          i = s * ByteCount + b + 1 /\ (i - 1) \div ByteCount = s /\ (i - 1) % ByteCount = b
    BY <1>2, CellOf
  <2>3. BuiltProgram.trans[i] = DenseTarget(s, b)
    BY <2>2 DEF BuiltProgram
  <2>4. IsLongest(w, States, Append(w[s], b), DenseTarget(s, b))
    BY <1>2, DenseTargetFinds
  <2>5. result'.trans[i] = DenseTarget(s, b)
    BY <2>1, <2>3
  <2>6. DenseOf(w, s, b)' <=> IsLongest(w, States, Append(w[s], b), result'.trans[i])
    BY <1>6, <2>2 DEF DenseOf, IsLongest
  <2> QED BY <2>4, <2>5, <2>6
<1> QED BY <1>1, <1>4, <1>5, <1>6, <1>7, <1>8 DEF IInv, Linking

\* A state without a pattern of its own has the longest pattern that ends its
\* string where its failure link leads, and takes it from the nearest state that
\* holds one by now: what that state was given is right.
LEMMA PropagateFinds ==
  ASSUME NEW w, IInv(w), phase = "propagate", NEW s \in States, s = state,
         OwnPatterns(s) = <<>>, NEW r, r = NearestPattern(s)
  PROVE  \E q \in States : /\ IsLongest(w, PatternStates, w[s], q)
                           /\ IF r = 0 THEN q = 0
                              ELSE q # 0 /\ accState[r] # <<>> /\ Head(accState[r]) = Head(OwnPatterns(q))
<1>1. /\ TypeOK /\ Trie(w) /\ Named(w) /\ Shrinking(w) /\ Control /\ Linking
      /\ \A t \in States \ {0} : FailOf(w, t)
      /\ \A t \in States : IF t < s THEN AcceptOf(w, t) ELSE accState[t] = OwnPatterns(t)
      /\ pid = Len(patterns)
  BY DEF IInv, Linking, Control
<1>2. \A t \in States : w[t] \in Text /\ Len(w[t]) \in Nat /\ (w[t] = <<>> <=> t = 0)
  BY <1>1, ChildIs DEF Text
<1>3. /\ fail \in [States -> States] /\ 0 \in States
      /\ PatternStates \subseteq States /\ 0 \in PatternStates
      /\ Holding \subseteq States
  BY <1>1, LinkTypes, TrieTypes DEF PatternStates, Holding
<1>4. OwnPatterns(0) = <<>>
  BY <1>1, PatternStatesAre
<1>5. /\ r \in Holding /\ r \in States /\ IsSuffix(w[r], w[fail[s]])
      /\ \A t \in Holding : IsSuffix(w[t], w[fail[s]]) => Len(w[t]) <= Len(w[r])
  BY <1>1, <1>3, NearestFinds DEF IsLongest
<1>6. /\ fail[s] \in States /\ IsSuffix(w[fail[s]], w[s])
      /\ \A t \in States \ {s} : IsSuffix(w[t], w[s]) => IsSuffix(w[t], w[fail[s]])
  <2>1. CASE s = 0
    <3>1. fail[s] = 0 /\ w[s] = <<>> /\ w[s] \in Text
      BY <1>1, <1>2, <2>1 DEF Shrinking
    <3>2. IsSuffix(w[s], w[s])
      BY <3>1, SuffixOrder
    <3> QED BY <1>3, <2>1, <3>1, <3>2
  <2>2. CASE s # 0
    BY <1>1, <2>2, FailKeepsSuffixes
  <2> QED BY <2>1, <2>2
<1>7. \A t \in PatternStates : t \in Holding
  <2> SUFFICES ASSUME NEW t \in PatternStates, t # 0 PROVE t \in Holding
    BY <1>3 DEF Holding
  <2>1. t \in States /\ OwnPatterns(t) # <<>>
    BY DEF PatternStates
  <2>2. accState[t] # <<>>
    BY <1>1, <2>1 DEF AcceptOf
  <2> QED BY <2>1, <2>2 DEF Holding
<1>8. \A t \in PatternStates : IsSuffix(w[t], w[s]) => t = 0 \/ IsSuffix(w[t], w[fail[s]])
  BY <1>6 DEF PatternStates
<1>9. IsSuffix(w[r], w[s])
  <2>1. /\ w[r] \in Text /\ w[fail[s]] \in Text /\ w[s] \in Text
        /\ IsSuffix(w[r], w[fail[s]]) /\ IsSuffix(w[fail[s]], w[s])
    BY <1>2, <1>5, <1>6
  <2> QED BY <2>1, SuffixOrder
<1>10. \A t \in PatternStates : IsSuffix(w[t], w[s]) => Len(w[t]) <= Len(w[r])
  <2> SUFFICES ASSUME NEW t \in PatternStates, IsSuffix(w[t], w[s]) PROVE Len(w[t]) <= Len(w[r])
    OBVIOUS
  <2>1. CASE t = 0
    <3>1. Len(w[t]) = 0 /\ Len(w[r]) \in Nat
      BY <1>2, <1>3, <1>5, <2>1
    <3> QED BY <3>1
  <2>2. CASE t # 0
    BY <1>5, <1>7, <1>8, <2>2
  <2> QED BY <2>1, <2>2
<1>11. CASE r \in PatternStates
  <2>1. IsLongest(w, PatternStates, w[s], r)
    BY <1>9, <1>10, <1>11 DEF IsLongest
  <2>2. r # 0 => accState[r] # <<>> /\ Head(accState[r]) = Head(OwnPatterns(r))
    <3> SUFFICES ASSUME r # 0 PROVE accState[r] # <<>> /\ Head(accState[r]) = Head(OwnPatterns(r))
      OBVIOUS
    <3>1. OwnPatterns(r) # <<>>
      BY <1>11 DEF PatternStates
    <3>2. accState[r] = OwnPatterns(r)
      BY <1>1, <1>5, <3>1 DEF AcceptOf
    <3> QED BY <3>1, <3>2
  <2> QED BY <1>5, <2>1, <2>2
<1>12. CASE r \notin PatternStates
  <2>1. r # 0 /\ OwnPatterns(r) = <<>> /\ accState[r] # <<>>
    BY <1>3, <1>5, <1>12 DEF PatternStates, Holding
  <2>2. AcceptOf(w, r)
    BY <1>1, <1>5, <2>1
  <2>3. PICK q \in States : /\ IsLongest(w, PatternStates, w[r], q)
                            /\ accState[r] = IF q = 0 THEN <<>> ELSE <<Head(OwnPatterns(q))>>
    BY <2>1, <2>2 DEF AcceptOf
  <2>4. q # 0 /\ Head(accState[r]) = Head(OwnPatterns(q))
    BY <2>1, <2>3
  <2>5. /\ q \in PatternStates /\ IsSuffix(w[q], w[r])
        /\ \A t \in PatternStates : IsSuffix(w[t], w[r]) => Len(w[t]) <= Len(w[q])
    BY <2>3 DEF IsLongest
  <2>6. IsSuffix(w[q], w[s])
    <3>1. /\ w[q] \in Text /\ w[r] \in Text /\ w[s] \in Text
          /\ IsSuffix(w[q], w[r]) /\ IsSuffix(w[r], w[s])
      BY <1>2, <1>5, <1>9, <2>3, <2>5
    <3> QED BY <3>1, SuffixOrder
  <2>7. ASSUME NEW t \in PatternStates, IsSuffix(w[t], w[s]) PROVE Len(w[t]) <= Len(w[q])
    <3>1. /\ w[t] \in Text /\ w[r] \in Text /\ w[s] \in Text
          /\ IsSuffix(w[t], w[s]) /\ IsSuffix(w[r], w[s]) /\ Len(w[t]) <= Len(w[r])
      BY <1>2, <1>3, <1>5, <1>9, <1>10, <2>7
    <3>2. IsSuffix(w[t], w[r])
      BY <3>1, SuffixOrder
    <3> QED BY <2>5, <3>2
  <2> QED BY <2>1, <2>3, <2>4, <2>5, <2>6, <2>7 DEF IsLongest
<1> QED BY <1>11, <1>12

\* The propagation pass gives each state the pattern it should have.
LEMMA PropagateStateStep ==
  ASSUME NEW w, IInv(w), PropagateState
  PROVE  IInv(w)'
<1>1. PICK s : s = state
  OBVIOUS
<1>2. PICK r : r = NearestPattern(s)
  OBVIOUS
<1>3. /\ UNCHANGED <<patterns, trieVars>> /\ phase = "propagate" /\ phase' = "propagate"
      /\ s < stateCount /\ state' = s + 1
      /\ accState' = IF accState[s] = <<>> /\ r # 0
                     THEN [accState EXCEPT ![s] = <<Head(accState[r])>>] ELSE accState
      /\ fail' = fail /\ outputLink' = outputLink /\ queue' = queue /\ result' = result
  BY <1>1, <1>2 DEF PropagateState, PropagateFrom
<1>4. /\ TypeOK /\ Trie(w) /\ Begun(w) /\ Named(w) /\ Shrinking(w) /\ Control /\ Linking
      /\ \A t \in States \ {0} : FailOf(w, t)
      /\ \A t \in States : OutputOf(w, t)
      /\ \A t \in States : IF t < s THEN AcceptOf(w, t) ELSE accState[t] = OwnPatterns(t)
      /\ pid = Len(patterns)
  BY <1>1, <1>3 DEF IInv, Linking, Control
<1>5. /\ fail \in [States -> States] /\ accState \in [States -> Seq(0 .. Len(patterns) - 1)]
      /\ outputLink \in [States -> States \cup {NONE}] /\ queue \in Seq(States)
      /\ stateCount \in Nat \ {0} /\ s \in 0 .. stateCount /\ States = 0 .. stateCount - 1
  BY <1>1, <1>4, LinkTypes, TrieTypes
<1>6. s \in States /\ accState[s] = OwnPatterns(s)
  BY <1>3, <1>4, <1>5
<1>7. OwnPatterns(s) = <<>> =>
        \E q \in States : /\ IsLongest(w, PatternStates, w[s], q)
                          /\ IF r = 0 THEN q = 0
                             ELSE q # 0 /\ accState[r] # <<>> /\ Head(accState[r]) = Head(OwnPatterns(q))
  BY <1>1, <1>2, <1>3, <1>6, PropagateFinds
<1>8. Linking' /\ ~ HasProgram'
  BY <1>3, <1>4 DEF Linking, HasProgram, Control
<1>9. TypeOK'
  <2>1. state' \in 0 .. stateCount
    BY <1>3, <1>5
  <2>2. accState' \in [States -> Seq(0 .. Len(patterns) - 1)]
    <3>1. CASE accState[s] = <<>> /\ r # 0
      <4>1. PICK q \in States : IsLongest(w, PatternStates, w[s], q) /\ q # 0
                                /\ Head(accState[r]) = Head(OwnPatterns(q))
        BY <1>6, <1>7, <3>1
      <4>2. OwnPatterns(q) # <<>> /\ OwnPatterns(q) \in Seq(0 .. pid - 1)
        BY <1>4, <4>1, OwnPatternsAre DEF IsLongest, PatternStates
      <4>3. Head(accState[r]) \in 0 .. Len(patterns) - 1
        BY <1>4, <4>1, <4>2
      <4> QED BY <1>3, <1>5, <3>1, <4>3
    <3>2. CASE ~ (accState[s] = <<>> /\ r # 0)
      BY <1>3, <1>5, <3>2
    <3> QED BY <3>1, <3>2
  <2> QED BY <1>3, <1>4, <1>5, <2>1, <2>2, TypesStay
<1>10. /\ Trie(w)' /\ Begun(w)' /\ Named(w)' /\ States' = States
       /\ PatternStates' = PatternStates
       /\ \A t : OwnPatterns(t)' = OwnPatterns(t)
  BY <1>3, <1>4, TrieStays
<1>11. Control'
  BY <1>3, <1>4 DEF Control, trieVars, Linking
<1>12. Shrinking(w)'
  BY <1>3, <1>4, <1>10 DEF Shrinking
<1>13. \A t \in States' \ {0} : FailOf(w, t)'
  BY <1>3, <1>4, <1>10, RightStays
<1>14. \A t \in States' : OutputOf(w, t)'
  BY <1>3, <1>4, <1>10, RightStays
<1>15. AcceptOf(w, s)'
  <2>1. CASE OwnPatterns(s) # <<>>
    BY <1>3, <1>6, <1>10, <2>1 DEF AcceptOf
  <2>2. CASE OwnPatterns(s) = <<>>
    <3>1. PICK q \in States : /\ IsLongest(w, PatternStates, w[s], q)
                              /\ IF r = 0 THEN q = 0
                                 ELSE q # 0 /\ Head(accState[r]) = Head(OwnPatterns(q))
      BY <1>7, <2>2
    <3>2. accState'[s] = IF q = 0 THEN <<>> ELSE <<Head(OwnPatterns(q))>>
      BY <1>3, <1>5, <1>6, <2>2, <3>1
    <3>3. IsLongest(w, PatternStates', w[s], q) /\ q \in States'
      BY <1>10, <3>1
    <3>4. OwnPatterns(q)' = OwnPatterns(q) /\ OwnPatterns(s)' = <<>>
      BY <1>10, <2>2
    <3>5. accState'[s] = IF q = 0 THEN <<>> ELSE <<Head(OwnPatterns(q)')>>
      BY <3>2, <3>4
    <3> QED BY <3>3, <3>4, <3>5 DEF AcceptOf, IsLongest
  <2> QED BY <2>1, <2>2
<1>16. ASSUME NEW t \in States PROVE IF t < state' THEN AcceptOf(w, t)' ELSE accState'[t] = OwnPatterns(t)'
  <2>1. CASE t = s
    BY <1>3, <1>5, <1>15, <2>1
  <2>2. CASE t # s
    <3>1. t < state' <=> t < s
      BY <1>3, <1>5, <2>2
    <3>2. accState'[t] = accState[t]
      BY <1>3, <1>5, <2>2
    <3>3. AcceptOf(w, t) => AcceptOf(w, t)'
      BY <1>3, <3>2, RightStays
    <3> QED BY <1>4, <1>10, <3>1, <3>2, <3>3
  <2> QED BY <2>1, <2>2
<1> QED BY <1>3, <1>8, <1>9, <1>10, <1>11, <1>12, <1>13, <1>14, <1>16 DEF IInv

\* The children of a state, and nothing else.
LEMMA ChildrenAre ==
  ASSUME TypeOK, NEW s \in States
  PROVE  /\ Children(s) \in Seq(States)
         /\ \A i \in DOMAIN Children(s) :
              Children(s)[i] # 0 /\ \E b \in Byte : trans[s][b] = Children(s)[i]
         /\ \A b \in Byte : trans[s][b] # 0 => \E i \in DOMAIN Children(s) : Children(s)[i] = trans[s][b]
<1> DEFINE row == [i \in 1 .. ByteCount |-> trans[s][i - 1]]
           c == Children(s)
<1>1. ByteCount \in Nat /\ \A i \in 1 .. ByteCount : i - 1 \in Byte /\ row[i] = trans[s][i - 1]
  BY ByteCountAssumption DEF Byte
<1>2. row \in [1 .. ByteCount -> States]
  BY <1>1, TrieTypes
<1>3. row \in Seq(States) /\ Len(row) = ByteCount
  <2> HIDE DEF row
  <2> QED BY <1>1, <1>2, FunctionIsSeq
<1>4. c = Kept(row, States \ {0})
  BY DEF Children
<1> HIDE DEF row, c
<1>5. c \in Seq(States)
  BY <1>3, <1>4, KeptMeans
<1>6. PICK at : Picks(row, ByteCount, States \ {0}, c, at)
  <2>1. \E at : Picks(row, Len(row), States \ {0}, Kept(row, States \ {0}), at)
    BY <1>3, KeptMeans
  <2> QED BY <1>3, <1>4, <2>1
<1>7. DOMAIN c = 1 .. Len(c) /\ at \in [1 .. Len(c) -> 1 .. ByteCount]
  BY <1>5, <1>6 DEF Picks
<1>8. ASSUME NEW i \in DOMAIN c PROVE c[i] # 0 /\ \E b \in Byte : trans[s][b] = c[i]
  BY <1>1, <1>6, <1>7 DEF Picks
<1>9. ASSUME NEW b \in Byte, trans[s][b] # 0 PROVE \E i \in DOMAIN c : c[i] = trans[s][b]
  <2>1. b + 1 \in 1 .. ByteCount /\ (b + 1) - 1 = b
    BY <1>1 DEF Byte
  <2>2. row[b + 1] = trans[s][b] /\ row[b + 1] \in States \ {0}
    BY <1>1, <1>9, <2>1, TrieTypes
  <2> QED BY <1>6, <1>7, <2>1, <2>2 DEF Picks
<1> QED BY <1>5, <1>8, <1>9 DEF c

\* A state strictly below another one is one of its children or below one.
LEMMA BelowIs ==
  ASSUME TypeOK, NEW w, Trie(w), NEW h \in States, NEW s \in States, IsStrictPrefix(w[h], w[s])
  PROVE  \E b \in Byte : /\ trans[h][b] # 0
                         /\ s = trans[h][b] \/ IsStrictPrefix(w[trans[h][b]], w[s])
<1>1. \A t \in States : w[t] \in Text /\ w[t] \in Seq(Byte) /\ Len(w[t]) \in Nat
  BY ChildIs DEF Text
<1> DEFINE n == Len(w[h])
           v == w[s]
<1>2. n < Len(v) /\ w[h] = SubSeq(v, 1, n) /\ v \in Text /\ n \in 0 .. Len(v) - 1
  <2>1. n < Len(v) /\ w[h] = SubSeq(v, 1, n)
    BY <1>1, PrefixMeans
  <2> QED BY <1>1, <2>1
<1> HIDE DEF n, v
<1>3. v[n + 1] \in Byte /\ SubSeq(v, 1, n + 1) = Append(SubSeq(v, 1, n), v[n + 1])
  BY <1>2, PrefixLonger
<1>4. n + 1 \in 0 .. Len(w[s])
  BY <1>1, <1>2 DEF v
<1>5. PICK t \in States : w[t] = SubSeq(v, 1, n + 1)
  BY <1>4, PrefixClosed DEF v
<1>6. w[t] = Append(w[h], v[n + 1])
  BY <1>2, <1>3, <1>5
<1>7. t # 0 /\ trans[h][v[n + 1]] = t
  BY <1>3, <1>6, ChildIs
<1>8. CASE t = s
  BY <1>3, <1>7, <1>8
<1>9. CASE t # s
  <2>1. w[t] # w[s]
    BY <1>9 DEF Trie
  <2>2. Len(w[t]) = n + 1
    BY <1>1, <1>3, <1>6, Appended DEF n
  <2>3. Len(w[t]) < Len(v)
    <3>1. CASE n + 1 = Len(v)
      <4>1. SubSeq(v, 1, Len(v)) = v
        BY <1>1 DEF v
      <4> QED BY <1>5, <2>1, <3>1, <4>1 DEF v
    <3>2. CASE n + 1 # Len(v)
      BY <1>1, <1>2, <2>2, <3>2 DEF v
    <3> QED BY <3>1, <3>2
  <2>4. IsStrictPrefix(w[t], v)
    <3>1. w[t] \in Text /\ v \in Text /\ Len(w[t]) < Len(v) /\ w[t] = SubSeq(v, 1, Len(w[t]))
      BY <1>1, <1>2, <1>5, <2>2, <2>3
    <3> QED BY <3>1, PrefixMeans
  <2> QED BY <1>3, <1>7, <2>4 DEF v
<1> QED BY <1>8, <1>9

\* The walk starts with the children of the root in the queue: their links to
\* the root are right, and all other states are below them.
LEMMA StartLinksStep ==
  ASSUME NEW w, IInv(w), StartLinks
  PROVE  IInv(w)'
<1>1. /\ UNCHANGED <<patterns, trieVars>> /\ phase = "insert" /\ phase' = "bfs"
      /\ patterns # <<>> /\ pid = Len(patterns)
      /\ fail' = [s \in States |-> 0]
      /\ accState' = [s \in States |-> OwnPatterns(s)]
      /\ outputLink' = [s \in States |-> NONE]
      /\ queue' = Children(0) /\ state' = state /\ result' = result
  BY DEF StartLinks
<1>2. TypeOK /\ Trie(w) /\ Begun(w) /\ Named(w) /\ Control
  BY <1>1 DEF IInv
<1>3. /\ 0 \in States /\ \A s \in States : w[s] \in Text /\ Len(w[s]) \in Nat /\ (w[s] = <<>> <=> s = 0)
      /\ w[0] = <<>>
  BY <1>2, TrieTypes, ChildIs DEF Text, Trie
<1>4. /\ queue' \in Seq(States) /\ DOMAIN queue' = 1 .. Len(queue')
      /\ \A i \in DOMAIN queue' : queue'[i] # 0 /\ \E b \in Byte : trans[0][b] = queue'[i]
      /\ \A b \in Byte : trans[0][b] # 0 => \E i \in DOMAIN queue' : queue'[i] = trans[0][b]
  <2>1. /\ Children(0) \in Seq(States)
        /\ \A i \in DOMAIN Children(0) :
             Children(0)[i] # 0 /\ \E b \in Byte : trans[0][b] = Children(0)[i]
        /\ \A b \in Byte : trans[0][b] # 0 => \E i \in DOMAIN Children(0) : Children(0)[i] = trans[0][b]
    BY <1>2, <1>3, ChildrenAre
  <2>2. queue' = Children(0)
    BY <1>1
  <2> QED BY <2>1, <2>2
<1>5. Linking' /\ ~ HasProgram'
  BY <1>1, <1>2 DEF Linking, HasProgram, Control
<1>6. TypeOK'
  <2>1. fail' \in [States -> States] /\ outputLink' \in [States -> States \cup {NONE}]
    BY <1>1, <1>3
  <2>2. accState' \in [States -> Seq(0 .. Len(patterns) - 1)]
    BY <1>1, <1>2, OwnPatternsAre
  <2>3. state' \in 0 .. stateCount
    BY <1>1, <1>2 DEF TypeOK
  <2> QED BY <1>1, <1>2, <1>4, <2>1, <2>2, <2>3, TypesStay
<1>7. /\ Trie(w)' /\ Begun(w)' /\ Named(w)' /\ States' = States /\ trans' = trans
      /\ \A s : OwnPatterns(s)' = OwnPatterns(s)
  BY <1>1, <1>2, TrieStays
<1>8. Control'
  BY <1>1, <1>2 DEF Control, trieVars, Linking
<1>9. \A s \in States \ {0} : Len(w[0]) < Len(w[s])
  <2> SUFFICES ASSUME NEW s \in States \ {0} PROVE Len(w[0]) < Len(w[s])
    OBVIOUS
  <2>1. w[s] \in Seq(Byte) /\ w[s] # <<>> /\ Len(w[0]) = 0
    BY <1>3 DEF Text
  <2>2. Len(w[s]) \in Nat /\ Len(w[s]) # 0
    BY <2>1
  <2> QED BY <2>1, <2>2
<1>10. Shrinking(w)'
  BY <1>1, <1>3, <1>7, <1>9 DEF Shrinking
<1>11. \A i \in DOMAIN queue' : queue'[i] \in States /\ Len(w[queue'[i]]) = 1
  <2> SUFFICES ASSUME NEW i \in DOMAIN queue' PROVE queue'[i] \in States /\ Len(w[queue'[i]]) = 1
    OBVIOUS
  <2>1. PICK b \in Byte : trans[0][b] = queue'[i] /\ queue'[i] # 0
    BY <1>4
  <2>2. queue'[i] \in States
    BY <1>4
  <2>3. w[queue'[i]] = Append(w[0], b)
    BY <1>2, <1>3, <2>1, <2>2, ChildIs
  <2> QED BY <1>3, <2>2, <2>3
<1>12. ASSUME NEW s \in States \ {0}, \A i \in DOMAIN queue' : ~ IsStrictPrefix(w[queue'[i]], w[s])
       PROVE  FailOf(w, s)'
  <2>1. IsStrictPrefix(w[0], w[s])
    <3>1. /\ w[0] \in Text /\ w[s] \in Text /\ Len(w[0]) < Len(w[s]) /\ Len(w[0]) = 0
          /\ w[0] = SubSeq(w[s], 1, Len(w[0]))
      <4>1. w[s] \in Seq(Byte) /\ Len(w[0]) = 0
        BY <1>3 DEF Text
      <4>2. SubSeq(w[s], 1, 0) = <<>>
        BY <4>1
      <4> QED BY <1>3, <1>9, <4>1, <4>2
    <3> QED BY <3>1, PrefixMeans
  <2>2. PICK b \in Byte : trans[0][b] # 0 /\ (s = trans[0][b] \/ IsStrictPrefix(w[trans[0][b]], w[s]))
    BY <1>2, <1>3, <2>1, BelowIs
  <2>3. s = trans[0][b]
    BY <1>4, <1>12, <2>2
  <2>4. w[s] = Append(w[0], b)
    BY <1>2, <1>3, <2>2, <2>3, ChildIs
  <2>5. Tail(w[s]) = <<>>
    BY <1>3, <2>4, TailOfAppended
  <2>6. IsLongest(w, States, <<>>, 0)
    <3>1. <<>> \in Text /\ IsSuffix(<<>>, <<>>)
      <4>1. <<>> \in Text
        BY <1>3
      <4> QED BY <4>1, SuffixOrder
    <3>2. ASSUME NEW t \in States, IsSuffix(w[t], <<>>) PROVE Len(w[t]) <= Len(w[0])
      <4>1. w[t] \in Text /\ <<>> \in Text /\ IsSuffix(w[t], <<>>)
        BY <1>3, <3>1, <3>2
      <4> QED BY <1>3, <4>1, SuffixOrder
    <3> QED BY <1>3, <3>1, <3>2 DEF IsLongest
  <2>7. fail'[s] = 0
    BY <1>1
  <2> QED BY <1>7, <2>5, <2>6, <2>7 DEF FailOf, IsLongest
<1>13. Breadth(w)'
  <2>1. \A i, j \in DOMAIN queue' : i < j => /\ Len(w[queue'[i]]) <= Len(w[queue'[j]])
                                             /\ Len(w[queue'[j]]) <= Len(w[queue'[i]]) + 1
    BY <1>11
  <2> QED BY <1>4, <1>7, <1>12, <2>1 DEF Breadth
<1>14. accState' = [s \in States' |-> OwnPatterns(s)']
  BY <1>1, <1>7
<1>15. outputLink' = [s \in States' |-> NONE]
  BY <1>1, <1>7
<1> QED BY <1>1, <1>5, <1>6, <1>7, <1>8, <1>10, <1>13, <1>14, <1>15 DEF IInv

\* The queue after one turn: what followed the head, then its children.
LEMMA QueueTurns ==
  ASSUME TypeOK, queue # <<>>, NEW c \in Seq(States), NEW q \in {Tail(queue) \o c},
         NEW m \in {Len(queue) - 1}
  PROVE  /\ q \in Seq(States) /\ m \in Nat
         /\ \A i \in DOMAIN q : i <= m => i + 1 \in DOMAIN queue /\ q[i] = queue[i + 1]
         /\ \A i \in DOMAIN q : i > m => i - m \in DOMAIN c /\ q[i] = c[i - m]
         /\ \A i \in DOMAIN queue \ {1} : i - 1 \in DOMAIN q /\ q[i - 1] = queue[i]
         /\ \A i \in DOMAIN c : i + m \in DOMAIN q /\ q[i + m] = c[i]
<1> DEFINE r == Tail(queue)
<1>1. queue \in Seq(States)
  BY DEF TypeOK
<1>2. /\ r \in Seq(States) /\ Len(r) = m /\ m \in Nat /\ q = r \o c
      /\ DOMAIN queue = 1 .. m + 1 /\ \A i \in 1 .. m : r[i] = queue[i + 1]
  BY <1>1
<1> HIDE DEF r
<1>3. /\ q \in Seq(States) /\ Len(q) = m + Len(c) /\ Len(c) \in Nat
      /\ \A i \in 1 .. m : q[i] = r[i]
      /\ \A i \in 1 .. Len(c) : q[m + i] = c[i]
  <2>1. r \in Seq(States) /\ c \in Seq(States)
    BY <1>2
  <2>2. /\ r \o c \in Seq(States) /\ Len(r \o c) = Len(r) + Len(c) /\ Len(c) \in Nat
        /\ \A i \in 1 .. Len(r) : (r \o c)[i] = r[i]
        /\ \A i \in 1 .. Len(c) : (r \o c)[Len(r) + i] = c[i]
    BY <2>1, Concatenated
  <2> QED BY <1>2, <2>2
<1>4. DOMAIN q = 1 .. m + Len(c) /\ DOMAIN c = 1 .. Len(c)
  BY <1>3
<1>5. \A i \in DOMAIN q : i <= m => i + 1 \in DOMAIN queue /\ q[i] = queue[i + 1]
  BY <1>2, <1>3, <1>4
<1>6. \A i \in DOMAIN q : i > m => i - m \in DOMAIN c /\ q[i] = c[i - m]
  <2> SUFFICES ASSUME NEW i \in DOMAIN q, i > m PROVE i - m \in DOMAIN c /\ q[i] = c[i - m]
    OBVIOUS
  <2>1. i - m \in 1 .. Len(c) /\ m + (i - m) = i
    BY <1>2, <1>3, <1>4
  <2> QED BY <1>3, <1>4, <2>1
<1>7. \A i \in DOMAIN queue \ {1} : i - 1 \in DOMAIN q /\ q[i - 1] = queue[i]
  <2> SUFFICES ASSUME NEW i \in DOMAIN queue \ {1} PROVE i - 1 \in DOMAIN q /\ q[i - 1] = queue[i]
    OBVIOUS
  <2>1. i - 1 \in 1 .. m /\ (i - 1) + 1 = i
    BY <1>2
  <2> QED BY <1>2, <1>3, <1>4, <2>1
<1>8. \A i \in DOMAIN c : i + m \in DOMAIN q /\ q[i + m] = c[i]
  BY <1>2, <1>3, <1>4
<1> QED BY <1>2, <1>3, <1>5, <1>6, <1>7, <1>8

\* A turn of the walk gives the children of the head their links: those it
\* follows, of shallower states, are right by then.
LEMMA BfsStepStep ==
  ASSUME NEW w, IInv(w), BfsStep
  PROVE  IInv(w)'
<1>1. PICK h : h = Head(queue)
  OBVIOUS
<1> DEFINE B(q) == CHOOSE b \in Byte : trans[h][b] = q
<1>2. /\ UNCHANGED <<patterns, trieVars>> /\ phase = "bfs" /\ phase' = "bfs" /\ queue # <<>>
      /\ queue' = Tail(queue) \o Children(h)
      /\ fail' = [q \in States |-> IF \E b \in Byte : trans[h][b] = q /\ q # 0
                                   THEN FailTarget(h, B(q)) ELSE fail[q]]
      /\ accState' = accState /\ outputLink' = outputLink /\ state' = state /\ result' = result
  BY <1>1 DEF BfsStep, ExpandHead
<1>3. /\ TypeOK /\ Trie(w) /\ Begun(w) /\ Named(w) /\ Shrinking(w) /\ Breadth(w) /\ Control /\ Linking
      /\ accState = [s \in States |-> OwnPatterns(s)] /\ outputLink = [s \in States |-> NONE]
  BY <1>2 DEF IInv, Linking
<1>4. \A s \in States : w[s] \in Text /\ Len(w[s]) \in Nat /\ (w[s] = <<>> <=> s = 0)
  BY <1>3, ChildIs DEF Text
<1>5. /\ \A i \in DOMAIN queue : queue[i] \in States \ {0}
      /\ \A i, j \in DOMAIN queue : i < j => /\ Len(w[queue[i]]) <= Len(w[queue[j]])
                                             /\ Len(w[queue[j]]) <= Len(w[queue[i]]) + 1
      /\ \A s \in States \ {0} :
           (\A i \in DOMAIN queue : ~ IsStrictPrefix(w[queue[i]], w[s])) => FailOf(w, s)
  BY <1>3 DEF Breadth, TypeOK
<1>6. /\ 1 \in DOMAIN queue /\ h = queue[1] /\ h \in States \ {0}
      /\ DOMAIN queue = 1 .. Len(queue) /\ Len(queue) \in Nat
  <2>1. queue \in Seq(States)
    BY <1>3 DEF TypeOK
  <2>2. DOMAIN queue = 1 .. Len(queue) /\ Len(queue) \in Nat /\ 1 \in DOMAIN queue /\ h = queue[1]
    BY <1>1, <1>2, <2>1
  <2> QED BY <1>5, <2>2
<1>7. PICK c : c = Children(h)
  OBVIOUS
<1>8. /\ c \in Seq(States)
      /\ \A i \in DOMAIN c : c[i] # 0 /\ \E b \in Byte : trans[h][b] = c[i]
      /\ \A b \in Byte : trans[h][b] # 0 => \E i \in DOMAIN c : c[i] = trans[h][b]
  BY <1>3, <1>6, <1>7, ChildrenAre
<1>9. PICK m : m = Len(queue) - 1
  OBVIOUS
<1>10. /\ queue' \in Seq(States) /\ m \in Nat
       /\ \A i \in DOMAIN queue' : i <= m => i + 1 \in DOMAIN queue /\ queue'[i] = queue[i + 1]
       /\ \A i \in DOMAIN queue' : i > m => i - m \in DOMAIN c /\ queue'[i] = c[i - m]
       /\ \A i \in DOMAIN queue \ {1} : i - 1 \in DOMAIN queue' /\ queue'[i - 1] = queue[i]
       /\ \A i \in DOMAIN c : i + m \in DOMAIN queue' /\ queue'[i + m] = c[i]
  <2>1. PICK q : q = Tail(queue) \o c
    OBVIOUS
  <2>2. /\ q \in Seq(States) /\ m \in Nat
        /\ \A i \in DOMAIN q : i <= m => i + 1 \in DOMAIN queue /\ q[i] = queue[i + 1]
        /\ \A i \in DOMAIN q : i > m => i - m \in DOMAIN c /\ q[i] = c[i - m]
        /\ \A i \in DOMAIN queue \ {1} : i - 1 \in DOMAIN q /\ q[i - 1] = queue[i]
        /\ \A i \in DOMAIN c : i + m \in DOMAIN q /\ q[i + m] = c[i]
    <3>1. /\ TypeOK /\ queue # <<>> /\ c \in Seq(States)
          /\ q \in {Tail(queue) \o c} /\ m \in {Len(queue) - 1}
      BY <1>2, <1>3, <1>8, <1>9, <2>1
    <3> QED BY <3>1, QueueTurns
  <2>3. queue' = q
    BY <1>2, <1>7, <2>1
  <2> QED BY <2>2, <2>3
<1>11. DOMAIN queue' = 1 .. Len(queue') /\ Len(queue') \in Nat
  BY <1>10
<1>12. \A i \in DOMAIN queue' : i > m =>
         queue'[i] \in States \ {0} /\ Len(w[queue'[i]]) = Len(w[h]) + 1
  <2> SUFFICES ASSUME NEW i \in DOMAIN queue', i > m
               PROVE  queue'[i] \in States \ {0} /\ Len(w[queue'[i]]) = Len(w[h]) + 1
    OBVIOUS
  <2>1. PICK b \in Byte : trans[h][b] = queue'[i] /\ queue'[i] # 0
    BY <1>8, <1>10
  <2>2. queue'[i] \in States
    BY <1>10
  <2>3. w[queue'[i]] = Append(w[h], b) /\ w[h] \in Text
    BY <1>3, <1>4, <1>6, <2>1, <2>2, ChildIs
  <2> QED BY <2>1, <2>2, <2>3, Appended
<1>13. \A i \in DOMAIN queue' : i <= m =>
         /\ queue'[i] \in States \ {0}
         /\ Len(w[h]) <= Len(w[queue'[i]]) /\ Len(w[queue'[i]]) <= Len(w[h]) + 1
  <2> SUFFICES ASSUME NEW i \in DOMAIN queue', i <= m
               PROVE  /\ queue'[i] \in States \ {0}
                      /\ Len(w[h]) <= Len(w[queue'[i]]) /\ Len(w[queue'[i]]) <= Len(w[h]) + 1
    OBVIOUS
  <2>1. i + 1 \in DOMAIN queue /\ queue'[i] = queue[i + 1] /\ 1 < i + 1
    BY <1>10, <1>11
  <2> QED BY <1>5, <1>6, <2>1
<1>14. \A i, j \in DOMAIN queue' : i < j =>
         Len(w[queue'[i]]) <= Len(w[queue'[j]]) /\ Len(w[queue'[j]]) <= Len(w[queue'[i]]) + 1
  <2> SUFFICES ASSUME NEW i \in DOMAIN queue', NEW j \in DOMAIN queue', i < j
               PROVE  Len(w[queue'[i]]) <= Len(w[queue'[j]]) /\ Len(w[queue'[j]]) <= Len(w[queue'[i]]) + 1
    OBVIOUS
  <2>1. CASE j <= m
    <3>1. i <= m /\ i + 1 < j + 1
      BY <1>10, <1>11, <2>1
    <3>2. i + 1 \in DOMAIN queue /\ queue'[i] = queue[i + 1] /\ j + 1 \in DOMAIN queue /\ queue'[j] = queue[j + 1]
      BY <1>10, <2>1, <3>1
    <3> QED BY <1>5, <3>1, <3>2
  <2>2. CASE j > m /\ i <= m
    <3>1. Len(w[queue'[j]]) = Len(w[h]) + 1 /\ Len(w[h]) \in Nat /\ Len(w[queue'[i]]) \in Nat
      BY <1>4, <1>6, <1>12, <1>13, <2>2
    <3> QED BY <1>13, <2>2, <3>1
  <2>3. CASE j > m /\ i > m
    <3>1. /\ Len(w[queue'[j]]) = Len(w[h]) + 1 /\ Len(w[queue'[i]]) = Len(w[h]) + 1
          /\ Len(w[h]) \in Nat
      BY <1>4, <1>6, <1>12, <2>3
    <3> QED BY <3>1
  <2> QED BY <1>10, <1>11, <2>1, <2>2, <2>3
<1>15. \A t \in States \ {0} : Len(w[t]) <= Len(w[h]) => FailOf(w, t)
  <2> SUFFICES ASSUME NEW t \in States \ {0}, Len(w[t]) <= Len(w[h]) PROVE FailOf(w, t)
    OBVIOUS
  <2>1. \A i \in DOMAIN queue : Len(w[h]) <= Len(w[queue[i]])
    <3> SUFFICES ASSUME NEW i \in DOMAIN queue PROVE Len(w[h]) <= Len(w[queue[i]])
      OBVIOUS
    <3>1. i = 1 \/ 1 < i
      BY <1>6
    <3>2. Len(w[h]) \in Nat
      BY <1>4, <1>6
    <3> QED BY <1>5, <1>6, <3>1, <3>2
  <2>2. ASSUME NEW i \in DOMAIN queue, IsStrictPrefix(w[queue[i]], w[t]) PROVE FALSE
    <3>1. w[queue[i]] \in Text /\ w[t] \in Text /\ IsStrictPrefix(w[queue[i]], w[t])
      BY <1>4, <1>5, <2>2
    <3>2. Len(w[queue[i]]) < Len(w[t])
      BY <3>1, PrefixMeans
    <3>3. Len(w[queue[i]]) \in Nat /\ Len(w[t]) \in Nat /\ Len(w[h]) \in Nat
      BY <1>4, <1>5, <1>6
    <3> QED BY <2>1, <3>2, <3>3
  <2> QED BY <1>5, <2>2
<1>16. \A b \in Byte : FailTarget(h, b) \in States /\ IsLongest(w, States, Append(Tail(w[h]), b), FailTarget(h, b))
  BY <1>3, <1>6, <1>15, FailTargetFinds
<1> HIDE DEF B
<1>17. ASSUME NEW q \in States \ {0}, NEW a \in Byte, trans[h][a] = q
       PROVE  fail'[q] \in States /\ IsLongest(w, States, Tail(w[q]), fail'[q]) /\ Len(w[fail'[q]]) < Len(w[q])
  <2>1. B(q) \in Byte /\ trans[h][B(q)] = q
    BY <1>17 DEF B
  <2>2. fail'[q] = FailTarget(h, B(q))
    BY <1>2, <1>17
  <2>3. w[q] = Append(w[h], B(q))
    BY <1>3, <1>6, <2>1, ChildIs
  <2>4. Tail(w[q]) = Append(Tail(w[h]), B(q))
    BY <1>4, <1>6, <2>1, <2>3, TailOfAppended
  <2>5. fail'[q] \in States /\ IsLongest(w, States, Tail(w[q]), fail'[q])
    BY <1>16, <2>1, <2>2, <2>4
  <2>6. w[q] \in Text /\ w[q] # <<>> /\ w[fail'[q]] \in Text /\ IsSuffix(w[fail'[q]], Tail(w[q]))
    BY <1>4, <2>5 DEF IsLongest
  <2>7. Tail(w[q]) \in Text /\ Len(Tail(w[q])) = Len(w[q]) - 1 /\ Len(w[q]) \in Nat
    BY <2>6, TailMeans
  <2>8. Len(w[fail'[q]]) <= Len(Tail(w[q])) /\ Len(w[fail'[q]]) \in Nat
    <3>1. w[fail'[q]] \in Text /\ Tail(w[q]) \in Text /\ IsSuffix(w[fail'[q]], Tail(w[q]))
      BY <2>6, <2>7
    <3> QED BY <1>4, <2>5, <3>1, SuffixOrder
  <2> QED BY <2>5, <2>7, <2>8
<1>18. \A q \in States : (\A b \in Byte : trans[h][b] # q \/ q = 0) => fail'[q] = fail[q]
  BY <1>2
<1>19. fail \in [States -> States] /\ 0 \in States
  BY <1>3, LinkTypes, TrieTypes
<1>20. fail' \in [States -> States]
  <2>1. \A q \in States : fail'[q] \in States
    BY <1>17, <1>18, <1>19
  <2>2. fail' = [q \in States |-> fail'[q]]
    BY <1>2
  <2> QED BY <2>1, <2>2
<1>21. Linking' /\ ~ HasProgram'
  BY <1>2, <1>3 DEF Linking, HasProgram, Control
<1>22. TypeOK'
  BY <1>2, <1>3, <1>10, <1>20, LinkTypes, TypesStay
<1>23. /\ Trie(w)' /\ Begun(w)' /\ Named(w)' /\ States' = States
       /\ \A s : OwnPatterns(s)' = OwnPatterns(s)
  BY <1>2, <1>3, TrieStays
<1>24. Control'
  BY <1>2, <1>3 DEF Control, trieVars, Linking
<1>25. Shrinking(w)'
  <2>1. fail'[0] = 0
    BY <1>3, <1>18, <1>19 DEF Shrinking
  <2>2. ASSUME NEW s \in States \ {0} PROVE Len(w[fail'[s]]) < Len(w[s])
    BY <1>3, <1>17, <1>18 DEF Shrinking
  <2> QED BY <1>23, <2>1, <2>2 DEF Shrinking
<1>26. ASSUME NEW s \in States \ {0}, \A i \in DOMAIN queue' : ~ IsStrictPrefix(w[queue'[i]], w[s])
       PROVE  FailOf(w, s)'
  <2>1. CASE \E a \in Byte : trans[h][a] = s
    <3>1. IsLongest(w, States, Tail(w[s]), fail'[s])
      BY <1>17, <2>1
    <3>2. IsLongest(w, States', Tail(w[s]), fail'[s])
      BY <1>23, <3>1
    <3> QED BY <3>2 DEF FailOf, IsLongest
  <2>2. CASE ~ \E a \in Byte : trans[h][a] = s
    <3>1. ~ IsStrictPrefix(w[h], w[s])
      <4> SUFFICES ASSUME IsStrictPrefix(w[h], w[s]) PROVE FALSE
        OBVIOUS
      <4>1. PICK b \in Byte : trans[h][b] # 0 /\ IsStrictPrefix(w[trans[h][b]], w[s])
        BY <1>3, <1>6, <2>2, BelowIs
      <4>2. PICK i \in DOMAIN c : c[i] = trans[h][b]
        BY <1>8, <4>1
      <4> QED BY <1>10, <1>26, <4>1, <4>2
    <3>2. \A i \in DOMAIN queue : ~ IsStrictPrefix(w[queue[i]], w[s])
      BY <1>6, <1>10, <1>26, <3>1
    <3>3. FailOf(w, s)
      BY <1>5, <3>2
    <3>4. fail'[s] = fail[s]
      BY <1>18, <2>2
    <3> QED BY <1>2, <3>3, <3>4, RightStays
  <2> QED BY <2>1, <2>2
<1>27. Breadth(w)'
  <2>1. \A i \in DOMAIN queue' : queue'[i] # 0
    <3> SUFFICES ASSUME NEW i \in DOMAIN queue' PROVE queue'[i] # 0
      OBVIOUS
    <3>1. i <= m \/ i > m
      BY <1>10, <1>11
    <3> QED BY <1>12, <1>13, <3>1
  <2> QED BY <1>14, <1>23, <1>26, <2>1 DEF Breadth
<1>28. accState' = [s \in States' |-> OwnPatterns(s)']
  BY <1>2, <1>3, <1>23
<1>29. outputLink' = [s \in States' |-> NONE]
  BY <1>2, <1>3, <1>23
<1> QED BY <1>2, <1>21, <1>22, <1>23, <1>24, <1>25, <1>27, <1>28, <1>29 DEF IInv

------------------------------------------------------------------------------
(***************************************************************************)
(* The insertion steps.                                                    *)
(***************************************************************************)

\* A sequence over a set is one over every larger set.
LEMMA SeqGrows ==
  ASSUME NEW S, NEW T, S \subseteq T, NEW a \in Seq(S)
  PROVE  a \in Seq(T)
OBVIOUS

\* Every construction starts with the root alone.
LEMMA InitIInv ==
  ASSUME Init
  PROVE  \E w : IInv(w)
<1>1. PICK w : w = [s \in {0} |-> <<>>]
  OBVIOUS
<1>2. /\ phase = "insert" /\ pid = 0 /\ offset = 0 /\ current = 0 /\ stateCount = 1 /\ accepts = <<>>
      /\ trans = [s \in {0} |-> [b \in Byte |-> 0]] /\ queue = <<>> /\ state = 0 /\ result = Pending
      /\ lengths = [i \in DOMAIN patterns |-> 0] /\ patterns \in PatternLists
  BY DEF Init
<1>3. /\ DOMAIN patterns = 1 .. Len(patterns) /\ Len(patterns) \in Nat
      /\ \A i \in DOMAIN patterns : patterns[i] \in Seq(Byte) /\ Len(patterns[i]) \in Nat
  BY <1>2, PatternListsAssumption
<1>4. States = {0}
  BY <1>2 DEF States
<1>5. lengths \in Seq(Nat) /\ Len(lengths) = Len(patterns)
  <2>1. lengths \in [1 .. Len(patterns) -> Nat]
    BY <1>2, <1>3
  <2> QED BY <1>3, <2>1, FunctionIsSeq
<1>6. TypeOK
  <2>1. trans \in [States -> [Byte -> States]]
    BY <1>2, <1>4
  <2>2. accepts \in Seq(States \X Nat) /\ queue \in Seq(States)
    BY <1>2
  <2>3. pid \in 0 .. Len(patterns) /\ state \in 0 .. stateCount /\ stateCount \in Nat \ {0} /\ offset \in Nat
    BY <1>2, <1>3
  <2> QED BY <1>2, <1>4, <1>5, <2>1, <2>2, <2>3 DEF TypeOK
<1>7. Control
  BY <1>2 DEF Control, Linking
<1>8. Trie(w)
  <2>1. w \in [States -> Seq(Byte)] /\ w[0] = <<>> /\ Len(w[0]) = 0
    BY <1>1, <1>4
  <2> QED BY <1>2, <1>4, <2>1 DEF Trie
<1>9. Begun(w)
  BY <1>4 DEF Begun
<1>10. Named(w)
  <2>1. accepts \in Seq(States \X (0 .. pid - 1)) /\ DOMAIN accepts = {} /\ 0 .. pid - 1 = {}
    BY <1>2
  <2>2. lengths = [i \in DOMAIN patterns |-> IF i <= pid THEN Len(patterns[i]) ELSE 0]
    BY <1>2, <1>3
  <2> QED BY <2>1, <2>2 DEF Named
<1>11. Cursor(w)
  <2>1. CASE pid < Len(patterns)
    <3>1. Pattern \in Seq(Byte)
      BY <1>2, <1>3, <2>1 DEF Pattern
    <3>2. SubSeq(Pattern, 1, 0) = <<>> /\ 0 <= Len(Pattern)
      BY <3>1
    <3> QED BY <1>1, <1>2, <2>1, <3>2 DEF Cursor
  <2>2. CASE ~ pid < Len(patterns)
    BY <1>2, <2>2 DEF Cursor
  <2> QED BY <2>1, <2>2
<1>12. ~ HasProgram
  BY <1>2 DEF HasProgram
<1> QED BY <1>2, <1>6, <1>7, <1>8, <1>9, <1>10, <1>11, <1>12 DEF IInv, Linking

\* The pattern under way and the byte it is at.
LEMMA InsertTypes ==
  ASSUME NEW w, IInv(w), phase = "insert", pid < Len(patterns)
  PROVE  /\ TypeOK /\ Trie(w) /\ Begun(w) /\ Named(w) /\ Control
         /\ pid \in Nat /\ pid + 1 \in DOMAIN patterns /\ DOMAIN patterns = 1 .. Len(patterns)
         /\ Len(patterns) \in Nat
         /\ Pattern \in Text /\ Pattern = patterns[pid + 1] /\ Len(Pattern) \in Nat
         /\ offset \in Nat /\ offset <= Len(Pattern) /\ current \in States
         /\ w[current] = SubSeq(Pattern, 1, offset)
         /\ offset < Len(Pattern) =>
              /\ Pattern[offset + 1] \in Byte
              /\ Append(w[current], Pattern[offset + 1]) = SubSeq(Pattern, 1, offset + 1)
         /\ result = Pending
<1>1. TypeOK /\ Trie(w) /\ Begun(w) /\ Named(w) /\ Control /\ Cursor(w)
  BY DEF IInv
<1>2. /\ pid \in Nat /\ pid + 1 \in DOMAIN patterns /\ Len(patterns) \in Nat /\ offset \in Nat /\ current \in States
      /\ DOMAIN patterns = 1 .. Len(patterns)
  BY <1>1, PatternListsAssumption DEF TypeOK
<1>3. Pattern \in Text /\ Pattern = patterns[pid + 1] /\ Len(Pattern) \in Nat
  <2>1. patterns \in Seq(Seq(Byte))
    BY <1>1, PatternListsAssumption DEF TypeOK
  <2> QED BY <1>2, <2>1 DEF Pattern, Text
<1>4. offset <= Len(Pattern) /\ w[current] = SubSeq(Pattern, 1, offset)
  BY <1>1 DEF Cursor
<1>5. ASSUME offset < Len(Pattern)
      PROVE  /\ Pattern[offset + 1] \in Byte
             /\ Append(w[current], Pattern[offset + 1]) = SubSeq(Pattern, 1, offset + 1)
  <2>1. offset \in 0 .. Len(Pattern) - 1
    BY <1>2, <1>3, <1>5
  <2> QED BY <1>3, <1>4, <2>1, PrefixLonger
<1>6. result = Pending
  BY <1>1 DEF Control
<1> QED BY <1>1, <1>2, <1>3, <1>4, <1>5, <1>6

\* A byte of the pattern leads along an edge the trie already has.
LEMMA FollowByteStep ==
  ASSUME NEW w, IInv(w), FollowByte
  PROVE  IInv(w)'
<1>1. /\ phase = "insert" /\ pid < Len(patterns) /\ offset < Len(Pattern) /\ Child # 0
      /\ current' = Child /\ offset' = offset + 1
      /\ patterns' = patterns /\ phase' = phase /\ pid' = pid /\ stateCount' = stateCount
      /\ trans' = trans /\ accepts' = accepts /\ lengths' = lengths
      /\ UNCHANGED linkVars /\ result' = result
  BY DEF FollowByte, Inserting
<1>2. /\ TypeOK /\ Trie(w) /\ Begun(w) /\ Named(w) /\ Control
      /\ offset \in Nat /\ current \in States /\ Len(Pattern) \in Nat
      /\ Pattern[offset + 1] \in Byte
      /\ Append(w[current], Pattern[offset + 1]) = SubSeq(Pattern, 1, offset + 1)
      /\ result = Pending
  BY <1>1, InsertTypes
<1>3. States' = States /\ Pattern' = Pattern
  BY <1>1 DEF States, Pattern
<1>4. Child \in States /\ w[Child] = SubSeq(Pattern, 1, offset + 1)
  <2>1. Child = trans[current][Pattern[offset + 1]]
    BY DEF Child
  <2>2. Child \in States
    BY <1>2, <2>1, TrieTypes
  <2>3. PICK b \in Byte : b = Pattern[offset + 1]
    BY <1>2
  <2>4. TypeOK /\ Trie(w) /\ current \in States /\ Child \in States \ {0} /\ trans[current][b] = Child
    BY <1>1, <1>2, <2>1, <2>2, <2>3
  <2>5. w[Child] = Append(w[current], b)
    BY <2>4, ChildIs
  <2> QED BY <1>2, <2>2, <2>3, <2>5
<1>5. TypeOK'
  BY <1>1, <1>2, <1>3, <1>4 DEF TypeOK, linkVars
<1>6. Control'
  BY <1>1, <1>2 DEF Control, Linking
<1>7. Trie(w)'
  BY <1>1, <1>2, <1>3 DEF Trie
<1>8. Begun(w)'
  BY <1>1, <1>2, <1>3 DEF Begun
<1>9. Named(w)'
  BY <1>1, <1>2, <1>3 DEF Named
<1>10. Cursor(w)'
  <2>1. offset' <= Len(Pattern) /\ w[current'] = SubSeq(Pattern, 1, offset')
    BY <1>1, <1>2, <1>4
  <2> QED BY <1>1, <1>3, <2>1 DEF Cursor
<1>11. ~ HasProgram'
  BY <1>1, <1>2 DEF HasProgram
<1> QED BY <1>1, <1>5, <1>6, <1>7, <1>8, <1>9, <1>10, <1>11 DEF IInv, Linking

\* The new state has the string that was read, which no other state has.
LEMMA NewStateStep ==
  ASSUME NEW w, IInv(w), NewState
  PROVE  \E v : IInv(v)'
<1>1. PICK n : n = stateCount
  OBVIOUS
<1>2. PICK a : a = Pattern[offset + 1]
  OBVIOUS
<1>3. PICK c : c = current
  OBVIOUS
<1>4. /\ phase = "insert" /\ pid < Len(patterns) /\ offset < Len(Pattern) /\ trans[c][a] = 0
      /\ trans' = [s \in 0 .. n |-> IF s = n THEN [b \in Byte |-> 0]
                                    ELSE IF s = c THEN [trans[s] EXCEPT ![a] = n]
                                         ELSE trans[s]]
      /\ stateCount' = n + 1 /\ current' = n /\ offset' = offset + 1
      /\ patterns' = patterns /\ phase' = phase /\ pid' = pid /\ accepts' = accepts /\ lengths' = lengths
      /\ UNCHANGED linkVars /\ result' = result
  BY <1>1, <1>2, <1>3 DEF NewState, AddState, Inserting, Child
<1>5. /\ TypeOK /\ Trie(w) /\ Begun(w) /\ Named(w) /\ Control
      /\ offset \in Nat /\ c \in States /\ Len(Pattern) \in Nat /\ a \in Byte
      /\ Append(w[c], a) = SubSeq(Pattern, 1, offset + 1)
      /\ pid + 1 \in DOMAIN patterns /\ Pattern = patterns[pid + 1]
      /\ result = Pending
  BY <1>2, <1>3, <1>4, InsertTypes
<1>6. /\ n \in Nat \ {0} /\ States = 0 .. n - 1 /\ States' = 0 .. n /\ States' = States \cup {n}
      /\ n \notin States /\ 0 \in States /\ trans \in [States -> [Byte -> States]]
  BY <1>1, <1>4, <1>5, TrieTypes DEF States
<1>7. Pattern' = Pattern
  BY <1>4 DEF Pattern
<1>8. PICK v : v = [s \in 0 .. n |-> IF s = n THEN Append(w[c], a) ELSE w[s]]
  OBVIOUS
<1>9. /\ \A s \in States : v[s] = w[s] /\ w[s] \in Text /\ Len(w[s]) \in Nat
      /\ v[n] = Append(w[c], a) /\ v[n] \in Text /\ Len(v[n]) = Len(w[c]) + 1
  <2>1. \A s \in States : w[s] \in Text /\ Len(w[s]) \in Nat
    BY <1>5, ChildIs DEF Text
  <2>2. Append(w[c], a) \in Text /\ Len(Append(w[c], a)) = Len(w[c]) + 1
    BY <1>5, <2>1, Appended
  <2> QED BY <1>6, <1>8, <2>1, <2>2
<1>10. /\ \A b \in Byte : trans'[n][b] = 0
       /\ trans'[c][a] = n
       /\ \A s \in States, b \in Byte : s # c \/ b # a => trans'[s][b] = trans[s][b]
       /\ \A s \in States, b \in Byte : trans[s][b] \in States
       /\ trans' \in [States' -> [Byte -> States']]
  <2>1. \A s \in States, b \in Byte : trans[s][b] \in States
    BY <1>6
  <2>2. /\ \A s \in States : trans'[s] = IF s = c THEN [trans[s] EXCEPT ![a] = n] ELSE trans[s]
        /\ trans'[n] = [b \in Byte |-> 0]
    BY <1>4, <1>6
  <2>3. \A s \in States : trans[s] \in [Byte -> States]
    BY <1>6
  <2>4. trans'[c] = [trans[c] EXCEPT ![a] = n] /\ trans[c] \in [Byte -> States]
    BY <1>5, <2>2, <2>3
  <2>5. trans'[c][a] = n /\ \A b \in Byte : b # a => trans'[c][b] = trans[c][b]
    BY <1>5, <2>4
  <2>6. \A s \in States, b \in Byte : s # c \/ b # a => trans'[s][b] = trans[s][b]
    BY <2>2, <2>5
  <2>7. \A s \in States' : trans'[s] \in [Byte -> States']
    <3> SUFFICES ASSUME NEW s \in States' PROVE trans'[s] \in [Byte -> States']
      OBVIOUS
    <3>1. CASE s = n
      BY <1>6, <2>2, <3>1
    <3>2. CASE s = c
      BY <1>5, <1>6, <2>4, <3>2
    <3>3. CASE s # n /\ s # c
      <4>1. s \in States /\ trans'[s] = trans[s]
        BY <1>6, <2>2, <3>3
      <4>2. trans[s] \in [Byte -> States] /\ States \subseteq States'
        BY <1>6, <2>3, <4>1
      <4> QED BY <4>1, <4>2
    <3> QED BY <3>1, <3>2, <3>3
  <2>8. trans' = [s \in States' |-> trans'[s]]
    BY <1>4, <1>6
  <2> QED BY <2>1, <2>2, <2>5, <2>6, <2>7, <2>8
<1>11. Trie(v)'
  <2>1. v \in [States' -> Seq(Byte)]
    BY <1>6, <1>8, <1>9 DEF Text
  <2>2. v[0] = <<>>
    BY <1>5, <1>6, <1>9 DEF Trie
  <2>3. ASSUME NEW s \in States', NEW b \in Byte, trans'[s][b] # 0 PROVE v[trans'[s][b]] = Append(v[s], b)
    <3>1. CASE s = n
      BY <1>10, <2>3, <3>1
    <3>2. CASE s = c /\ b = a
      BY <1>5, <1>9, <1>10, <3>2
    <3>3. CASE s # n /\ (s # c \/ b # a)
      <4>1. s \in States /\ trans'[s][b] = trans[s][b] /\ trans[s][b] \in States
        BY <1>6, <1>10, <3>3
      <4>2. w[trans[s][b]] = Append(w[s], b)
        BY <1>5, <2>3, <4>1 DEF Trie
      <4> QED BY <1>9, <4>1, <4>2
    <3> QED BY <3>1, <3>2, <3>3
  <2>4. ASSUME NEW t \in States' \ {0} PROVE \E s \in 0 .. t - 1, b \in Byte : trans'[s][b] = t
    <3>1. CASE t = n
      BY <1>5, <1>6, <1>10, <3>1
    <3>2. CASE t # n
      <4>1. t \in States \ {0}
        BY <1>6, <3>2
      <4>2. PICK s \in 0 .. t - 1, b \in Byte : trans[s][b] = t
        BY <1>5, <4>1 DEF Trie
      <4>3. s \in States
        BY <1>6, <4>1, <4>2
      <4>4. s # c \/ b # a
        BY <1>4, <4>1, <4>2
      <4>5. trans'[s][b] = t
        BY <1>10, <4>2, <4>3, <4>4
      <4> QED BY <4>2, <4>5
    <3> QED BY <3>1, <3>2
  <2>5. \A t \in States : v[t] # v[n]
    <3> SUFFICES ASSUME NEW t \in States, w[t] = Append(w[c], a) PROVE FALSE
      BY <1>9
    <3>1. t # 0 /\ trans[c][a] = t
      BY <1>5, ChildIs
    <3> QED BY <1>4, <3>1
  <2>6. \A s, t \in States' : v[s] = v[t] => s = t
    BY <1>5, <1>6, <1>9, <2>5 DEF Trie
  <2>7. \A s \in States' : Len(v[s]) <= s
    <3>1. \A s \in States : Len(w[s]) <= s
      BY <1>5 DEF Trie
    <3>2. Len(v[n]) <= n
      <4>1. Len(w[c]) <= c /\ Len(w[c]) \in Nat /\ c \in Nat /\ c <= n - 1
        BY <1>5, <1>6, <1>9, <3>1
      <4> QED BY <1>6, <1>9, <4>1
    <3>3. \A s \in States : Len(v[s]) <= s
      BY <1>9, <3>1
    <3> QED BY <1>6, <3>2, <3>3
  <2> QED BY <2>1, <2>2, <2>3, <2>4, <2>6, <2>7 DEF Trie
<1>12. Begun(v)'
  <2>1. \A s \in States \ {0} : \E i \in DOMAIN patterns : \E l \in 1 .. Len(patterns[i]) : v[s] = SubSeq(patterns[i], 1, l)
    BY <1>5, <1>9 DEF Begun
  <2>2. v[n] = SubSeq(patterns[pid + 1], 1, offset + 1) /\ offset + 1 \in 1 .. Len(patterns[pid + 1])
    BY <1>4, <1>5, <1>9
  <2>3. \A s \in States' \ {0} : s \in States \ {0} \/ s = n
    BY <1>6
  <2>4. \E i \in DOMAIN patterns : \E l \in 1 .. Len(patterns[i]) : v[n] = SubSeq(patterns[i], 1, l)
    BY <1>5, <2>2
  <2>5. \A s \in States' \ {0} : \E i \in DOMAIN patterns : \E l \in 1 .. Len(patterns[i]) : v[s] = SubSeq(patterns[i], 1, l)
    BY <2>1, <2>3, <2>4
  <2> QED BY <1>4, <2>5 DEF Begun
<1>13. accepts \in Seq(States' \X (0 .. pid - 1)) /\ accepts \in Seq(States' \X Nat) /\ queue \in Seq(States')
  <2>1. /\ accepts \in Seq(States \X (0 .. pid - 1)) /\ accepts \in Seq(States \X Nat)
        /\ queue \in Seq(States) /\ States \subseteq States'
    BY <1>5, <1>6 DEF Named, TypeOK
  <2>2. States \X (0 .. pid - 1) \subseteq States' \X (0 .. pid - 1) /\ States \X Nat \subseteq States' \X Nat
    BY <2>1
  <2> QED BY <2>1, <2>2, SeqGrows
<1>14. Named(v)'
  <2>1. \A i \in DOMAIN accepts : accepts[i][1] \in States
    BY <1>5 DEF Named
  <2>2. \A i \in DOMAIN accepts : v[accepts[i][1]] = w[accepts[i][1]]
    BY <1>9, <2>1
  <2> QED BY <1>4, <1>5, <1>13, <2>2 DEF Named
<1>15. TypeOK'
  <2>1. stateCount' \in Nat \ {0} /\ current' \in States' /\ offset' \in Nat /\ state' \in 0 .. stateCount'
    BY <1>1, <1>4, <1>5, <1>6 DEF TypeOK, linkVars
  <2> QED BY <1>4, <1>5, <1>10, <1>13, <2>1 DEF TypeOK, linkVars
<1>16. Control'
  BY <1>4, <1>5 DEF Control, Linking
<1>17. Cursor(v)'
  <2>1. offset' <= Len(Pattern) /\ v[current'] = SubSeq(Pattern, 1, offset')
    BY <1>4, <1>5, <1>9
  <2> QED BY <1>4, <1>7, <2>1 DEF Cursor
<1>18. ~ HasProgram'
  BY <1>4, <1>5 DEF HasProgram
<1>19. IInv(v)'
  BY <1>4, <1>11, <1>12, <1>14, <1>15, <1>16, <1>17, <1>18 DEF IInv, Linking
<1> QED BY <1>19

\* The state of the whole pattern gets its id; the next pattern starts at the root.
LEMMA FinishPatternStep ==
  ASSUME NEW w, IInv(w), FinishPattern
  PROVE  IInv(w)'
<1>1. PICK k : k = pid
  OBVIOUS
<1>2. PICK P : P = Pattern
  OBVIOUS
<1>3. PICK c : c = current
  OBVIOUS
<1>4. /\ phase = "insert" /\ k < Len(patterns) /\ offset = Len(P)
      /\ IF P = <<>> THEN accepts' = accepts /\ lengths' = lengths
         ELSE accepts' = Append(accepts, <<c, k>>) /\ lengths' = [lengths EXCEPT ![k + 1] = Len(P)]
      /\ pid' = k + 1 /\ offset' = 0 /\ current' = 0
      /\ patterns' = patterns /\ phase' = phase /\ stateCount' = stateCount /\ trans' = trans
      /\ UNCHANGED linkVars /\ result' = result
  BY <1>1, <1>2, <1>3 DEF FinishPattern, FinishAt, Inserting
<1>5. /\ TypeOK /\ Trie(w) /\ Begun(w) /\ Named(w) /\ Control
      /\ c \in States /\ Len(P) \in Nat /\ P \in Seq(Byte) /\ w[c] = SubSeq(P, 1, offset)
      /\ k \in Nat /\ k + 1 \in DOMAIN patterns /\ P = patterns[k + 1]
      /\ DOMAIN patterns = 1 .. Len(patterns) /\ Len(patterns) \in Nat
      /\ result = Pending
  BY <1>1, <1>2, <1>3, <1>4, InsertTypes DEF Text
<1>6. States' = States /\ 0 \in States
  BY <1>4, <1>5, TrieTypes DEF States
<1>7. w[c] = P
  <2>1. SubSeq(P, 1, Len(P)) = P
    BY <1>5
  <2> QED BY <1>4, <1>5, <2>1
<1>8. /\ accepts \in Seq(States \X (0 .. k - 1)) /\ DOMAIN accepts = 1 .. Len(accepts) /\ Len(accepts) \in Nat
      /\ \A i \in DOMAIN accepts : accepts[i][1] \in States /\ accepts[i][2] \in 0 .. k - 1
      /\ \A i \in DOMAIN accepts :
           w[accepts[i][1]] = patterns[accepts[i][2] + 1] /\ patterns[accepts[i][2] + 1] # <<>>
      /\ \A i, j \in DOMAIN accepts : i < j => accepts[i][2] < accepts[j][2]
      /\ \A q \in 0 .. k - 1 : patterns[q + 1] # <<>> => \E i \in DOMAIN accepts : accepts[i][2] = q
      /\ lengths = [i \in DOMAIN patterns |-> IF i <= k THEN Len(patterns[i]) ELSE 0]
  BY <1>1, <1>5 DEF Named
<1>9. accepts \in Seq(States \X (0 .. k))
  <2>1. States \X (0 .. k - 1) \subseteq States \X (0 .. k)
    BY <1>5
  <2> QED BY <1>8, <2>1, SeqGrows
<1>10. lengths' = [i \in DOMAIN patterns |-> IF i <= k + 1 THEN Len(patterns[i]) ELSE 0]
  <2>1. CASE P = <<>>
    <3>1. Len(patterns[k + 1]) = 0
      BY <1>5, <2>1
    <3>2. \A i \in DOMAIN patterns : (IF i <= k + 1 THEN Len(patterns[i]) ELSE 0) = IF i <= k THEN Len(patterns[i]) ELSE 0
      BY <1>5, <3>1
    <3> QED BY <1>4, <1>8, <2>1, <3>2
  <2>2. CASE P # <<>>
    <3>1. \A i \in DOMAIN patterns : i # k + 1 => (i <= k + 1 <=> i <= k)
      BY <1>5
    <3>2. ~ k + 1 <= k /\ k + 1 <= k + 1
      BY <1>5
    <3> QED BY <1>4, <1>5, <1>8, <2>2, <3>1, <3>2
  <2> QED BY <2>1, <2>2
<1>11. lengths' \in Seq(Nat) /\ Len(lengths') = Len(patterns)
  <2>1. \A i \in DOMAIN patterns : Len(patterns[i]) \in Nat
    BY <1>5, PatternListsAssumption DEF TypeOK
  <2>2. lengths' \in [1 .. Len(patterns) -> Nat]
    BY <1>5, <1>10, <2>1
  <2> QED BY <1>5, <2>2, FunctionIsSeq
<1>12. /\ accepts' \in Seq(States \X (0 .. k))
       /\ \A i \in DOMAIN accepts' :
            w[accepts'[i][1]] = patterns[accepts'[i][2] + 1] /\ patterns[accepts'[i][2] + 1] # <<>>
       /\ \A i, j \in DOMAIN accepts' : i < j => accepts'[i][2] < accepts'[j][2]
       /\ \A q \in 0 .. k : patterns[q + 1] # <<>> => \E i \in DOMAIN accepts' : accepts'[i][2] = q
  <2>1. CASE P = <<>>
    <3>1. \A q \in 0 .. k : q \in 0 .. k - 1 \/ q = k
      BY <1>5
    <3> QED BY <1>4, <1>5, <1>8, <1>9, <2>1, <3>1
  <2>2. CASE P # <<>>
    <3> DEFINE N == Len(accepts)
    <3>1. accepts' = Append(accepts, <<c, k>>) /\ <<c, k>> \in States \X (0 .. k)
      BY <1>4, <1>5, <2>2
    <3>2. /\ accepts' \in Seq(States \X (0 .. k)) /\ DOMAIN accepts' = 1 .. N + 1 /\ N \in Nat
          /\ \A i \in 1 .. N : accepts'[i] = accepts[i]
          /\ accepts'[N + 1] = <<c, k>>
      BY <1>9, <3>1
    <3> HIDE DEF N
    <3>3. \A i \in DOMAIN accepts' : (i \in DOMAIN accepts /\ i <= N) \/ i = N + 1
      BY <1>8, <3>2 DEF N
    <3>4. accepts'[N + 1][1] = c /\ accepts'[N + 1][2] = k
      BY <3>2
    <3>5. \A i \in DOMAIN accepts : accepts'[i] = accepts[i] /\ i \in DOMAIN accepts'
      BY <1>8, <3>2 DEF N
    <3>6. \A i \in DOMAIN accepts' :
            w[accepts'[i][1]] = patterns[accepts'[i][2] + 1] /\ patterns[accepts'[i][2] + 1] # <<>>
      BY <1>5, <1>7, <1>8, <2>2, <3>3, <3>4, <3>5
    <3>7. ASSUME NEW i \in DOMAIN accepts', NEW j \in DOMAIN accepts', i < j
          PROVE  accepts'[i][2] < accepts'[j][2]
      <4>1. i \in DOMAIN accepts /\ i <= N
        BY <3>2, <3>3, <3>7
      <4>2. CASE j = N + 1
        <5>1. accepts[i][2] \in 0 .. k - 1
          BY <1>8, <4>1
        <5> QED BY <1>5, <3>4, <3>5, <4>1, <4>2, <5>1
      <4>3. CASE j # N + 1
        BY <1>8, <3>3, <3>5, <3>7, <4>1, <4>3
      <4> QED BY <4>2, <4>3
    <3>8. ASSUME NEW q \in 0 .. k, patterns[q + 1] # <<>> PROVE \E i \in DOMAIN accepts' : accepts'[i][2] = q
      <4>1. CASE q = k
        BY <3>2, <3>4, <4>1
      <4>2. CASE q # k
        <5>1. q \in 0 .. k - 1
          BY <1>5, <4>2
        <5> QED BY <1>8, <3>5, <3>8, <5>1
      <4> QED BY <4>1, <4>2
    <3> QED BY <3>2, <3>6, <3>7, <3>8
  <2> QED BY <2>1, <2>2
<1>13. Named(w)'
  <2>1. pid' - 1 = k /\ pid' = k + 1
    BY <1>4, <1>5
  <2> QED BY <1>4, <1>6, <1>10, <1>12, <2>1 DEF Named
<1>14. TypeOK'
  <2>1. accepts' \in Seq(States \X Nat)
    <3>1. States \X (0 .. k) \subseteq States \X Nat
      BY <1>5
    <3> QED BY <1>12, <3>1, SeqGrows
  <2>2. pid' \in 0 .. Len(patterns)
    BY <1>4, <1>5
  <2> QED BY <1>4, <1>5, <1>6, <1>11, <2>1, <2>2 DEF TypeOK, linkVars
<1>15. Control'
  BY <1>4, <1>5 DEF Control, Linking
<1>16. Trie(w)'
  BY <1>4, <1>5, <1>6 DEF Trie
<1>17. Begun(w)'
  BY <1>4, <1>5, <1>6 DEF Begun
<1>18. Cursor(w)'
  <2>1. CASE pid' < Len(patterns)
    <3>1. Pattern' \in Seq(Byte)
      <4>1. patterns \in Seq(Seq(Byte)) /\ pid' + 1 \in DOMAIN patterns
        BY <1>4, <1>5, <2>1, PatternListsAssumption DEF TypeOK
      <4> QED BY <1>4, <4>1 DEF Pattern
    <3>2. SubSeq(Pattern', 1, 0) = <<>> /\ 0 <= Len(Pattern')
      BY <3>1
    <3>3. w[0] = <<>>
      BY <1>5 DEF Trie
    <3> QED BY <1>4, <2>1, <3>2, <3>3 DEF Cursor
  <2>2. CASE ~ pid' < Len(patterns)
    BY <1>4, <2>2 DEF Cursor
  <2> QED BY <2>1, <2>2
<1>19. ~ HasProgram'
  BY <1>4, <1>5 DEF HasProgram
<1> QED BY <1>4, <1>13, <1>14, <1>15, <1>16, <1>17, <1>18, <1>19 DEF IInv, Linking

\* A step that changes nothing keeps it, with the same strings.
LEMMA UnchangedStep ==
  ASSUME NEW w, IInv(w), UNCHANGED vars
  PROVE  IInv(w)'
<1>1. UNCHANGED <<patterns, trieVars>> /\ States' = States
  BY TrieStays DEF vars
<1>2. /\ patterns' = patterns /\ phase' = phase /\ pid' = pid /\ offset' = offset /\ current' = current
      /\ stateCount' = stateCount /\ trans' = trans /\ accepts' = accepts /\ lengths' = lengths
      /\ fail' = fail /\ queue' = queue /\ accState' = accState /\ outputLink' = outputLink
      /\ state' = state /\ result' = result
  BY DEF vars, trieVars, linkVars
<1>3. /\ PatternStates' = PatternStates /\ \A s : OwnPatterns(s)' = OwnPatterns(s)
      /\ Trie(w)' /\ Begun(w)' /\ Named(w)'
  BY <1>1, TrieStays DEF IInv
<1>4. TypeOK' /\ Control' /\ (phase = "insert" => Cursor(w)') /\ (Linking => Shrinking(w)')
  BY <1>1, <1>2 DEF IInv, TypeOK, Control, Cursor, Pattern, Shrinking, Linking
<1>5. /\ \A s \in States : FailOf(w, s) => FailOf(w, s)'
      /\ \A s \in States : OutputOf(w, s) => OutputOf(w, s)'
      /\ \A s \in States : AcceptOf(w, s) => AcceptOf(w, s)'
  BY <1>1, <1>2, RightStays
<1>6. phase = "bfs" => Breadth(w)'
  <2>1. phase = "bfs" => Breadth(w)
    BY DEF IInv
  <2> QED BY <1>1, <1>2, <1>5, <2>1 DEF Breadth
<1>7. \A s \in States, b \in Byte : DenseOf(w, s, b) => DenseOf(w, s, b)'
  BY <1>1, <1>2 DEF DenseOf, IsLongest
<1> QED BY <1>1, <1>2, <1>3, <1>4, <1>5, <1>6, <1>7 DEF IInv, Linking, HasProgram

\* Every action preserves the invariant, with the same names for the states or,
\* after NewState, with one more.
LEMMA NextIInv ==
  ASSUME NEW w, IInv(w), [Next]_vars
  PROVE  \E v : IInv(v)'
<1>1. CASE UNCHANGED vars
  BY <1>1, UnchangedStep
<1>2. CASE RejectEmpty
  BY <1>2, RejectEmptyStep
<1>3. CASE FollowByte
  BY <1>3, FollowByteStep
<1>4. CASE NewState
  BY <1>4, NewStateStep
<1>5. CASE FinishPattern
  BY <1>5, FinishPatternStep
<1>6. CASE StartLinks
  BY <1>6, StartLinksStep
<1>7. CASE BfsStep
  BY <1>7, BfsStepStep
<1>8. CASE EndBfs
  BY <1>8, EndBfsStep
<1>9. CASE LinkState
  BY <1>9, LinkStateStep
<1>10. CASE EndLink
  BY <1>10, EndLinkStep
<1>11. CASE PropagateState
  BY <1>11, PropagateStateStep
<1>12. CASE EndPropagate
  BY <1>12, EndPropagateStep
<1>13. CASE BuildTable
  BY <1>13, BuildTableStep
<1> QED BY <1>1, <1>2, <1>3, <1>4, <1>5, <1>6, <1>7, <1>8, <1>9, <1>10, <1>11, <1>12, <1>13 DEF Next

------------------------------------------------------------------------------
(***************************************************************************)
(* The properties.                                                         *)
(***************************************************************************)

\* The strings of the states exist, and the invariant holds of them.
Sound == \E w : IInv(w)

\* Every construction is sound all the way.
LEMMA AlwaysSound == Spec => []Sound
<1>1. Init => Sound
  BY InitIInv DEF Sound
<1>2. Sound /\ [Next]_vars => Sound'
  <2> SUFFICES ASSUME NEW w, IInv(w), [Next]_vars PROVE \E v : IInv(v)'
    BY DEF Sound
  <2> QED BY NextIInv
<1> QED BY <1>1, <1>2, PTL DEF Spec

\* The variables have their types: every cursor, link and queue entry of the
\* construction is a state of the trie.
THEOREM TypeCorrect == Spec => []TypeOK
<1>1. Sound => TypeOK
  BY DEF Sound, IInv
<1> QED BY <1>1, AlwaysSound, PTL

\* Insertion builds the prefix tree of the non-empty patterns, whatever the
\* patterns share, and names each one's state.
LEMMA SoundTrie == Sound => TrieIsPrefixTree
<1> SUFFICES ASSUME NEW w, IInv(w), phase # "insert"
             PROVE  /\ {Paths[s] : s \in States} = PrefixStrings \cup {<<>>}
                    /\ \A s, t \in States : Paths[s] = Paths[t] => s = t
                    /\ {<<Paths[a[1]], a[2]>> : a \in ToSet(accepts)}
                         = {<<patterns[i], i - 1>> : i \in {j \in DOMAIN patterns : patterns[j] # <<>>}}
                    /\ \A i, j \in DOMAIN accepts : i < j => accepts[i][2] < accepts[j][2]
  BY DEF Sound, TrieIsPrefixTree
<1>1. TypeOK /\ Trie(w) /\ Begun(w) /\ Named(w) /\ pid = Len(patterns)
  BY DEF IInv, Control
<1>2. Paths = w
  BY <1>1, PathsAre
<1>3. /\ DOMAIN patterns = 1 .. Len(patterns) /\ Len(patterns) \in Nat
      /\ \A i \in DOMAIN patterns : patterns[i] \in Seq(Byte) /\ Len(patterns[i]) \in Nat
      /\ \A s \in States : w[s] \in Seq(Byte) /\ Len(w[s]) \in Nat
      /\ w[0] = <<>> /\ 0 \in States
  <2>1. patterns \in Seq(Seq(Byte))
    BY <1>1, PatternListsAssumption DEF TypeOK
  <2>2. \A s \in States : w[s] \in Seq(Byte) /\ Len(w[s]) \in Nat
    BY <1>1, ChildIs DEF Text
  <2>3. w[0] = <<>> /\ 0 \in States
    BY <1>1, TrieTypes DEF Trie
  <2> QED BY <2>1, <2>2, <2>3
<1>4. \A p : p \in NonEmpty <=> p # <<>> /\ \E i \in DOMAIN patterns : p = patterns[i]
  BY DEF NonEmpty, ToSet
<1>4a. \A u : u \in PrefixStrings <=> \E p \in NonEmpty : u \in Prefixes(p)
  BY Zenon DEF PrefixStrings
<1>5. {Paths[s] : s \in States} = PrefixStrings \cup {<<>>}
  <2>1. ASSUME NEW s \in States PROVE w[s] \in PrefixStrings \cup {<<>>}
    <3>1. CASE s = 0
      <4>1. w[s] = <<>>
        BY <1>3, <3>1
      <4> QED BY <4>1
    <3>2. CASE s # 0
      <4>1. PICK i \in DOMAIN patterns : \E n \in 1 .. Len(patterns[i]) : w[s] = SubSeq(patterns[i], 1, n)
        BY <1>1, <3>2 DEF Begun
      <4>2. PICK n \in 1 .. Len(patterns[i]) : w[s] = SubSeq(patterns[i], 1, n)
        BY <4>1
      <4>3. patterns[i] \in NonEmpty
        <5>1. patterns[i] # <<>>
          BY <1>3, <4>2
        <5> QED BY <1>4, <5>1
      <4>4. w[s] \in Prefixes(patterns[i])
        BY <1>3, <4>2 DEF Prefixes
      <4> QED BY <1>4a, <4>3, <4>4
    <3> QED BY <3>1, <3>2
  <2>2. ASSUME NEW p \in NonEmpty, NEW u \in Prefixes(p) PROVE \E s \in States : w[s] = u
    <3>1. PICK s \in States : w[s] = p
      BY <1>1, PatternStatesAre
    <3>2. PICK n \in 0 .. Len(w[s]) : u = SubSeq(w[s], 1, n)
      BY <3>1 DEF Prefixes
    <3> QED BY <1>1, <3>2, PrefixClosed
  <2>3. \A u \in PrefixStrings : \E s \in States : w[s] = u
    BY <1>4a, <2>2
  <2> QED BY <1>2, <1>3, <2>1, <2>3
<1>6. \A s, t \in States : w[s] = w[t] => s = t
  BY <1>1 DEF Trie
<1>7. /\ DOMAIN accepts = 1 .. Len(accepts)
      /\ \A i \in DOMAIN accepts : /\ accepts[i][2] \in 0 .. Len(patterns) - 1
                                   /\ w[accepts[i][1]] = patterns[accepts[i][2] + 1]
                                   /\ patterns[accepts[i][2] + 1] # <<>>
      /\ \A i, j \in DOMAIN accepts : i < j => accepts[i][2] < accepts[j][2]
      /\ \A q \in 0 .. Len(patterns) - 1 : patterns[q + 1] # <<>> => \E i \in DOMAIN accepts : accepts[i][2] = q
  <2>1. accepts \in Seq(States \X (0 .. Len(patterns) - 1))
    BY <1>1 DEF Named
  <2>2. /\ \A i \in DOMAIN accepts : /\ w[accepts[i][1]] = patterns[accepts[i][2] + 1]
                                     /\ patterns[accepts[i][2] + 1] # <<>>
        /\ \A i, j \in DOMAIN accepts : i < j => accepts[i][2] < accepts[j][2]
        /\ \A q \in 0 .. Len(patterns) - 1 : patterns[q + 1] # <<>> =>
             \E i \in DOMAIN accepts : accepts[i][2] = q
    BY <1>1 DEF Named
  <2>3. DOMAIN accepts = 1 .. Len(accepts)
    BY <2>1
  <2>4. \A i \in DOMAIN accepts : accepts[i][2] \in 0 .. Len(patterns) - 1
    BY <2>1
  <2> QED BY <2>2, <2>3, <2>4
<1>8. \A a : a \in ToSet(accepts) <=> \E i \in DOMAIN accepts : a = accepts[i]
  BY DEF ToSet
<1>9. {<<Paths[a[1]], a[2]>> : a \in ToSet(accepts)}
        = {<<patterns[i], i - 1>> : i \in {j \in DOMAIN patterns : patterns[j] # <<>>}}
  <2>1. ASSUME NEW i \in DOMAIN accepts
        PROVE  \E j \in DOMAIN patterns : patterns[j] # <<>> /\ <<w[accepts[i][1]], accepts[i][2]>> = <<patterns[j], j - 1>>
    <3>1. PICK j : j = accepts[i][2] + 1
      OBVIOUS
    <3>2. j \in DOMAIN patterns /\ j - 1 = accepts[i][2]
      BY <1>3, <1>7, <3>1
    <3> QED BY <1>7, <3>1, <3>2
  <2>2. ASSUME NEW j \in DOMAIN patterns, patterns[j] # <<>>
        PROVE  \E i \in DOMAIN accepts : <<w[accepts[i][1]], accepts[i][2]>> = <<patterns[j], j - 1>>
    <3>1. j - 1 \in 0 .. Len(patterns) - 1 /\ (j - 1) + 1 = j
      BY <1>3
    <3>2. PICK i \in DOMAIN accepts : accepts[i][2] = j - 1
      BY <1>7, <2>2, <3>1
    <3> QED BY <1>7, <3>1, <3>2
  <2> QED BY <1>2, <1>8, <2>1, <2>2
<1>10. \A s, t \in States : Paths[s] = Paths[t] => s = t
  BY <1>2, <1>6
<1>11. \A i, j \in DOMAIN accepts : i < j => accepts[i][2] < accepts[j][2]
  BY <1>7
<1> QED BY <1>5, <1>9, <1>10, <1>11

\* The trie is the prefix tree of the patterns, with one state per prefix, and
\* accepts has exactly the non-empty patterns, in the order given.
THEOREM TrieIsCorrect == Spec => []TrieIsPrefixTree
BY SoundTrie, AlwaysSound, PTL

\* The longest string of a state that ends x.
LEMMA LongestStateIs ==
  ASSUME TypeOK, NEW w, Trie(w), NEW x \in Text, NEW r, IsLongest(w, States, x, r)
  PROVE  w[r] = LongestSuffixIn({w[t] : t \in States}, x)
<1> DEFINE S == {w[t] : t \in States}
<1>1. \A t \in States : w[t] \in Text
  BY ChildIs
<1>2. S \subseteq Text /\ w[r] \in S /\ IsSuffix(w[r], x) /\ \A u \in S : IsSuffix(u, x) => Len(u) <= Len(w[r])
  BY <1>1 DEF IsLongest
<1> HIDE DEF S
<1>3. LongestSuffixIn(S, x) = w[r]
  BY <1>2, LongestIs
<1> QED BY <1>3 DEF S

\* The invariant names the target of a failure link: the longest suffix in the trie.
LEMMA SoundFail == Sound => FailIsLongestSuffix
<1> SUFFICES ASSUME NEW w, IInv(w), phase \notin {"insert", "done"}, NEW s \in Linked \ {0}
             PROVE  Paths[fail[s]] = LongestSuffixIn({Paths[t] : t \in States}, Tail(Paths[s]))
  BY DEF Sound, FailIsLongestSuffix
<1>1. TypeOK /\ Trie(w) /\ phase \in {"bfs", "link", "propagate", "table"}
  BY DEF IInv, TypeOK
<1>2. Paths = w
  BY <1>1, PathsAre
<1>3. s \in States \ {0} /\ \A i \in DOMAIN queue : ~ IsStrictPrefix(w[queue[i]], w[s])
  BY <1>2 DEF Linked
<1>4. FailOf(w, s)
  BY <1>1, <1>3 DEF IInv, Breadth
<1>5. IsLongest(w, States, Tail(w[s]), fail[s])
  BY <1>4 DEF FailOf
<1>6. Tail(w[s]) \in Text
  <2>1. w[s] \in Text /\ w[s] # <<>>
    BY <1>1, <1>3, ChildIs
  <2> QED BY <2>1, TailMeans
<1>7. w[fail[s]] = LongestSuffixIn({w[t] : t \in States}, Tail(w[s]))
  BY <1>1, <1>5, <1>6, LongestStateIs
<1> QED BY <1>2, <1>7

\* A failure link that has been set leads to the longest proper suffix, although
\* the walk computes it from other failure links: those of shallower states,
\* which the order of the queue has made final.
THEOREM FailureLinksAreLongest == Spec => []FailIsLongestSuffix
BY SoundFail, AlwaysSound, PTL

\* The invariant names the target of every cell of the table.
LEMMA SoundDense == Sound => DenseIsLongestSuffix
<1> SUFFICES ASSUME NEW w, IInv(w), HasProgram, NEW s \in States, NEW b \in Byte
             PROVE  Paths[result.trans[s * ByteCount + b + 1]]
                      = LongestSuffixIn({Paths[t] : t \in States}, Append(Paths[s], b))
  BY DEF Sound, DenseIsLongestSuffix, HasProgram
<1>1. TypeOK /\ Trie(w) /\ DenseOf(w, s, b)
  BY DEF IInv
<1>2. Paths = w
  BY <1>1, PathsAre
<1>3. Append(w[s], b) \in Text
  <2>1. w[s] \in Text
    BY <1>1, ChildIs
  <2> QED BY <2>1, Appended
<1>4. IsLongest(w, States, Append(w[s], b), result.trans[s * ByteCount + b + 1])
  BY <1>1 DEF DenseOf
<1>5. w[result.trans[s * ByteCount + b + 1]] = LongestSuffixIn({w[t] : t \in States}, Append(w[s], b))
  BY <1>1, <1>3, <1>4, LongestStateIs
<1> QED BY <1>2, <1>5

\* The table a construction returns moves to the longest suffix in the trie: one
\* look-up per byte does the work of the failure links.
THEOREM TableIsLongest == Spec => []DenseIsLongestSuffix
BY SoundDense, AlwaysSound, PTL

\* The longest pattern that ends x, seen from the states of the patterns.
LEMMA LongestPatternIs ==
  ASSUME TypeOK, NEW w, Trie(w), Named(w), pid = Len(patterns), NEW x \in Text,
         NEW r, IsLongest(w, PatternStates, x, r)
  PROVE  LongestSuffixIn(NonEmpty, x) = w[r] /\ r \in States /\ (w[r] = <<>> <=> r = 0)
<1>1. /\ r \in PatternStates /\ IsSuffix(w[r], x)
      /\ \A t \in PatternStates : IsSuffix(w[t], x) => Len(w[t]) <= Len(w[r])
  BY DEF IsLongest
<1>2. \A t \in States : w[t] \in Text /\ (w[t] = <<>> <=> t = 0)
  BY ChildIs
<1>3. /\ \A s \in States : OwnPatterns(s) # <<>> <=> w[s] \in NonEmpty
      /\ \A p \in NonEmpty : \E s \in States : w[s] = p
  BY PatternStatesAre
<1>4. r \in States
  BY <1>1, TrieTypes DEF PatternStates
<1>5. NonEmpty \subseteq Text
  BY <1>2, <1>3
<1>6. w[r] \in NonEmpty \cup {<<>>}
  BY <1>1, <1>2, <1>3, <1>4 DEF PatternStates
<1>7. \A u \in NonEmpty : IsSuffix(u, x) => Len(u) <= Len(w[r])
  <2> SUFFICES ASSUME NEW u \in NonEmpty, IsSuffix(u, x) PROVE Len(u) <= Len(w[r])
    OBVIOUS
  <2>1. PICK s \in States : w[s] = u
    BY <1>3
  <2>2. s \in PatternStates
    BY <1>3, <2>1 DEF PatternStates
  <2> QED BY <1>1, <2>1, <2>2
<1>8. LongestSuffixIn(NonEmpty, x) = w[r]
  BY <1>1, <1>5, <1>6, <1>7, LongestIs
<1> QED BY <1>2, <1>4, <1>8

\* The output link of a pattern's state leads to the longest pattern that ends the
\* pattern's string and is not the whole of it.
LEMMA OutputIs ==
  ASSUME TypeOK, Linking, NEW w, Trie(w), Named(w), Shrinking(w), pid = Len(patterns),
         \A t \in States \ {0} : FailOf(w, t), NEW s \in States, OutputOf(w, s), w[s] \in NonEmpty
  PROVE  \E r \in States : /\ IsLongest(w, PatternStates, Tail(w[s]), r)
                           /\ outputLink[s] = IF r = 0 THEN NONE ELSE r
<1> DEFINE v == w[s]
<1>1. PICK r \in States :
        /\ IsLongest(w, PatternStates, w[fail[s]], r)
        /\ outputLink[s] = IF OwnPatterns(s) # <<>> /\ r # 0 THEN r ELSE NONE
  BY DEF OutputOf
<1>2. OwnPatterns(s) # <<>>
  BY PatternStatesAre
<1>3. s # 0 /\ v \in Text /\ v # <<>> /\ \A t \in States : w[t] \in Text
  BY ChildIs DEF NonEmpty
<1>4. Tail(v) \in Text /\ \A u \in Text : IsSuffix(u, Tail(v)) <=> IsSuffix(u, v) /\ u # v
  BY <1>3, TailMeans, ProperSuffix
<1>5. /\ fail[s] \in States /\ IsSuffix(w[fail[s]], Tail(v))
      /\ \A t \in States \ {s} : IsSuffix(w[t], v) => IsSuffix(w[t], w[fail[s]])
  BY <1>3, FailKeepsSuffixes DEF FailOf, IsLongest
<1> HIDE DEF v
<1>6. IsLongest(w, PatternStates, Tail(v), r)
  <2>1. /\ r \in PatternStates /\ IsSuffix(w[r], w[fail[s]])
        /\ \A t \in PatternStates : IsSuffix(w[t], w[fail[s]]) => Len(w[t]) <= Len(w[r])
    BY <1>1 DEF IsLongest
  <2>2. IsSuffix(w[r], Tail(v))
    <3>1. /\ w[r] \in Text /\ w[fail[s]] \in Text /\ Tail(v) \in Text
          /\ IsSuffix(w[r], w[fail[s]]) /\ IsSuffix(w[fail[s]], Tail(v))
      BY <1>3, <1>4, <1>5, <2>1
    <3> QED BY <3>1, SuffixOrder
  <2>3. ASSUME NEW t \in PatternStates, IsSuffix(w[t], Tail(v)) PROVE Len(w[t]) <= Len(w[r])
    <3>1. t \in States
      BY TrieTypes DEF PatternStates
    <3>2. IsSuffix(w[t], v) /\ t # s
      BY <1>3, <1>4, <2>3, <3>1 DEF v
    <3> QED BY <1>5, <2>1, <3>1, <3>2
  <2> QED BY <2>1, <2>2, <2>3 DEF IsLongest
<1> QED BY <1>1, <1>2, <1>6 DEF v

\* The invariant names the pattern an output link leads to; NONE is no state, for
\* the states are numbered below it.
LEMMA SoundLinks == Sound /\ stateCount <= NONE => LinksAreNextPattern
<1> SUFFICES ASSUME NEW w, IInv(w), stateCount <= NONE, phase \in {"propagate", "table"}, NEW s \in States
             PROVE  LET next == IF Paths[s] \in NonEmpty
                                THEN LongestSuffixIn(NonEmpty, Tail(Paths[s])) ELSE <<>>
                    IN  IF next = <<>> THEN outputLink[s] = NONE
                        ELSE outputLink[s] # NONE /\ Paths[outputLink[s]] = next
  BY DEF Sound, LinksAreNextPattern
<1>1. /\ TypeOK /\ Trie(w) /\ Named(w) /\ Shrinking(w) /\ Linking /\ pid = Len(patterns)
      /\ OutputOf(w, s) /\ \A t \in States \ {0} : FailOf(w, t)
  BY DEF IInv, Control, Linking
<1>2. Paths = w
  BY <1>1, PathsAre
<1>3. CASE w[s] \notin NonEmpty
  <2>1. OwnPatterns(s) = <<>>
    BY <1>1, <1>3, PatternStatesAre
  <2> QED BY <1>1, <1>2, <1>3, <2>1 DEF OutputOf
<1>4. CASE w[s] \in NonEmpty
  <2>1. PICK r \in States : /\ IsLongest(w, PatternStates, Tail(w[s]), r)
                            /\ outputLink[s] = IF r = 0 THEN NONE ELSE r
    BY <1>1, <1>4, OutputIs
  <2>2. Tail(w[s]) \in Text
    <3>1. w[s] \in Text /\ w[s] # <<>>
      BY <1>1, <1>4, ChildIs DEF NonEmpty
    <3> QED BY <3>1, TailMeans
  <2>3. LongestSuffixIn(NonEmpty, Tail(w[s])) = w[r] /\ (w[r] = <<>> <=> r = 0)
    BY <1>1, <2>1, <2>2, LongestPatternIs
  <2>4. r # NONE
    <3>1. r \in 0 .. stateCount - 1 /\ stateCount \in Nat
      BY <1>1, TrieTypes
    <3>2. NONE \in Int
      BY Bit31Assumption DEF NONE, U32
    <3> QED BY <3>1, <3>2
  <2> QED BY <1>2, <1>4, <2>1, <2>3, <2>4
<1> QED BY <1>3, <1>4

\* As long as every state has an index of its own below the sentinel 0xFFFFFFFF,
\* the output links go from pattern to the next longest pattern.
THEOREM LinksAreCorrect == Spec /\ [](stateCount <= NONE) => []LinksAreNextPattern
BY SoundLinks, AlwaysSound, PTL

\* The pattern a state is given is the longest one that ends its string, the first
\* given if there are several.
LEMMA AcceptIs ==
  ASSUME TypeOK, NEW w, Trie(w), Named(w), pid = Len(patterns), NEW s \in States, AcceptOf(w, s)
  PROVE  \E r \in States :
           /\ IsLongest(w, PatternStates, w[s], r)
           /\ IF r = 0 THEN accState[s] = <<>>
              ELSE accState[s] # <<>> /\ Head(accState[s]) = IdOf(w[r])
<1>1. /\ TypeOK /\ Trie(w) /\ Named(w) /\ pid = Len(patterns) /\ AcceptOf(w, s)
  OBVIOUS
<1>3. /\ \A t \in States : OwnPatterns(t) # <<>> <=> w[t] \in NonEmpty
      /\ OwnPatterns(0) = <<>>
      /\ \A t \in States : OwnPatterns(t) # <<>> =>
           /\ Head(OwnPatterns(t)) + 1 \in DOMAIN patterns
           /\ patterns[Head(OwnPatterns(t)) + 1] = w[t]
           /\ \A j \in DOMAIN patterns : patterns[j] = w[t] => Head(OwnPatterns(t)) + 1 <= j
  BY <1>1, PatternStatesAre
<1>4. /\ \A t \in States : w[t] \in Text /\ (w[t] = <<>> <=> t = 0)
      /\ 0 \in States /\ DOMAIN patterns = 1 .. Len(patterns) /\ Len(patterns) \in Nat
  <2>1. patterns \in Seq(Seq(Byte))
    BY <1>1, PatternListsAssumption DEF TypeOK
  <2>2. DOMAIN patterns = 1 .. Len(patterns) /\ Len(patterns) \in Nat
    BY <2>1
  <2> QED BY <1>1, <2>2, ChildIs, TrieTypes
<1>5. PICK r \in States :
        /\ IsLongest(w, PatternStates, w[s], r)
        /\ IF r = 0 THEN accState[s] = <<>>
           ELSE accState[s] # <<>> /\ Head(accState[s]) = Head(OwnPatterns(r))
  <2>1. CASE OwnPatterns(s) # <<>>
    <3>1. accState[s] = OwnPatterns(s) /\ s # 0
      BY <1>1, <1>3, <2>1 DEF AcceptOf
    <3>2. IsLongest(w, PatternStates, w[s], s)
      <4>1. s \in PatternStates
        BY <2>1 DEF PatternStates
      <4>2. IsSuffix(w[s], w[s])
        BY <1>4, SuffixOrder
      <4>3. ASSUME NEW t \in PatternStates, IsSuffix(w[t], w[s]) PROVE Len(w[t]) <= Len(w[s])
        <5>1. w[t] \in Text /\ w[s] \in Text /\ IsSuffix(w[t], w[s])
          BY <1>4, <4>3 DEF PatternStates
        <5> QED BY <5>1, SuffixOrder
      <4> QED BY <4>1, <4>2, <4>3 DEF IsLongest
    <3> QED BY <2>1, <3>1, <3>2
  <2>2. CASE OwnPatterns(s) = <<>>
    <3>1. PICK r \in States : /\ IsLongest(w, PatternStates, w[s], r)
                              /\ accState[s] = IF r = 0 THEN <<>> ELSE <<Head(OwnPatterns(r))>>
      BY <1>1, <2>2 DEF AcceptOf
    <3>2. r # 0 => accState[s] # <<>> /\ Head(accState[s]) = Head(OwnPatterns(r))
      BY <3>1
    <3> QED BY <3>1, <3>2
  <2> QED BY <2>1, <2>2
<1>6. CASE r = 0
  BY <1>5, <1>6
<1>7. CASE r # 0
  <2>1. OwnPatterns(r) # <<>>
    BY <1>5, <1>7 DEF IsLongest, PatternStates
  <2>2. PICK h : h = Head(OwnPatterns(r)) + 1
    OBVIOUS
  <2>3. h \in 1 .. Len(patterns) /\ patterns[h] = w[r] /\ \A j \in DOMAIN patterns : patterns[j] = w[r] => h <= j
    BY <1>3, <1>4, <2>1, <2>2
  <2>4. Head(OwnPatterns(r)) \in Int
    <3>1. OwnPatterns(r) \in Seq(0 .. pid - 1)
      BY <1>1, OwnPatternsAre
    <3>2. PICK own : own = OwnPatterns(r)
      OBVIOUS
    <3>3. own \in Seq(0 .. pid - 1) /\ own # <<>>
      BY <2>1, <3>1, <3>2
    <3>4. Head(own) \in 0 .. pid - 1
      BY <3>3, HeadIn
    <3> QED BY <3>2, <3>4
  <2>5. Head(OwnPatterns(r)) = h - 1
    BY <2>2, <2>4
  <2>6. SelectInSeq(patterns, LAMBDA p : p = w[r]) = h
    <3> DEFINE I == {i \in 1 .. Len(patterns) : patterns[i] = w[r]}
    <3>1. h \in I /\ \A i \in I : h <= i
      BY <1>4, <2>3
    <3>2. \A x \in I : (\A y \in I : x <= y) => x = h
      BY <3>1
    <3>3. SelectInSeq(patterns, LAMBDA p : p = w[r]) = CHOOSE x \in I : \A y \in I : x <= y
      BY <3>1 DEF SelectInSeq, Min
    <3> HIDE DEF I
    <3> QED BY <3>1, <3>2, <3>3
  <2> QED BY <1>5, <1>7, <2>5, <2>6 DEF IdOf
<1> QED BY <1>6, <1>7

\* The invariant names the patterns a state accepts: those of the longest suffix
\* of its string that is a pattern.
LEMMA SoundAccepts == Sound => AcceptsLongestSuffix
<1> SUFFICES ASSUME NEW w, IInv(w), phase = "table", NEW s \in States
             PROVE  LET longest == LongestSuffixIn(NonEmpty, Paths[s])
                    IN  IF longest = <<>> THEN accState[s] = <<>>
                        ELSE /\ accState[s] # <<>>
                             /\ Head(accState[s]) = SelectInSeq(patterns, LAMBDA p : p = longest) - 1
  BY DEF Sound, AcceptsLongestSuffix
<1>1. /\ TypeOK /\ Trie(w) /\ Named(w) /\ pid = Len(patterns) /\ AcceptOf(w, s)
  BY DEF IInv, Control
<1>2. Paths = w
  BY <1>1, PathsAre
<1>3. PICK r \in States :
        /\ IsLongest(w, PatternStates, w[s], r)
        /\ IF r = 0 THEN accState[s] = <<>>
           ELSE accState[s] # <<>> /\ Head(accState[s]) = IdOf(w[r])
  BY <1>1, AcceptIs
<1>4. w[s] \in Text
  BY <1>1, ChildIs
<1>5. LongestSuffixIn(NonEmpty, w[s]) = w[r] /\ (w[r] = <<>> <=> r = 0)
  BY <1>1, <1>3, <1>4, LongestPatternIs
<1> QED BY <1>2, <1>3, <1>5 DEF IdOf

\* After the propagation pass every state reports the longest pattern that ends
\* its string, whatever the pass had changed when it visited the state.
THEOREM AcceptsAreCorrect == Spec => []AcceptsLongestSuffix
BY SoundAccepts, AlwaysSound, PTL

------------------------------------------------------------------------------
(***************************************************************************)
(* The program at the end.                                                 *)
(***************************************************************************)

\* Every list has fewer than 2^32 patterns: pattern ids are u32 and the largest
\* one stands for "no pattern".
ListsFit == \A ps \in PatternLists : Len(ps) <= NONE

\* What is known when the table is built.
Ready(w) ==
  /\ TypeOK /\ Trie(w) /\ Named(w) /\ Shrinking(w) /\ Linking /\ pid = Len(patterns)
  /\ patterns # <<>> /\ stateCount <= MaxStates
  /\ \A t \in States \ {0} : FailOf(w, t)
  /\ \A t \in States : OutputOf(w, t) /\ AcceptOf(w, t)

\* The numbers of a program that is built fit.
LEMMA ReadyNumbers ==
  ASSUME NEW w, Ready(w), ListsFit
  PROVE  /\ stateCount \in Nat \ {0} /\ stateCount <= Bit31 /\ States = 0 .. stateCount - 1
         /\ Bit31 \in Nat \ {0} /\ Bit31 <= NONE /\ NONE \in Nat /\ Word = 0 .. NONE
         /\ ByteCount \in Nat \ {0}
         /\ \A s \in States : s \in Word /\ s # NONE /\ s < Bit31
         /\ Len(patterns) \in Nat /\ Len(patterns) <= NONE
         /\ lengths \in Seq(Word) /\ Len(lengths) = Len(patterns)
<1>1. TypeOK /\ Trie(w) /\ Named(w) /\ pid = Len(patterns) /\ stateCount <= MaxStates
  BY DEF Ready
<1>2. /\ stateCount \in Nat \ {0} /\ States = 0 .. stateCount - 1 /\ stateCount <= Bit31
      /\ Bit31 \in Nat \ {0} /\ ByteCount \in Nat \ {0}
  BY <1>1, TrieTypes, MaxStatesAssumption, Bit31Assumption, ByteCountAssumption
<1>3. Bit31 <= NONE /\ NONE \in Nat /\ Word = 0 .. NONE
  BY <1>2 DEF NONE, U32, Word
<1>4. \A s \in States : s \in Word /\ s # NONE /\ s < Bit31
  BY <1>2, <1>3
<1>5. /\ patterns \in Seq(Seq(Byte)) /\ Len(patterns) \in Nat /\ DOMAIN patterns = 1 .. Len(patterns)
      /\ Len(patterns) <= NONE
  <2>1. patterns \in PatternLists
    BY <1>1 DEF TypeOK
  <2>2. patterns \in Seq(Seq(Byte)) /\ Len(patterns) <= NONE
    BY <2>1, PatternListsAssumption DEF ListsFit
  <2> QED BY <2>2
<1>6. \A i \in DOMAIN patterns : Len(patterns[i]) \in Word
  <2> SUFFICES ASSUME NEW i \in DOMAIN patterns PROVE Len(patterns[i]) \in Word
    OBVIOUS
  <2>1. patterns[i] \in Seq(Byte) /\ Len(patterns[i]) \in Nat
    BY <1>5
  <2>2. CASE patterns[i] = <<>>
    BY <1>2, <1>3, <2>2
  <2>3. CASE patterns[i] # <<>>
    <3>1. patterns[i] \in NonEmpty
      BY <2>3 DEF NonEmpty, ToSet
    <3>2. PICK s \in States : w[s] = patterns[i]
      BY <1>1, <3>1, PatternStatesAre
    <3>3. Len(patterns[i]) <= s
      BY <1>1, <3>2 DEF Trie
    <3> QED BY <1>2, <1>3, <2>1, <3>3
  <2> QED BY <2>2, <2>3
<1>7. lengths = [i \in DOMAIN patterns |-> IF i <= pid THEN Len(patterns[i]) ELSE 0]
  BY <1>1 DEF Named
<1>8. lengths \in [1 .. Len(patterns) -> Word]
  <2>1. 0 \in Word
    BY <1>2, <1>3
  <2> QED BY <1>5, <1>6, <1>7, <2>1
<1>9. lengths \in Seq(Word) /\ Len(lengths) = Len(patterns)
  BY <1>5, <1>8, FunctionIsSeq
<1> QED BY <1>2, <1>3, <1>4, <1>5, <1>9

\* What the pass leaves a state: nothing, or pattern ids.
LEMMA ReadyAccepts ==
  ASSUME NEW w, Ready(w), ListsFit, NEW s \in States, accState[s] # <<>>
  PROVE  Head(accState[s]) \in 0 .. Len(patterns) - 1
<1>1. accState[s] \in Seq(0 .. Len(patterns) - 1)
  BY LinkTypes DEF Ready
<1> QED BY <1>1

\* final_accepts lists every state that has a pattern, once.
LEMMA FinalAcceptsAre ==
  ASSUME NEW w, Ready(w), ListsFit
  PROVE  /\ FinalAccepts \in Seq(Word \X Word)
         /\ \A i \in DOMAIN FinalAccepts :
              /\ FinalAccepts[i][1] \in States /\ FinalAccepts[i][2] \in 0 .. Len(patterns) - 1
              /\ accState[FinalAccepts[i][1]] # <<>> /\ FinalAccepts[i][2] = Head(accState[FinalAccepts[i][1]])
              /\ \A j \in DOMAIN FinalAccepts : FinalAccepts[i][1] = FinalAccepts[j][1] => i = j
         /\ \A s \in States : accState[s] # <<>> => \E i \in DOMAIN FinalAccepts : FinalAccepts[i][1] = s
<1> DEFINE all == [i \in 1 .. stateCount |-> i - 1]
           S == {s \in States : accState[s] # <<>>}
           q == Kept(all, S)
           fa == FinalAccepts
<1>1. /\ stateCount \in Nat \ {0} /\ States = 0 .. stateCount - 1
      /\ NONE \in Nat /\ Word = 0 .. NONE /\ \A s \in States : s \in Word
      /\ Len(patterns) \in Nat /\ Len(patterns) <= NONE
  BY ReadyNumbers
<1>2. all \in [1 .. stateCount -> States] /\ \A i \in 1 .. stateCount : all[i] = i - 1
  BY <1>1
<1>3. fa = [i \in DOMAIN q |-> <<q[i], Head(accState[q[i]])>>]
  BY DEF FinalAccepts
<1> HIDE DEF all, fa
<1>4. all \in Seq(States) /\ Len(all) = stateCount
  BY <1>1, <1>2, FunctionIsSeq
<1>5. q \in Seq(States) /\ \E at : Picks(all, stateCount, S, q, at)
  <2> HIDE DEF S
  <2> QED BY <1>4, KeptMeans
<1> HIDE DEF q
<1>6. PICK at : Picks(all, stateCount, S, q, at)
  BY <1>5
<1>7. /\ DOMAIN q = 1 .. Len(q) /\ Len(q) \in Nat /\ at \in [1 .. Len(q) -> 1 .. stateCount]
      /\ \A i \in 1 .. Len(q) : q[i] = at[i] - 1 /\ q[i] \in S
      /\ \A i, j \in 1 .. Len(q) : i < j => at[i] < at[j]
      /\ \A i \in 1 .. stateCount : i - 1 \in S => \E j \in 1 .. Len(q) : at[j] = i
  <2>1. /\ at \in [1 .. Len(q) -> 1 .. stateCount]
        /\ \A i \in 1 .. Len(q) : q[i] = all[at[i]] /\ all[at[i]] \in S
        /\ \A i, j \in 1 .. Len(q) : i < j => at[i] < at[j]
        /\ \A i \in 1 .. stateCount : all[i] \in S => \E j \in 1 .. Len(q) : at[j] = i
    BY <1>6 DEF Picks
  <2> HIDE DEF S
  <2> QED BY <1>2, <1>5, <2>1
<1>8. \A i \in 1 .. Len(q) : q[i] \in States /\ Head(accState[q[i]]) \in 0 .. Len(patterns) - 1
  BY <1>7, ReadyAccepts
<1>9. DOMAIN fa = 1 .. Len(q) /\ \A i \in 1 .. Len(q) : fa[i] = <<q[i], Head(accState[q[i]])>>
  BY <1>3, <1>7
<1>10. fa \in Seq(Word \X Word)
  <2>1. \A i \in 1 .. Len(q) : fa[i] \in Word \X Word
    <3> SUFFICES ASSUME NEW i \in 1 .. Len(q) PROVE fa[i] \in Word \X Word
      OBVIOUS
    <3>1. q[i] \in Word /\ Head(accState[q[i]]) \in 0 .. Len(patterns) - 1
      BY <1>1, <1>8
    <3>2. PICK h : h = Head(accState[q[i]])
      OBVIOUS
    <3>3. h \in Word
      BY <1>1, <3>1, <3>2
    <3>4. fa[i] = <<q[i], h>>
      BY <1>9, <3>2
    <3> QED BY <3>1, <3>3, <3>4
  <2>2. fa \in [1 .. Len(q) -> Word \X Word]
    BY <1>3, <1>9, <2>1
  <2> QED BY <1>7, <2>2, FunctionIsSeq
<1>11. \A i \in DOMAIN fa : fa[i][1] = q[i] /\ fa[i][1] \in States /\ fa[i][2] \in 0 .. Len(patterns) - 1
  BY <1>8, <1>9
<1>12. \A i \in DOMAIN fa : accState[fa[i][1]] # <<>> /\ fa[i][2] = Head(accState[fa[i][1]])
  <2>1. \A i \in 1 .. Len(q) : accState[q[i]] # <<>>
    BY <1>7
  <2> HIDE DEF q, fa
  <2> QED BY <1>9, <2>1
<1>13. \A i, j \in 1 .. Len(q) : q[i] = q[j] => i = j
  <2> SUFFICES ASSUME NEW i \in 1 .. Len(q), NEW j \in 1 .. Len(q), q[i] = q[j] PROVE i = j
    OBVIOUS
  <2>1. at[i] \in Int /\ at[j] \in Int /\ at[i] = at[j]
    <3>1. at[i] \in 1 .. stateCount /\ at[j] \in 1 .. stateCount
      BY <1>7
    <3>2. at[i] - 1 = at[j] - 1
      <4>1. q[i] = at[i] - 1 /\ q[j] = at[j] - 1
        BY <1>7
      <4> QED BY <4>1
    <3>3. at[i] \in Int /\ at[j] \in Int
      BY <1>1, <3>1
    <3> HIDE DEF S
    <3> QED BY <3>2, <3>3
  <2>2. ~ i < j /\ ~ j < i
    BY <1>7, <2>1
  <2> QED BY <1>7, <2>2
<1>14. ASSUME NEW s \in States, accState[s] # <<>> PROVE \E i \in DOMAIN fa : fa[i][1] = s
  <2>1. s + 1 \in 1 .. stateCount /\ (s + 1) - 1 = s /\ s \in S
    BY <1>1, <1>14
  <2>2. PICK j \in 1 .. Len(q) : at[j] = s + 1
    BY <1>7, <2>1
  <2>3. q[j] = s
    BY <1>7, <2>1, <2>2
  <2> QED BY <1>9, <1>11, <2>2, <2>3
<1>15. ASSUME NEW i \in DOMAIN fa, NEW j \in DOMAIN fa, fa[i][1] = fa[j][1] PROVE i = j
  BY <1>9, <1>11, <1>13, <1>15
<1> QED BY <1>10, <1>11, <1>14, <1>15, <1>12 DEF fa

\* Every cell of the dense table is a state.
LEMMA TransAre ==
  ASSUME NEW w, Ready(w), ListsFit
  PROVE  \A i \in 1 .. stateCount * ByteCount :
           DenseTarget((i - 1) \div ByteCount, (i - 1) % ByteCount) \in States
<1>1. /\ TypeOK /\ Linking /\ Trie(w) /\ Shrinking(w) /\ \A t \in States \ {0} : FailOf(w, t)
      /\ stateCount \in Nat \ {0} /\ States = 0 .. stateCount - 1 /\ ByteCount \in Nat \ {0}
  BY ReadyNumbers DEF Ready
<1> SUFFICES ASSUME NEW i \in 1 .. stateCount * ByteCount
             PROVE  DenseTarget((i - 1) \div ByteCount, (i - 1) % ByteCount) \in States
  OBVIOUS
<1>2. stateCount * ByteCount \in Nat
  BY <1>1
<1>3. PICK d \in Nat : d = i - 1
  BY <1>2
<1>4. PICK b : b = d % ByteCount
  OBVIOUS
<1>5. PICK s : s = d \div ByteCount
  OBVIOUS
<1>6. s \in Int /\ b \in 0 .. ByteCount - 1 /\ d = ByteCount * s + b
  BY <1>1, <1>3, <1>4, <1>5
<1>7. d < stateCount * ByteCount
  BY <1>2, <1>3
<1>8. s >= 0
  <2> SUFFICES ASSUME s < 0 PROVE FALSE
    BY <1>6
  <2>1. ByteCount * s <= 0 - ByteCount
    BY <1>1, <1>6
  <2> QED BY <1>1, <1>3, <1>6, <2>1
<1>9. s < stateCount
  <2> SUFFICES ASSUME s >= stateCount PROVE FALSE
    BY <1>1, <1>6
  <2>1. ByteCount * s >= stateCount * ByteCount
    BY <1>1, <1>6
  <2> QED BY <1>1, <1>2, <1>6, <1>7, <2>1
<1>10. s \in States /\ b \in Byte
  BY <1>1, <1>6, <1>8, <1>9 DEF Byte
<1>11. DenseTarget(s, b) \in States
  BY <1>1, <1>10, DenseTargetFinds
<1> QED BY <1>3, <1>4, <1>5, <1>11

\* The parts of the program that is built.
LEMMA PartsAre ==
  ASSUME NEW w, Ready(w), ListsFit, NEW p, p = BuiltProgram
  PROVE  /\ p.states = stateCount /\ p.classes = ByteCount /\ p.lens = lengths /\ p.accepts = FinalAccepts
         /\ p.trans \in Seq(Word) /\ Len(p.trans) = stateCount * ByteCount
         /\ \A i \in DOMAIN p.trans : p.trans[i] \in States
         /\ p.links \in Seq(Word) /\ Len(p.links) = stateCount
         /\ \A s \in States : p.links[s + 1] = outputLink[s]
         /\ p = [states |-> stateCount, classes |-> ByteCount, trans |-> p.trans,
                 accepts |-> p.accepts, lens |-> p.lens, links |-> p.links]
<1>1. /\ stateCount \in Nat \ {0} /\ States = 0 .. stateCount - 1 /\ ByteCount \in Nat \ {0}
      /\ NONE \in Nat /\ Word = 0 .. NONE /\ \A s \in States : s \in Word
  BY ReadyNumbers
<1>2. stateCount * ByteCount \in Nat
  BY <1>1
<1>3. PICK trs : trs = [i \in 1 .. stateCount * ByteCount |->
                          DenseTarget((i - 1) \div ByteCount, (i - 1) % ByteCount)]
  OBVIOUS
<1>4. PICK lks : lks = [i \in 1 .. stateCount |-> outputLink[i - 1]]
  OBVIOUS
<1>5. p = [states |-> stateCount, classes |-> ByteCount, trans |-> trs,
           accepts |-> FinalAccepts, lens |-> lengths, links |-> lks]
  BY <1>3, <1>4 DEF BuiltProgram
<1>6. /\ p.states = stateCount /\ p.classes = ByteCount /\ p.lens = lengths /\ p.accepts = FinalAccepts
      /\ p.trans = trs /\ p.links = lks
  BY <1>5
<1>7. trs \in [1 .. stateCount * ByteCount -> States]
  BY <1>3, TransAre
<1>8. trs \in Seq(States) /\ Len(trs) = stateCount * ByteCount
  BY <1>2, <1>7, FunctionIsSeq
<1>9. trs \in Seq(Word)
  <2>1. States \subseteq Word
    BY <1>1
  <2> QED BY <1>8, <2>1, SeqGrows
<1>10. \A i \in DOMAIN trs : trs[i] \in States
  BY <1>8
<1>11. lks \in [1 .. stateCount -> Word]
  <2>1. outputLink \in [States -> States \cup {NONE}]
    BY LinkTypes DEF Ready
  <2>2. \A i \in 1 .. stateCount : i - 1 \in States
    BY <1>1
  <2>3. \A s \in States : outputLink[s] \in Word
    <3>1. NONE \in Word
      BY <1>1
    <3> QED BY <1>1, <2>1, <3>1
  <2> QED BY <1>4, <2>2, <2>3
<1>12. lks \in Seq(Word) /\ Len(lks) = stateCount
  BY <1>1, <1>11, FunctionIsSeq
<1>13. \A s \in States : lks[s + 1] = outputLink[s]
  <2> SUFFICES ASSUME NEW s \in States PROVE lks[s + 1] = outputLink[s]
    OBVIOUS
  <2>1. s + 1 \in 1 .. stateCount /\ (s + 1) - 1 = s
    BY <1>1
  <2> QED BY <1>4, <2>1
<1> QED BY <1>5, <1>6, <1>8, <1>9, <1>10, <1>12, <1>13

\* The link of a state, where there is one, leads to a state of a pattern whose
\* string is shorter.
LEMMA LinksShrink ==
  ASSUME NEW w, Ready(w), ListsFit, NEW s \in States, outputLink[s] # NONE
  PROVE  /\ outputLink[s] \in States /\ accState[outputLink[s]] # <<>>
         /\ Len(w[outputLink[s]]) < Len(w[s])
<1>1. /\ TypeOK /\ Trie(w) /\ Named(w) /\ Shrinking(w) /\ Linking /\ pid = Len(patterns)
      /\ OutputOf(w, s) /\ \A t \in States : AcceptOf(w, t)
  BY DEF Ready
<1>2. PICK r \in States :
        /\ IsLongest(w, PatternStates, w[fail[s]], r)
        /\ outputLink[s] = r /\ r # 0 /\ OwnPatterns(s) # <<>>
  BY <1>1 DEF OutputOf
<1>3. OwnPatterns(r) # <<>> /\ IsSuffix(w[r], w[fail[s]])
  BY <1>2 DEF IsLongest, PatternStates
<1>4. accState[r] # <<>>
  BY <1>1, <1>2, <1>3 DEF AcceptOf
<1>5. s # 0
  BY <1>1, <1>2, PatternStatesAre
<1>6. /\ \A t \in States : w[t] \in Text /\ Len(w[t]) \in Nat
      /\ fail[s] \in States
  BY <1>1, ChildIs, LinkTypes DEF Text
<1>7. Len(w[fail[s]]) < Len(w[s])
  BY <1>1, <1>5 DEF Shrinking
<1>8. Len(w[r]) <= Len(w[fail[s]])
  <2>1. w[r] \in Text /\ w[fail[s]] \in Text /\ IsSuffix(w[r], w[fail[s]])
    BY <1>3, <1>6
  <2> QED BY <2>1, SuffixOrder
<1>9. Len(w[r]) < Len(w[s])
  BY <1>2, <1>6, <1>7, <1>8
<1> QED BY <1>2, <1>4, <1>9

\* The checks of compile_with_output_links never refuse it.
LEMMA BuiltCompilable ==
  ASSUME NEW w, Ready(w), ListsFit
  PROVE  BuiltProgram \in ProgramType /\ Compilable(BuiltProgram)
<1>1. PICK p : p = BuiltProgram
  OBVIOUS
<1>2. /\ p.states = stateCount /\ p.classes = ByteCount /\ p.lens = lengths /\ p.accepts = FinalAccepts
      /\ p.trans \in Seq(Word) /\ Len(p.trans) = stateCount * ByteCount
      /\ \A i \in DOMAIN p.trans : p.trans[i] \in States
      /\ p.links \in Seq(Word) /\ Len(p.links) = stateCount
      /\ p = [states |-> stateCount, classes |-> ByteCount, trans |-> p.trans,
              accepts |-> p.accepts, lens |-> p.lens, links |-> p.links]
  BY <1>1, PartsAre
<1>3. /\ stateCount \in Nat \ {0} /\ ByteCount \in Nat \ {0} /\ States = 0 .. stateCount - 1
      /\ \A s \in States : s < Bit31
      /\ lengths \in Seq(Word) /\ Len(lengths) = Len(patterns) /\ Len(patterns) \in Nat
      /\ Bit31 \in Nat
  BY ReadyNumbers
<1>4. /\ p.accepts \in Seq(Word \X Word)
      /\ \A i \in DOMAIN p.accepts :
           /\ p.accepts[i][1] \in States /\ p.accepts[i][2] \in 0 .. Len(patterns) - 1
           /\ \A j \in DOMAIN p.accepts : p.accepts[i][1] = p.accepts[j][1] => i = j
  BY <1>2, FinalAcceptsAre
<1>5. p \in ProgramType
  <2>1. p.states \in Nat /\ p.classes \in Nat /\ p.lens \in Seq(Word)
    BY <1>2, <1>3
  <2> QED BY <1>2, <1>4, <2>1 DEF ProgramType
<1>6. \A i \in DOMAIN p.trans : Mask(p.trans[i]) < p.states /\ ~ p.trans[i] >= Bit31
  <2> SUFFICES ASSUME NEW i \in DOMAIN p.trans PROVE Mask(p.trans[i]) < p.states /\ ~ p.trans[i] >= Bit31
    OBVIOUS
  <2>1. p.trans[i] \in Nat /\ p.trans[i] < Bit31 /\ p.trans[i] < stateCount
    BY <1>2, <1>3
  <2> QED BY <1>2, <1>3, <2>1 DEF Mask
<1>7. \A i \in DOMAIN p.accepts :
        /\ p.accepts[i][1] < p.states /\ p.accepts[i][2] < Len(p.lens)
        /\ \A j \in DOMAIN p.accepts : p.accepts[i][1] = p.accepts[j][1] => i = j
  BY <1>2, <1>3, <1>4
<1>8. p.states # 0 /\ p.classes = ByteCount /\ Len(p.trans) = p.states * p.classes /\ Len(p.links) = p.states
  BY <1>2, <1>3
<1>9. Compilable(p)
  BY <1>6, <1>7, <1>8 DEF Compilable
<1> QED BY <1>1, <1>5, <1>9

\* What the scanners need of it holds as well.
LEMMA BuiltWellFormed ==
  ASSUME NEW w, Ready(w), ListsFit
  PROVE  WellFormed(BuiltProgram)
<1>1. PICK p : p = BuiltProgram
  OBVIOUS
<1>2. /\ p.states = stateCount /\ p.accepts = FinalAccepts
      /\ Len(p.links) = stateCount /\ \A s \in States : p.links[s + 1] = outputLink[s]
  BY <1>1, PartsAre
<1>3. /\ stateCount \in Nat \ {0} /\ States = 0 .. stateCount - 1 /\ NONE \in Nat
      /\ \A s \in States : s # NONE
      /\ Len(patterns) \in Nat /\ Len(patterns) <= NONE
  BY ReadyNumbers
<1>4. State(p) = States
  BY <1>2, <1>3 DEF State
<1>5. \A s \in States : OutputLink(p)[s] = outputLink[s]
  <2>1. \A s \in States : s < Len(p.links)
    BY <1>2, <1>3
  <2> QED BY <1>2, <1>4, <2>1 DEF OutputLink
<1>6. /\ \A i \in DOMAIN p.accepts :
           /\ p.accepts[i][1] \in States /\ p.accepts[i][2] \in 0 .. Len(patterns) - 1
      /\ \A s \in States : accState[s] # <<>> => \E i \in DOMAIN p.accepts : p.accepts[i][1] = s
  BY <1>2, FinalAcceptsAre
<1>7. \A s \in States : accState[s] # <<>> => AcceptPattern(p)[s] # NONE
  <2> SUFFICES ASSUME NEW s \in States, accState[s] # <<>> PROVE AcceptPattern(p)[s] # NONE
    OBVIOUS
  <2>1. PICK i \in DOMAIN p.accepts : p.accepts[i][1] = s
    BY <1>6
  <2>2. s \in AcceptStates(p)
    BY <2>1 DEF AcceptStates
  <2> DEFINE c == CHOOSE k \in DOMAIN p.accepts : p.accepts[k][1] = s
  <2>3. c \in DOMAIN p.accepts
    BY <2>1
  <2>4. AcceptPattern(p)[s] = p.accepts[c][2]
    BY <1>4, <2>2 DEF AcceptPattern
  <2> HIDE DEF c
  <2>5. p.accepts[c][2] \in 0 .. Len(patterns) - 1
    BY <1>6, <2>3
  <2> QED BY <1>3, <2>4, <2>5
<1>8. LinksAccept(p)
  <2> SUFFICES ASSUME NEW s \in States, outputLink[s] # NONE
               PROVE  outputLink[s] \in States /\ AcceptPattern(p)[outputLink[s]] # NONE
    BY <1>4, <1>5 DEF LinksAccept
  <2> QED BY <1>7, LinksShrink
<1>9. LinksDescend(p)
  <2> SUFFICES ASSUME NEW S \in SUBSET States, S # {} PROVE \E s \in S : outputLink[s] \notin S
    BY <1>4, <1>5 DEF LinksDescend
  <2> DEFINE depths == {Len(w[s]) : s \in S}
  <2>1. \A s \in States : Len(w[s]) \in Nat
    BY ChildIs DEF Ready, Text
  <2>2. depths \subseteq Nat /\ depths # {}
    BY <2>1
  <2>3. PICK m \in depths : \A n \in depths : m <= n
    <3> HIDE DEF depths
    <3> QED BY <2>2, LeastElement
  <2>4. PICK s \in S : Len(w[s]) = m
    BY <2>3
  <2>5. \A t \in S : Len(w[s]) <= Len(w[t])
    BY <2>3, <2>4
  <2>6. outputLink[s] \notin S
    <3> SUFFICES ASSUME outputLink[s] \in S PROVE FALSE
      OBVIOUS
    <3>1. outputLink[s] \in States /\ outputLink[s] # NONE /\ s \in States
      BY <1>3
    <3>2. Len(w[outputLink[s]]) < Len(w[s])
      BY <3>1, LinksShrink
    <3>3. Len(w[s]) <= Len(w[outputLink[s]])
      BY <2>5
    <3> QED BY <2>1, <3>1, <3>2, <3>3
  <2> QED BY <2>6
<1> QED BY <1>1, <1>8, <1>9, BuiltCompilable DEF WellFormed

\* Every construction ends as it should: an empty list and a trie of more than
\* MAX_STATES states are refused, and nothing else; a program that is returned
\* has all the scanners rely on, so its chains of output links end.  Pattern ids
\* fit in a u32.
THEOREM BuildsAreWellFormed == ASSUME ListsFit PROVE Spec => []BuildsWellFormed
<1>1. Init => BuildsWellFormed
  BY DEF Init, BuildsWellFormed
<1>2. Sound /\ BuildsWellFormed /\ [Next]_vars => BuildsWellFormed'
  <2> SUFFICES ASSUME Sound, BuildsWellFormed, [Next]_vars, phase' = "done"
               PROVE  IF patterns' = <<>> THEN result' = EmptyDfa
                      ELSE IF stateCount' > MaxStates THEN result' = TooMany
                      ELSE WellFormed(result')
    BY DEF BuildsWellFormed
  <2>1. PICK w : IInv(w)
    BY DEF Sound
  <2>2. CASE UNCHANGED vars
    BY <2>2 DEF BuildsWellFormed, vars, trieVars
  <2>3. CASE RejectEmpty
    BY <2>3 DEF RejectEmpty
  <2>4. CASE BuildTable
    <3>1. /\ phase = "table" /\ patterns' = patterns /\ stateCount' = stateCount
          /\ result' = IF stateCount > MaxStates THEN TooMany
                       ELSE IF Compilable(BuiltProgram) THEN BuiltProgram ELSE InvalidTable
      BY <2>4 DEF BuildTable, trieVars
    <3>2. patterns # <<>> /\ Linking
      BY <2>1, <3>1 DEF IInv, Control, Linking
    <3>3. CASE stateCount > MaxStates
      BY <3>1, <3>2, <3>3
    <3>4. CASE ~ stateCount > MaxStates
      <4>1. Ready(w)
        <5>1. stateCount <= MaxStates
          BY <2>1, <3>4, MaxStatesAssumption DEF IInv, TypeOK
        <5> QED BY <2>1, <3>1, <3>2, <5>1 DEF IInv, Control, Ready, Linking
      <4>2. WellFormed(BuiltProgram) /\ Compilable(BuiltProgram)
        BY <4>1, BuiltWellFormed, BuiltCompilable
      <4> QED BY <3>1, <3>2, <3>4, <4>2
    <3> QED BY <3>3, <3>4
  <2>5. CASE FollowByte \/ NewState \/ FinishPattern
    <3>1. phase = "insert" /\ phase' = phase
      BY <2>5 DEF FollowByte, NewState, AddState, FinishPattern, FinishAt, Inserting
    <3> QED BY <3>1
  <2>6. CASE StartLinks \/ BfsStep \/ EndBfs \/ LinkState \/ EndLink \/ PropagateState \/ EndPropagate
    <3>1. phase' # "done"
      BY <2>6 DEF StartLinks, BfsStep, ExpandHead, EndBfs, LinkState, LinkTo, EndLink,
                  PropagateState, PropagateFrom, EndPropagate
    <3> QED BY <3>1
  <2> QED BY <2>2, <2>3, <2>4, <2>5, <2>6 DEF Next
<1> QED BY <1>1, <1>2, AlwaysSound, PTL DEF Spec

------------------------------------------------------------------------------
(***************************************************************************)
(* The program that was built, seen from the strings: in every state it    *)
(* reports the longest pattern that ends the state's string, and the links *)
(* of a pattern's state lead through the shorter patterns that end the     *)
(* pattern.                                                                *)
(***************************************************************************)

\* The pattern the program reports in state s is the longest that ends its string.
ReportsOf(w, s) ==
  \E r \in States :
    /\ IsLongest(w, PatternStates, w[s], r)
    /\ s \in AcceptStates(result) <=> r # 0
    /\ r # 0 => AcceptPattern(result)[s] = IdOf(w[r])

\* The link of the program leads from a pattern's state to the longest pattern that
\* ends the pattern and is shorter.
LeadsOn(w, s) ==
  IF w[s] \in NonEmpty
  THEN \E r \in States : /\ IsLongest(w, PatternStates, Tail(w[s]), r)
                         /\ OutputLink(result)[s] = IF r = 0 THEN NONE ELSE r
  ELSE OutputLink(result)[s] = NONE

\* The program that was built.
Built(w) ==
  /\ phase = "done" /\ pid = Len(patterns) /\ Len(patterns) <= NONE
  /\ WellFormed(result) /\ SentinelFree(result)
  /\ State(result) = States /\ result.classes = ByteCount
  /\ result.lens = lengths
  /\ \A i \in DOMAIN result.trans : Mask(result.trans[i]) = result.trans[i]
  /\ \A s \in States : s # NONE /\ ReportsOf(w, s) /\ LeadsOn(w, s)

\* It is what the last step hands on.
LEMMA TableIsBuilt ==
  ASSUME ListsFit, NEW w, IInv(w), BuildTable, HasProgram'
  PROVE  Built(w)'
<1>1. /\ UNCHANGED <<patterns, trieVars>> /\ phase = "table" /\ phase' = "done"
      /\ stateCount <= MaxStates /\ result' = BuiltProgram
  <2>1. /\ UNCHANGED <<patterns, trieVars>> /\ phase = "table" /\ phase' = "done"
        /\ result' = IF stateCount > MaxStates THEN TooMany
                     ELSE IF Compilable(BuiltProgram) THEN BuiltProgram ELSE InvalidTable
    BY DEF BuildTable
  <2>2. stateCount \in Nat /\ MaxStates \in Nat
    BY MaxStatesAssumption DEF IInv, TypeOK
  <2> QED BY <2>1, <2>2 DEF HasProgram
<1>2. Ready(w)
  BY <1>1 DEF IInv, Control, Ready, Linking
<1>3. PICK p : p = BuiltProgram
  OBVIOUS
<1>4. /\ TypeOK /\ Trie(w) /\ Named(w) /\ Shrinking(w) /\ Linking /\ pid = Len(patterns)
      /\ \A t \in States \ {0} : FailOf(w, t)
      /\ \A t \in States : OutputOf(w, t) /\ AcceptOf(w, t)
  BY <1>2 DEF Ready
<1>5. /\ stateCount \in Nat \ {0} /\ States = 0 .. stateCount - 1 /\ NONE \in Nat
      /\ \A s \in States : s # NONE /\ s < Bit31
      /\ Len(patterns) \in Nat /\ Len(patterns) <= NONE
  BY <1>2, ReadyNumbers
<1>6. /\ p.states = stateCount /\ p.classes = ByteCount /\ p.lens = lengths /\ p.accepts = FinalAccepts
      /\ \A i \in DOMAIN p.trans : p.trans[i] \in States
      /\ Len(p.links) = stateCount /\ \A s \in States : p.links[s + 1] = outputLink[s]
  BY <1>2, <1>3, PartsAre
<1>7. State(p) = States
  BY <1>5, <1>6 DEF State
<1>8. \A s \in States : OutputLink(p)[s] = outputLink[s]
  <2>1. \A s \in States : s < Len(p.links)
    BY <1>5, <1>6
  <2> QED BY <1>6, <1>7, <2>1 DEF OutputLink
<1>9. /\ \A i \in DOMAIN p.accepts :
           /\ p.accepts[i][1] \in States /\ p.accepts[i][2] \in 0 .. Len(patterns) - 1
           /\ accState[p.accepts[i][1]] # <<>> /\ p.accepts[i][2] = Head(accState[p.accepts[i][1]])
      /\ \A s \in States : accState[s] # <<>> => \E i \in DOMAIN p.accepts : p.accepts[i][1] = s
  BY <1>2, <1>6, FinalAcceptsAre
<1>10. SentinelFree(p)
  <2>1. \A n \in 0 .. Len(patterns) - 1 : n # NONE
    BY <1>5
  <2> QED BY <1>9, <2>1 DEF SentinelFree
<1>11. \A i \in DOMAIN p.trans : Mask(p.trans[i]) = p.trans[i]
  <2>1. \A s \in States : s \in 0 .. Bit31 - 1
    BY <1>5, Bit31Assumption
  <2>2. \A s \in States : Mask(s) = s
    BY <2>1, MaskFlagged
  <2> QED BY <1>6, <2>2
<1>12. ASSUME NEW s \in States
       PROVE  /\ s \in AcceptStates(p) <=> accState[s] # <<>>
              /\ s \in AcceptStates(p) => AcceptPattern(p)[s] = Head(accState[s])
  <2>1. s \in AcceptStates(p) <=> \E i \in DOMAIN p.accepts : p.accepts[i][1] = s
    BY DEF AcceptStates
  <2>2. s \in AcceptStates(p) <=> accState[s] # <<>>
    BY <1>9, <2>1
  <2>3. ASSUME s \in AcceptStates(p) PROVE AcceptPattern(p)[s] = Head(accState[s])
    <3> DEFINE c == CHOOSE k \in DOMAIN p.accepts : p.accepts[k][1] = s
    <3>1. c \in DOMAIN p.accepts /\ p.accepts[c][1] = s
      BY <2>1, <2>3
    <3>2. AcceptPattern(p)[s] = p.accepts[c][2]
      BY <1>7, <2>3 DEF AcceptPattern
    <3> HIDE DEF c
    <3> QED BY <1>9, <3>1, <3>2
  <2> QED BY <2>2, <2>3
<1>13. WellFormed(p)
  BY <1>2, <1>3, BuiltWellFormed
<1>14. /\ States' = States /\ PatternStates' = PatternStates /\ patterns' = patterns /\ pid' = pid
       /\ lengths' = lengths /\ result' = p /\ NonEmpty' = NonEmpty
       /\ \A q : IdOf(q)' = IdOf(q)
  <2>1. States' = States /\ PatternStates' = PatternStates
    BY <1>1, TrieStays
  <2>2. patterns' = patterns /\ pid' = pid /\ lengths' = lengths
    BY <1>1 DEF trieVars
  <2>3. NonEmpty' = NonEmpty
    BY <2>2 DEF NonEmpty, ToSet
  <2>4. \A q : IdOf(q)' = IdOf(q)
    BY <2>2 DEF IdOf, SelectInSeq
  <2> QED BY <1>1, <1>3, <2>1, <2>2, <2>3, <2>4
<1>15. \A Q, v, r : IsLongest(w, Q, v, r)' <=> IsLongest(w, Q, v, r)
  BY DEF IsLongest
<1>16. ASSUME NEW s \in States PROVE ReportsOf(w, s)'
  <2>1. PICK r \in States :
          /\ IsLongest(w, PatternStates, w[s], r)
          /\ IF r = 0 THEN accState[s] = <<>>
             ELSE accState[s] # <<>> /\ Head(accState[s]) = IdOf(w[r])
    BY <1>4, AcceptIs
  <2> QED BY <1>12, <1>14, <2>1 DEF ReportsOf, IsLongest
<1>17. ASSUME NEW s \in States PROVE LeadsOn(w, s)'
  <2>1. CASE w[s] \in NonEmpty
    <3>1. PICK r \in States : /\ IsLongest(w, PatternStates, Tail(w[s]), r)
                              /\ outputLink[s] = IF r = 0 THEN NONE ELSE r
      BY <1>4, <2>1, OutputIs
    <3> QED BY <1>8, <1>14, <2>1, <3>1 DEF LeadsOn, IsLongest
  <2>2. CASE w[s] \notin NonEmpty
    <3>1. OwnPatterns(s) = <<>>
      BY <1>4, <2>2, PatternStatesAre
    <3>2. outputLink[s] = NONE
      BY <1>4, <3>1 DEF OutputOf
    <3> QED BY <1>8, <1>14, <2>2, <3>2 DEF LeadsOn
  <2> QED BY <2>1, <2>2
<1> QED BY <1>1, <1>4, <1>5, <1>6, <1>7, <1>10, <1>11, <1>13, <1>14, <1>16, <1>17 DEF Built

\* The strings of the states exist, the invariant holds of them, and so does what
\* the program owes them once there is one.
SoundlyBuilt == \E w : IInv(w) /\ (HasProgram => Built(w))

\* A construction that has ended makes no further step.
LEMMA DoneStays == phase = "done" => ~ Next
BY DEF Next, RejectEmpty, FollowByte, NewState, AddState, FinishPattern, FinishAt, Inserting,
       StartLinks, BfsStep, ExpandHead, EndBfs, LinkState, LinkTo, EndLink,
       PropagateState, PropagateFrom, EndPropagate, BuildTable

\* Both are kept by every step of the construction.
LEMMA BuiltStep == ASSUME ListsFit PROVE SoundlyBuilt /\ [Next]_vars => SoundlyBuilt'
<1> SUFFICES ASSUME NEW w, IInv(w), HasProgram => Built(w), [Next]_vars
             PROVE  \E v : IInv(v)' /\ (HasProgram' => Built(v)')
  BY DEF SoundlyBuilt
<1>1. CASE ~ HasProgram'
  BY <1>1, NextIInv
<1>2. CASE HasProgram' /\ BuildTable
  BY <1>2, BuildTableStep, TableIsBuilt
<1>3. CASE HasProgram' /\ ~ BuildTable
  <2>1. UNCHANGED vars
    <3> SUFFICES ASSUME Next PROVE FALSE
      OBVIOUS
    <3>1. phase # "done"
      BY DoneStays
    <3>2. result = Pending
      BY <3>1 DEF IInv, Control
    <3>3. result' = Pending \/ result' = EmptyDfa
      BY <1>3, <3>2 DEF Next, RejectEmpty, FollowByte, NewState, AddState, FinishPattern, FinishAt,
                  StartLinks, BfsStep, ExpandHead, EndBfs, LinkState, LinkTo, EndLink,
                  PropagateState, PropagateFrom, EndPropagate
    <3> QED BY <1>3, <3>3 DEF HasProgram
  <2>2. HasProgram
    BY <1>3, <2>1 DEF HasProgram, vars
  <2>3. IInv(w)' /\ Built(w)'
    <3>1. /\ UNCHANGED <<patterns, trieVars>> /\ UNCHANGED linkVars /\ UNCHANGED result /\ phase' = phase
      BY <2>1 DEF vars
    <3>2. /\ States' = States /\ PatternStates' = PatternStates /\ patterns' = patterns /\ pid' = pid
          /\ lengths' = lengths /\ result' = result /\ NonEmpty' = NonEmpty /\ phase' = phase
      <4>1. States' = States /\ PatternStates' = PatternStates
        BY <3>1, TrieStays
      <4>2. patterns' = patterns /\ pid' = pid /\ lengths' = lengths
        BY <3>1 DEF trieVars
      <4> QED BY <3>1, <4>1, <4>2 DEF NonEmpty, ToSet
    <3>3. \A q : IdOf(q)' = IdOf(q)
      BY <3>2 DEF IdOf, SelectInSeq
    <3>4. \A s \in States : ReportsOf(w, s)' <=> ReportsOf(w, s)
      BY <3>2, <3>3 DEF ReportsOf, IsLongest
    <3>5. \A s \in States : LeadsOn(w, s)' <=> LeadsOn(w, s)
      BY <3>2 DEF LeadsOn, IsLongest
    <3>6. Built(w)'
      BY <2>2, <3>2, <3>4, <3>5 DEF Built
    <3> QED BY <2>1, <3>6, UnchangedStep
  <2> QED BY <2>3
<1> QED BY <1>1, <1>2, <1>3

\* What the invariant says of the strings once there is a program.
LEMMA BuiltFacts ==
  ASSUME NEW w, IInv(w), Built(w)
  PROVE  /\ TypeOK /\ Trie(w) /\ Named(w) /\ pid = Len(patterns) /\ 0 \in States
         /\ \A s \in States : /\ w[s] \in Text /\ Len(w[s]) \in Nat /\ (w[s] = <<>> <=> s = 0) /\ s # NONE
                              /\ (s \in PatternStates <=> s = 0 \/ w[s] \in NonEmpty)
         /\ \A p \in NonEmpty : p \in Text /\ p # <<>> /\ Len(p) \in Nat \ {0} /\ \E s \in States : w[s] = p
         /\ \A s, t \in States : w[s] = w[t] => s = t
<1>1. TypeOK /\ Trie(w) /\ Named(w) /\ pid = Len(patterns)
  BY DEF IInv, Built
<1>2. \A s \in States : w[s] \in Text /\ Len(w[s]) \in Nat /\ (w[s] = <<>> <=> s = 0) /\ s # NONE
  BY <1>1, ChildIs DEF Built, Text
<1>3. \A s \in States : s \in PatternStates <=> s = 0 \/ w[s] \in NonEmpty
  BY <1>1, PatternStatesAre DEF PatternStates
<1>4. \A p \in NonEmpty : p # <<>> /\ \E s \in States : w[s] = p
  BY <1>1, PatternStatesAre DEF NonEmpty
<1>5. \A p \in NonEmpty : p \in Text /\ p # <<>> /\ Len(p) \in Nat \ {0} /\ \E s \in States : w[s] = p
  <2> SUFFICES ASSUME NEW p \in NonEmpty PROVE p \in Text /\ p # <<>> /\ Len(p) \in Nat \ {0}
    BY <1>4
  <2>1. p \in Seq(Byte) /\ p # <<>>
    BY <1>2, <1>4 DEF Text
  <2> QED BY <2>1 DEF Text
<1> QED BY <1>1, <1>2, <1>3, <1>5, TrieTypes DEF Trie

\* Where the link of a pattern's state leads.
LEMMA LinkIs ==
  ASSUME NEW w, IInv(w), Built(w), NEW s \in States, w[s] \in NonEmpty
  PROVE  LET l == OutputLink(result)[s]
         IN  IF l = NONE THEN \A e \in NonEmpty : IsSuffix(e, w[s]) => Len(e) >= Len(w[s])
             ELSE /\ l \in States /\ w[l] \in NonEmpty /\ IsSuffix(w[l], w[s])
                  /\ Len(w[l]) < Len(w[s])
                  /\ \A e \in NonEmpty : IsSuffix(e, w[s]) /\ Len(e) < Len(w[s]) => Len(e) <= Len(w[l])
<1> DEFINE l == OutputLink(result)[s]
           v == w[s]
<1>1. PICK r \in States : IsLongest(w, PatternStates, Tail(v), r) /\ l = IF r = 0 THEN NONE ELSE r
  BY DEF Built, LeadsOn
<1>2. /\ v \in Text /\ v # <<>> /\ r # NONE /\ w[r] \in Text /\ Len(w[r]) \in Nat
      /\ r # 0 => w[r] \in NonEmpty
      /\ r = 0 => Len(w[r]) = 0
      /\ IsSuffix(w[r], Tail(v))
  BY <1>1, BuiltFacts DEF IsLongest
<1>3. \A u \in Text : IsSuffix(u, Tail(v)) <=> IsSuffix(u, v) /\ u # v
  BY <1>2, ProperSuffix
<1>4. /\ \A u \in Text : IsSuffix(u, v) => Len(u) <= Len(v) /\ (Len(u) = Len(v) => u = v)
      /\ Len(v) \in Nat
  BY <1>2, SuffixOrder DEF Text
<1>5. ASSUME NEW e \in NonEmpty, IsSuffix(e, v), Len(e) < Len(v) PROVE Len(e) <= Len(w[r])
  <2>1. e \in Text /\ \E t \in States : t \in PatternStates /\ w[t] = e
    BY BuiltFacts
  <2>2. IsSuffix(e, Tail(v))
    BY <1>3, <1>4, <1>5, <2>1
  <2> QED BY <1>1, <2>1, <2>2 DEF IsLongest
<1>6. IsSuffix(w[r], v) /\ Len(w[r]) < Len(v)
  BY <1>2, <1>3, <1>4
<1>7. \A e \in NonEmpty : e \in Text /\ Len(e) \in Nat \ {0}
  BY BuiltFacts
<1>8. CASE r = 0
  <2>1. \A e \in NonEmpty : IsSuffix(e, v) => Len(e) >= Len(v)
    BY <1>2, <1>4, <1>5, <1>7, <1>8
  <2> QED BY <1>1, <1>8, <2>1
<1>9. CASE r # 0
  BY <1>1, <1>2, <1>5, <1>6, <1>9
<1> QED BY <1>8, <1>9

\* The chain of a pattern's state goes through the patterns that end the pattern,
\* longest first.
LEMMA ChainIsEnding ==
  ASSUME NEW w, IInv(w), Built(w), NEW r \in States, w[r] \in NonEmpty,
         NEW c, c = OutputsOf(result)[r]
  PROVE  /\ c \in Seq(States) /\ Len(c) \in Nat /\ Len(c) >= 1 /\ c[1] = r
         /\ \A k \in 1 .. Len(c) : w[c[k]] \in NonEmpty /\ IsSuffix(w[c[k]], w[r])
         /\ Ending(w[r]) = [k \in 1 .. Len(c) |-> w[c[k]]]
<1> DEFINE n == Len(c)
           q == [k \in 1 .. n |-> w[c[k]]]
           E == {p \in NonEmpty : IsSuffix(p, w[r])}
<1>1. /\ c \in Seq(States) /\ n >= 1 /\ c[1] = r /\ n \in Nat
      /\ \A k \in 1 .. n : c[k] \in States
      /\ \A k \in 1 .. n : OutputLink(result)[c[k]] = IF k = n THEN NONE ELSE c[k + 1]
  <2>1. IsChain(result, r, c)
    BY OutputsAreChains DEF Built
  <2>2. c \in Seq(States)
    BY <2>1 DEF IsChain, Built
  <2> QED BY <2>1, <2>2 DEF IsChain
<1>2. /\ \A s \in States : w[s] \in Text /\ s # NONE /\ Len(w[s]) \in Nat
      /\ \A p \in NonEmpty : p \in Text /\ Len(p) \in Nat
  BY BuiltFacts
<1> HIDE DEF n
<1>3. \A k \in 1 .. n : q[k] = w[c[k]]
  OBVIOUS
<1>4. ASSUME NEW k \in 1 .. n, k # n, q[k] \in E
      PROVE  /\ k + 1 \in 1 .. n /\ q[k + 1] \in E /\ Len(q[k + 1]) < Len(q[k])
             /\ \A e \in E : Len(e) < Len(q[k]) => Len(e) <= Len(q[k + 1])
  <2>1. k + 1 \in 1 .. n
    BY <1>1, <1>4
  <2>2. OutputLink(result)[c[k]] = c[k + 1] /\ c[k + 1] # NONE /\ c[k] \in States /\ c[k + 1] \in States
    BY <1>1, <1>2, <1>4, <2>1
  <2>3. /\ w[c[k + 1]] \in NonEmpty /\ IsSuffix(w[c[k + 1]], w[c[k]])
        /\ Len(w[c[k + 1]]) < Len(w[c[k]])
        /\ \A e \in NonEmpty : IsSuffix(e, w[c[k]]) /\ Len(e) < Len(w[c[k]]) => Len(e) <= Len(w[c[k + 1]])
    BY <1>3, <1>4, <2>2, LinkIs
  <2>4. /\ w[c[k]] \in Text /\ w[c[k + 1]] \in Text /\ w[r] \in Text /\ IsSuffix(w[c[k]], w[r])
        /\ Len(w[c[k]]) \in Nat
    BY <1>2, <1>4, <2>2
  <2>5. IsSuffix(w[c[k + 1]], w[r])
    BY <2>3, <2>4, SuffixOrder
  <2>6. ASSUME NEW e \in E, Len(e) < Len(w[c[k]]) PROVE Len(e) <= Len(w[c[k + 1]])
    <3>1. e \in Text /\ IsSuffix(e, w[r]) /\ Len(e) \in Nat /\ e \in NonEmpty /\ Len(e) <= Len(w[c[k]])
      BY <1>2, <2>4, <2>6
    <3>2. IsSuffix(e, w[c[k]])
      BY <2>4, <3>1, SuffixOrder
    <3> QED BY <2>3, <2>6, <3>1, <3>2
  <2> HIDE DEF q
  <2> QED BY <1>3, <2>1, <2>3, <2>5, <2>6
<1>5. q[1] \in E /\ 1 \in 1 .. n /\ q[1] = w[r]
  <2>1. IsSuffix(w[r], w[r])
    BY <1>2, SuffixOrder
  <2> QED BY <1>1, <2>1
<1>6. \A k \in 1 .. n : q[k] \in E
  <2> DEFINE S == {m \in 0 .. n - 1 : q[m + 1] \in E}
  <2>1. 0 \in S
    BY <1>1, <1>5
  <2>2. ASSUME NEW m \in 0 .. (n - 1) - 1, m \in S PROVE m + 1 \in S
    <3>1. m + 1 \in 1 .. n /\ m + 1 # n /\ m + 1 \in 0 .. n - 1 /\ q[m + 1] \in E
      BY <1>1, <2>2
    <3> QED BY <1>4, <3>1
  <2> HIDE DEF S
  <2>3. \A m \in 0 .. n - 1 : m \in S
    BY <1>1, <2>1, <2>2, InductionUpTo
  <2>4. ASSUME NEW k \in 1 .. n PROVE q[k] \in E
    <3>1. k - 1 \in 0 .. n - 1 /\ (k - 1) + 1 = k
      BY <1>1
    <3>2. k - 1 \in S
      BY <2>3, <3>1
    <3> HIDE DEF q, E
    <3> QED BY <3>1, <3>2 DEF S
  <2> QED BY <2>4
<1>7. \A k \in 1 .. n : Len(q[k]) \in Nat /\ q[k] \in Text /\ q[k] \in NonEmpty /\ IsSuffix(q[k], w[r])
  BY <1>2, <1>6
<1>8. \A i, j \in 1 .. n : i < j => Len(q[j]) < Len(q[i])
  <2> HIDE DEF q, E
  <2> DEFINE S == {m \in 0 .. n : \A i \in 1 .. n : i < m => Len(q[m]) < Len(q[i])}
  <2>1. 0 \in S
    BY <1>1
  <2>2. ASSUME NEW m \in 0 .. n - 1, m \in S PROVE m + 1 \in S
    <3> SUFFICES ASSUME NEW i \in 1 .. n, i < m + 1 PROVE Len(q[m + 1]) < Len(q[i])
      BY <1>1
    <3>1. m \in 1 .. n /\ m # n /\ m + 1 \in 1 .. n
      BY <1>1
    <3>2. Len(q[m + 1]) < Len(q[m])
      BY <1>4, <1>6, <3>1
    <3>3. i = m \/ Len(q[m]) < Len(q[i])
      BY <2>2, <1>1
    <3> QED BY <1>7, <3>1, <3>2, <3>3
  <2>3. \A m \in 0 .. n : m \in S
    <3> HIDE DEF S
    <3> QED BY <1>1, <2>1, <2>2, InductionUpTo
  <2> QED BY <2>3
<1>9. ASSUME NEW e \in E PROVE \E i \in 1 .. n : q[i] = e
  <2>1. e \in Text /\ Len(e) \in Nat /\ IsSuffix(e, w[r])
    BY <1>2
  <2> DEFINE K == {k \in 0 .. n : k \in 1 .. n /\ Len(q[k]) >= Len(e)}
  <2>2. 1 \in K
    <3>1. Len(e) <= Len(w[r])
      BY <1>2, <2>1, SuffixOrder
    <3> QED BY <1>1, <1>2, <1>5, <2>1, <3>1
  <2>3. PICK m \in K : \A k \in K : k <= m
    <3>1. K \subseteq 0 .. n /\ K # {} /\ n \in Nat
      BY <1>1, <2>2
    <3> HIDE DEF K
    <3> QED BY <3>1, BoundedGreatest
  <2>4. m \in 1 .. n /\ Len(q[m]) >= Len(e)
    OBVIOUS
  <2> HIDE DEF q
  <2>5. CASE Len(q[m]) = Len(e)
    <3>1. e = q[m]
      <4>1. Len(e) <= Len(q[m]) /\ q[m] \in Text /\ IsSuffix(q[m], w[r]) /\ w[r] \in Text
        BY <1>2, <1>7, <2>1, <2>4, <2>5
      <4>2. IsSuffix(e, q[m])
        BY <2>1, <4>1, SuffixOrder
      <4> QED BY <2>1, <2>5, <4>1, <4>2, SuffixOrder
    <3> QED BY <2>4, <3>1
  <2>6. CASE Len(q[m]) # Len(e)
    <3>1. Len(e) < Len(q[m])
      BY <1>7, <2>1, <2>4, <2>6
    <3>2. CASE m # n
      <4>1. m + 1 \in 1 .. n /\ Len(e) <= Len(q[m + 1])
        BY <1>4, <1>6, <2>4, <3>1, <3>2
      <4>2. m + 1 \in K
        BY <1>1, <1>7, <2>1, <4>1
      <4> QED BY <1>1, <2>3, <2>4, <4>2
    <3>3. CASE m = n
      <4>1. OutputLink(result)[c[m]] = NONE /\ c[m] \in States /\ q[m] = w[c[m]]
        BY <1>1, <1>3, <2>4, <3>3
      <4>2. w[c[m]] \in NonEmpty
        BY <1>7, <2>4, <4>1
      <4>3. \A d \in NonEmpty : IsSuffix(d, w[c[m]]) => Len(d) >= Len(w[c[m]])
        BY <4>1, <4>2, LinkIs
      <4>4. IsSuffix(e, w[c[m]])
        <5>1. /\ Len(e) <= Len(q[m]) /\ q[m] \in Text /\ IsSuffix(q[m], w[r]) /\ w[r] \in Text
          BY <1>2, <1>7, <2>1, <2>4
        <5> QED BY <2>1, <4>1, <5>1, SuffixOrder
      <4> QED BY <1>7, <2>1, <2>4, <3>1, <4>1, <4>3, <4>4
    <3> QED BY <3>2, <3>3
  <2> QED BY <2>5, <2>6
<1>10. Ending(w[r]) = q
  <2>1. E \in SUBSET Text
    BY <1>2
  <2>2. q \in [1 .. n -> E]
    BY <1>6
  <2> HIDE DEF q, E
  <2>3. [k \in 1 .. Cardinality(E) |->
           CHOOSE p \in E : Cardinality({e \in E : Len(e) >= Len(p)}) = k] = q
    BY <1>1, <1>8, <1>9, <2>1, <2>2, ListedByLength
  <2> QED BY <2>3 DEF Ending, E
<1> QED BY <1>1, <1>7, <1>10 DEF n

------------------------------------------------------------------------------
(***************************************************************************)
(* What is reported where a segment of the input ends.                     *)
(***************************************************************************)

\* Only one state has the longest string.
LEMMA OneLongest ==
  ASSUME NEW w, IInv(w), Built(w), NEW Q \in SUBSET States, NEW v \in Text,
         NEW r, IsLongest(w, Q, v, r), NEW s, IsLongest(w, Q, v, s)
  PROVE  r = s
<1>1. r \in States /\ s \in States /\ w[r] \in Text /\ w[s] \in Text
  BY BuiltFacts DEF IsLongest
<1>2. /\ IsSuffix(w[r], v) /\ IsSuffix(w[s], v) /\ Len(w[r]) <= Len(w[s]) /\ Len(w[s]) <= Len(w[r])
      /\ Len(w[r]) \in Nat /\ Len(w[s]) \in Nat
  BY <1>1, BuiltFacts DEF IsLongest
<1>3. IsSuffix(w[r], w[s])
  BY <1>1, <1>2, SuffixOrder
<1>4. w[r] = w[s]
  <2>1. Len(w[r]) = Len(w[s])
    BY <1>2
  <2> QED BY <1>1, <1>3, <2>1, SuffixOrder
<1> QED BY <1>1, <1>4, BuiltFacts

\* The state of a pattern reports the pattern.
LEMMA OwnReport ==
  ASSUME NEW w, IInv(w), Built(w), NEW s \in States, w[s] \in NonEmpty
  PROVE  /\ IsLongest(w, PatternStates, w[s], s)
         /\ s \in AcceptStates(result) /\ AcceptPattern(result)[s] = IdOf(w[s])
<1>1. /\ w[s] \in Text /\ s \in PatternStates /\ s # 0 /\ PatternStates \in SUBSET States
  <2>1. \A t \in PatternStates : t \in States
    BY BuiltFacts DEF PatternStates
  <2>2. w[s] # <<>>
    BY DEF NonEmpty
  <2> QED BY <2>1, <2>2, BuiltFacts
<1>2. IsLongest(w, PatternStates, w[s], s)
  <2>1. \A t \in PatternStates : w[t] \in Text
    BY <1>1, BuiltFacts
  <2> QED BY <1>1, <2>1, SuffixOrder DEF IsLongest
<1>3. PICK r \in States :
        /\ IsLongest(w, PatternStates, w[s], r)
        /\ s \in AcceptStates(result) <=> r # 0
        /\ r # 0 => AcceptPattern(result)[s] = IdOf(w[r])
  BY DEF Built, ReportsOf
<1>4. r = s
  BY <1>1, <1>2, <1>3, OneLongest
<1> QED BY <1>1, <1>2, <1>3, <1>4

\* The strings of the states are the prefixes of the patterns.
LEMMA BegunAre ==
  ASSUME NEW w, IInv(w), Built(w)
  PROVE  /\ \A u \in PrefixStrings : \E s \in States : w[s] = u
         /\ \A s \in States \ {0} : w[s] \in PrefixStrings
<1>1. phase # "insert" /\ Paths = w
  BY BuiltFacts, PathsAre DEF Built
<1>2. {w[s] : s \in States} = PrefixStrings \cup {<<>>}
  BY <1>1, SoundTrie DEF Sound, TrieIsPrefixTree
<1>3. \A s \in States : w[s] = <<>> <=> s = 0
  BY BuiltFacts
<1>4. \A u : u \in {w[s] : s \in States} <=> \E s \in States : w[s] = u
  OBVIOUS
<1>5. \A u : u \in PrefixStrings \cup {<<>>} <=> u \in PrefixStrings \/ u = <<>>
  OBVIOUS
<1> QED BY <1>2, <1>3, <1>4, <1>5

\* Only the patterns that end a string matter for what is reported there.
LEMMA SameEnding ==
  ASSUME NEW u, NEW v, \A p \in NonEmpty : IsSuffix(p, u) <=> IsSuffix(p, v)
  PROVE  Ending(u) = Ending(v)
<1> DEFINE Listed(E) ==
             [k \in 1 .. Cardinality(E) |->
                CHOOSE p \in E : Cardinality({q \in E : Len(q) >= Len(p)}) = k]
<1>1. {p \in NonEmpty : IsSuffix(p, u)} = {p \in NonEmpty : IsSuffix(p, v)}
  OBVIOUS
<1>2. /\ Ending(u) = Listed({p \in NonEmpty : IsSuffix(p, u)})
      /\ Ending(v) = Listed({p \in NonEmpty : IsSuffix(p, v)})
  BY DEF Ending
<1> HIDE DEF Listed
<1> QED BY <1>1, <1>2

\* Nothing is listed when none of them does.
LEMMA NoneEnds ==
  ASSUME NEW v, {p \in NonEmpty : IsSuffix(p, v)} = {}
  PROVE  Ending(v) = <<>>
<1> DEFINE Nth(E, k) == CHOOSE p \in E : Cardinality({q \in E : Len(q) >= Len(p)}) = k
           Listed(E) == [k \in 1 .. Cardinality(E) |-> Nth(E, k)]
<1>1. Ending(v) = Listed({p \in NonEmpty : IsSuffix(p, v)})
  BY DEF Ending
<1> HIDE DEF Nth
<1>2. Listed({}) = [k \in 1 .. 0 |-> Nth({}, k)]
  BY FS_EmptySet
<1>3. [k \in 1 .. 0 |-> Nth({}, k)] = <<>>
  OBVIOUS
<1> HIDE DEF Listed
<1> QED BY <1>1, <1>2, <1>3

\* What is reported where a segment ends, seen from the longest end of the segment
\* that is a string of the trie.
LEMMA ReportedIs ==
  ASSUME NEW w, IInv(w), Built(w), NEW x \in Text, NEW t, IsLongest(w, States, x, t),
         NEW c, c = OutputsOf(result)[t]
  PROVE  IF t \in AcceptStates(result)
         THEN /\ Len(c) \in Nat \ {0} /\ DOMAIN Reported(x) = 1 .. Len(c)
              /\ \A k \in 1 .. Len(c) :
                   /\ Reported(x)[k] \in NonEmpty /\ IsSuffix(Reported(x)[k], x)
                   /\ c[k] \in States /\ AcceptPattern(result)[c[k]] = IdOf(Reported(x)[k])
         ELSE Reported(x) = <<>>
<1> DEFINE ending   == Ending(x)
           begun    == {v \in PrefixStrings : IsSuffix(v, x)}
           ownState == \A v \in begun : Len(v) <= Len(ending[1])
<1>0. Reported(x) = IF ending = <<>> \/ ownState THEN ending ELSE <<ending[1]>>
  BY DEF Reported
<1>1. /\ t \in States /\ w[t] \in Text /\ IsSuffix(w[t], x) /\ Len(w[t]) \in Nat
      /\ \A s \in States : IsSuffix(w[s], x) => Len(w[s]) <= Len(w[t])
  BY BuiltFacts DEF IsLongest
<1>2. \A p \in NonEmpty : IsSuffix(p, x) <=> IsSuffix(p, w[t])
  <2> SUFFICES ASSUME NEW p \in NonEmpty PROVE IsSuffix(p, x) <=> IsSuffix(p, w[t])
    OBVIOUS
  <2>1. p \in Text /\ \E s \in States : w[s] = p
    BY BuiltFacts
  <2>2. IsSuffix(p, x) => Len(p) <= Len(w[t])
    BY <1>1, <2>1
  <2> QED BY <1>1, <2>1, <2>2, SuffixOrder
<1>3. PICK r \in States :
        /\ IsLongest(w, PatternStates, w[t], r)
        /\ t \in AcceptStates(result) <=> r # 0
        /\ r # 0 => AcceptPattern(result)[t] = IdOf(w[r])
  BY <1>1 DEF Built, ReportsOf
<1>4. \A p \in NonEmpty : IsSuffix(p, w[t]) => Len(p) <= Len(w[r])
  <2> SUFFICES ASSUME NEW p \in NonEmpty, IsSuffix(p, w[t]) PROVE Len(p) <= Len(w[r])
    OBVIOUS
  <2>1. PICK s \in States : w[s] = p
    BY BuiltFacts
  <2>2. s \in PatternStates
    BY <2>1, BuiltFacts
  <2> QED BY <1>3, <2>1, <2>2 DEF IsLongest
<1>5. CASE r = 0
  <2>1. w[0] = <<>>
    BY BuiltFacts
  <2>2. Len(w[0]) = 0
    BY <2>1
  <2>3. \A p \in NonEmpty : Len(p) \in Nat \ {0}
    BY BuiltFacts
  <2>4. {p \in NonEmpty : IsSuffix(p, x)} = {}
    BY <1>2, <1>4, <1>5, <2>2, <2>3
  <2>5. Cardinality({p \in NonEmpty : IsSuffix(p, x)}) = 0
    BY <2>4, FS_EmptySet
  <2>6. ending = <<>>
    BY <2>4, NoneEnds
  <2> QED BY <1>0, <1>3, <1>5, <2>6
<1>6. CASE r # 0
  <2>1. w[r] \in NonEmpty /\ w[r] \in Text /\ IsSuffix(w[r], w[t]) /\ Len(w[r]) \in Nat
    BY <1>3, <1>6, BuiltFacts DEF IsLongest
  <2>2. \A p \in NonEmpty : IsSuffix(p, x) <=> IsSuffix(p, w[r])
    <3> SUFFICES ASSUME NEW p \in NonEmpty PROVE IsSuffix(p, w[t]) <=> IsSuffix(p, w[r])
      BY <1>2
    <3>1. p \in Text
      BY BuiltFacts
    <3>2. IsSuffix(p, w[t]) => Len(p) <= Len(w[r])
      BY <1>4
    <3> QED BY <1>1, <2>1, <3>1, <3>2, SuffixOrder
  <2>3. ending = Ending(w[r])
    BY <2>2, SameEnding
  <2>4. PICK d : d = OutputsOf(result)[r]
    OBVIOUS
  <2>5. /\ d \in Seq(States) /\ Len(d) \in Nat /\ Len(d) >= 1 /\ d[1] = r
        /\ \A k \in 1 .. Len(d) : w[d[k]] \in NonEmpty /\ IsSuffix(w[d[k]], w[r])
        /\ ending = [k \in 1 .. Len(d) |-> w[d[k]]]
    BY <2>1, <2>3, <2>4, ChainIsEnding
  <2>6. ending[1] = w[r] /\ ending # <<>> /\ DOMAIN ending = 1 .. Len(d)
    <3>1. 1 \in 1 .. Len(d) /\ DOMAIN ending = 1 .. Len(d) /\ ending[1] = w[r]
      BY <2>5
    <3>2. 1 \in DOMAIN ending
      BY <3>1
    <3>3. ending # <<>>
      BY <3>2
    <3> QED BY <3>1, <3>3
  <2> HIDE DEF ending
  <2>7. t # 0
    <3>1. Len(w[r]) <= Len(w[t]) /\ Len(w[r]) # 0
      BY <1>1, <2>1, SuffixOrder, BuiltFacts
    <3>2. w[0] = <<>>
      BY BuiltFacts
    <3>3. Len(w[0]) = 0
      BY <3>2
    <3> QED BY <2>1, <3>1, <3>3
  <2>8. \A v \in begun : Len(v) <= Len(w[t])
    BY <1>1, BegunAre
  <2>9. w[t] \in begun
    BY <1>1, <2>7, BegunAre
  <2>10. CASE t = r
    <3>1. Reported(x) = ending /\ c = d
      BY <1>0, <2>4, <2>6, <2>8, <2>10
    <3>2. ASSUME NEW k \in 1 .. Len(d)
          PROVE  /\ ending[k] \in NonEmpty /\ IsSuffix(ending[k], x) /\ d[k] \in States
                 /\ AcceptPattern(result)[d[k]] = IdOf(ending[k])
      <4>1. d[k] \in States /\ ending[k] = w[d[k]] /\ w[d[k]] \in NonEmpty /\ IsSuffix(w[d[k]], w[r])
        BY <2>5
      <4>2. IsSuffix(w[d[k]], x)
        BY <2>2, <4>1
      <4> QED BY <4>1, <4>2, OwnReport
    <3>3. Len(d) \in Nat \ {0}
      BY <2>5
    <3> QED BY <1>3, <1>6, <2>6, <3>1, <3>2, <3>3
  <2>11. CASE t # r
    <3>1. w[t] \notin NonEmpty
      <4> SUFFICES ASSUME w[t] \in NonEmpty PROVE FALSE
        OBVIOUS
      <4>1. IsLongest(w, PatternStates, w[t], t) /\ PatternStates \in SUBSET States
        BY <1>1, OwnReport, BuiltFacts DEF PatternStates
      <4> QED BY <1>1, <1>3, <2>11, <4>1, OneLongest
    <3>2. OutputLink(result)[t] = NONE
      BY <1>1, <3>1 DEF Built, LeadsOn
    <3>3. IsChain(result, t, c)
      BY <1>1, OutputsAreChains DEF Built
    <3>4. Len(c) = 1 /\ c[1] = t
      <4>1. c \in Seq(State(result)) /\ Len(c) >= 1 /\ c[1] = t /\ Len(c) \in Nat
        BY <3>3 DEF IsChain
      <4>2. ASSUME Len(c) # 1 PROVE FALSE
        <5>0. 1 \in 1 .. Len(c) /\ 2 \in 1 .. Len(c)
          <6>1. \A n \in Nat : n >= 1 /\ n # 1 => 1 \in 1 .. n /\ 2 \in 1 .. n
            OBVIOUS
          <6>2. Len(c) \in Nat /\ Len(c) >= 1 /\ Len(c) # 1
            BY <4>1, <4>2
          <6> QED BY <6>1, <6>2
        <5>1. 1 \in 1 .. Len(c) /\ 2 \in 1 .. Len(c) /\ c[2] \in State(result)
          <6>1. \A k \in 1 .. Len(c) : c[k] \in State(result)
            BY <4>1
          <6> QED BY <5>0, <6>1
        <5>2. OutputLink(result)[c[1]] = c[1 + 1]
          BY <3>3, <4>2, <5>1 DEF IsChain
        <5>3. c[2] # NONE
          BY <5>1, BuiltFacts DEF Built
        <5> QED BY <3>2, <4>1, <5>2, <5>3
      <4> QED BY <3>2, <4>1, <4>2
    <3>5. ~ ownState
      <4>1. ~ Len(w[t]) <= Len(w[r])
        <5> SUFFICES ASSUME Len(w[t]) <= Len(w[r]) PROVE FALSE
          OBVIOUS
        <5>1. Len(w[t]) = Len(w[r])
          BY <1>1, <2>1, SuffixOrder
        <5>2. w[t] = w[r]
          BY <1>1, <2>1, <5>1, SuffixOrder
        <5> QED BY <1>1, <2>11, <5>2, BuiltFacts
      <4> QED BY <2>6, <2>9, <4>1
    <3>6. Reported(x) = <<w[r]>>
      BY <1>0, <2>6, <3>5
    <3>7. PICK q : q = Reported(x)
      OBVIOUS
    <3>8. DOMAIN q = 1 .. 1 /\ q[1] = w[r]
      BY <3>6, <3>7
    <3>9. IsSuffix(w[r], x)
      BY <1>2, <2>1
    <3>10. /\ Len(c) \in Nat \ {0} /\ DOMAIN q = 1 .. Len(c)
           /\ \A k \in 1 .. Len(c) : /\ q[k] \in NonEmpty /\ IsSuffix(q[k], x)
                                     /\ c[k] \in States /\ AcceptPattern(result)[c[k]] = IdOf(q[k])
      <4>1. \A k \in 1 .. Len(c) : k = 1
        BY <3>4
      <4> QED BY <1>1, <1>3, <1>6, <2>1, <3>4, <3>8, <3>9, <4>1
    <3> QED BY <1>3, <1>6, <3>7, <3>10
  <2> QED BY <2>10, <2>11
<1> QED BY <1>5, <1>6

\* The id of a pattern names the pattern and its length.
LEMMA IdNames ==
  ASSUME NEW w, IInv(w), Built(w), NEW p \in NonEmpty
  PROVE  IdOf(p) \in 0 .. Len(patterns) - 1 /\ result.lens[IdOf(p) + 1] = Len(p)
<1> DEFINE I == {i \in 1 .. Len(patterns) : patterns[i] = p}
<1>1. TypeOK /\ Named(w) /\ pid = Len(patterns) /\ result.lens = lengths
  BY DEF IInv, Built
<1>2. patterns \in Seq(Seq(Byte)) /\ Len(patterns) \in Nat /\ DOMAIN patterns = 1 .. Len(patterns)
  BY <1>1, PatternListsAssumption DEF TypeOK
<1>3. I # {} /\ I \subseteq Nat
  <2>1. PICK i \in DOMAIN patterns : patterns[i] = p
    BY DEF NonEmpty, ToSet
  <2> QED BY <1>2, <2>1
<1>4. SelectInSeq(patterns, LAMBDA q : q = p) = CHOOSE x \in I : \A y \in I : x <= y
  BY <1>3 DEF SelectInSeq, Min
<1>5. PICK h : h = SelectInSeq(patterns, LAMBDA q : q = p)
  OBVIOUS
<1>6. h \in I
  <2>1. \E x \in I : \A y \in I : x <= y
    <3> HIDE DEF I
    <3> QED BY <1>3, LeastElement
  <2> HIDE DEF I
  <2> QED BY <1>4, <1>5, <2>1
<1>7. IdOf(p) = h - 1
  BY <1>5 DEF IdOf
<1>8. h \in 1 .. Len(patterns) /\ patterns[h] = p
  BY <1>6
<1>9. lengths[h] = Len(p)
  BY <1>1, <1>2, <1>8 DEF Named
<1>10. IdOf(p) + 1 = h /\ IdOf(p) \in 0 .. Len(patterns) - 1
  BY <1>2, <1>7, <1>8
<1> QED BY <1>1, <1>9, <1>10

\* Where the segment x ends, n bytes into the input, the program finds what is
\* reported there.
LEMMA MatchesAre ==
  ASSUME NEW w, IInv(w), Built(w), NEW x \in Text, NEW t, IsLongest(w, States, x, t),
         NEW n \in Nat, n + 1 < U32, Len(x) <= n + 1,
         NEW c, c = OutputsOf(result)[t]
  PROVE  [k \in DOMAIN Reported(x) |-> Occurrence(Reported(x)[k], n + 1)]
           = IF t \in AcceptStates(result)
             THEN [k \in DOMAIN c |-> PatternMatch(result, c[k], n)] ELSE <<>>
<1>0. PICK q : q = Reported(x)
  OBVIOUS
<1>1. IF t \in AcceptStates(result)
      THEN /\ Len(c) \in Nat \ {0} /\ DOMAIN q = 1 .. Len(c)
           /\ \A k \in 1 .. Len(c) :
                /\ q[k] \in NonEmpty /\ IsSuffix(q[k], x)
                /\ c[k] \in States /\ AcceptPattern(result)[c[k]] = IdOf(q[k])
      ELSE q = <<>>
  BY <1>0, ReportedIs
<1>2. CASE t \notin AcceptStates(result)
  <2>1. DOMAIN q = {}
    BY <1>1, <1>2
  <2> QED BY <1>0, <1>2, <2>1
<1>3. CASE t \in AcceptStates(result)
  <2>1. t \in State(result) /\ WellFormed(result)
    BY DEF IsLongest, Built
  <2>2. DOMAIN c = 1 .. Len(c)
    BY <2>1, OutputsAreChains DEF IsChain
  <2>3. ASSUME NEW k \in 1 .. Len(c) PROVE PatternMatch(result, c[k], n) = Occurrence(q[k], n + 1)
    <3>1. PICK u : u = q[k]
      OBVIOUS
    <3>2. /\ u \in NonEmpty /\ IsSuffix(u, x) /\ AcceptPattern(result)[c[k]] = IdOf(u)
      BY <1>1, <1>3, <3>1
    <3>3. u \in Text /\ Len(u) \in Nat /\ Len(x) \in Nat
      BY <3>2, BuiltFacts DEF Text
    <3>4. Len(u) <= n + 1
      <4>1. Len(u) <= Len(x)
        BY <3>2, <3>3, SuffixOrder
      <4> QED BY <3>3, <4>1
    <3>5. result.lens[IdOf(u) + 1] = Len(u)
      BY <3>2, IdNames
    <3>6. PatternMatch(result, c[k], n) = MatchAt(IdOf(u), Len(u), n)
      BY <3>2, <3>5 DEF PatternMatch
    <3>7. (n + 1) % U32 = n + 1
      <4>1. n + 1 \in Word
        BY U32Facts DEF Word
      <4> QED BY <4>1, Wrap
    <3>8. MatchAt(IdOf(u), Len(u), n)
            = [pid |-> IdOf(u), start |-> SaturatingSub(n + 1, Len(u)), end |-> n + 1]
      BY <3>7 DEF MatchAt
    <3>9. SaturatingSub(n + 1, Len(u)) = n + 1 - Len(u)
      BY <3>3, <3>4 DEF SaturatingSub
    <3>10. Occurrence(u, n + 1) = [pid |-> IdOf(u), start |-> n + 1 - Len(u), end |-> n + 1]
      BY DEF Occurrence
    <3>11. PatternMatch(result, c[k], n) = Occurrence(u, n + 1)
      BY <3>6, <3>8, <3>9, <3>10
    <3> QED BY <3>1, <3>11
  <2>4. [k \in DOMAIN q |-> Occurrence(q[k], n + 1)] = [k \in DOMAIN c |-> PatternMatch(result, c[k], n)]
    <3>1. DOMAIN q = DOMAIN c
      BY <1>1, <1>3, <2>2
    <3> QED BY <2>2, <2>3, <3>1
  <2> QED BY <1>0, <1>3, <2>4
<1> QED BY <1>2, <1>3

------------------------------------------------------------------------------
(***************************************************************************)
(* The walk through the input: the state of the scan is that of the        *)
(* longest end of the current segment that begins a pattern, so the        *)
(* program finds what a search without an automaton finds.                 *)
(***************************************************************************)

\* One byte more: the string of a state stands for all that was read.
LEMMA LongestMoves ==
  ASSUME NEW w, IInv(w), Built(w), NEW v \in Text, NEW b \in Byte,
         NEW s, IsLongest(w, States, v, s), NEW r, IsLongest(w, States, Append(w[s], b), r)
  PROVE  IsLongest(w, States, Append(v, b), r)
<1>1. /\ s \in States /\ IsSuffix(w[s], v)
      /\ \A q \in States : IsSuffix(w[q], v) => Len(w[q]) <= Len(w[s])
  BY DEF IsLongest
<1>2. /\ r \in States /\ IsSuffix(w[r], Append(w[s], b))
      /\ \A q \in States : IsSuffix(w[q], Append(w[s], b)) => Len(w[q]) <= Len(w[r])
  BY DEF IsLongest
<1>3. \A q \in States : w[q] \in Text /\ Len(w[q]) \in Nat
  BY BuiltFacts
<1>4. Append(w[s], b) \in Text /\ Append(v, b) \in Text
  BY <1>1, <1>3, Appended
<1>5. IsSuffix(Append(w[s], b), Append(v, b))
  BY <1>1, <1>3, SuffixOfAppended
<1>6. IsSuffix(w[r], Append(v, b))
  BY <1>2, <1>3, <1>4, <1>5, SuffixOrder
<1>7. ASSUME NEW q \in States, IsSuffix(w[q], Append(v, b)) PROVE Len(w[q]) <= Len(w[r])
  <2>1. CASE q = 0
    <3>1. w[0] = <<>>
      BY BuiltFacts DEF Trie
    <3>2. Len(w[0]) = 0
      BY <3>1
    <3> QED BY <1>2, <1>3, <2>1, <3>2
  <2>2. CASE q # 0
    <3>1. TypeOK /\ Trie(w)
      BY BuiltFacts
    <3>2. PICK p \in States, a \in Byte : w[q] = Append(w[p], a)
      BY <2>2, <3>1, ChildIs
    <3>3. IsSuffix(w[p], v) /\ a = b
      BY <1>3, <1>7, <3>2, SuffixOfAppended
    <3>4. IsSuffix(w[p], w[s])
      BY <1>1, <1>3, <3>3, SuffixOrder
    <3>5. IsSuffix(w[q], Append(w[s], b))
      BY <1>1, <1>3, <3>2, <3>3, <3>4, SuffixOfAppended
    <3> QED BY <1>2, <3>5
  <2> QED BY <2>1, <2>2
<1> QED BY <1>2, <1>6, <1>7 DEF IsLongest

\* The table moves to the state of the longest string that ends what was read.
LEMMA TargetIs ==
  ASSUME NEW w, IInv(w), Built(w), HasProgram, NEW v \in Text, NEW n \in 0 .. Len(v) - 1, NEW s \in States
  PROVE  IsLongest(w, States, Append(w[s], v[n + 1]), Target(result, v, s, n))
<1> DEFINE b == v[n + 1]
           i == s * ByteCount + b + 1
<1>1. b \in Byte
  BY DEF Text
<1>2. /\ WellFormed(result) /\ State(result) = States /\ result.classes = ByteCount
      /\ \A j \in DOMAIN result.trans : Mask(result.trans[j]) = result.trans[j]
  BY DEF Built
<1>3. /\ result.states \in Nat /\ result.trans \in Seq(Word)
      /\ Len(result.trans) = result.states * ByteCount /\ ByteCount \in Nat \ {0}
      /\ s \in 0 .. result.states - 1 /\ b \in 0 .. ByteCount - 1
  BY <1>1, <1>2, ByteCountAssumption DEF WellFormed, Compilable, ProgramType, State, Byte
<1> HIDE DEF b
<1>4. i \in 1 .. result.states * ByteCount
  BY <1>3, CellIndex
<1>5. i \in DOMAIN result.trans
  BY <1>3, <1>4
<1>6. Target(result, v, s, n) = Mask(result.trans[i])
  BY <1>2 DEF Target, b
<1>7. IsLongest(w, States, Append(w[s], b), result.trans[i])
  BY <1>1 DEF IInv, DenseOf, b
<1> QED BY <1>2, <1>5, <1>6, <1>7 DEF b

\* A state accepts when some pattern ends what was read.
LEMMA AcceptsWhenEnds ==
  ASSUME NEW w, IInv(w), Built(w), NEW x \in Text, NEW t, IsLongest(w, States, x, t)
  PROVE  /\ t \in AcceptStates(result) <=> \E p \in NonEmpty : IsSuffix(p, x)
         /\ t \in AcceptStates(result) <=> Reported(x) # <<>>
<1>1. PICK c : c = OutputsOf(result)[t]
  OBVIOUS
<1>2. PICK q : q = Reported(x)
  OBVIOUS
<1>3. IF t \in AcceptStates(result)
      THEN /\ Len(c) \in Nat \ {0} /\ DOMAIN q = 1 .. Len(c)
           /\ \A k \in 1 .. Len(c) : q[k] \in NonEmpty /\ IsSuffix(q[k], x)
      ELSE q = <<>>
  BY <1>1, <1>2, ReportedIs
<1>4. ASSUME t \in AcceptStates(result) PROVE q # <<>> /\ \E p \in NonEmpty : IsSuffix(p, x)
  <2>1. 1 \in 1 .. Len(c)
    BY <1>3, <1>4
  <2>2. 1 \in DOMAIN q /\ q[1] \in NonEmpty /\ IsSuffix(q[1], x)
    BY <1>3, <1>4, <2>1
  <2>3. q # <<>>
    BY <2>2
  <2> QED BY <2>2, <2>3
<1>5. ASSUME NEW p \in NonEmpty, IsSuffix(p, x) PROVE t \in AcceptStates(result)
  <2>1. /\ t \in States /\ IsSuffix(w[t], x)
        /\ \A s \in States : IsSuffix(w[s], x) => Len(w[s]) <= Len(w[t])
    BY DEF IsLongest
  <2>2. PICK s \in States : w[s] = p
    BY BuiltFacts
  <2>3. s \in PatternStates /\ p \in Text /\ Len(p) \in Nat \ {0} /\ w[t] \in Text
    BY <2>1, <2>2, BuiltFacts
  <2>4. IsSuffix(p, w[t])
    BY <1>5, <2>1, <2>2, <2>3, SuffixOrder
  <2>5. PICK r \in States :
          IsLongest(w, PatternStates, w[t], r) /\ (t \in AcceptStates(result) <=> r # 0)
    BY <2>1 DEF Built, ReportsOf
  <2>6. Len(p) <= Len(w[r])
    BY <2>2, <2>3, <2>4, <2>5 DEF IsLongest
  <2>7. w[0] = <<>>
    BY BuiltFacts DEF Trie
  <2>8. Len(w[0]) = 0
    BY <2>7
  <2> QED BY <2>3, <2>5, <2>6, <2>8
<1> QED BY <1>2, <1>3, <1>4, <1>5

\* Where the segment that is being read began, for every number of bytes read.
Begins(from, v) ==
  /\ from \in [0 .. Len(v) -> Nat] /\ from[0] = 0
  /\ \A n \in 0 .. Len(v) - 1 :
       from[n + 1] = IF Reported(SubSeq(v, from[n] + 1, n + 1)) = <<>> THEN from[n] ELSE n + 1

\* There are such numbers for every input.
LEMMA BeginsExists == ASSUME NEW v \in Text PROVE \E from : Begins(from, v)
<1> DEFINE N == Len(v)
           After(n, m) == IF Reported(SubSeq(v, m + 1, n + 1)) = <<>> THEN m ELSE n + 1
           step == [x \in (0 .. N - 1) \X Nat |-> After(x[1], x[2])]
<1>1. N \in Nat
  BY DEF Text
<1>2. \A n \in 0 .. N - 1, m \in Nat : After(n, m) \in Nat
  OBVIOUS
<1> HIDE DEF N, After
<1>3. /\ step \in [(0 .. N - 1) \X Nat -> Nat]
      /\ \A n \in 0 .. N - 1, m \in Nat : step[<<n, m>>] = After(n, m)
  BY <1>2
<1> HIDE DEF step
<1>4. PICK f : Recursive(f, N, Nat, 0, step)
  BY <1>1, <1>3, RecursionExists
<1>5. \A n \in 0 .. N - 1 : f[n] \in Nat /\ f[n + 1] = After(n, f[n])
  <2> SUFFICES ASSUME NEW n \in 0 .. N - 1 PROVE f[n] \in Nat /\ f[n + 1] = After(n, f[n])
    OBVIOUS
  <2>1. n \in 0 .. N
    BY <1>1
  <2>2. f[n] \in Nat /\ f[n + 1] = step[<<n, f[n]>>]
    BY <1>4, <2>1 DEF Recursive
  <2> QED BY <1>3, <2>2
<1>6. f \in [0 .. N -> Nat] /\ f[0] = 0
  BY <1>4 DEF Recursive
<1> QED BY <1>5, <1>6 DEF Begins, N, After

\* The state of the scan is that of the longest end of the segment read so far
\* that begins a pattern.
LEMMA WalkIsLongest ==
  ASSUME NEW w, IInv(w), Built(w), HasProgram, NEW v \in Text, NEW from, Begins(from, v)
  PROVE  /\ \A n \in 0 .. Len(v) :
              from[n] \in 0 .. n /\ IsLongest(w, States, SubSeq(v, from[n] + 1, n), Walk(result, v)[n])
         /\ \A n \in 0 .. Len(v) - 1 :
              /\ SubSeq(v, from[n] + 1, n + 1) \in Text
              /\ IsLongest(w, States, SubSeq(v, from[n] + 1, n + 1),
                           Target(result, v, Walk(result, v)[n], n))
<1> DEFINE N == Len(v)
           walk == Walk(result, v)
           Good(n) == from[n] \in 0 .. n /\ IsLongest(w, States, SubSeq(v, from[n] + 1, n), walk[n])
           S == {n \in 0 .. N : Good(n)}
<1>1. v \in Seq(Byte) /\ N \in Nat /\ WellFormed(result) /\ State(result) = States
  BY DEF Text, Built
<1>2. /\ walk \in [0 .. N -> States] /\ walk[0] = 0
      /\ \A n \in 0 .. N - 1 :
           walk[n + 1] = IF Target(result, v, walk[n], n) \in AcceptStates(result)
                         THEN 0 ELSE Target(result, v, walk[n], n)
  BY <1>1, WalkIs
<1>3. \A m \in 0 .. N : IsLongest(w, States, SubSeq(v, m + 1, m), 0)
  <2> SUFFICES ASSUME NEW m \in 0 .. N PROVE IsLongest(w, States, <<>>, 0)
    BY NoSegment
  <2>1. w[0] = <<>> /\ 0 \in States /\ \A q \in States : w[q] \in Text
    BY BuiltFacts DEF Trie
  <2> QED BY <2>1, SuffixOrder DEF IsLongest
<1> HIDE DEF N, walk
<1>4. ASSUME NEW n \in 0 .. N - 1, Good(n)
      PROVE  /\ SubSeq(v, from[n] + 1, n + 1) \in Text
             /\ IsLongest(w, States, SubSeq(v, from[n] + 1, n + 1), Target(result, v, walk[n], n))
             /\ Good(n + 1)
  <2> DEFINE m == from[n]
             x == SubSeq(v, m + 1, n)
             y == SubSeq(v, m + 1, n + 1)
             t == Target(result, v, walk[n], n)
  <2>1. m \in 0 .. Len(v) /\ m <= n /\ m \in 0 .. n /\ n \in 0 .. Len(v) - 1 /\ n \in 0 .. N
    BY <1>1, <1>4 DEF N
  <2>2. x \in Text /\ y \in Text /\ v[n + 1] \in Byte /\ y = Append(x, v[n + 1])
    BY <2>1, SegmentGrows
  <2>3. walk[n] \in States /\ IsLongest(w, States, x, walk[n])
    BY <1>2, <1>4, <2>1
  <2> HIDE DEF m, x, y
  <2>4. IsLongest(w, States, Append(w[walk[n]], v[n + 1]), t)
    BY <2>1, <2>3, TargetIs
  <2>5. IsLongest(w, States, y, t)
    BY <2>2, <2>3, <2>4, LongestMoves
  <2>6. t \in AcceptStates(result) <=> Reported(y) # <<>>
    BY <2>2, <2>5, AcceptsWhenEnds
  <2>7. from[n + 1] = IF Reported(y) = <<>> THEN m ELSE n + 1
    BY <2>1 DEF Begins, m, y
  <2>8. walk[n + 1] = IF t \in AcceptStates(result) THEN 0 ELSE t
    BY <1>2
  <2> HIDE DEF t
  <2>9. Good(n + 1)
    <3>1. CASE t \in AcceptStates(result)
      <4>1. from[n + 1] = n + 1 /\ walk[n + 1] = 0 /\ n + 1 \in 0 .. N /\ n + 1 \in 0 .. n + 1
        BY <1>1, <2>6, <2>7, <2>8, <3>1
      <4> QED BY <1>3, <4>1
    <3>2. CASE t \notin AcceptStates(result)
      <4>1. from[n + 1] = m /\ walk[n + 1] = t /\ m \in 0 .. n + 1
        BY <2>1, <2>6, <2>7, <2>8, <3>2
      <4> QED BY <2>5, <4>1 DEF y
    <3> QED BY <3>1, <3>2
  <2> QED BY <2>2, <2>5, <2>9 DEF m, y, t
<1>5. \A n \in 0 .. N : n \in S
  <2>1. 0 \in S
    <3>1. from[0] = 0 /\ 0 \in 0 .. N
      BY <1>1 DEF Begins
    <3> QED BY <1>2, <1>3, <3>1
  <2>2. ASSUME NEW n \in 0 .. N - 1, n \in S PROVE n + 1 \in S
    <3>1. n + 1 \in 0 .. N
      BY <1>1
    <3>2. Good(n)
      BY <2>2
    <3>3. Good(n + 1)
      <4> HIDE DEF Good
      <4> QED BY <1>4, <3>2
    <3> QED BY <3>1, <3>3
  <2> HIDE DEF S
  <2> QED BY <1>1, <2>1, <2>2, InductionUpTo
<1>6. \A n \in 0 .. N : Good(n)
  BY <1>5
<1>7. \A n \in 0 .. N - 1 : Good(n)
  <2> HIDE DEF Good
  <2>1. \A n \in 0 .. N - 1 : n \in 0 .. N
    BY <1>1
  <2> QED BY <1>6, <2>1
<1> QED BY <1>4, <1>6, <1>7 DEF N, walk

\* The program finds what a search for the patterns finds.
LEMMA NaiveIs ==
  ASSUME NEW w, IInv(w), Built(w), HasProgram, NEW v \in Text, Len(v) < U32
  PROVE  NaiveMatches(v) = Found(result, v, Len(v))
<1> DEFINE N == Len(v)
           Here(x, n) == Reported(SubSeq(v, x.from + 1, n))
           Turn(x, n) ==
             [from  |-> IF Here(x, n) = <<>> THEN x.from ELSE n,
              found |-> x.found \o [k \in DOMAIN Here(x, n) |-> Occurrence(Here(x, n)[k], n)]]
           Def(at) == [n \in 0 .. N |-> IF n = 0 THEN [from |-> 0, found |-> <<>>] ELSE Turn(at[n - 1], n)]
           naive == CHOOSE at : at = Def(at)
<1>1. NaiveMatches(v) = naive[N].found
  BY DEF NaiveMatches
<1>2. v \in Seq(Byte) /\ N \in Nat /\ WellFormed(result)
  BY DEF Text, Built
<1>3. PICK from : Begins(from, v)
  BY BeginsExists
<1> DEFINE at == [n \in 0 .. N |-> [from |-> from[n], found |-> Found(result, v, n)]]
<1>4. ASSUME NEW n \in 0 .. N - 1 PROVE at[n + 1] = Turn(at[n], n + 1)
  <2> DEFINE x == SubSeq(v, from[n] + 1, n + 1)
             t == Target(result, v, Walk(result, v)[n], n)
             here == [k \in DOMAIN Reported(x) |-> Occurrence(Reported(x)[k], n + 1)]
  <2>1. n \in 0 .. N /\ n + 1 \in 0 .. N /\ n \in Nat /\ n + 1 < U32 /\ n \in 0 .. Len(v) /\ n \in 0 .. Len(v) - 1
    BY <1>2, U32Facts
  <2>2. from[n] \in 0 .. n /\ x \in Text /\ IsLongest(w, States, x, t)
    BY <1>3, <2>1, WalkIsLongest
  <2>3. Len(x) <= n + 1
    <3>1. from[n] + 1 \in 1 .. N /\ n + 1 \in 1 .. N
      BY <1>2, <2>1, <2>2
    <3>2. Len(x) = (n + 1) - from[n]
      BY <1>2, <2>1, <2>2, <3>1
    <3> QED BY <2>1, <2>2, <3>2
  <2>4. PICK c : c = OutputsOf(result)[t]
    OBVIOUS
  <2> HIDE DEF x
  <2>5. here = IF t \in AcceptStates(result)
               THEN [k \in DOMAIN c |-> PatternMatch(result, c[k], n)] ELSE <<>>
    BY <2>1, <2>2, <2>3, <2>4, MatchesAre
  <2>6. MatchesAt(result, v, n) = here
    BY <2>4, <2>5 DEF MatchesAt
  <2>7. Found(result, v, n + 1) = Found(result, v, n) \o MatchesAt(result, v, n)
    BY <1>2, <2>1, FoundIs
  <2>8. from[n + 1] = IF Reported(x) = <<>> THEN from[n] ELSE n + 1
    BY <1>3, <2>1 DEF Begins, x
  <2>9. at[n].from = from[n] /\ at[n].found = Found(result, v, n)
    BY <2>1
  <2>10. at[n + 1] = [from |-> from[n + 1], found |-> Found(result, v, n + 1)]
    BY <2>1
  <2>11. Here(at[n], n + 1) = Reported(x)
    BY <2>9 DEF x
  <2> HIDE DEF at, here, Here
  <2>12. Turn(at[n], n + 1)
           = [from |-> IF Reported(x) = <<>> THEN from[n] ELSE n + 1,
              found |-> Found(result, v, n) \o here]
    BY <2>9, <2>11 DEF here
  <2> QED BY <2>6, <2>7, <2>8, <2>10, <2>12
<1>5. at[0] = [from |-> 0, found |-> <<>>]
  <2>1. from[0] = 0 /\ Found(result, v, 0) = <<>> /\ 0 \in 0 .. N
    BY <1>2, <1>3, FoundIs DEF Begins
  <2> QED BY <2>1
<1> HIDE DEF Turn
<1>6. at = Def(at)
  <2> SUFFICES ASSUME NEW n \in 0 .. N
               PROVE  at[n] = IF n = 0 THEN [from |-> 0, found |-> <<>>] ELSE Turn(at[n - 1], n)
    OBVIOUS
  <2>1. CASE n = 0
    BY <1>5, <2>1
  <2>2. CASE n # 0
    <3>1. n - 1 \in 0 .. N - 1 /\ (n - 1) + 1 = n
      BY <1>2, <2>2
    <3> HIDE DEF at
    <3>2. at[(n - 1) + 1] = Turn(at[n - 1], (n - 1) + 1)
      BY <1>4, <3>1
    <3> QED BY <2>2, <3>1, <3>2
  <2> QED BY <2>1, <2>2
<1>7. naive = Def(naive)
  <2> HIDE DEF Def, at
  <2> QED BY <1>6
<1>8. at[N].found = Found(result, v, N)
  BY <1>2
<1> HIDE DEF naive, at
<1>9. naive[0] = at[0]
  <2>1. 0 \in 0 .. N
    BY <1>2
  <2> QED BY <1>5, <1>7, <2>1
<1>10. ASSUME NEW n \in 0 .. N - 1, naive[n] = at[n] PROVE naive[n + 1] = at[n + 1]
  <2>1. n + 1 \in 0 .. N /\ n + 1 # 0 /\ (n + 1) - 1 = n
    BY <1>2
  <2>2. naive[n + 1] = Turn(naive[n], n + 1)
    BY <1>7, <2>1
  <2> QED BY <1>4, <1>10, <2>2
<1>11. naive[N] = at[N]
  <2> HIDE DEF N
  <2>1. \A n \in 0 .. N : naive[n] = at[n]
    BY <1>2, <1>9, <1>10, SameRecursion
  <2>2. N \in 0 .. N
    BY <1>2
  <2> QED BY <2>1, <2>2
<1> QED BY <1>1, <1>8, <1>11

\* Something is found exactly when a pattern occurs somewhere.
LEMMA FoundWhenOccurs ==
  ASSUME NEW w, IInv(w), Built(w), HasProgram, NEW v \in Text
  PROVE  Len(Found(result, v, Len(v))) > 0
           <=> \E i, j \in 0 .. Len(v) : SubSeq(v, i + 1, j) \in NonEmpty
<1> DEFINE N == Len(v)
           T(n) == Target(result, v, Walk(result, v)[n], n)
           Accepts(n) == T(n) \in AcceptStates(result)
           found == [n \in 0 .. N |-> Found(result, v, n)]
<1>1. v \in Seq(Byte) /\ N \in Nat /\ WellFormed(result)
  BY DEF Text, Built
<1>2. PICK from : Begins(from, v)
  BY BeginsExists
<1>3. ASSUME NEW n \in 0 .. N - 1
      PROVE  /\ n \in 0 .. N /\ n + 1 \in 0 .. N /\ from[n] \in 0 .. n
             /\ SubSeq(v, from[n] + 1, n + 1) \in Text
             /\ Accepts(n) <=> \E p \in NonEmpty : IsSuffix(p, SubSeq(v, from[n] + 1, n + 1))
             /\ from[n + 1] = IF Accepts(n) THEN n + 1 ELSE from[n]
  <2> DEFINE x == SubSeq(v, from[n] + 1, n + 1)
  <2>1. n \in 0 .. N /\ n + 1 \in 0 .. N /\ n \in 0 .. Len(v) /\ n \in 0 .. Len(v) - 1
    BY <1>1
  <2>2. from[n] \in 0 .. n /\ x \in Text /\ IsLongest(w, States, x, T(n))
    BY <1>2, <2>1, WalkIsLongest
  <2>3. from[n + 1] = IF Reported(x) = <<>> THEN from[n] ELSE n + 1
    BY <1>2, <2>1 DEF Begins
  <2> HIDE DEF x, T
  <2>4. /\ T(n) \in AcceptStates(result) <=> \E p \in NonEmpty : IsSuffix(p, x)
        /\ T(n) \in AcceptStates(result) <=> Reported(x) # <<>>
    BY <2>2, AcceptsWhenEnds
  <2> QED BY <2>1, <2>2, <2>3, <2>4 DEF x
<1>4. ASSUME NEW n \in 0 .. N - 1
      PROVE  /\ Found(result, v, n) \in Seq(MatchType) /\ Found(result, v, n + 1) \in Seq(MatchType)
             /\ Found(result, v, n + 1) = Found(result, v, n) \o MatchesAt(result, v, n)
             /\ MatchesAt(result, v, n) \in Seq(MatchType)
             /\ Len(MatchesAt(result, v, n)) > 0 <=> Accepts(n)
  <2>1. n \in 0 .. N /\ n + 1 \in 0 .. N /\ n \in 0 .. Len(v) - 1
    BY <1>1
  <2>2. /\ Found(result, v, n) \in Seq(MatchType) /\ Found(result, v, n + 1) \in Seq(MatchType)
        /\ Found(result, v, n + 1) = Found(result, v, n) \o MatchesAt(result, v, n)
        /\ MatchesAt(result, v, n) \in Seq(MatchType)
    BY <1>1, <2>1, FoundIs, MatchesAtType
  <2>3. PICK h : h = MatchesAt(result, v, n)
    OBVIOUS
  <2>4. CASE Accepts(n)
    <3>1. T(n) \in State(result)
      <4>1. Walk(result, v)[n] \in State(result)
        BY <1>1, <2>1, WalkIs
      <4> QED BY <1>1, <2>1, <4>1, TargetType
    <3>2. PICK c : c = OutputsOf(result)[T(n)]
      OBVIOUS
    <3>3. Len(c) >= 1 /\ Len(c) \in Nat /\ DOMAIN c = 1 .. Len(c)
      BY <1>1, <3>1, <3>2, OutputsAreChains DEF IsChain
    <3>4. h = [k \in DOMAIN c |-> PatternMatch(result, c[k], n)]
      BY <2>3, <2>4, <3>2 DEF MatchesAt
    <3>5. 1 \in DOMAIN h /\ h \in Seq(MatchType)
      BY <2>2, <2>3, <3>3, <3>4
    <3>6. Len(h) > 0
      BY <3>5
    <3> QED BY <2>2, <2>3, <2>4, <3>6
  <2>5. CASE ~ Accepts(n)
    <3>1. h = <<>>
      BY <2>3, <2>5 DEF MatchesAt
    <3> QED BY <2>2, <2>3, <2>5, <3>1
  <2> QED BY <2>4, <2>5
<1> HIDE DEF T, N
<1>5. ASSUME NEW n \in 0 .. N - 1, Accepts(n)
      PROVE  \E i, j \in 0 .. N : SubSeq(v, i + 1, j) \in NonEmpty
  <2>1. PICK p \in NonEmpty : IsSuffix(p, SubSeq(v, from[n] + 1, n + 1))
    BY <1>3, <1>5
  <2>2. p \in Text
    BY BuiltFacts
  <2>3. from[n] \in 0 .. Len(v) /\ n + 1 \in 0 .. Len(v) /\ from[n] <= n + 1
    BY <1>1, <1>3 DEF N
  <2>4. (n + 1) - Len(p) \in 0 .. N /\ p = SubSeq(v, ((n + 1) - Len(p)) + 1, n + 1)
    BY <2>1, <2>2, <2>3, SuffixIsSegment DEF N
  <2> QED BY <1>3, <2>4
<1>6. ASSUME NEW i \in 0 .. N, NEW j \in 0 .. N, SubSeq(v, i + 1, j) \in NonEmpty
      PROVE  \E n \in 0 .. N - 1 : Accepts(n)
  <2> SUFFICES ASSUME \A n \in 0 .. N - 1 : ~ Accepts(n) PROVE FALSE
    OBVIOUS
  <2> DEFINE S == {n \in 0 .. N : from[n] = 0}
  <2>1. \A n \in 0 .. N : n \in S
    <3>1. 0 \in S
      BY <1>1, <1>2 DEF Begins
    <3>2. \A n \in 0 .. N - 1 : n \in S => n + 1 \in S
      BY <1>3
    <3> HIDE DEF S
    <3> QED BY <1>1, <3>1, <3>2, InductionUpTo
  <2>2. i < j
    <3>1. SubSeq(v, i + 1, j) # <<>>
      BY <1>6 DEF NonEmpty
    <3>2. ~ (i < j) => SubSeq(v, i + 1, j) = <<>>
      BY <1>1 DEF N
    <3> QED BY <3>1, <3>2
  <2>3. j - 1 \in 0 .. N - 1 /\ j - 1 \in 0 .. N /\ (j - 1) + 1 = j
    BY <1>1, <2>2
  <2>4. from[j - 1] = 0
    BY <2>1, <2>3
  <2>5. 0 \in 0 .. Len(v) /\ j \in 0 .. Len(v) /\ i \in 0 .. j
    BY <1>1, <2>2 DEF N
  <2>6. IsSuffix(SubSeq(v, i + 1, j), SubSeq(v, 0 + 1, j))
    BY <2>5, SegmentIsSuffix
  <2>7. Accepts(j - 1)
    BY <1>3, <1>6, <2>3, <2>4, <2>6
  <2> QED BY <2>3, <2>7
<1>7. Len(found[N]) > 0 <=> \E n \in 0 .. N - 1 : Accepts(n)
  <2> DEFINE S == {n \in 0 .. N : found[n] \in Seq(MatchType)
                                   /\ (Len(found[n]) > 0 <=> \E m \in 0 .. n - 1 : Accepts(m))}
  <2>1. 0 \in S
    <3>1. found[0] = <<>> /\ 0 \in 0 .. N
      BY <1>1, FoundIs
    <3>2. <<>> \in Seq(MatchType) /\ Len(<<>>) = 0
      OBVIOUS
    <3>3. ~ \E m \in 0 .. 0 - 1 : Accepts(m)
      OBVIOUS
    <3> HIDE DEF found, Accepts
    <3>4. ~ (Len(found[0]) > 0) /\ found[0] \in Seq(MatchType) /\ 0 \in 0 .. N
      BY <3>1, <3>2
    <3> QED BY <3>3, <3>4
  <2>2. ASSUME NEW n \in 0 .. N - 1, n \in S PROVE n + 1 \in S
    <3>1. PICK a : a = found[n]
      OBVIOUS
    <3>2. PICK h : h = MatchesAt(result, v, n)
      OBVIOUS
    <3>3. n \in 0 .. N /\ n + 1 \in 0 .. N
      BY <1>3
    <3>4. /\ a \in Seq(MatchType) /\ h \in Seq(MatchType) /\ found[n + 1] = a \o h
          /\ Len(h) > 0 <=> Accepts(n)
      BY <1>4, <3>1, <3>2, <3>3
    <3>5. Len(a) > 0 <=> \E m \in 0 .. n - 1 : Accepts(m)
      BY <2>2, <3>1
    <3> HIDE DEF found
    <3>6. found[n + 1] \in Seq(MatchType) /\ (Len(found[n + 1]) > 0 <=> Len(a) > 0 \/ Len(h) > 0)
      BY <3>4, Concatenated
    <3>7. (\E m \in 0 .. (n + 1) - 1 : Accepts(m)) <=> Accepts(n) \/ \E m \in 0 .. n - 1 : Accepts(m)
      <4>1. \A m : m \in 0 .. (n + 1) - 1 <=> m = n \/ m \in 0 .. n - 1
        BY <3>3
      <4> HIDE DEF Accepts
      <4> QED BY <4>1
    <3> QED BY <3>3, <3>4, <3>5, <3>6, <3>7
  <2>3. N \in S
    <3> HIDE DEF S
    <3>1. \A n \in 0 .. N : n \in S
      BY <1>1, <2>1, <2>2, InductionUpTo
    <3>2. N \in 0 .. N
      BY <1>1
    <3> QED BY <3>1, <3>2
  <2> QED BY <2>3
<1>8. found[N] = Found(result, v, N)
  BY <1>1
<1> HIDE DEF found, Accepts
<1> QED BY <1>5, <1>6, <1>7, <1>8 DEF N

------------------------------------------------------------------------------
(***************************************************************************)
(* The scan.  What InterpScanProofs proves of every scan of a well-formed  *)
(* program holds of the scan of this one.                                  *)
(***************************************************************************)

\* The scan of a program that is well formed, whichever it is.
Run == INSTANCE InterpScanProofs
         WITH Programs <- {p \in ProgramType : WellFormed(p) /\ SentinelFree(p)}, state <- scanState

\* Before the call the scan's variables wait at their first values; from the call on
\* they are a scan of the program that was built.
MatchInv ==
  /\ SoundlyBuilt /\ (phase = "done" => result # Pending)
  /\ pc = "build" =>
       pos = 0 /\ scanState = 0 /\ count = 0 /\ cursor = NONE /\ ret = Scan!NoValue
  /\ pc # "build" =>
       /\ phase = "done" /\ HasProgram /\ prog = result /\ (call = "first" => cap = 1)
       /\ Run!IInv /\ Run!ResultInv

\* What the proofs about the scan assume of programs and inputs.
LEMMA RunArguments ==
  /\ \A p \in {q \in ProgramType : WellFormed(q) /\ SentinelFree(q)} :
       Run!WellFormed(p) /\ Run!SentinelFree(p)
  /\ \A v \in Inputs : v \in Seq(Run!Byte)
  /\ Run!SentinelUnused
<1>1. \A p : WellFormed(p) => Run!WellFormed(p)
  BY DEF WellFormed, ProgramType, Compilable, LinksAccept, LinksDescend, Word, Byte, U32,
         NONE, Mask, State, AcceptStates, AcceptPattern, OutputLink,
         Run!WellFormed, Run!ProgramType, Run!Compilable, Run!LinksAccept,
         Run!LinksDescend, Run!Word, Run!Byte, Run!U32, Run!NONE, Run!Mask,
         Run!State, Run!AcceptStates, Run!AcceptPattern, Run!OutputLink
<1>2. \A p : SentinelFree(p) => Run!SentinelFree(p)
  BY DEF SentinelFree, U32, NONE, Run!SentinelFree, Run!U32, Run!NONE
<1>3. \A v \in Inputs : v \in Seq(Run!Byte)
  BY InputsAssumption DEF Byte, Run!Byte
<1> QED BY <1>1, <1>2, <1>3 DEF Run!SentinelUnused

\* The step of the model is a step of that scan.
LEMMA SameStep == Scan!Next => Run!Next
BY DEF Scan!Next, Scan!StepPlain, Scan!EnterChain, Scan!RecordMatch, Scan!Record,
       Scan!ChainMatch, Scan!LeaveChain, Scan!LeaveTo, Scan!Return, Scan!Returned,
       Scan!AtMost, Scan!params, Scan!MatchAt, Scan!SaturatingSub, Scan!Stored,
       Scan!AcceptPattern, Scan!OutputLink, Scan!State, Scan!AcceptStates,
       Scan!Mask, Scan!CleanNext, Scan!NONE, Scan!U32,
       Run!Next, Run!StepPlain, Run!EnterChain, Run!RecordMatch, Run!Record,
       Run!ChainMatch, Run!LeaveChain, Run!LeaveTo, Run!Return, Run!Returned,
       Run!AtMost, Run!params, Run!MatchAt, Run!SaturatingSub, Run!Stored,
       Run!AcceptPattern, Run!OutputLink, Run!State, Run!AcceptStates,
       Run!Mask, Run!CleanNext, Run!NONE, Run!U32

\* Its matches are the program's matches.
LEMMA SameFound == \A p, v, n : Run!Found(p, v, n) = Found(p, v, n)
BY DEF Found, OutputsOf, Walk, Target, PatternMatch, MatchAt, SaturatingSub,
       AcceptPattern, OutputLink, State, AcceptStates, Mask, NONE, U32,
       Run!Found, Run!OutputsOf, Run!Walk, Run!Target, Run!PatternMatch, Run!MatchAt,
       Run!SaturatingSub, Run!AcceptPattern, Run!OutputLink, Run!State, Run!AcceptStates,
       Run!Mask, Run!NONE, Run!U32

\* What is known of a scan from its call on.
LEMMA RunStarts == Run!Init' => Run!IInv' /\ Run!ResultInv'
<1>1. Run!Init => Run!IInv
  BY Run!InitIInv, RunArguments, ByteCountAssumption, Bit31Assumption, CapsAssumption
<1>2. Run!Init => Run!ResultInv
  BY Run!ResultStart, RunArguments, ByteCountAssumption, Bit31Assumption, CapsAssumption
<1> QED BY <1>1, <1>2, PTL

\* Its steps keep it.
LEMMA RunGoesOn == Run!IInv /\ Run!ResultInv /\ [Run!Next]_(Run!vars) => Run!IInv' /\ Run!ResultInv'
<1>1. Run!IInv /\ [Run!Next]_(Run!vars) => Run!IInv'
  BY Run!NextIInv, RunArguments, ByteCountAssumption, Bit31Assumption, CapsAssumption
<1>2. Run!IInv /\ Run!ResultInv /\ [Run!Next]_(Run!vars) => Run!ResultInv'
  BY Run!ResultStep, RunArguments, ByteCountAssumption, Bit31Assumption, CapsAssumption
<1> QED BY <1>1, <1>2

\* When it returns it has the matches.
LEMMA RunEnds == Run!IInv /\ Run!ResultInv => Run!ResultCorrect
BY Run!ResultEnd, RunArguments, ByteCountAssumption, Bit31Assumption, CapsAssumption

\* What it ends with is not the mark of one that goes on.
LEMMA EndsDecided ==
  ASSUME Next, phase' = "done" PROVE result' # Pending
<1>1. result' \in {EmptyDfa, TooMany, InvalidTable, BuiltProgram}
  <2>1. CASE RejectEmpty
    BY <2>1 DEF RejectEmpty
  <2>2. CASE BuildTable
    BY <2>2 DEF BuildTable
  <2>3. CASE ~ RejectEmpty /\ ~ BuildTable
    BY <2>3, DoneStays DEF Next, FollowByte, NewState, AddState, FinishPattern, FinishAt,
       StartLinks, BfsStep, ExpandHead, EndBfs, LinkState, LinkTo, EndLink,
       PropagateState, PropagateFrom, EndPropagate
  <2> QED BY <2>1, <2>2, <2>3
<1>2. "pending" \notin DOMAIN EmptyDfa /\ "pending" \notin DOMAIN TooMany /\ "pending" \notin DOMAIN InvalidTable
  BY DEF EmptyDfa, TooMany, InvalidTable
<1>3. "pending" \notin DOMAIN BuiltProgram
  BY DEF BuiltProgram
<1>4. "pending" \in DOMAIN Pending
  BY DEF Pending
<1> QED BY <1>1, <1>2, <1>3, <1>4

\* The invariant holds before the construction begins.
LEMMA InitMatchInv == MatchInit => MatchInv
<1> SUFFICES ASSUME MatchInit PROVE MatchInv
  OBVIOUS
<1>1. Init /\ pc = "build" /\ phase # "done"
  BY DEF MatchInit, Init
<1>2. PICK w : IInv(w)
  BY <1>1, InitIInv
<1>3. ~ HasProgram
  BY <1>1 DEF Init, HasProgram
<1>4. SoundlyBuilt
  BY <1>2, <1>3 DEF SoundlyBuilt
<1> QED BY <1>1, <1>4 DEF MatchInv, MatchInit

\* The call starts a scan of the program.
LEMMA StartScanStep ==
  ASSUME ListsFit, MatchInv, StartScan PROVE MatchInv'
<1>1. /\ pc = "build" /\ phase = "done" /\ HasProgram /\ prog' = result /\ input' \in Inputs
      /\ (call' = "scan" /\ cap' \in Caps) \/ (call' = "first" /\ cap' = 1)
      /\ buf' = [i \in 0 .. cap' - 1 |-> Untouched] /\ pc' = "loop"
      /\ UNCHANGED <<vars, pos, scanState, count, cursor, ret>>
  <2>1. HasProgram
    BY DEF StartScan, HasProgram, MatchInv
  <2> QED BY <2>1 DEF StartScan
<1>2. pos = 0 /\ scanState = 0 /\ count = 0 /\ cursor = NONE /\ ret = Scan!NoValue
  BY <1>1 DEF MatchInv
<1>3. UNCHANGED vars
  BY <1>1
<1>4. phase' = phase /\ result' = result
  BY <1>3 DEF vars
<1>5. SoundlyBuilt'
  BY <1>3, BuiltStep DEF MatchInv
<1>6. PICK w : IInv(w) /\ Built(w)
  BY <1>1 DEF MatchInv, SoundlyBuilt
<1>7. result \in {p \in ProgramType : WellFormed(p) /\ SentinelFree(p)}
  BY <1>6 DEF Built, WellFormed
<1>8. Run!Init'
  <2>1. Untouched = Run!Untouched /\ NONE = Run!NONE /\ Scan!NoValue = Run!NoValue
    BY DEF Untouched, NONE, U32, Run!Untouched, Run!NONE, Run!U32, Scan!NoValue, Run!NoValue
  <2>2. Run!CallInit'
    BY <1>1, <1>2, <1>7, <2>1 DEF Run!CallInit
  <2> QED BY <1>1, <1>2, <2>1, <2>2 DEF Run!Init
<1> QED BY <1>1, <1>4, <1>5, <1>8, RunStarts DEF MatchInv, HasProgram

\* Every step keeps it.
LEMMA NextMatchInv == ASSUME ListsFit PROVE MatchInv /\ [MatchNext]_matchVars => MatchInv'
<1> SUFFICES ASSUME MatchInv, [MatchNext]_matchVars PROVE MatchInv'
  OBVIOUS
<1>1. CASE StartScan
  BY <1>1, StartScanStep
<1>2. CASE BuildStep
  <2>1. SoundlyBuilt'
    BY <1>2, BuiltStep DEF MatchInv, BuildStep
  <2>2. pc = "build"
    BY <1>2, DoneStays DEF MatchInv, BuildStep
  <2>3. phase' = "done" => result' # Pending
    BY <1>2, EndsDecided DEF BuildStep
  <2> QED BY <1>2, <2>1, <2>2, <2>3 DEF MatchInv, BuildStep, scanVars
<1>3. CASE ScanStep
  <2>1. UNCHANGED vars /\ Run!Next /\ UNCHANGED <<prog, input, call, cap>>
    BY <1>3, SameStep DEF ScanStep, Scan!Next, Scan!StepPlain, Scan!EnterChain, Scan!RecordMatch,
       Scan!Record, Scan!LeaveChain, Scan!LeaveTo, Scan!Return, Scan!params
  <2>2. SoundlyBuilt'
    BY <2>1, BuiltStep DEF MatchInv
  <2>3. pc # "build"
    BY <1>3 DEF ScanStep, Scan!Next, Scan!StepPlain, Scan!EnterChain, Scan!RecordMatch, Scan!Record,
       Scan!LeaveChain, Scan!LeaveTo, Scan!Return
  <2>4. Run!IInv' /\ Run!ResultInv'
    BY <2>1, <2>3, RunGoesOn DEF MatchInv
  <2>5. pc' # "build"
    BY <2>4 DEF Run!IInv, Run!TypeOK
  <2>6. phase' = phase /\ result' = result
    BY <2>1 DEF vars
  <2> QED BY <2>1, <2>2, <2>3, <2>4, <2>5, <2>6 DEF MatchInv, HasProgram
<1>4. CASE UNCHANGED matchVars
  <2>1. UNCHANGED vars /\ UNCHANGED scanVars
    BY <1>4 DEF matchVars
  <2>2. SoundlyBuilt'
    BY <2>1, BuiltStep DEF MatchInv
  <2>3. UNCHANGED Run!vars
    BY <2>1 DEF scanVars, Run!vars
  <2>4. pc # "build" => Run!IInv' /\ Run!ResultInv'
    BY <2>3, RunGoesOn DEF MatchInv
  <2>5. phase' = phase /\ result' = result
    BY <2>1 DEF vars
  <2> QED BY <2>1, <2>2, <2>4, <2>5 DEF MatchInv, HasProgram, scanVars
<1> QED BY <1>1, <1>2, <1>3, <1>4 DEF MatchNext

\* So it holds throughout.
LEMMA MatchInvariant == ASSUME ListsFit PROVE MatchSpec => []MatchInv
BY InitMatchInv, NextMatchInv, PTL DEF MatchSpec

\* When the scan has returned, it has found what the program finds.
LEMMA ScanHasFound ==
  ASSUME MatchInv, pc = "done"
  PROVE  /\ \E w : IInv(w) /\ HasProgram /\ Built(w)
         /\ input \in Inputs /\ input \in Text /\ (call = "first" => cap = 1) /\ cap \in Nat
         /\ call # "count" => ret = AtMost(Len(Found(result, input, Len(input))), cap)
         /\ buf = [i \in 0 .. cap - 1 |->
                     IF i < Len(Found(result, input, Len(input)))
                     THEN Found(result, input, Len(input))[i + 1] ELSE Untouched]
<1>1. /\ SoundlyBuilt /\ HasProgram /\ prog = result /\ (call = "first" => cap = 1)
      /\ Run!IInv /\ Run!ResultInv
  BY DEF MatchInv
<1>2. \E w : IInv(w) /\ HasProgram /\ Built(w)
  BY <1>1 DEF SoundlyBuilt
<1>3. input \in Inputs /\ cap \in Nat
  BY <1>1 DEF Run!IInv, Run!TypeOK
<1>4. input \in Text
  BY <1>3, InputsAssumption DEF Text
<1>5. Run!ResultCorrect
  BY <1>1, RunEnds
<1>6. PICK found : found = Found(result, input, Len(input))
  OBVIOUS
<1>7. Run!Found(prog, input, Len(input)) = found
  BY <1>1, <1>6, SameFound
<1>8. /\ ret = Run!Returned(Len(found))
      /\ buf = [i \in 0 .. cap - 1 |-> IF i < Len(found) THEN found[i + 1] ELSE Run!Untouched]
  BY <1>5, <1>7 DEF Run!ResultCorrect
<1>9. call # "count" => ret = AtMost(Len(found), cap)
  BY <1>8 DEF Run!Returned, Run!AtMost, AtMost
<1>10. Run!Untouched = Untouched
  BY DEF Untouched, Run!Untouched
<1> QED BY <1>1, <1>2, <1>3, <1>4, <1>6, <1>8, <1>9, <1>10

\* The offsets of a match are 32 bits wide: an input of 2^32 bytes wraps them.
InputsShort == \A v \in Inputs : Len(v) < U32

\* A scan reports the occurrences of the patterns that a search without an automaton
\* reports: which of them, in which order, with which offsets, up to the room in the
\* caller's buffer.
THEOREM ScanFindsOccurrences ==
  ASSUME ListsFit, InputsShort PROVE MatchSpec => []ScanIsNaive
<1>1. MatchInv => ScanIsNaive
  <2> SUFFICES ASSUME MatchInv, pc = "done", call = "scan", NEW found, found = NaiveMatches(input)
               PROVE  /\ ret = AtMost(Len(found), cap)
                      /\ \A i \in 0 .. cap - 1 :
                           buf[i] = IF i < Len(found) THEN found[i + 1] ELSE Untouched
    BY DEF ScanIsNaive
  <2>1. PICK w : IInv(w) /\ HasProgram /\ Built(w)
    BY ScanHasFound
  <2>2. found = Found(result, input, Len(input))
    BY <2>1, ScanHasFound, NaiveIs DEF InputsShort
  <2> QED BY <2>2, ScanHasFound
<1> QED BY <1>1, MatchInvariant, PTL

\* has_match answers whether a pattern occurs, for inputs of any length.
THEOREM HasMatchIsOccurrence == ASSUME ListsFit PROVE MatchSpec => []HasMatchIffOccurs
<1>1. MatchInv => HasMatchIffOccurs
  <2> SUFFICES ASSUME MatchInv, pc = "done", call = "first"
               PROVE  ret > 0 <=> \E i, j \in 0 .. Len(input) : SubSeq(input, i + 1, j) \in NonEmpty
    BY DEF HasMatchIffOccurs
  <2>1. PICK w : IInv(w) /\ HasProgram /\ Built(w)
    BY ScanHasFound
  <2>2. PICK n : n = Len(Found(result, input, Len(input)))
    OBVIOUS
  <2>3. input \in Text /\ ret = AtMost(n, 1)
    BY <2>2, ScanHasFound
  <2>4. n \in Nat
    <3>1. Len(input) \in 0 .. Len(input) /\ input \in Seq(Byte) /\ WellFormed(result)
      BY <2>1, <2>3 DEF Text, Built
    <3>2. Found(result, input, Len(input)) \in Seq(MatchType)
      BY <3>1, FoundIs
    <3> QED BY <2>2, <3>2
  <2>5. ret > 0 <=> n > 0
    BY <2>3, <2>4 DEF AtMost
  <2> QED BY <2>1, <2>2, <2>3, <2>5, FoundWhenOccurs
<1> QED BY <1>1, MatchInvariant, PTL
==============================================================================
